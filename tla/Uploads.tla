------------------------------ MODULE Uploads ------------------------------
(***************************************************************************)
(* internal/fileupload: a file is a row of files and a file on disk, each  *)
(* written and removed on its own.  An upload writes the disk first and    *)
(* takes the file back when the row cannot be inserted; a deletion removes *)
(* the file first and the row after it.                                    *)
(***************************************************************************)
EXTENDS Integers, FiniteSets

CONSTANT Files    \* bound: the uploads that are made

VARIABLES
  files,      \* the rows of files
  disk,      \* the files under basePath
  saving,    \* uploads that have written the file and not the row
  deleting,  \* deletions that have removed the file and not the row
  spoiled    \* history: files whose request died or failed halfway

uploadsVars == <<files, disk, saving, deleting, spoiled>>

UploadsInit ==
  /\ files = {} /\ disk = {}
  /\ saving = {} /\ deleting = {} /\ spoiled = {}

Fresh(f) == f \notin files \union disk \union saving \union spoiled

(* The checks of size and type passed and the file was copied. *)
Save(f) ==
  /\ Fresh(f)
  /\ disk' = disk \union {f}
  /\ saving' = saving \union {f}
  /\ UNCHANGED <<files, deleting, spoiled>>

Create(f) ==
  /\ f \in saving
  /\ saving' = saving \ {f}
  /\ files' = files \union {f}
  /\ UNCHANGED <<disk, deleting, spoiled>>

(* Mutant: an INSERT that fails leaves the file. *)
CreateFailsDirty(f) ==
  /\ f \in saving
  /\ saving' = saving \ {f}
  /\ UNCHANGED <<files, disk, deleting, spoiled>>

(* The INSERT fails and the file is removed. *)
CreateFails(f) ==
  /\ f \in saving
  /\ saving' = saving \ {f}
  /\ disk' = disk \ {f}
  /\ UNCHANGED <<files, deleting, spoiled>>

GetByID(f) == f \in files

(* A file that is not there is no error, so a deletion can be tried again. *)
Delete(f) ==
  /\ GetByID(f)
  /\ disk' = disk \ {f}
  /\ deleting' = deleting \union {f}
  /\ UNCHANGED <<files, saving, spoiled>>

DeleteRow(f) ==
  /\ f \in deleting
  /\ deleting' = deleting \ {f}
  /\ files' = files \ {f}
  /\ spoiled' = spoiled \ {f}
  /\ UNCHANGED <<disk, saving>>

(* The DELETE fails, or the service stops, between the two. *)
Interrupt(f) ==
  /\ f \in saving \union deleting
  /\ saving' = saving \ {f}
  /\ deleting' = deleting \ {f}
  /\ spoiled' = spoiled \union {f}
  /\ UNCHANGED <<files, disk>>

UploadsNext ==
  \E f \in Files :
    \/ Save(f) \/ Create(f) \/ CreateFails(f)
    \/ Delete(f) \/ DeleteRow(f) \/ Interrupt(f)

UploadsSpec == UploadsInit /\ [][UploadsNext]_uploadsVars

(* Open, ReadText: what a turn or a download gets of a row. *)
Readable(f) == f \in disk

(* No row is without its file and no file without its row, but while a
   request is at work on it or after one was interrupted: Save takes back
   what it wrote, and Delete can be repeated. *)
FilesMatchRows ==
  \A f \in Files \ (saving \union deleting \union spoiled) :
    GetByID(f) <=> Readable(f)
=============================================================================
