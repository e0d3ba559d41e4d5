------------------------------ MODULE SiteFiles ------------------------------
(***************************************************************************)
(* The files of a generated website (internal/agent/runtime/orchestrator.go *)
(* with repository/artifact_file.go): they are taken out of the model's     *)
(* answer, checked, sent back to be repaired and stored.  WebsiteLoop has   *)
(* the events around it and chooses what the checks say.                    *)
(*                                                                          *)
(* A text is a sequence of tokens: delimiters, quotes, "\\", "===", imports *)
(* and what the checks do not tell apart.  A path is the names it consists  *)
(* of and an extension, written with "./" in front or without.              *)
(***************************************************************************)
EXTENDS Integers, FiniteSets, SequencesExt, FiniteSetsExt

CONSTANTS
  Answers,    \* what the model may write: sequences of a path and a text
  Repaired,   \* what it may answer when asked to repair
  ImportOf    \* the tokens that are imports of a local file, and of which

MaxRepairs == 2  \* maxWebsiteRepairAttempts

Token == STRING

(* What is written before and after the "===" of a file. *)
FilePath == [steps : Seq(STRING), ext : STRING, dot : BOOLEAN]
Block == [path : FilePath, text : Seq(Token)]

ASSUME SiteFilesAssumption ==
  Answers \subseteq Seq(Block) /\ Repaired \subseteq Seq(Block)

VARIABLES
  project,  \* files: what was taken out of the answer, in order
  tries,    \* repairs asked for
  step,    \* where websiteAgentLoop is
  entry,    \* the artifact's own content
  stored,   \* artifact_files of the artifact
  meant     \* history: the text the model wrote last for a path

siteFilesVars == <<project, tries, step, entry, stored, meant>>

NoPath == [steps |-> <<>>, ext |-> "", dot |-> FALSE]

(* path.Clean *)
Clean(path) == [path EXCEPT !.dot = FALSE]

-----------------------------------------------------------------------------
(* parseMultiFile *)

BeforeMark(text) ==
  LET i == SelectInSeq(text, LAMBDA t : t = "===")
  IN  IF i = 0 THEN text ELSE SubSeq(text, 1, i - 1)

Usable(file) == file.path # NoPath /\ file.text # <<>>

(* files[i] is what the first i blocks give. *)
parseMultiFile(answer) ==
  LET File(i) == [path |-> answer[i].path, text |-> BeforeMark(answer[i].text),
                  order |-> i - 1]
      files[i \in 0..Len(answer)] ==
        IF i = 0 THEN <<>>
        ELSE IF Usable(File(i)) THEN Append(files[i - 1], File(i))
        ELSE files[i - 1]
  IN  files[Len(answer)]

-----------------------------------------------------------------------------
(* validateWebsiteProjectFiles *)

CodeExts == {"tsx", "ts", "jsx", "js"}
isCodeFile(path) == path.ext \in CodeExts

Quotes == {"'", "\"", "backtick"}
PairOf == [t \in {")", "]", "}"} |->
             CASE t = ")" -> "(" [] t = "]" -> "[" [] t = "}" -> "{"]

(* Mutant: a quote is closed by the next one, escaped or not. *)
ScanStringUnescaped(s, t) == [s EXCEPT !.quote = IF t = @ THEN "" ELSE @]

(* A rune of a string. *)
ScanString(s, t) ==
  IF s.escaped THEN [s EXCEPT !.escaped = FALSE]
  ELSE IF t = "\\" THEN [s EXCEPT !.escaped = TRUE]
  ELSE [s EXCEPT !.quote = IF t = @ THEN "" ELSE @]

ScanCode(s, t) ==
  CASE t \in Quotes -> [s EXCEPT !.quote = t]
    [] t \in {PairOf[u] : u \in DOMAIN PairOf} ->
         [s EXCEPT !.stack = Append(@, t)]
    [] t \in DOMAIN PairOf ->
         IF s.stack # <<>> /\ Last(s.stack) = PairOf[t]
         THEN [s EXCEPT !.stack = Front(@)] ELSE [s EXCEPT !.fits = FALSE]
    [] OTHER -> s

(* One rune of firstUnbalancedDelimiter's loop. *)
Scan(s, t) ==
  IF ~ s.fits THEN s
  ELSE IF s.quote # "" THEN ScanString(s, t) ELSE ScanCode(s, t)

ScanStart == [stack |-> <<>>, quote |-> "", escaped |-> FALSE, fits |-> TRUE]

(* firstUnbalancedDelimiter = "" *)
Balanced(text) ==
  LET state[i \in 0..Len(text)] ==
        IF i = 0 THEN ScanStart ELSE Scan(state[i - 1], text[i])
      end == state[Len(text)]
  IN  end.fits /\ end.quote = "" /\ end.stack = <<>>

(* What a file that was cut off ends with. *)
Truncated(text) == Last(text) \in {"import", "=>", "(", "{", "[", ","}

(* path.Join of the steps of a directory and of a specifier. *)
Joined(dir, steps) ==
  LET Join(p, s) == IF s = ".." /\ p # <<>> /\ Last(p) # ".."
                     THEN Front(p) ELSE Append(p, s)
  IN  FoldLeft(Join, dir, steps)

relativeImportExists(from, import, existing) ==
  LET base == Joined(Front(from.steps), import.steps)
      File(steps, ext) == [steps |-> steps, ext |-> ext, dot |-> FALSE]
      candidates == {File(base, import.ext)} \union
        UNION {{File(base, e), File(Append(base, "index"), e)} :
                 e \in IF import.ext = "" THEN CodeExts ELSE {}}
  IN  candidates \cap existing # {}

(* The file has an issue; an import token that is no whole import is one. *)
HasIssue(file, existing) ==
  /\ isCodeFile(file.path)
  /\ \/ \E t \in ToSet(file.text) : t = "import {"
     \/ Truncated(file.text)
     \/ ~ Balanced(file.text)
     \/ \E t \in ToSet(file.text) \cap DOMAIN ImportOf :
          ~ relativeImportExists(Clean(file.path), ImportOf[t], existing)

validateWebsiteProjectFiles(files) ==
  LET existing == {Clean(f.path) : f \in ToSet(files)}
  IN  {f \in ToSet(files) : HasIssue(f, existing)}

-----------------------------------------------------------------------------
(* mergeArtifactFiles: a replacement goes to the last file of its path, and
   the last replacement of a path counts. *)
mergeArtifactFiles(base, replacements) ==
  LET At(path) == {i \in DOMAIN base : Clean(base[i].path) = path}
      For(i) == {j \in DOMAIN replacements :
                   /\ i = Max(At(Clean(base[i].path)))
                   /\ Clean(replacements[j].path) = Clean(base[i].path)}
  IN  [i \in DOMAIN base |->
         IF For(i) = {} THEN base[i]
         ELSE [path |-> Clean(base[i].path),
               text |-> replacements[Max(For(i))].text,
               order |-> base[i].order]]

(* What the model means by an answer, whatever is made of it. *)
Meant(answer) ==
  LET last(p) == {i \in DOMAIN answer :
                    /\ Clean(answer[i].path) = p /\ answer[i].path # NoPath
                    /\ BeforeMark(answer[i].text) # <<>>}
      named == {p \in {Clean(b.path) : b \in ToSet(answer)} : last(p) # {}}
  IN  [p \in named |-> answer[Max(last(p))].text]

Onto(new, old) == [p \in DOMAIN new \union DOMAIN old |->
                     IF p \in DOMAIN new THEN new[p] ELSE old[p]]

-----------------------------------------------------------------------------
(* The answer is complete.  Without files it may be a single document. *)
ExtractFiles(answer) ==
  /\ project' = parseMultiFile(answer)
  /\ step' = IF project' = <<>> THEN "single" ELSE "check"
  /\ meant' = Meant(answer)
  /\ UNCHANGED <<tries, entry, stored>>

(* After the last repair the files are checked once more. *)
CheckFiles ==
  /\ step = "check"
  /\ step' = IF validateWebsiteProjectFiles(project) = {} THEN "save"
              ELSE IF tries < MaxRepairs THEN "repair" ELSE "apologise"
  /\ UNCHANGED <<project, tries, entry, stored, meant>>

(* repairWebsiteProjectFiles; an error, or an answer without files, leaves
   them as they are. *)
repairWebsiteProjectFiles(answer) ==
  /\ project' = mergeArtifactFiles(project, parseMultiFile(answer))
  /\ meant' = Onto(Meant(answer), meant)
  /\ tries' = tries + 1
  /\ step' = "check"
  /\ UNCHANGED <<entry, stored>>

(* ctx.Done() when the repair is announced. *)
LeaveRepair ==
  /\ step = "repair"
  /\ step' = "left"
  /\ UNCHANGED <<project, tries, entry, stored, meant>>

(* UNIQUE(artifact_id, path) *)
Distinct(files) == Cardinality({f.path : f \in ToSet(files)}) = Len(files)

IndexHTML == [steps |-> <<"index">>, ext |-> "html", dot |-> FALSE]

(* One transaction. *)
CreateMany(files) == \/ UNCHANGED stored
                     \/ Distinct(files) /\ stored' = ToSet(files)

(* saveWebsiteArtifact: the artifact's row and then the files; either may
   fail. *)
SaveSite ==
  /\ step = "save"
  /\ step' = "saved"
  /\ \/ UNCHANGED <<entry, stored>>
     \/ /\ LET i == SelectInSeq(project, LAMBDA f : f.path = IndexHTML)
           IN  entry' = IF i = 0 THEN <<>> ELSE project[i].text
        /\ CreateMany(project)
  /\ UNCHANGED <<project, tries, meant>>

SiteFilesInit ==
  /\ project = <<>> /\ tries = 0 /\ step = "stream"
  /\ entry = <<>> /\ stored = {} /\ meant = <<>>

SiteFilesNext ==
  \/ step = "stream" /\ \E answer \in Answers : ExtractFiles(answer)
  \/ CheckFiles
  \/ /\ step = "repair"
     /\ \E answer \in Repaired : repairWebsiteProjectFiles(answer)
  \/ LeaveRepair \/ SaveSite

SiteFilesSpec == SiteFilesInit /\ [][SiteFilesNext]_siteFilesVars

-----------------------------------------------------------------------------
(* A reference for firstUnbalancedDelimiter: a grammar, where the code has a
   stack. *)

(* An odd number of "\\" stands before place m of the string begun at i. *)
Escaped(text, i, m) ==
  \E r \in i..(m - 1) :
    /\ (m - 1 - r) % 2 = 1
    /\ text[r] # "\\" /\ \A q \in (r + 1)..(m - 1) : text[q] = "\\"

(* From i to k is a quoted string: its quote is escaped inside. *)
Quoted(text, i, k) ==
  /\ text[i] \in Quotes /\ text[k] = text[i]
  /\ \A m \in (i + 1)..k :
       text[m] = text[i] => (Escaped(text, i, m) <=> m < k)

(* whole[i][j]: text is well formed from i to j. *)
WellFormed(text) ==
  LET whole[i \in 1..(Len(text) + 1)] ==
        [j \in 0..Len(text) |->
           \/ i > j
           \/ /\ text[i] \notin Quotes \union {"(", "[", "{", ")", "]", "}"}
              /\ whole[i + 1][j]
           \/ \E k \in (i + 1)..j :
                /\ \/ /\ text[k] \in DOMAIN PairOf /\ PairOf[text[k]] = text[i]
                      /\ whole[i + 1][k - 1]
                   \/ Quoted(text, i, k)
                /\ whole[k + 1][j]]
  IN  whole[1][Len(text)]

(* A website that is stored is whole (orchestrator.go:502-566, 727-751,
   901-966): its code is well formed, what it imports is stored with it, and
   a file is what the model wrote last under its path, up to the first "===",
   wherever that stands, though the comment at line 472 means a trailing mark.
   Only where a path was written twice may an older file of it remain.  The
   artifact's content is its index.html. *)
StoredSiteIsWhole ==
  \A f \in stored :
    LET written == meant[Clean(f.path)]
        later == {g \in stored : /\ Clean(g.path) = Clean(f.path)
                                 /\ g.order > f.order}
    IN  /\ isCodeFile(f.path) =>
             /\ WellFormed(f.text)
             /\ \A t \in ToSet(f.text) \cap DOMAIN ImportOf :
                  relativeImportExists(Clean(f.path), ImportOf[t],
                                       {Clean(g.path) : g \in stored})
        /\ later = {} =>
             /\ f.text # <<>> /\ IsPrefix(f.text, written)
             /\ "===" \notin ToSet(f.text)
             /\ \/ f.text = written \/ written[Len(f.text) + 1] = "==="
        /\ f.path = IndexHTML => entry = f.text
=============================================================================
