----------------------------- MODULE WebsiteLoop -----------------------------
(***************************************************************************)
(* websiteAgentLoop of internal/agent/runtime/orchestrator.go: one or more  *)
(* attempts at a document, the files taken out of it, checked and repaired, *)
(* the artifact stored and announced.                                       *)
(***************************************************************************)
EXTENDS ChatTurn

VARIABLE
  site  \* the local variables of websiteAgentLoop that decide where it goes

(* attempt: of streaming; got: this attempt had a chunk; files: what was taken
   out of the text, "none", "invalid" or "valid"; html: a single document was
   found; repairs: attempts at repairing; artifact: artifactID # "". *)
NoSite == [attempt |-> 0, got |-> FALSE, files |-> "none", html |-> FALSE,
           repairs |-> 0, artifact |-> FALSE]

Silent(s) == [s EXCEPT !.got = FALSE]
WithFiles(s, files) == [s EXCEPT !.files = files]

elsewhere == <<via, mode, client, out, reply, memory>>

-----------------------------------------------------------------------------
Begin ==
  /\ at = "begin"
  /\ Offer("progress", FALSE, "attempt", "close")
  /\ UNCHANGED <<elsewhere, llm, rows, faulted, site>>

(* streamWebsiteAgentAttempt, called for the first time or to go on. *)
Attempt ==
  /\ at = "attempt"
  /\ site' = Silent([site EXCEPT !.attempt = @ + 1])
  /\ \/ at' = "siteFail" /\ UNCHANGED llm
     \/ ~Cancelled /\ at' = "siteRead" /\ llm' = "open"
  /\ UNCHANGED <<elsewhere, handler, wire, rows, faulted>>

(* A chunk, with text or without; a Done chunk is one of them. *)
SiteChunk ==
  /\ at = "siteRead"
  /\ llm = "open"
  /\ site' = [site EXCEPT !.got = TRUE]
  /\ at' \in {"siteEmit", "siteRead"}
  /\ UNCHANGED <<elsewhere, handler, llm, wire, rows, faulted>>

SiteEmit ==
  /\ at = "siteEmit"
  /\ Offer("content", FALSE, "siteRead", "siteFail")
  /\ UNCHANGED <<elsewhere, llm, rows, faulted, site>>

(* The attempt has ended; without a single chunk it counts as failed. *)
SiteClosed ==
  /\ at = "siteRead"
  /\ llm = "closed"
  /\ at' = IF site.got THEN "check" ELSE "siteFail"
  /\ UNCHANGED <<elsewhere, handler, llm, wire, rows, faulted, site>>

(* An error event, without Done. *)
SiteFail ==
  /\ at = "siteFail"
  /\ Offer("error", FALSE, "close", "close")
  /\ UNCHANGED <<elsewhere, llm, rows, faulted, site>>

(* needsWebsiteContinuation: an unclosed document is continued while there are
   attempts left. *)
Check ==
  /\ at = "check"
  /\ \/ at' = "extract"
     \/ site.attempt < MaxWebsiteAttempts /\ at' = "continue"
  /\ UNCHANGED <<elsewhere, handler, llm, wire, rows, faulted, site>>

Continue ==
  /\ at = "continue"
  /\ Offer("progress", FALSE, "attempt", "close")
  /\ UNCHANGED <<elsewhere, llm, rows, faulted, site>>

AnnounceExtraction ==
  /\ at = "extract"
  /\ Offer("progress", FALSE, "parse", "close")
  /\ UNCHANGED <<elsewhere, llm, rows, faulted, site>>

-----------------------------------------------------------------------------
(* parseMultiFile and validateWebsiteProjectFiles; without files, a single
   document or nothing. *)
Parse ==
  /\ at = "parse"
  /\ \E files \in {"none", "invalid", "valid"}, html \in BOOLEAN :
       /\ html => files = "none"
       /\ site' = WithFiles([site EXCEPT !.html = html], files)
       /\ at' = CASE files = "invalid" -> "repair"
                  [] files = "valid" \/ html -> "saveArtifact"
                  [] OTHER -> "saveSummary"
  /\ UNCHANGED <<elsewhere, handler, llm, wire, rows, faulted>>

(* Mutant: what is left invalid after the last repair is stored. *)
RepairGivesUp ==
  /\ at = "repair"
  /\ IF site.repairs < MaxWebsiteRepairAttempts
     THEN \E files \in {"invalid", "valid"} :
            /\ Offer("progress", FALSE,
                     IF files = "valid" THEN "saveArtifact" ELSE "repair",
                     "close")
            /\ site' = WithFiles([site EXCEPT !.repairs = @ + 1], files)
     ELSE /\ at' = "saveArtifact"
          /\ UNCHANGED <<handler, wire, site>>
  /\ UNCHANGED <<elsewhere, llm, rows, faulted>>

(* repairWebsiteProjectFiles replaces files by what the model answers, and
   they are checked again. *)
Repair ==
  /\ at = "repair"
  /\ IF site.repairs < MaxWebsiteRepairAttempts
     THEN \E files \in {"invalid", "valid"} :
            /\ Offer("progress", FALSE,
                     IF files = "valid" THEN "saveArtifact" ELSE "repair",
                     "close")
            /\ site' = WithFiles([site EXCEPT !.repairs = @ + 1], files)
     ELSE /\ at' = "apologise"
          /\ UNCHANGED <<handler, wire, site>>
  /\ UNCHANGED <<elsewhere, llm, rows, faulted>>

(* Files that stay invalid: a message saying so is stored, then an error and
   Done; no usage is recorded. *)
Apologise ==
  /\ at = "apologise"
  /\ Execute([rows EXCEPT !.answer = "apology"])
  /\ at' = "sorry"
  /\ UNCHANGED <<elsewhere, handler, llm, wire, site>>

Sorry ==
  /\ at = "sorry"
  /\ Offer("error", FALSE, "siteDone", "close")
  /\ UNCHANGED <<elsewhere, llm, rows, faulted, site>>

-----------------------------------------------------------------------------
(* saveWebsiteArtifact: the artifact's row, complete from the start, and then
   the files of a project, in one transaction. *)
SaveArtifact ==
  /\ at = "saveArtifact"
  /\ LET new == [rows EXCEPT !.artifact = TRUE] IN
       /\ Execute(new)
       /\ IF ~Succeeded(new)
          THEN at' = "saveSummary" /\ UNCHANGED site
          ELSE IF site.files = "valid"
               THEN at' = "saveFiles" /\ UNCHANGED site
               ELSE /\ at' = "saveSummary"
                    /\ site' = [site EXCEPT !.artifact = TRUE]
  /\ UNCHANGED <<elsewhere, handler, llm, wire>>

(* Mutant: an error of CreateMany is only logged. *)
SaveFilesLogged ==
  /\ at = "saveFiles"
  /\ Execute([rows EXCEPT !.files = TRUE])
  /\ site' = [site EXCEPT !.artifact = TRUE]
  /\ at' = "saveSummary"
  /\ UNCHANGED <<elsewhere, handler, llm, wire>>

SaveFiles ==
  /\ at = "saveFiles"
  /\ LET new == [rows EXCEPT !.files = TRUE] IN
       /\ Execute(new)
       /\ site' = [site EXCEPT !.artifact = Succeeded(new)]
  /\ at' = "saveSummary"
  /\ UNCHANGED <<elsewhere, handler, llm, wire>>

(* saveWebsiteAssistantMessage: the summary, with the artifact if there is
   one. *)
SaveSummary ==
  /\ at = "saveSummary"
  /\ Execute([rows EXCEPT !.answer =
                IF site.artifact THEN "artifact" ELSE "summary"])
  /\ at' = "logUsage"
  /\ UNCHANGED <<elsewhere, handler, llm, wire, site>>

(* Mutant: only an artifact is announced. *)
ShowArtifactOnly ==
  /\ at = "show"
  /\ IF site.artifact THEN Offer("artifact", FALSE, "siteDone", "close")
     ELSE at' = "close" /\ UNCHANGED <<handler, wire>>
  /\ UNCHANGED <<elsewhere, llm, rows, faulted, site>>

(* sendWebsiteArtifactResult *)
Show ==
  /\ at = "show"
  /\ Offer(IF site.artifact THEN "artifact" ELSE "error", FALSE, "siteDone",
           "close")
  /\ UNCHANGED <<elsewhere, llm, rows, faulted, site>>

SiteDone ==
  /\ at = "siteDone"
  /\ Offer("finished", TRUE, "close", "close")
  /\ UNCHANGED <<elsewhere, llm, rows, faulted, site>>

RecordSiteUsage ==
  /\ LogUsage("show") \/ IncrementDailyUsage("show")
  /\ UNCHANGED site

WebsiteLoopStep ==
  \/ Begin \/ Attempt \/ SiteChunk \/ SiteEmit \/ SiteClosed \/ SiteFail
  \/ Check \/ Continue \/ AnnounceExtraction \/ Parse \/ Repair \/ Apologise \/ Sorry
  \/ SaveArtifact \/ SaveFiles \/ SaveSummary \/ RecordSiteUsage
  \/ Show \/ SiteDone
  \/ CloseOut /\ UNCHANGED site
=============================================================================
