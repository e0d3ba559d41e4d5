---------------------------- MODULE MCServices ----------------------------
(***************************************************************************)
(* Six parts of the system that share nothing.  A behaviour runs one of   *)
(* them, so that their states add up instead of multiplying.               *)
(***************************************************************************)
EXTENDS Providers, Uploads, RateLimiter, ModelStream, ChatStore,
        SiteFiles, TLC

CONSTANTS p1, p2, k1, m1, m2, n1, n2, f1, f2, f3, r1, r2, r3

VARIABLE part

vars == <<part, providersVars, uploadsVars, rateLimiterVars, modelStreamVars,
          chatStoreVars, siteFilesVars>>

MCTypeOf == p1 :> "ollama" @@ p2 :> "openai"
MCLimitOf == [tier \in {"registered", "premium"} |->
                IF tier = "premium" THEN 2 ELSE 1]
(* Like the real one it ends with what it begins with. *)
MCMarker == <<"-", "f", "-">>

(* A page, a part it imports, and other places the part could be at. *)
Path(dot, steps, ext) == [dot |-> dot, steps |-> steps, ext |-> ext]
Page == Path(FALSE, <<"src", "a">>, "tsx")
DottedPage == Path(TRUE, <<"src", "a">>, "tsx")
Part == Path(FALSE, <<"src", "b", "index">>, "ts")
MCImportOf == "import ./b" :> [steps |-> <<"b">>, ext |-> ""] @@
              "import ../index.html" :> [steps |-> <<"..", "index">>,
                                         ext |-> "html"]
Delimiters == {"(", ")", "}", "backtick", "\\", "w", "===", "import ./b"}
Tokens == Delimiters \union {",", "import {"} \union DOMAIN MCImportOf
Blocks(paths, texts) == [path : paths, text : texts]
(* Any short text of a page, alone or with another file. *)
MCAnswers ==
  LET page(texts) == Blocks({Page}, texts)
      others == Blocks({DottedPage, Page, Part, IndexHTML, NoPath},
                       {<<"w">>, <<"===">>, <<"import ./b">>})
  IN  {<<>>} \union
      {<<b>> : b \in page(SeqOf(Delimiters, 4) \union SeqOf(Tokens, 2))}
      \union
      {<<b, o>> : b \in page(SeqOf(Tokens, 2)), o \in others}
(* Repairs, also of files that were not asked for, one or two at a time. *)
MCRepaired ==
  LET blocks == Blocks({DottedPage}, {<<"w">>, <<"(">>, <<"import ./b">>})
                \union Blocks({Part, IndexHTML}, {<<"w", "===", "w">>})
  IN  {<<>>} \union {<<b>> : b \in blocks} \union
      {<<b, c>> : b \in blocks, c \in Blocks({Page, Part}, {<<"(">>})}

Symmetry == Permutations({n1, n2}) \union Permutations({m1, m2})

Init ==
  /\ part \in {"providers", "uploads", "limiter", "stream", "store", "site"}
  /\ ProvidersInit /\ UploadsInit /\ RateLimiterInit /\ ModelStreamInit
  /\ ChatStoreInit /\ SiteFilesInit
  /\ part # "providers" =>
       DOMAIN providers = {p1} /\ models[1].name = n1 /\ master = m1
  /\ part # "stream" => client = "openai" /\ mode = "plain"

Next ==
  /\ UNCHANGED part
  /\ \/ /\ part = "providers" /\ ProvidersNext
        /\ UNCHANGED <<uploadsVars, rateLimiterVars, modelStreamVars,
                       chatStoreVars, siteFilesVars>>
     \/ /\ part = "uploads" /\ UploadsNext
        /\ UNCHANGED <<providersVars, rateLimiterVars, modelStreamVars,
                       chatStoreVars, siteFilesVars>>
     \/ /\ part = "limiter" /\ RateLimiterNext
        /\ UNCHANGED <<providersVars, uploadsVars, modelStreamVars,
                       chatStoreVars, siteFilesVars>>
     \/ /\ part = "stream" /\ ModelStreamNext
        /\ UNCHANGED <<providersVars, uploadsVars, rateLimiterVars,
                       chatStoreVars, siteFilesVars>>
     \/ /\ part = "store" /\ ChatStoreNext
        /\ UNCHANGED <<providersVars, uploadsVars, rateLimiterVars,
                       modelStreamVars, siteFilesVars>>
     \/ /\ part = "site" /\ SiteFilesNext
        /\ UNCHANGED <<providersVars, uploadsVars, rateLimiterVars,
                       modelStreamVars, chatStoreVars>>

Spec == Init /\ [][Next]_vars
=============================================================================
