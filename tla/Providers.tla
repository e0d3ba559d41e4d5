----------------------------- MODULE Providers -----------------------------
(***************************************************************************)
(* internal/provider: the rows of ai_providers and ai_models, the          *)
(* administrator's requests and the synchronisations that write them, and  *)
(* the start of the agent service, which encrypts the keys it finds in     *)
(* plain text and registers what is active with the router.  The router is *)
(* not told of later changes: nothing calls StartBackgroundRefresh.        *)
(*                                                                         *)
(* Updates write every column of the row they read.  The columns kept are  *)
(* the ones something depends on: a provider's key and flag, a model's     *)
(* flag and whether it may write websites.  Providers keep their type.     *)
(***************************************************************************)
EXTENDS Integers, FiniteSets, Sequences

CONSTANTS
  Ids,         \* providers
  TypeOf,      \* their types
  Keys,        \* API keys, as a provider gave them out
  Masters,     \* values of MASTER_ENCRYPTION_KEY
  Names,       \* of models
  MaxModels,   \* bound: rows of models that are ever made
  MaxEdits,    \* bound: requests
  MaxStarts    \* bound: starts of the service

Supported ==
  {"ollama", "openai", "gemini", "deepseek", "kimi", "lmstudio", "opencode"}
Syncable == {"ollama", "lmstudio"}

ASSUME ProvidersAssumption ==
  /\ TypeOf \in [Ids -> Supported \union {"kimi-anthropic"}]
  /\ MaxModels \in Nat /\ MaxEdits \in Nat /\ MaxStarts \in Nat

VARIABLES
  providers,   \* rows: a function on the providers there are
  models,      \* rows: a sequence; a row that was deleted is Gone
  writers,     \* requests that have read a row and not written it back
  syncs,       \* synchronisations under way
  phase,       \* of the service: "down", "migrated" or "up"
  master,      \* the key it runs with
  registered,  \* what the router has
  edits,       \* number of requests
  starts,      \* number of starts
  masters      \* history: the keys it has run with

tables == <<providers, models>>
service == <<phase, master, registered, starts, masters>>
providersVars == <<providers, models, writers, syncs, phase, master, registered,
          edits, starts, masters>>

Gone == [of |-> "", name |-> "", active |-> FALSE, web |-> FALSE]
Put(f, x, y) == [z \in DOMAIN f \union {x} |-> IF z = x THEN y ELSE f[z]]
Without(f, x) == [z \in DOMAIN f \ {x} |-> f[z]]
Merged(read, sets) ==
  [k \in DOMAIN read |-> IF k \in DOMAIN sets THEN sets[k] ELSE read[k]]

-----------------------------------------------------------------------------
(* internal/platform/crypto: what is stored of a key is the key and the
   master keys it was encrypted under, the last one outermost. *)

NoKey == [text |-> "", under |-> <<>>]
Plain(k) == [text |-> k, under |-> <<>>]
Encrypt(key, m) == [key EXCEPT !.under = Append(@, m)]
Decrypts(key, m) == key.under # <<>> /\ key.under[Len(key.under)] = m
Decrypt(key, m) ==
  [key EXCEPT !.under = SubSeq(@, 1, Len(@) - 1)]
EncryptAPIKey(k) == Encrypt(Plain(k), master)
DecryptAPIKey(key) == Decrypt(key, master)

-----------------------------------------------------------------------------
(* PostgresStore *)

CreateProviderRow(p, row) ==
  /\ p \notin DOMAIN providers                        \* name is UNIQUE
  /\ providers' = Put(providers, p, row)

GetProvider(p) == p \in DOMAIN providers

(* An UPDATE of a row that is gone changes nothing and is no error. *)
UpdateProviderRow(p, row) ==
  providers' = IF GetProvider(p) THEN [providers EXCEPT ![p] = row]
                                 ELSE providers

DeleteProviderRow(p) ==
  /\ providers' = Without(providers, p)
  /\ models' = [i \in DOMAIN models |->
                  IF models[i].of = p THEN Gone ELSE models[i]]

ModelsOf(p) == {i \in DOMAIN models : models[i].of = p}
ListModelsByProvider(p) == ModelsOf(p)
ListAllModelsByProvider(p) == {i \in ModelsOf(p) : models[i].active}
ListAllActiveProviders == {p \in DOMAIN providers : providers[p].active}

(* The foreign key and UNIQUE (provider_id, name). *)
CanCreateModel(p, n) ==
  GetProvider(p) /\ \A i \in ModelsOf(p) : models[i].name # n

CreateModelRow(p, n) ==
  models' = Append(models, [of |-> p, name |-> n, active |-> TRUE, web |-> FALSE])

UpdateModelRow(i, row) ==
  models' = IF models[i] = Gone THEN models ELSE [models EXCEPT ![i] = row]

DeleteModelRow(i) == models' = [models EXCEPT ![i] = Gone]

-----------------------------------------------------------------------------
(* The requests of an administrator *)

Request == phase = "up" /\ edits < MaxEdits /\ edits' = edits + 1

(* What a synchronisation leaves is its own if nothing else wrote meanwhile. *)
Disturbed == {[s EXCEPT !.alone = FALSE] : s \in syncs}
Disturb == syncs' = Disturbed

KeyOf(apiKey) == IF apiKey = "" THEN NoKey ELSE EncryptAPIKey(apiKey)

CreateProvider(p, apiKey) ==
  CreateProviderRow(p, [key |-> KeyOf(apiKey), active |-> TRUE])

HandleCreateProvider(p, apiKey) ==
  /\ Request
  /\ CreateProvider(p, apiKey)
  /\ UNCHANGED <<models, writers, syncs, service>>

(* Mutant: no key in the request is no key in the row. *)
ProviderSetsBlank(apiKey, active) ==
  [key |-> KeyOf(apiKey), active |-> active]

(* A request without a key leaves the key as it is. *)
ProviderSets(apiKey, active) ==
  IF apiKey = "" THEN [active |-> active]
  ELSE [key |-> EncryptAPIKey(apiKey), active |-> active]

(* UpdateProvider: the read. *)
HandleUpdateProvider(p, apiKey, active) ==
  /\ Request
  /\ GetProvider(p)
  /\ writers' = writers \union
       {[kind |-> "provider", row |-> p, read |-> providers[p],
         sets |-> IF apiKey = "" THEN {"active"} ELSE {"key", "active"},
         put |-> Merged(providers[p], ProviderSets(apiKey, active))]}
  /\ UNCHANGED <<tables, syncs, service>>

UpdateProvider(w) ==
  /\ w.kind = "provider"
  /\ UpdateProviderRow(w.row, w.put)
  /\ UNCHANGED models

DeleteProvider(p) == GetProvider(p) /\ DeleteProviderRow(p)

HandleDeleteProvider(p) ==
  /\ Request
  /\ DeleteProvider(p)
  /\ Disturb
  /\ UNCHANGED <<writers, service>>

(* The row is inserted, and written once more with its configuration. *)
CreateModel(p, n) ==
  /\ CanCreateModel(p, n)
  /\ Len(models) < MaxModels
  /\ CreateModelRow(p, n)

HandleCreateModel(p, n, web) ==
  /\ Request
  /\ CreateModel(p, n)
  /\ LET row == models'[Len(models')]
     IN  writers' = writers \union
           {[kind |-> "model", row |-> Len(models'), read |-> row,
             sets |-> {"web"}, put |-> [row EXCEPT !.web = web]]}
  /\ Disturb
  /\ UNCHANGED <<providers, service>>

(* A request that does not say whether the model may write websites leaves it
   as it is. *)
withWebsiteAgentConfig(read, active, web) ==
  [read EXCEPT !.active = active, !.web = IF web = "same" THEN @ ELSE web = "yes"]

(* UpdateModel: the read. *)
HandleUpdateModel(i, active, web) ==
  /\ Request
  /\ models[i] # Gone
  /\ writers' = writers \union
       {[kind |-> "model", row |-> i, read |-> models[i],
         sets |-> IF web = "same" THEN {"active"} ELSE {"active", "web"},
         put |-> withWebsiteAgentConfig(models[i], active, web)]}
  /\ UNCHANGED <<tables, syncs, service>>

UpdateModel(w) ==
  /\ w.kind = "model"
  /\ UpdateModelRow(w.row, w.put)
  /\ UNCHANGED providers

HandleDeleteModel(i) ==
  /\ Request
  /\ models[i] # Gone
  /\ DeleteModelRow(i)
  /\ Disturb
  /\ UNCHANGED <<providers, writers, service>>

Write(w) ==
  /\ UpdateProvider(w) \/ UpdateModel(w)
  /\ writers' = writers \ {w}
  /\ Disturb
  /\ UNCHANGED <<edits, service>>

(* The UPDATE fails, or the encryption before it. *)
WriteFails(w) ==
  /\ writers' = writers \ {w}
  /\ UNCHANGED <<tables, syncs, edits, service>>

-----------------------------------------------------------------------------
(* SyncModels *)

(* Mutant: a provider without models is taken for one that does not answer. *)
MissingUnlessNone(p, found) ==
  {i \in ListAllModelsByProvider(p) : found # {} /\ models[i].name \notin found}

(* What was read and is active, and the provider has no more. *)
Missing(p, found) ==
  {i \in ListAllModelsByProvider(p) : models[i].name \notin found}

New(p, found) == found \ {models[i].name : i \in ListModelsByProvider(p)}

(* The provider answered with the models it has, and the rows were read. *)
reconcileModels(p, found) ==
  syncs' = Disturbed \union
    {[of |-> p, found |-> found, add |-> New(p, found),
      off |-> {[row |-> i, read |-> models[i]] : i \in Missing(p, found)},
      alone |-> writers = {}]}

SyncModels(p, found) ==
  /\ Request
  /\ GetProvider(p)
  /\ TypeOf[p] \in Syncable
  /\ reconcileModels(p, found)
  /\ UNCHANGED <<tables, writers, service>>

(* Another sync of the same rows is disturbed by this one's write. *)
Proceed(s, next) ==
  syncs' = {[o EXCEPT !.alone = FALSE] : o \in syncs \ {s}} \union {next}

(* An insert that fails is noted and the next one tried. *)
Add(s, n) ==
  /\ n \in s.add
  /\ Len(models) < MaxModels
  /\ \/ /\ CanCreateModel(s.of, n)
        /\ CreateModelRow(s.of, n)
        /\ Proceed(s, [s EXCEPT !.add = @ \ {n}])
     \/ /\ Proceed(s, [s EXCEPT !.add = @ \ {n}, !.alone = FALSE])
        /\ UNCHANGED models
  /\ UNCHANGED <<providers, writers, edits, service>>

(* Every column as it was read, and not active. *)
Deactivate(s, m) ==
  /\ s.add = {} /\ m \in s.off
  /\ \/ /\ UpdateModelRow(m.row, [m.read EXCEPT !.active = FALSE])
        /\ Proceed(s, [s EXCEPT !.off = @ \ {m}])
     \/ /\ Proceed(s, [s EXCEPT !.off = @ \ {m}, !.alone = FALSE])
        /\ UNCHANGED models
  /\ UNCHANGED <<providers, writers, edits, service>>

EndSync(s) ==
  /\ s.add = {} /\ s.off = {}
  /\ syncs' = syncs \ {s}
  /\ UNCHANGED <<tables, writers, edits, service>>

-----------------------------------------------------------------------------
(* The start of the agent service *)

(* Requests die with the process. *)
Stop ==
  /\ phase = "up"
  /\ starts < MaxStarts
  /\ phase' = "down"
  /\ registered' = <<>>
  /\ writers' = {} /\ syncs' = {}
  /\ UNCHANGED <<tables, master, edits, starts, masters>>

(* What cannot be decrypted is taken for plain text. *)
Migrated(row, m) ==
  IF row.key = NoKey \/ Decrypts(row.key, m) THEN row
  ELSE [row EXCEPT !.key = Encrypt(@, m)]

(* A row that cannot be written stays as it is. *)
MigrateKeys(m) ==
  /\ phase = "down"
  /\ phase' = "migrated"
  /\ master' = m /\ masters' = masters \union {m}
  /\ starts' = starts + 1
  /\ \E done \in SUBSET ListAllActiveProviders :
       providers' = [p \in DOMAIN providers |->
                       IF p \in done THEN Migrated(providers[p], m)
                                     ELSE providers[p]]
  /\ UNCHANGED <<models, writers, syncs, registered, edits>>

CreatesClient(p) ==
  /\ providers[p].key = NoKey \/ Decrypts(providers[p].key, master)
  /\ TypeOf[p] \in Supported

ClientKey(p) ==
  IF providers[p].key = NoKey THEN NoKey ELSE DecryptAPIKey(providers[p].key)

(* Ollama's own list decides, if it gives one. *)
filterOllamaModels(p, local) ==
  LET names == {models[i].name : i \in ListAllModelsByProvider(p)}
  IN  IF TypeOf[p] = "ollama" THEN names \intersect local ELSE names

(* A provider whose key, type or models do not allow it is left out; the
   service also starts when the list cannot be read. *)
LoadAll ==
  /\ phase = "migrated"
  /\ phase' = "up"
  /\ \/ \E local \in SUBSET Names :
          LET loaded == {p \in ListAllActiveProviders :
                           CreatesClient(p) /\ filterOllamaModels(p, local) # {}}
          IN  registered' = [p \in loaded |->
                [key |-> ClientKey(p), models |-> filterOllamaModels(p, local)]]
     \/ registered' = <<>>
  /\ UNCHANGED <<tables, writers, syncs, master, edits, starts, masters>>

-----------------------------------------------------------------------------
(* A provider from before keys were encrypted, with a model. *)
ProvidersInit ==
  /\ \E p \in Ids, k \in Keys, n \in Names :
       /\ providers = [q \in {p} |-> [key |-> Plain(k), active |-> TRUE]]
       /\ models = <<[of |-> p, name |-> n, active |-> TRUE, web |-> FALSE]>>
  /\ writers = {} /\ syncs = {} /\ edits = 0
  /\ phase = "down" /\ master \in Masters /\ registered = <<>>
  /\ starts = 0 /\ masters = {}

AdminStep ==
  \/ \E p \in Ids, k \in Keys \union {""} :
       \/ HandleCreateProvider(p, k)
       \/ \E active \in BOOLEAN : HandleUpdateProvider(p, k, active)
  \/ \E p \in Ids : HandleDeleteProvider(p)
  \/ \E p \in Ids, n \in Names, web \in BOOLEAN : HandleCreateModel(p, n, web)
  \/ \E i \in DOMAIN models :
       \/ \E active \in BOOLEAN, web \in {"yes", "no", "same"} :
            HandleUpdateModel(i, active, web)
       \/ HandleDeleteModel(i)
  \/ \E w \in writers : Write(w) \/ WriteFails(w)

SyncStep ==
  \/ \E p \in Ids, found \in SUBSET Names : SyncModels(p, found)
  \/ \E s \in syncs :
       \/ \E n \in s.add : Add(s, n)
       \/ \E m \in s.off : Deactivate(s, m)
       \/ EndSync(s)

StartStep == Stop \/ (\E m \in Masters : MigrateKeys(m)) \/ LoadAll

ProvidersNext == AdminStep \/ SyncStep \/ StartStep

ProvidersSpec == ProvidersInit /\ [][ProvidersNext]_providersVars

-----------------------------------------------------------------------------
(* Properties *)

(* As long as the service runs with the key it began with, a provider's key is
   encrypted once, however often it starts, and a client gets the key as the
   provider gave it out (migrate.go:13-43, loader.go:107-113). *)
KeysAreEncryptedOnce ==
  Cardinality(masters) <= 1 =>
    /\ \A p \in DOMAIN providers : Len(providers[p].key.under) <= 1
    /\ \A p \in DOMAIN registered : registered[p].key.under = <<>>

(* A request or a synchronisation leaves the columns it does not set as they
   are, unless the row it read is out of date when it writes it; a start
   rewrites keys, and encrypts none that is encrypted
   (service.go:76-105, handler.go:313-398, model_sync.go:206-217,
   migrate.go:13-43). *)
Leaves(table, table1, row, kind, columns) ==
  row \in DOMAIN table1 =>
    \A k \in columns :
      \/ table1[row][k] = table[row][k]
      \/ \E w \in writers \ writers' :
           /\ w.kind = kind /\ w.row = row
           /\ k \in w.sets \/ w.read # table[row]

ColumnsSurvive ==
  [][ /\ \A p \in DOMAIN providers :
           \/ phase' = "migrated"
           \/ Leaves(providers, providers', p, "provider", {"key", "active"})
      /\ \A i \in DOMAIN models :
           \/ models'[i] = Gone
           \/ Leaves(models, models', i, "model", {"active", "web"})
           \/ \E s \in syncs \ syncs' : \E m \in s.off :
                /\ m.row = i /\ ~ models'[i].active
                /\ models'[i].web = models[i].web \/ m.read # models[i]
      /\ KeysAreEncryptedOnce' ]_providersVars

(* A synchronisation that nothing disturbed, and of which no write failed,
   leaves the provider with a row for each model it has, and no active one for
   a model it does not have (model_sync.go:160-225). *)
SyncMirrorsProvider ==
  \A s \in syncs :
    s.alone /\ s.add = {} /\ s.off = {} =>
      /\ {models[i].name : i \in ListAllModelsByProvider(s.of)} \subseteq s.found
      /\ s.found \subseteq {models[i].name : i \in ModelsOf(s.of)}
=============================================================================
