------------------------------- MODULE Workers -------------------------------
(***************************************************************************)
(* The worker processes.  Each makes up a Fernet key of its own when       *)
(* VAULT_KEY is not set (services/vault_service.py), and keeps a copy of   *)
(* the platform settings in its configuration (routes/settings.py,         *)
(* app/__init__.py); its threads share both.  gunicorn recycles workers,   *)
(* together with the requests they serve, those on the lists of Catalog    *)
(* included.  One setting is modelled, GROQ_API_KEY: the others are only   *)
(* read from the table.                                                    *)
(***************************************************************************)
EXTENDS Catalog

CONSTANTS
  Processes,
  SecretNames,
  ApiKeys, Empty,   \* values of the setting; NULL and "" are both Empty
  EnvValue          \* what the environment of the processes says

NoKey == -1
VaultKey == 0

ASSUME WorkersAssumption == Empty \notin ApiKeys /\ EnvValue \in ApiKeys \cup {Empty}

VARIABLES
  vaultKeySet,  \* is VAULT_KEY in the environment?
  fernet,       \* fernet[w]: the module's _fernet
  keys,         \* keys generated so far
  secrets,      \* the rows of vault_secrets, with the process that stored the value
  setting,      \* the row of platform_settings, Gone when there is none
  config,       \* config[w]: app.config
  raced,        \* history: first uses of the key have overlapped in the process
  wiped         \* history: the process has cleared the setting, and none was set in it since

vault == <<vaultKeySet, fernet, keys, secrets, raced>>
settings == <<setting, config, wiped>>
lists == <<table, attached, cache, redis, lapse>>
vars == <<catalog, vault, settings>>

-----------------------------------------------------------------------------
(* The vault.                                                              *)

Stored == {i \in DOMAIN secrets : secrets[i] # Gone}

\* create and update: with a value or not, and a name that is Empty if it is to stay.
Goals ==
  [kind : {"create"}, name : SecretNames, value : {TRUE}]
    \cup [kind : {"update"}, id : Stored, name : SecretNames \cup {Empty}, value : BOOLEAN]

NamesOf(ids) == {secrets[i].name : i \in ids}

\* (Mutant of GetFernet: the key is not kept.)
GetFernetAfresh(r, w, goal) ==
  \/ /\ vaultKeySet
     /\ fernet' = [fernet EXCEPT ![w] = VaultKey]
     /\ call' = [call EXCEPT ![r] = [at |-> "encrypted", worker |-> w, goal |-> goal, key |-> VaultKey]]
     /\ UNCHANGED <<keys, raced>>
  \/ /\ ~vaultKeySet
     /\ keys' = keys + 1
     /\ call' = [call EXCEPT ![r] = [at |-> "keyed", worker |-> w, goal |-> goal, key |-> keys']]
     /\ raced' = [raced EXCEPT ![w] = @ \/ \E q \in Requests : call[q].at = "keyed" /\ call[q].worker = w]
     /\ UNCHANGED fernet

\* _get_fernet: the key that is there, VAULT_KEY, or a new one that SetKey is about to assign.
GetFernet(r, w, goal) ==
  \/ /\ fernet[w] # NoKey \/ vaultKeySet
     /\ LET key == IF fernet[w] # NoKey THEN fernet[w] ELSE VaultKey
        IN  /\ fernet' = [fernet EXCEPT ![w] = key]
            /\ call' = [call EXCEPT ![r] = [at |-> "encrypted", worker |-> w, goal |-> goal, key |-> key]]
     /\ UNCHANGED <<keys, raced>>
  \/ /\ fernet[w] = NoKey /\ ~vaultKeySet
     /\ keys' = keys + 1
     /\ call' = [call EXCEPT ![r] = [at |-> "keyed", worker |-> w, goal |-> goal, key |-> keys']]
     /\ raced' = [raced EXCEPT ![w] = @ \/ \E q \in Requests : call[q].at = "keyed" /\ call[q].worker = w]
     /\ UNCHANGED fernet

\* Both routes: what can be refused at once is; without a new value there is nothing to encrypt.
BeginStoring(r, w) ==
  /\ Arrives(r)
  /\ \E goal \in Goals :
       /\ goal.kind = "create" => goal.name \notin NamesOf(Stored)
       /\ IF goal.value THEN GetFernet(r, w, goal)
          ELSE /\ call' = [call EXCEPT ![r] = [at |-> "encrypted", worker |-> w, goal |-> goal, key |-> NoKey]]
               /\ UNCHANGED <<fernet, keys, raced>>
  /\ UNCHANGED <<vaultKeySet, secrets>>

SetKey(r) ==
  /\ call[r].at = "keyed"
  /\ fernet' = [fernet EXCEPT ![call[r].worker] = call[r].key]
  /\ call' = [call EXCEPT ![r].at = "encrypted"]
  /\ UNCHANGED <<vaultKeySet, keys, secrets, raced>>

Updated(row, goal, key, w) ==
  [name |-> IF goal.name = Empty THEN row.name ELSE goal.name,
   key |-> IF goal.value THEN key ELSE row.key,
   by |-> IF goal.value THEN w ELSE row.by]

\* The commit.  It fails when the name has been taken or the row deleted meanwhile.
CommitSecret(r) ==
  /\ call[r].at = "encrypted" /\ call[r].goal.kind # "reveal"
  /\ LET goal == call[r].goal
         w == call[r].worker
     IN  \/ /\ goal.kind = "create" /\ goal.name \notin NamesOf(Stored)
            /\ secrets' = Append(secrets, [name |-> goal.name, key |-> call[r].key, by |-> w])
         \/ /\ goal.kind = "update" /\ goal.id \in Stored /\ goal.name \notin NamesOf(Stored \ {goal.id})
            /\ secrets' = [secrets EXCEPT ![goal.id] = Updated(@, goal, call[r].key, w)]
         \/ /\ IF goal.kind = "create" THEN goal.name \in NamesOf(Stored)
               ELSE goal.id \notin Stored \/ goal.name \in NamesOf(Stored \ {goal.id})
            /\ UNCHANGED secrets
  /\ Answer(r)
  /\ UNCHANGED <<vaultKeySet, fernet, keys, raced>>

\* reveal_secret for one who may: to decrypt takes a key as well.
BeginReveal(r, w) ==
  /\ Arrives(r)
  /\ \E i \in Stored : GetFernet(r, w, [kind |-> "reveal", id |-> i])
  /\ UNCHANGED <<vaultKeySet, secrets>>

AnswerReveal(r) ==
  /\ call[r].at = "encrypted" /\ call[r].goal.kind = "reveal"
  /\ Answer(r)
  /\ UNCHANGED vault

DeleteSecret(r) ==
  /\ Arrives(r)
  /\ \E i \in Stored : secrets' = [secrets EXCEPT ![i] = Gone]
  /\ Answer(r)
  /\ UNCHANGED <<vaultKeySet, fernet, keys, raced>>

-----------------------------------------------------------------------------
(* The settings.                                                           *)

Apply(r, w, kind, value) == call' = [call EXCEPT ![r] = [at |-> "applying", worker |-> w, kind |-> kind, value |-> value]]

SetSetting(r, w) ==
  /\ Arrives(r)
  /\ \E value \in ApiKeys \cup {Empty} : setting' = value /\ Apply(r, w, "set", value)
  /\ wiped' = [wiped EXCEPT ![w] = FALSE]
  /\ UNCHANGED config

\* Without a row there is nothing to clear, in the configuration neither.
ClearSetting(r, w) ==
  /\ Arrives(r)
  /\ \/ setting = Gone /\ Answer(r) /\ UNCHANGED setting
     \/ setting # Gone /\ setting' = Empty /\ Apply(r, w, "clear", Empty)
  /\ UNCHANGED <<config, wiped>>

\* (Mutant of ApplySetting: a cleared setting is only cleared in the table.)
ApplySetOnly(r) ==
  /\ call[r].at = "applying"
  /\ LET w == call[r].worker
     IN  /\ config' = IF call[r].kind = "set" THEN [config EXCEPT ![w] = call[r].value] ELSE config
         /\ wiped' = [wiped EXCEPT ![w] = call[r].kind = "clear"
                       /\ \A q \in Requests \ {r} : call[q].at = "applying" => call[q].worker # w]
  /\ Answer(r)
  /\ UNCHANGED setting

\* current_app.config[key] = value, some time after the commit.
ApplySetting(r) ==
  /\ call[r].at = "applying"
  /\ LET w == call[r].worker
     IN  /\ config' = [config EXCEPT ![w] = call[r].value]
         /\ wiped' = [wiped EXCEPT ![w] = call[r].kind = "clear"
                       /\ \A q \in Requests \ {r} : call[q].at = "applying" => call[q].worker # w]
  /\ Answer(r)
  /\ UNCHANGED setting

\* chat: the row when it has a value, or else the configuration.
ApiKey(w) == IF setting \in ApiKeys THEN setting ELSE config[w]

-----------------------------------------------------------------------------
\* _load_db_settings.
Loaded == IF setting \in ApiKeys THEN setting ELSE EnvValue

Init ==
  /\ CatalogInit
  /\ vaultKeySet \in BOOLEAN
  /\ fernet = [w \in Processes |-> NoKey] /\ keys = 0 /\ secrets = <<>>
  /\ setting = Gone /\ config = [w \in Processes |-> EnvValue]
  /\ raced = [w \in Processes |-> FALSE] /\ wiped = [w \in Processes |-> FALSE]

Served(w) == {r \in Open : call[r].at \in {"keyed", "encrypted", "applying"} /\ call[r].worker = w}

\* A process ends and another takes its place: the key is gone and the settings are read again.
\* It also served some of the requests on lists.
Recycle(w) ==
  /\ \E S \in SUBSET {r \in Open : call[r].at \in {"missed", "loaded", "written"}} : Abandon(S \cup Served(w))
  /\ fernet' = [fernet EXCEPT ![w] = NoKey]
  /\ secrets' = [i \in DOMAIN secrets |-> IF i \in Stored /\ secrets[i].by = w THEN [secrets[i] EXCEPT !.by = Gone] ELSE secrets[i]]
  /\ config' = [config EXCEPT ![w] = Loaded]
  /\ raced' = [raced EXCEPT ![w] = FALSE] /\ wiped' = [wiped EXCEPT ![w] = FALSE]
  /\ UNCHANGED <<table, attached, cache, redis, vaultKeySet, keys, setting>>

Vault(r) ==
  /\ \/ \E w \in Processes : BeginStoring(r, w) \/ BeginReveal(r, w)
     \/ SetKey(r) \/ CommitSecret(r) \/ AnswerReveal(r) \/ DeleteSecret(r)
  /\ UNCHANGED <<lists, settings>>

Settings(r) ==
  /\ (\E w \in Processes : SetSetting(r, w) \/ ClearSetting(r, w)) \/ ApplySetting(r)
  /\ UNCHANGED <<lists, vault>>

Next ==
  \/ \E r \in Requests : Vault(r) \/ Settings(r) \/ (CatalogRequest(r) /\ UNCHANGED <<vault, settings>>)
  \/ (RedisFails \/ RedisReturns \/ Tick) /\ UNCHANGED <<vault, settings>>
  \/ \E w \in Processes : Recycle(w)

\* Time passes; nothing else has to happen.
Spec == Init /\ [][Next]_vars /\ WF_vars(Tick /\ UNCHANGED <<vault, settings>>)

-----------------------------------------------------------------------------
WorkersTypeOK ==
  /\ CatalogTypeOK
  /\ fernet \in [Processes -> NoKey..keys] /\ config \in [Processes -> ApiKeys \cup {Empty}]
  /\ \A i, j \in Stored : secrets[i].name = secrets[j].name => i = j

\* With VAULT_KEY any process can decrypt any secret; without it the process that stored a value
\* can, as long as it lives, unless its threads raced for the first key (vault_service.py:20).
SecretKept ==
  \A i \in Stored :
    LET w == secrets[i].by
    IN  IF vaultKeySet THEN secrets[i].key = VaultKey /\ \A p \in Processes : fernet[p] \in {NoKey, VaultKey}
        ELSE w # Gone /\ ~raced[w] => fernet[w] = secrets[i].key

\* A process that has cleared the API key does not fall back to one, unless it was set again in
\* that process or the two requests overlapped (settings.py:147, chat_service.py:742).
ClearForgets == \A w \in Processes : wiped[w] => ApiKey(w) \in {setting, Empty}
=============================================================================
