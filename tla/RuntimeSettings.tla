--------------------------- MODULE RuntimeSettings ---------------------------
(***************************************************************************)
(* Runtime settings (app/core/runtime_settings.py, settings_registry.py):  *)
(* a cache in memory over the app_settings table, written by PUT           *)
(* /api/settings requests that await the database between two keys.        *)
(*                                                                         *)
(* A row of the table holds the text of a value, which the value itself    *)
(* stands for: what matters is whether it reads back.  The session may     *)
(* flush rows before the commit; nobody sees them before it, and a flush   *)
(* that raises is a commit that fails.                                     *)
(***************************************************************************)
EXTENDS SettingsRegistry, Sequences, FiniteSets

CONSTANTS
  Settings,        \* SETTINGS_BY_KEY: [key -> [type, min, max, choices, default]]
  Requests,        \* PUT requests that may be made
  Bodies,          \* their bodies, each a sequence of [key, value] with distinct keys
  FirstTable,      \* app_settings when the program starts
  Seeds,           \* what the environment may say of settings when the program starts
  MaxDbFailures    \* bound on the database operations that fail

Keys == DOMAIN Settings

VARIABLES
  cache,     \* self._cache
  table,     \* app_settings
  req,       \* the state of each request
  failures   \* database failures so far

settingsVars == <<cache, table, req, failures>>

-----------------------------------------------------------------------------
(* The registry's rules.                                                     *)

Same(v, w) == v.n = w.n /\ (v.kind = "text" <=> w.kind = "text")   \* Python's ==

\* validate returns: it raises a ValueError, or a TypeError for text compared to a bound.
Accepts(key, v) ==
  /\ key \in Keys
  /\ LET s == Settings[key] IN
     /\ s.type \in {"int", "float"} =>
          /\ v.kind # "text"
          /\ v.n >= s.min
          /\ s.max # NoMax => v.n <= s.max
     /\ s.type = "enum" => \E c \in s.choices : Same(v, c)

\* The text to_str writes.
ToStr(key, v) ==
  IF Settings[key].type = "bool" THEN [kind |-> "bool", n |-> IF v.n # 0 THEN 2 ELSE 0] ELSE v

\* coerce returns, and what.
ReadsBack(key, row) ==
  LET type == Settings[key].type IN
  /\ type = "int" => row.kind = "int"
  /\ type = "float" => row.kind \in {"int", "float"}
  /\ type = "enum" => row \in Settings[key].choices

Coerced(key, row) ==
  IF Settings[key].type = "string" THEN [row EXCEPT !.kind = "text"] ELSE row

\* A row that reads back holds a value that is accepted.
RowOK(key, row) == row \in SettingValue /\ (ReadsBack(key, row) => Accepts(key, Coerced(key, row)))

\* The registry's defaults and the rows earlier runs saved passed the validation, and a body
\* is a JSON object: no key comes twice.
ASSUME SettingsAssumption ==
  /\ \A k \in Keys : Settings[k].default \in SettingValue /\ Accepts(k, Settings[k].default)
  /\ DOMAIN FirstTable \subseteq Keys
  /\ \A k \in Keys : k \in DOMAIN FirstTable => RowOK(k, FirstTable[k])
  /\ \A seed \in Seeds : DOMAIN seed \subseteq Keys /\ \A k \in DOMAIN seed : seed[k] \in SettingValue
  /\ \A body \in Bodies :
       /\ body \in Seq([key : STRING, value : SettingValue])
       /\ \A i, j \in DOMAIN body : body[i].key = body[j].key => i = j
  /\ IsFiniteSet(Requests)
  /\ MaxDbFailures \in Nat

\* load: a row that does not read back leaves the default in place.
Loaded(t) ==
  [k \in Keys |-> IF k \in DOMAIN t /\ ReadsBack(k, t[k])
                  THEN Coerced(k, t[k]) ELSE Settings[k].default]

\* Then it saves what the environment says of the settings that have no row.  A seed that is
\* refused, or not saved, keeps the program from starting.
EverySeed(seed, t) == seed
Seeded(seed, t) == [k \in DOMAIN seed \ DOMAIN t |-> seed[k]]

Over(f, g) == [k \in DOMAIN f \cup DOMAIN g |-> IF k \in DOMAIN g THEN g[k] ELSE f[k]]

Starts(seed, t, c, u) ==
  /\ \A k \in DOMAIN Seeded(seed, t) : Accepts(k, seed[k])
  /\ c = Over(Loaded(t), Seeded(seed, t))
  /\ u = Over(t, [k \in DOMAIN Seeded(seed, t) |-> ToStr(k, seed[k])])

-----------------------------------------------------------------------------
(* set_many.                                                                 *)

\* pc: "idle"; "get", "got" (awaiting the row of key number i; it has been read);
\* "commit"; "saved", "rejected" (400, or 500 after a TypeError), "failed" (500).
\* pending holds the rows to write, inserts those that were absent when read.
Request(pc, body, i, row, pending, inserts, changed) ==
  [pc |-> pc, body |-> body, i |-> i, row |-> row, pending |-> pending,
   inserts |-> inserts, changed |-> changed]

NoRow == [kind |-> "none", n |-> 0]
Idle == Request("idle", <<>>, 0, NoRow, <<>>, {}, {})

SettingsInit ==
  /\ \E seed \in Seeds : Starts(seed, FirstTable, cache, table)
  /\ req = [r \in Requests |-> Idle]
  /\ failures = 0

DbFails == failures < MaxDbFailures /\ failures' = failures + 1

\* The loop of set_many turns to its i-th key, c being the cache: commit after the last
\* one, raise, or note whether the value changes and look for the key's row.
TurnToUnchecked(body, i, pending, inserts, changed, c) ==
  IF i > Len(body) THEN Request("commit", body, i, NoRow, pending, inserts, changed)
  ELSE Request("get", body, i, NoRow, pending, inserts, changed \cup {body[i].key})

TurnTo(body, i, pending, inserts, changed, c) ==
  IF i > Len(body) THEN Request("commit", body, i, NoRow, pending, inserts, changed)
  ELSE IF ~ Accepts(body[i].key, body[i].value)
  THEN Request("rejected", body, i, NoRow, <<>>, {}, {})
  ELSE Request("get", body, i, NoRow, pending, inserts,
               IF Same(c[body[i].key], body[i].value) THEN changed
               ELSE changed \cup {body[i].key})

ReqAt(r, where) == req[r].pc = where
Becomes(r, request) == req' = [req EXCEPT ![r] = request]

Put(r) ==
  /\ ReqAt(r, "idle")
  /\ \E body \in Bodies : Becomes(r, TurnTo(body, 1, <<>>, {}, {}, cache))
  /\ UNCHANGED <<cache, table, failures>>

\* session.get reads the row, if there is one ...
RowRead(r) ==
  /\ ReqAt(r, "get")
  /\ LET key == req[r].body[req[r].i].key IN
     req' = [req EXCEPT ![r].pc = "got",
                        ![r].row = IF key \in DOMAIN table THEN table[key] ELSE NoRow]
  /\ UNCHANGED <<cache, table, failures>>

\* ... and set_many goes on: the row is changed in the session only, the cache at once.
With(f, k, v) == [x \in DOMAIN f \cup {k} |-> IF x = k THEN v ELSE f[x]]

KeyCached(r) ==
  /\ ReqAt(r, "got")
  /\ LET q == req[r]
         key == q.body[q.i].key
         text == ToStr(key, q.body[q.i].value) IN
     /\ cache' = [cache EXCEPT ![key] = q.body[q.i].value]
     /\ Becomes(r, TurnTo(q.body, q.i + 1,
                          IF q.row = text THEN q.pending ELSE With(q.pending, key, text),
                          IF q.row = NoRow THEN q.inserts \cup {key} ELSE q.inserts,
                          q.changed, cache'))
  /\ UNCHANGED <<table, failures>>

\* Another request has inserted a row that was absent when this one looked.
Conflict(r) == req[r].inserts \cap DOMAIN table # {}

Persisted(r) ==
  [k \in DOMAIN table \cup DOMAIN req[r].pending |->
     IF k \in DOMAIN req[r].pending THEN req[r].pending[k] ELSE table[k]]

Committed(r) ==
  /\ ReqAt(r, "commit") /\ ~ Conflict(r)
  /\ table' = Persisted(r)
  /\ req' = [req EXCEPT ![r].pc = "saved"]
  /\ UNCHANGED <<cache, failures>>

CallFailed(r) ==
  /\ \/ ReqAt(r, "get") /\ DbFails
     \/ ReqAt(r, "commit") /\ DbFails
     \/ ReqAt(r, "commit") /\ Conflict(r) /\ UNCHANGED failures
  /\ req' = [req EXCEPT ![r].pc = "failed"]
  /\ UNCHANGED <<cache, table>>

SettingsNext ==
  \E r \in Requests : Put(r) \/ RowRead(r) \/ KeyCached(r) \/ Committed(r) \/ CallFailed(r)

SettingsSpec == SettingsInit /\ [][SettingsNext]_settingsVars

-----------------------------------------------------------------------------
(* Properties.                                                               *)

Saving(r) == req[r].pc \in {"get", "got", "commit"}
Rejected(r) == req[r].pc \in {"rejected", "failed"}

\* The cache, the table and the requests stay in their domains.
SettingsTypeOK ==
  /\ cache \in [Keys -> SettingValue]
  /\ DOMAIN table \subseteq Keys /\ \A k \in DOMAIN table : table[k] \in SettingValue
  /\ \A r \in Requests :
       /\ req[r].pc \in {"idle", "get", "got", "commit", "saved", "rejected", "failed"}
       /\ req[r].changed \subseteq Keys /\ req[r].inserts \subseteq Keys
       /\ DOMAIN req[r].pending \subseteq Keys
  /\ failures \in 0 .. MaxDbFailures
=============================================================================
