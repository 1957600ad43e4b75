------------------------------- MODULE MCReload -------------------------------
(***************************************************************************)
(* IngestPipeline with reload requests, and two history variables that say *)
(* whether a reload met something it does not expect.                      *)
(***************************************************************************)
EXTENDS MCIngest

VARIABLES
  raced,      \* an alarm changed state while some load_metadata was under way
  overlapped, \* two calls of load_metadata were under way at once, or one failed
  file        \* what the last reload request read from the files

Underway == {l \in Loaders : loader[l].pc \notin {"idle", "done", "failed"}}

\* The consumer flips an alarm: it starts to write an event.
Flips == pc' = "journal" /\ (pc # "journal" \/ work'.cursor # work.cursor)

MCInit == Init /\ raced = FALSE /\ overlapped = FALSE /\ file = InitialConfig

\* The files, as the reload requests that begin in this step read them.
FilesRead == {loader'[l].config : l \in {l \in Reloads : At(l, "idle") /\ loader'[l].pc = "sync"}}

MCNext ==
  /\ Next
  /\ raced' = (raced \/ (Flips /\ (Underway # {} \/ (pc = "journal" /\ work.detached))))
  /\ overlapped' =
       \/ overlapped
       \/ \E l \in Underway : loader'[l].pc = "failed"
       \/ \E l \in Reloads : l \in Underway /\ Underway # {l}
  /\ file' = IF FilesRead = {} THEN file ELSE CHOOSE c \in FilesRead : TRUE

MCSpec == MCInit /\ [][MCNext]_<<vars, raced, overlapped, file>>

\* f says all that g says.
Extends(f, g) == DOMAIN g \subseteq DOMAIN f /\ \A x \in DOMAIN g : f[x] = g[x]

\* load_metadata's docstring, where it holds: unless an alarm changed state during a
\* reload, the alarms keep their state across it and nothing is reported twice.
QuietReloadKeepsAlarms == raced \/ (JournalAlternates /\ JournalMatchesMemory)

\* reload_config's docstring, where it holds: once no load is under way, the pipeline
\* works with the definitions the database holds, and those include what the last
\* reload read from the files, unless two loads overlapped.
ReloadTakesEffect ==
  (Underway = {} /\ ~ overlapped) =>
    /\ meta = dbTags
    /\ [a \in DOMAIN alarms |-> alarms[a].def] = dbAlarms
    /\ Extends(meta, file.tags) /\ Extends(dbAlarms, file.alarms)
=============================================================================
