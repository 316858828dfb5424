--------------------------- MODULE StudioHistory ---------------------------
(***************************************************************************)
(* The query history of the Studio editor: one resource row per file (and  *)
(* one for the scratch buffer) that every executed query loads, prepends   *)
(* to, cuts to its cap and saves with the revision it loaded.  Queries run *)
(* concurrently and a save that is refused is only logged.                 *)
(***************************************************************************)
EXTENDS Naturals, Sequences, SequencesExt

CONSTANTS
  Queries,            \* query executions, each with one entry to record
  Buckets,            \* the files, and the scratch buffer
  STUDIO_HISTORY_CAP  \* entries a bucket keeps (20)

ASSUME HistoryAssumption == STUDIO_HISTORY_CAP \in Nat \ {0}

VARIABLES
  row,      \* the row of each bucket: revision 0 is no row
  query,    \* where each execution is, and the row it loaded
  saved     \* history: the entries whose save succeeded, newest first

historyVars == <<row, query, saved>>

NoRow == [revision |-> 0, entries |-> <<>>]
Waiting == [stage |-> "running", bucket |-> CHOOSE b \in Buckets : TRUE, loaded |-> NoRow]

HistoryInit ==
  /\ row = [b \in Buckets |-> NoRow]
  /\ query = [q \in Queries |-> Waiting]
  /\ saved = [b \in Buckets |-> <<>>]

\* The first n entries.
Truncate(s, n) == SubSeq(s, 1, IF Len(s) < n THEN Len(s) ELSE n)

Prepended(q, entries) == Truncate(<<q>> \o entries, STUDIO_HISTORY_CAP)

\* The query has run and is not blank: load its bucket.  A load that fails
\* counts as no row.
LoadHistory(q) == \E b \in Buckets :
  /\ query[q].stage = "running"
  /\ \E loaded \in {row[b], NoRow} :
       query' = [query EXCEPT ![q] =
         [stage |-> "loaded", bucket |-> b, loaded |-> loaded]]
  /\ UNCHANGED <<row, saved>>

\* (A mistake: save over whatever is there.)
SaveHistoryBlindly(q) ==
  LET b == query[q].bucket  loaded == query[q].loaded IN
  /\ query[q].stage = "loaded"
  /\ query' = [query EXCEPT ![q].stage = "done"]
  /\ row' = [row EXCEPT ![b] =
       [revision |-> @.revision + 1, entries |-> Prepended(q, loaded.entries)]]
  /\ saved' = [saved EXCEPT ![b] = <<q>> \o @]

\* Save with the loaded revision: a create wants no row, an update the same
\* revision; otherwise, or when the store fails, the entry is dropped.
SaveHistory(q) ==
  LET b == query[q].bucket  loaded == query[q].loaded IN
  /\ query[q].stage = "loaded"
  /\ query' = [query EXCEPT ![q].stage = "done"]
  /\ \/ /\ row[b].revision = loaded.revision
        /\ row' = [row EXCEPT ![b] =
             [revision |-> @.revision + 1, entries |-> Prepended(q, loaded.entries)]]
        /\ saved' = [saved EXCEPT ![b] = <<q>> \o @]
     \/ UNCHANGED <<row, saved>>

HistoryDone == (\A q \in Queries : query[q].stage = "done") /\ UNCHANGED historyVars

HistoryNext ==
  \/ \E q \in Queries : LoadHistory(q) \/ SaveHistory(q)
  \/ HistoryDone

HistorySpec == HistoryInit /\ [][HistoryNext]_historyVars

-----------------------------------------------------------------------------
\* Each bucket holds exactly the newest entries whose save succeeded, in the
\* order of the saves and no more than the cap: a refused save takes nothing
\* else with it, and no save drops a newer entry to make room.
KeepsTheNewest == \A b \in Buckets :
  row[b].entries = Truncate(saved[b], STUDIO_HISTORY_CAP)
=============================================================================
