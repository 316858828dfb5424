------------------------------ MODULE MCStudio ------------------------------
\* The file browser, the query history, the statement splitter and the query
\* executions touch different state; a behaviour exercises one of them.
EXTENDS StudioFiles, StudioHistory, SqlBuffer, StudioQueries, TLC
CONSTANTS r1, r2, d1, d2, c1, c2, q1, q2, q3, q4, b1, b2
VARIABLE part

others == <<part, historyVars, buffer, queryVars>>
all == <<vars, others>>

MCInit ==
  /\ Init /\ HistoryInit /\ BufferInit /\ QueriesInit
  /\ part \in {"files", "history", "sql", "queries"}
MCNext ==
  \/ part = "files" /\ Next /\ UNCHANGED others
  \/ part = "history" /\ HistoryNext /\ UNCHANGED <<part, vars, buffer, queryVars>>
  \/ part = "sql" /\ BufferNext /\ UNCHANGED <<part, vars, historyVars, queryVars>>
  \/ part = "queries" /\ QueriesNext /\ UNCHANGED <<part, vars, historyVars, buffer>>
MCSpec == MCInit /\ [][MCNext]_all

Symmetry == Permutations({r1, r2}) \cup Permutations({d1, d2}) \cup Permutations({c1, c2})
=============================================================================
