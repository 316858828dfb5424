---------------------------- MODULE StudioQueries ----------------------------
(***************************************************************************)
(* Running queries from Studio: the editor's buffer, a notebook cell, and  *)
(* the Plan tab's EXPLAIN.  A SQL buffer goes to Trino one statement after *)
(* the other; each is posted once and then fetched page by page, at most   *)
(* POLLS times.  A Python buffer goes to a child process on the Sail venv. *)
(* Any request to Trino, or its answer, may get lost, the child has 120    *)
(* seconds, and a client that hangs up drops its handler at an await;      *)
(* neither the coordinator nor the child is told.                          *)
(***************************************************************************)
EXTENDS Naturals, Sequences, SequencesExt

CONSTANTS
  Runs,            \* the executions asked for
  MaxStatements,   \* bound: statements of a buffer
  POLLS            \* rounds of fetching (60)

ASSUME QueriesAssumption == MaxStatements \in Nat /\ POLLS \in Nat \ {0}

VARIABLES
  run,     \* what each execution is, and where it is
  trino,   \* the coordinator: its statement for each execution and position
  child,   \* the Python process of each execution
  told     \* the answer to each execution, and what the history records

queryVars == <<run, trino, child, told>>

NoBody == [error |-> FALSE, page |-> 0, more |-> FALSE]
NoRun == [kind |-> "none", engine |-> "trino", total |-> 0, stage |-> "idle",
          at |-> 1, round |-> 0, body |-> NoBody, rows |-> <<>>]
NoStatement == [state |-> "absent", pages |-> 0, explained |-> FALSE]
NoChild == [state |-> "none", text |-> FALSE, warned |-> FALSE, frame |-> FALSE]
NothingTold == [answer |-> "none", rows |-> <<>>, entry |-> "none"]

QueriesInit ==
  /\ run = [q \in Runs |-> NoRun]
  /\ trino = [q \in Runs |-> [i \in 1..MaxStatements |-> NoStatement]]
  /\ child = [q \in Runs |-> NoChild]
  /\ told = [q \in Runs |-> NothingTold]

IsAt(q, stage) == run[q].stage = stage
GoOn(q, r) == run' = [run EXCEPT ![q] = r]

(* The handler ends: the answer, and the editor's entry in the history for *)
(* every buffer that is not blank.                                         *)
Tell(q, answer, rows) ==
  /\ GoOn(q, [run[q] EXCEPT !.stage = "over"])
  /\ told' = [told EXCEPT ![q] =
       [answer |-> answer, rows |-> rows,
        entry |-> IF run[q].kind # "editor" \/ run[q].total = 0 THEN "none"
                  ELSE IF answer \in {"sql_ok", "py_ok"} THEN "ok" ELSE "failed"]]

-----------------------------------------------------------------------------
(* An execution comes in: the language override or the guess picks the     *)
(* engine, the buffer holds some statements.  EXPLAIN is SQL and not blank.*)
Ask(q) ==
  /\ IsAt(q, "idle")
  /\ \E kind \in {"editor", "cell", "explain"}, engine \in {"trino", "python"},
        total \in 0..MaxStatements :
       /\ kind = "explain" => engine = "trino" /\ total > 0
       /\ GoOn(q, [NoRun EXCEPT !.kind = kind, !.engine = engine, !.total = total,
            !.stage = IF engine = "trino" THEN "post" ELSE "spawn"])
  /\ UNCHANGED <<trino, child, told>>

(* No Trino, or no Sail, in the store; no venv; nothing in the buffer.     *)
NotRun(q) ==
  /\ run[q].stage \in {"post", "spawn"} /\ run[q].at = 1
  /\ Tell(q, IF run[q].engine = "trino" THEN "sql_err" ELSE "py_err", <<>>)
  /\ UNCHANGED <<trino, child>>

-----------------------------------------------------------------------------
(* The coordinator answers for a statement: with an error, or with or      *)
(* without a page of rows, and a nextUri unless it has finished.           *)
Bodies(s) ==
  [error : {FALSE}, page : {0, s.pages + 1}, more : BOOLEAN]
    \cup {[NoBody EXCEPT !.error = TRUE]}

Answered(s, body) ==
  [s EXCEPT !.state = CASE body.error -> "failed" [] body.more -> "running" [] OTHER -> "finished",
            !.pages = IF body.page = 0 THEN @ ELSE body.page]

(* One request about the statement at hand, s if it arrives: its answer is *)
(* read next, or something got lost and the execution fails.               *)
Exchange(q, s, r) ==
  LET Arrives(body) == trino' = [trino EXCEPT ![q][r.at] = Answered(s, body)] IN
  \/ \E body \in Bodies(s) :
       /\ Arrives(body)
       /\ GoOn(q, [r EXCEPT !.body = body, !.stage = "read"])
       /\ UNCHANGED told
  \/ /\ UNCHANGED trino \/ \E body \in Bodies(s) : Arrives(body)
     /\ Tell(q, "sql_err", <<>>)

(* POST /v1/statement.  The word EXPLAIN stands before the whole buffer,   *)
(* and so before its first statement.                                      *)
Post(q) ==
  /\ IsAt(q, "post") /\ run[q].total > 0
  /\ Exchange(q,
       [NoStatement EXCEPT !.explained = run[q].kind = "explain" /\ run[q].at = 1],
       [run[q] EXCEPT !.round = 1, !.rows = <<>>])
  /\ UNCHANGED child

Rows(r) == IF r.body.page = 0 THEN r.rows ELSE Append(r.rows, r.body.page)

(* (A mistake: the rest of the buffer is sent all the same.)               *)
ReadErrorAndGoOn(q) ==
  /\ IsAt(q, "read") /\ run[q].body.error
  /\ IF run[q].at = run[q].total THEN Tell(q, "sql_err", <<>>)
     ELSE GoOn(q, [run[q] EXCEPT !.at = @ + 1, !.stage = "post"]) /\ UNCHANGED told
  /\ UNCHANGED <<trino, child>>

(* The statement failed, and nothing after it is sent.                     *)
ReadError(q) ==
  /\ IsAt(q, "read") /\ run[q].body.error
  /\ Tell(q, "sql_err", <<>>)
  /\ UNCHANGED <<trino, child>>

(* No nextUri: the statement is through.  The last one's rows are shown.   *)
ReadLast(q) ==
  /\ IsAt(q, "read") /\ ~run[q].body.error /\ ~run[q].body.more
  /\ IF run[q].at = run[q].total THEN Tell(q, "sql_ok", Rows(run[q]))
     ELSE GoOn(q, [run[q] EXCEPT !.at = @ + 1, !.stage = "post"]) /\ UNCHANGED told
  /\ UNCHANGED <<trino, child>>

(* (A mistake: what has arrived is shown when the rounds are used up.)     *)
FetchOrShow(q) ==
  LET r == [run[q] EXCEPT !.rows = Rows(run[q]), !.round = @ + 1] IN
  /\ IsAt(q, "read") /\ ~run[q].body.error /\ run[q].body.more
  /\ IF r.round <= POLLS THEN Exchange(q, trino[q][r.at], r)
     ELSE Tell(q, "sql_ok", r.rows) /\ UNCHANGED trino
  /\ UNCHANGED child

(* A nextUri is fetched in every round, the last one too, whose body       *)
(* nobody reads.                                                           *)
Fetch(q) ==
  LET r == [run[q] EXCEPT !.rows = Rows(run[q]), !.round = @ + 1] IN
  /\ IsAt(q, "read") /\ ~run[q].body.error /\ run[q].body.more
  /\ \/ r.round <= POLLS /\ Exchange(q, trino[q][r.at], r)
     \/ /\ r.round > POLLS
        /\ \E body \in Bodies(trino[q][r.at]) :
             trino' = [trino EXCEPT ![q][r.at] = Answered(trino[q][r.at], body)]
        /\ Tell(q, "sql_err", <<>>)
  /\ UNCHANGED child

-----------------------------------------------------------------------------
(* The Python child, its wrapper around the operator's code: it prints,    *)
(* warns on stderr, keeps the last value that is a frame; at the end it    *)
(* prints the frame and exits 0, or a traceback and exits 1.               *)
Spawn(q) ==
  /\ IsAt(q, "spawn")
  /\ child' = [child EXCEPT ![q].state = "running"]
  /\ GoOn(q, [run[q] EXCEPT !.stage = "wait"])
  /\ UNCHANGED <<trino, told>>

ChildWorks(q) ==
  /\ child[q].state = "running"
  /\ \E field \in {"text", "warned", "frame"} : child' = [child EXCEPT ![q][field] = TRUE]
  /\ UNCHANGED <<run, trino, told>>

ChildEnds(q) ==
  /\ child[q].state = "running"
  /\ \/ child' = [child EXCEPT ![q].state = "exited"]
     \/ child' = [child EXCEPT ![q].state = "raised", ![q].warned = TRUE, ![q].frame = FALSE]
  /\ UNCHANGED <<run, trino, told>>

(* PythonOutcome, by the exit status.                                      *)
PythonOutcome(q) == IF child[q].state = "exited" THEN "py_ok" ELSE "py_err"

(* A cell is an error when the child wrote on stderr alone.                *)
CellOutcome(q) ==
  IF child[q].warned /\ ~child[q].text /\ ~child[q].frame THEN "py_err" ELSE "py_ok"

Collect(q) ==
  /\ IsAt(q, "wait") /\ child[q].state \in {"exited", "raised"}
  /\ Tell(q, IF run[q].kind = "cell" THEN CellOutcome(q) ELSE PythonOutcome(q), <<>>)
  /\ UNCHANGED <<trino, child>>

(* 120 seconds have gone by; the child goes on.                            *)
TimeOut(q) ==
  /\ IsAt(q, "wait")
  /\ Tell(q, "py_err", <<>>)
  /\ UNCHANGED <<trino, child>>

-----------------------------------------------------------------------------
HangUp(q) ==
  /\ run[q].stage \notin {"idle", "over"}
  /\ GoOn(q, [run[q] EXCEPT !.stage = "over"])
  /\ UNCHANGED <<trino, child, told>>

(* Every execution is over.                                                *)
AllOver == (\A q \in Runs : IsAt(q, "over")) /\ UNCHANGED queryVars

QueriesNext ==
  \/ \E q \in Runs :
       \/ Ask(q) \/ NotRun(q) \/ Post(q) \/ ReadError(q) \/ ReadLast(q) \/ Fetch(q)
       \/ Spawn(q) \/ ChildWorks(q) \/ ChildEnds(q) \/ Collect(q) \/ TimeOut(q) \/ HangUp(q)
  \/ AllOver

QueriesSpec == QueriesInit /\ [][QueriesNext]_queryVars

-----------------------------------------------------------------------------
(* Like a script in psql: no statement reaches the coordinator before the  *)
(* one above it has finished there, whatever was lost on the way, and none *)
(* after one that failed.                                                  *)
StatementsRunInOrder ==
  \A q \in Runs : \A i, j \in 1..MaxStatements :
    i < j /\ trino[q][j].state # "absent" => trino[q][i].state = "finished"

(* What is shown as a result is the result: every statement of the buffer  *)
(* has finished on the coordinator, and the rows are all the pages of the  *)
(* last one, in order.                                                     *)
ResultsAreWhole ==
  \A q \in Runs : told[q].answer = "sql_ok" =>
    LET n == run[q].total IN
    /\ \A i \in 1..n : trino[q][i].state = "finished"
    /\ told[q].rows = [page \in 1..trino[q][n].pages |-> page]

(* "EXPLAIN expects a single statement; reject anything with a semicolon": *)
(* asking for the plan of a buffer runs none of its statements.            *)
ExplainRunsNothing ==
  \A q \in Runs : run[q].kind = "explain" =>
    \A i \in 1..MaxStatements : trino[q][i].state # "absent" => trino[q][i].explained

(* "If the executor itself returned PythonOutcome::Err the split function  *)
(* already routed stderr into a PyErr": a cell is shown as run only when   *)
(* its code raised nothing.  Not so when it printed before it raised.      *)
CellsTellWhatHappened ==
  \A q \in Runs : run[q].kind = "cell" /\ told[q].answer = "py_ok" =>
    child[q].state = "exited"
=============================================================================
