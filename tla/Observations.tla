---------------------------- MODULE Observations ----------------------------
(***************************************************************************)
(* What the console knows of the components it manages.  Every 30 seconds  *)
(* reconcile_tick goes through the kinds of instance, lists the rows of    *)
(* each, asks the server behind each row and writes what it found into the *)
(* row; an install of PostgreSQL asks once more, on its own.  /status      *)
(* shows the rows.                                                         *)
(***************************************************************************)
EXTENDS Integers, Sequences, FiniteSets

CONSTANTS
  Order,       \* the components explored, in the order the tick takes them
  MaxChanges,  \* bound: changes of a server, a row or the vault
  MaxFaults,   \* bound: reads and writes of the metadata store that fail
  None

Components == {Order[i] : i \in DOMAIN Order}

\* The kinds that reconcile_tick lists and has a reconciler for.
Kinds == {"postgres", "kanidm", "garage", "lakekeeper", "databend", "qdrant",
          "restate", "greptime", "grafana", "openfga", "sail", "trino"}

\* What a snapshot tells; a row holds one, or none yet, and a specification
\* that this release can read, or that another release wrote and it cannot.
Snapshots == [failed : BOOLEAN, version : BOOLEAN]
Rows == [status : Snapshots \cup {None}, readable : BOOLEAN]

ASSUME ObservationsAssumption ==
  /\ Order \in Seq(Kinds) /\ Order # <<>>
  /\ MaxChanges \in Nat /\ MaxFaults \in Nat
  /\ None \notin Kinds \cup Snapshots \cup Rows

-----------------------------------------------------------------------------
(* The twelve reconcilers: the requests a snapshot makes, the ones whose   *)
(* failure makes it fail, the one that may be absent from the server (404) *)
(* without failing, the one that tells the version, and the ones that give *)
(* up on a server that does not answer.                                    *)

Rest(requests, version) ==
  [requests |-> requests, required |-> {}, absent |-> {}, version |-> version,
   gives_up |-> {}]

Kanidm == [Rest(<<"system", "group", "person">>, "system")
             EXCEPT !.required = {"system"}, !.absent = {"system"}]

\* The pool gives a server 30 seconds to yield a connection that answers; a
\* statement on one has no such bound.
Postgres == [requests |-> <<"acquire", "version", "acquire", "databases">>,
             required |-> {"acquire", "version", "databases"}, absent |-> {},
             version |-> "version", gives_up |-> {"acquire"}]
Garage == Rest(<<"status", "bucket">>, "status")
Lakekeeper == Rest(<<"info", "project", "warehouse">>, "info")
Databend == Rest(<<"health", "cluster">>, "health")
Qdrant == Rest(<<"root", "collections">>, "root")
Restate == Rest(<<"version", "services", "deployments">>, "version")
Greptime == Rest(<<"health", "status">>, "status")
Grafana == Rest(<<"health", "datasources">>, "health")
OpenFga == Rest(<<"healthz", "stores">>, "none")

Tcp == [requests |-> <<"connect">>, required |-> {"connect"}, absent |-> {},
        version |-> "none", gives_up |-> {"connect"}]
Sail == Tcp
Trino == Tcp

Reconciler(c) ==
  CASE c = "postgres" -> Postgres [] c = "kanidm" -> Kanidm
    [] c = "garage" -> Garage [] c = "lakekeeper" -> Lakekeeper
    [] c = "databend" -> Databend [] c = "qdrant" -> Qdrant
    [] c = "restate" -> Restate [] c = "greptime" -> Greptime
    [] c = "grafana" -> Grafana [] c = "openfga" -> OpenFga
    [] c = "sail" -> Sail [] c = "trino" -> Trino

-----------------------------------------------------------------------------
VARIABLES
  server,    \* component -> "up", "denying" (answers with an error), "missing"
             \* (answers that there is no such thing), "down" (no connection),
             \* "hung" (takes the connection and never answers)
  token,     \* the vault holds kanidm/reconciler-token
  row,       \* component -> its instance row, or None
  observer,  \* the tick and the install's own observation
  next,      \* the tick's place in Order
  changes, faults

tickVars == <<server, token, row, observer, next, changes, faults>>

Observers == {"tick", "install"}
Idle == [on |-> None, at |-> 0, failed |-> FALSE, version |-> FALSE]
Begun(c) == [Idle EXCEPT !.on = c, !.at = 1]
Unobserved(readable) == [status |-> None, readable |-> readable]
Servers == {"up", "denying", "missing", "down", "hung"}

TickInit ==
  /\ server \in [Components -> {"up", "down"}]
  /\ token \in BOOLEAN
  /\ row \in [Components -> {None, Unobserved(TRUE), Unobserved(FALSE)}]
  /\ observer = [o \in Observers |-> Idle]
  /\ next = 1 /\ changes = 0 /\ faults = 0

-----------------------------------------------------------------------------
(* The tick.                                                               *)

Wraps == IF next = Len(Order) THEN 1 ELSE next + 1

\* Kanidm is left alone until its token is in the vault.
Skips(c) == c = "kanidm" /\ ~token

\* List the rows of a kind; an error counts as none, and a row whose
\* specification cannot be read is passed over.
List ==
  LET c == Order[next] IN
  /\ observer["tick"].on = None
  /\ IF Skips(c) \/ row[c] = None \/ ~row[c].readable
     THEN next' = Wraps /\ UNCHANGED <<observer, faults>>
     ELSE \/ /\ observer' = [observer EXCEPT !["tick"] = Begun(c)]
             /\ UNCHANGED <<next, faults>>
          \/ /\ faults < MaxFaults /\ faults' = faults + 1
             /\ next' = Wraps /\ UNCHANGED observer
  /\ UNCHANGED <<server, token, row, changes>>

-----------------------------------------------------------------------------
(* One observation.                                                        *)

\* A server that is up answers; any that is not down takes a connection, one
\* that hangs too: its kernel does that.
Answers(c, request) ==
  server[c] = "up" \/ (server[c] # "down" /\ request = "connect")

\* A request that makes the snapshot fail.
Fails(c, request) ==
  /\ request \in Reconciler(c).required /\ ~Answers(c, request)
  /\ ~(server[c] = "missing" /\ request \in Reconciler(c).absent)

Leaves(o) ==
  /\ observer' = [observer EXCEPT ![o] = Idle]
  /\ next' = IF o = "tick" THEN Wraps ELSE next

\* A server that hangs is waited for, unless the request gives up.
Waits(o) ==
  LET ob == observer[o] IN
  /\ ob.on # None /\ ob.at <= Len(Reconciler(ob.on).requests)
  /\ server[ob.on] = "hung"
  /\ Reconciler(ob.on).requests[ob.at] \notin Reconciler(ob.on).gives_up

\* (A mistake: a failing request ends the observation, not the snapshot.)
RequestPropagates(o) ==
  LET ob == observer[o]
      rec == Reconciler(ob.on)
      r == rec.requests[ob.at]
  IN /\ ob.on # None /\ ob.at <= Len(rec.requests) /\ ~Waits(o)
     /\ IF Fails(ob.on, r) THEN Leaves(o)
        ELSE /\ observer' = [observer EXCEPT ![o].at = @ + 1,
                  ![o].version = @ \/ (Answers(ob.on, r) /\ r = rec.version)]
             /\ UNCHANGED next
     /\ UNCHANGED <<server, token, row, changes, faults>>

\* One request of the snapshot.  The first required one that fails ends it
\* with the sentinel; what another would have told stays unknown.
Request(o) ==
  LET ob == observer[o]
      rec == Reconciler(ob.on)
      r == rec.requests[ob.at]
  IN /\ ob.on # None /\ ob.at <= Len(rec.requests) /\ ~Waits(o)
     /\ observer' = [observer EXCEPT ![o] =
          IF Fails(ob.on, r)
          THEN [ob EXCEPT !.at = Len(rec.requests) + 1, !.failed = TRUE, !.version = FALSE]
          ELSE [ob EXCEPT !.at = @ + 1,
                  !.version = @ \/ (Answers(ob.on, r) /\ r = rec.version)]]
     /\ UNCHANGED <<server, token, row, next, changes, faults>>

Done(o) ==
  observer[o].on # None /\ observer[o].at > Len(Reconciler(observer[o].on).requests)
Snapshot(o) == [failed |-> observer[o].failed, version |-> observer[o].version]

\* persist_status: an UPDATE of the row, if it is still there.
Persist(o) ==
  /\ Done(o)
  /\ row' = [row EXCEPT ![observer[o].on] =
       IF @ = None THEN None
       ELSE [status |-> Snapshot(o), readable |-> @.readable]]
  /\ Leaves(o) /\ UNCHANGED <<server, token, changes, faults>>

\* The write fails: the status is lost, the next tick tries again.
PersistFails(o) ==
  /\ Done(o) /\ faults < MaxFaults /\ faults' = faults + 1
  /\ Leaves(o) /\ UNCHANGED <<server, token, row, changes>>

-----------------------------------------------------------------------------
(* The rest of the system.                                                 *)

Changes == changes < MaxChanges /\ changes' = changes + 1

\* An install registers the instance, or writes its specification anew and
\* leaves the status; PostgreSQL's is observed at once.
Register(c) ==
  /\ Changes
  /\ row' = [row EXCEPT ![c] =
       IF @ = None THEN Unobserved(TRUE)
       ELSE [status |-> @.status, readable |-> TRUE]]
  /\ observer' = IF c = "postgres" /\ observer["install"].on = None
                 THEN [observer EXCEPT !["install"] = Begun(c)] ELSE observer
  /\ UNCHANGED <<server, token, next, faults>>

Unregister(c) ==
  /\ Changes /\ row[c] # None /\ row' = [row EXCEPT ![c] = None]
  /\ UNCHANGED <<server, token, observer, next, faults>>

ServerBecomes(c, s) ==
  /\ Changes /\ server[c] # s /\ server' = [server EXCEPT ![c] = s]
  /\ UNCHANGED <<token, row, observer, next, faults>>

TokenChanges ==
  /\ Changes /\ token' = ~token
  /\ UNCHANGED <<server, row, observer, next, faults>>

Step(o) == Request(o) \/ Persist(o) \/ PersistFails(o)

TickNext ==
  \/ List
  \/ \E o \in Observers : Step(o)
  \/ \E c \in Components : Register(c) \/ Unregister(c)
  \/ \E c \in Components, s \in Servers : ServerBecomes(c, s)
  \/ TokenChanges

\* The timer fires, requests are answered or given up, and writes return.
TickSpec ==
  /\ TickInit /\ [][TickNext]_tickVars
  /\ WF_tickVars(List)
  /\ \A o \in Observers : WF_tickVars(Request(o)) /\ WF_tickVars(Persist(o))

-----------------------------------------------------------------------------
(* What /status shows.                                                     *)

Badge(c) ==
  IF row[c] = None THEN "not installed"
  ELSE IF row[c].status = None THEN "unknown"
  ELSE IF row[c].status.failed THEN "failed" ELSE "observing"

-----------------------------------------------------------------------------
(* Properties.                                                             *)

\* The types of the servers, the rows and the observations under way.
TickTypeOK ==
  /\ server \in [Components -> Servers]
  /\ token \in BOOLEAN
  /\ row \in [Components -> Rows \cup {None}]
  /\ observer \in [Observers -> [on : Components \cup {None}, at : Nat,
                                 failed : BOOLEAN, version : BOOLEAN]]
  /\ next \in DOMAIN Order
  /\ changes \in Nat /\ faults \in Nat

\* The tick goes to c: it has a row that can be read, and its token.
Visited(c) == row[c] # None /\ row[c].readable /\ ~Skips(c)

\* The reconcilers whose snapshot fails when the server does not answer.
Detects(c) == Reconciler(c).required # {}

\* What the badge of a component ought to say while nothing changes.
Due(c) ==
  IF \A r \in Reconciler(c).required : ~Fails(c, r) THEN "observing" ELSE "failed"

\* reconcile_tick, observe: "Reconciler will retry on next tick."  Unless the
\* tick comes to wait for ever on a server that hangs, the badge of every
\* instance it visits whose reconciler tells a dead server comes to say what
\* that reconciler can tell, and goes on saying it: whatever was observed,
\* lost or overwritten by a slower observation before.
TruthIsShown ==
  \A c \in Components : Detects(c) =>
    \A said \in {"observing", "failed"} :
      <>[](Visited(c) /\ Due(c) = said) /\ []<>(~Waits("tick"))
        => <>[](Badge(c) = said)
=============================================================================
