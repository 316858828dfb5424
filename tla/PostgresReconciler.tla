-------------------------- MODULE PostgresReconciler --------------------------
(***************************************************************************)
(* The PostgreSQL reconciler against a server other clients use too: a     *)
(* pass observes the databases, plans the difference to the specification  *)
(* and applies the plan statement by statement, each change followed by an *)
(* event of the audit log.  The passes are run by a caller outside: today  *)
(* the integration test, which observes, plans and applies in this order;  *)
(* the console only observes, so that nothing is assumed of when a pass    *)
(* comes, or whether it ends.                                              *)
(***************************************************************************)
EXTENDS Integers, FiniteSets

CONSTANTS
  Names,      \* the database names explored
  System,     \* SYSTEM_DATABASES: names the reconciler never touches
  Unquotable, \* names validate_identifier refuses
  Stored,     \* name -> the name PostgreSQL keeps: its first 63 bytes
  MaxSpecs,   \* bound: edits of the specification
  MaxOthers,  \* bound: databases other clients create and drop
  MaxErrors   \* bound: statements, observations and audit events that fail

ASSUME PostgresAssumption ==
  /\ System \subseteq Names /\ Unquotable \subseteq Names
  /\ System \cap Unquotable = {}
  /\ Stored \in [Names -> Names]
  /\ \A n \in Names : Stored[Stored[n]] = Stored[n]
  /\ \A n \in System : Stored[n] = n
  /\ MaxSpecs \in Nat /\ MaxOthers \in Nat /\ MaxErrors \in Nat

VARIABLES
  databases, \* what is on the server
  desired,   \* the databases of the specification
  prune,     \* whether it asks for extras to be dropped
  pc,        \* where the pass is: "idle", "observed", "applying", "auditing"
  status,    \* what the pass observed
  planned,   \* the specification it planned from: its databases, its prune
  creates,   \* the databases its plan has yet to create
  drops,     \* and to drop
  committed, \* the change whose audit event is due
  applied,   \* history: the changes this pass committed
  events,    \* history: the changes this pass has an audit event for
  closed,    \* history: whether it has the closing event, Reconciled
  specs, others, errors

clients == <<databases, others>>
specification == <<desired, prune, specs>>
work == <<status, planned, creates, drops>>
trail == <<committed, applied, events, closed>>
passVars == <<clients, specification, pc, work, trail, errors>>

Statements == {"create", "drop"} \X Names
Erring == errors < MaxErrors /\ errors' = errors + 1

\* The names that PostgreSQL keeps whole.
Whole == {n \in Names : Stored[n] = n}

PassInit ==
  /\ databases \in {d \in SUBSET Whole : System \subseteq d}
  /\ desired \in SUBSET Names /\ prune \in BOOLEAN
  /\ pc = "idle" /\ status = {} /\ planned = [names |-> {}, prune |-> FALSE]
  /\ creates = {} /\ drops = {} /\ applied = {} /\ events = {}
  /\ committed = <<>> /\ closed = FALSE
  /\ specs = 0 /\ others = 0 /\ errors = 0

-----------------------------------------------------------------------------
(* compute_plan.                                                           *)

\* (A mistake: the two sides of the difference are exchanged.)
MissingSwapped(spec, actual) == actual \ spec

Missing(spec, actual) == spec \ actual

\* (A mistake: extras are dropped whether or not the specification says so.)
ExtraAlways(spec, actual, pruning) == (actual \ System) \ spec

Extra(spec, actual, pruning) ==
  IF pruning THEN (actual \ System) \ spec ELSE {}

-----------------------------------------------------------------------------
(* A pass.                                                                 *)

\* The snapshot leaves the system databases out.  One that fails is the
\* sentinel: no database at all.
Observe ==
  /\ pc = "idle" /\ pc' = "observed"
  /\ \/ status' = databases \ System /\ UNCHANGED errors
     \/ status' = {} /\ Erring
  /\ applied' = {} /\ events' = {} /\ closed' = FALSE
  /\ UNCHANGED <<clients, specification, planned, creates, drops, committed>>

\* plan refuses a specification with a name it would not quote; it does not
\* ask whether the observation failed.
Plan ==
  /\ pc = "observed"
  /\ planned' = [names |-> desired, prune |-> prune]
  /\ IF desired \cap Unquotable # {}
     THEN pc' = "idle" /\ creates' = {} /\ drops' = {}
     ELSE /\ pc' = "applying"
          /\ creates' = Missing(desired, status)
          /\ drops' = Extra(desired, status, prune)
  /\ UNCHANGED <<clients, specification, status, trail, errors>>

\* (A mistake: extras go first.)
DropsTurn == IF drops # {} THEN {"drop"} \X drops ELSE {"create"} \X creates

\* Creates come before drops.
Turn == IF creates # {} THEN {"create"} \X creates ELSE {"drop"} \X drops

Planned(change) ==
  IF change[1] = "create"
  THEN creates' = creates \ {change[2]} /\ UNCHANGED drops
  ELSE drops' = drops \ {change[2]} /\ UNCHANGED creates

\* A system database is passed over, should a plan name one.
Skip(change) ==
  /\ pc = "applying" /\ change \in Turn /\ change[1] = "drop" /\ change[2] \in System
  /\ Planned(change)
  /\ UNCHANGED <<clients, specification, pc, status, planned, trail, errors>>

\* What the server accepts: CREATE of a name that is free once cut to 63 bytes,
\* DROP of one that is there.  apply checks the name again first.
Accepted(change) ==
  /\ change[2] \notin Unquotable
  /\ (change[1] = "create") = (Stored[change[2]] \notin databases)

\* The statement is committed; the audit event is next.
Commit(change) ==
  /\ pc = "applying" /\ change \in Turn /\ Accepted(change)
  /\ ~(change[1] = "drop" /\ change[2] \in System)
  /\ databases' = IF change[1] = "create" THEN databases \cup {Stored[change[2]]}
                  ELSE databases \ {Stored[change[2]]}
  /\ applied' = applied \cup {change} /\ committed' = change
  /\ Planned(change) /\ pc' = "auditing"
  /\ UNCHANGED <<others, specification, status, planned, events, closed, errors>>

\* A statement that fails ends the pass: what comes after it is not tried.
Abort(change) ==
  /\ pc = "applying" /\ change \in Turn
  /\ IF Accepted(change) THEN Erring ELSE UNCHANGED errors
  /\ ~(change[1] = "drop" /\ change[2] \in System)
  /\ pc' = "idle" /\ creates' = {} /\ drops' = {}
  /\ UNCHANGED <<clients, specification, status, planned, trail>>

\* (A mistake: the event is written before its statement is accepted.)
AuditPlan ==
  /\ pc = "auditing" /\ pc' = "applying" /\ committed' = <<>>
  /\ events' = applied \cup Turn /\ UNCHANGED errors
  /\ UNCHANGED <<clients, specification, work, applied, closed>>

\* The change just committed is recorded: audit_event is best-effort.
Audit ==
  /\ pc = "auditing" /\ pc' = "applying" /\ committed' = <<>>
  /\ \/ events' = events \cup {committed} /\ UNCHANGED errors
     \/ UNCHANGED events /\ Erring
  /\ UNCHANGED <<clients, specification, work, applied, closed>>

\* The plan had nothing to do: there was nothing missing and nothing extra.
Nothing ==
  /\ Missing(planned.names, status) = {}
  /\ Extra(planned.names, status, planned.prune) = {}

\* The end of a pass, with its closing event unless there was nothing to do.
Finish ==
  /\ pc = "applying" /\ creates = {} /\ drops = {} /\ pc' = "idle"
  /\ \/ closed' = ~Nothing /\ UNCHANGED errors
     \/ ~Nothing /\ UNCHANGED closed /\ Erring
  /\ UNCHANGED <<clients, specification, work, committed, applied, events>>

\* The process dies between two steps.
Crash ==
  /\ pc # "idle" /\ pc' = "idle" /\ Erring /\ creates' = {} /\ drops' = {}
  /\ committed' = <<>>
  /\ UNCHANGED <<clients, specification, status, planned, applied, events, closed>>

-----------------------------------------------------------------------------
(* The operator and the other clients of the server.                       *)

Edit ==
  /\ specs < MaxSpecs /\ specs' = specs + 1
  /\ desired' \in SUBSET Names /\ prune' \in BOOLEAN
  /\ UNCHANGED <<clients, pc, work, trail, errors>>

Other ==
  /\ others < MaxOthers /\ others' = others + 1
  /\ \E d \in Whole \ System :
       databases' = IF d \in databases THEN databases \ {d} ELSE databases \cup {d}
  /\ UNCHANGED <<specification, pc, work, trail, errors>>

Apply == \E change \in Statements : Skip(change) \/ Commit(change) \/ Abort(change)
Pass == Observe \/ Plan \/ Apply \/ Audit \/ Finish
PassNext == Pass \/ Crash \/ Edit \/ Other

PassSpec == PassInit /\ [][PassNext]_passVars

-----------------------------------------------------------------------------
(* Properties.                                                             *)

PostgresTypeOK ==
  /\ databases \subseteq Names /\ desired \subseteq Names /\ prune \in BOOLEAN
  /\ pc \in {"idle", "observed", "applying", "auditing"}
  /\ status \subseteq Names
  /\ planned \in [names : SUBSET Names, prune : BOOLEAN]
  /\ creates \subseteq Names /\ drops \subseteq Names
  /\ committed \in Statements \cup {<<>>}
  /\ applied \subseteq Statements /\ events \subseteq Statements
  /\ closed \in BOOLEAN
  /\ specs \in Nat /\ others \in Nat /\ errors \in Nat

\* compute_plan: "prune controls whether extras in actual are dropped."  What a
\* pass drops was seen by its own observation, was no part of the specification
\* it planned from, which asked for extras to be dropped, and is no system
\* database: an observation that failed drops nothing, although it looks like
\* an empty server, and neither does one overtaken by another client.
OnlySeenExtrasAreDropped ==
  \A d \in Names : <<"drop", d>> \in applied =>
    d \in (status \ System) \ planned.names /\ planned.prune

\* PostgresPlan: "Creates come before drops so a partial apply leaves the
\* system in a more-converged, not less-converged, state."  Wherever a pass
\* stops, it dropped nothing while a database it found missing was not created.
DropsComeLast ==
  \A d \in Names : <<"drop", d>> \in applied =>
    \A missing \in planned.names \ status : <<"create", missing>> \in applied

Created == {n \in Names : <<"create", n>> \in applied}
Dropped == {n \in Names : <<"drop", n>> \in applied}

\* apply: "every successful DB change is appended here".  The log has an event
\* for every change that was committed and for nothing else, but for the change
\* that is being recorded and one for each append that failed or crash; and
\* "one overall Reconciled event" only of a pass that had something to do and
\* did all of it: every database it found missing, every extra it was to drop.
AuditTellsWhatHappened ==
  /\ events \subseteq applied
  /\ Cardinality(applied \ events) <= errors + (IF pc = "auditing" THEN 1 ELSE 0)
  /\ closed =>
       /\ applied # {}
       /\ Missing(planned.names, status) \subseteq Created
       /\ Extra(planned.names, status, planned.prune) \subseteq Dropped

\* The server is what the pass takes it for: what it observed, and its own
\* changes since.
NotOvertaken ==
  databases \ System = (status \cup {Stored[n] : n \in Created}) \ Dropped

\* The server has what a specification asks for.
Meets(names, pruning) ==
  names \subseteq databases /\ (pruning => databases \ System \subseteq names)

\* Reconciler: "the convergence loop".  A pass that ends on a server nobody else
\* changed since it observed has brought about the specification it planned
\* from, the dropped extras included, whatever earlier passes left half-applied:
\* if no name is too long for PostgreSQL, which no code checks.
PassesBringAbout ==
  [][Finish /\ NotOvertaken /\ planned.names \subseteq Whole
       => Meets(planned.names, planned.prune)]_passVars
=============================================================================
