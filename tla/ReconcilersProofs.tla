------------------------- MODULE ReconcilersProofs -------------------------
(***************************************************************************)
(* Proofs about PostgresReconciler, for any names, finite or not, and any  *)
(* number of edits, other clients' changes and errors: its types, what a   *)
(* pass may drop, the order of its statements, its audit trail, and what a *)
(* pass brings about.  Then about Observations, for any components and any *)
(* number of changes and failures: what a row may say, and the steps by    *)
(* which a badge comes to tell the truth and keeps to it.                  *)
(***************************************************************************)
EXTENDS PostgresReconciler, Observations, FiniteSetTheorems, SequenceTheorems, TLAPS

\* A plan under way: what is left of it comes from what the pass observed and
\* planned from, and every missing database is still to be created or has been.
PlanUnderWay ==
  pc \in {"applying", "auditing"} =>
    /\ creates \subseteq planned.names \ status
    /\ drops \subseteq (status \ System) \ planned.names
    /\ drops # {} => planned.prune
    /\ \A m \in planned.names \ status : m \in creates \/ <<"create", m>> \in applied
    /\ creates \cap Created = {} /\ drops \cap Dropped = {}
    /\ planned.prune => (status \ System) \ planned.names \subseteq drops \cup Dropped

\* A pass that has not planned has done nothing; one under way has not ended.
NothingDoneYet ==
  /\ pc = "observed" => applied = {} /\ events = {}
  /\ pc # "idle" => ~closed

\* The change whose event is due was committed and has none yet.
EventIsDue == pc = "auditing" => committed \in applied \ events

TrailCounted ==
  /\ IsFiniteSet(applied)
  /\ events \subseteq applied
  /\ Cardinality(applied \ events) <= errors + (IF pc = "auditing" THEN 1 ELSE 0)

\* The closing event is that of a pass that did all it had to do.
ClosingIsTrue ==
  closed => /\ applied # {}
            /\ Missing(planned.names, status) \subseteq Created
            /\ Extra(planned.names, status, planned.prune) \subseteq Dropped

PassInv ==
  /\ PostgresTypeOK
  /\ PlanUnderWay
  /\ NothingDoneYet
  /\ OnlySeenExtrasAreDropped
  /\ DropsComeLast
  /\ EventIsDue /\ TrailCounted /\ ClosingIsTrue

-----------------------------------------------------------------------------

\* A committed change without its event more, or less.
LEMMA OneMoreToTell ==
  ASSUME NEW done, IsFiniteSet(done), NEW told, told \subseteq done, NEW change
  PROVE  /\ IsFiniteSet(done \cup {change})
         /\ Cardinality(done \ told) \in Nat
         /\ Cardinality((done \cup {change}) \ told) <= Cardinality(done \ told) + 1
<1>1. IsFiniteSet(done \cup {change})
  BY FS_AddElement
<1>2. IsFiniteSet(done \ told) /\ Cardinality(done \ told) \in Nat
  BY FS_Subset, FS_CardinalityType
<1>3. CASE change \in done \/ change \in told
  <2>1. (done \cup {change}) \ told = done \ told
    BY <1>3
  <2>2. Cardinality((done \cup {change}) \ told) = Cardinality(done \ told)
    BY <2>1
  <2> QED BY <1>1, <1>2, <2>2
<1>4. CASE change \notin done /\ change \notin told
  <2>1. (done \cup {change}) \ told = (done \ told) \cup {change}
    BY <1>4
  <2>2. Cardinality((done \ told) \cup {change}) = Cardinality(done \ told) + 1
    BY <1>2, <1>4, FS_AddElement
  <2> QED BY <1>1, <1>2, <2>1, <2>2
<1> QED BY <1>3, <1>4

LEMMA OneLessToTell ==
  ASSUME NEW done, IsFiniteSet(done), NEW told, NEW change \in done \ told
  PROVE  /\ Cardinality(done \ told) \in Nat /\ Cardinality(done \ (told \cup {change})) \in Nat
         /\ Cardinality(done \ (told \cup {change})) = Cardinality(done \ told) - 1
<1>1. IsFiniteSet(done \ told) /\ done \ (told \cup {change}) = (done \ told) \ {change}
  BY FS_Subset
<1> QED BY <1>1, FS_RemoveElement, FS_CardinalityType, FS_Subset

-----------------------------------------------------------------------------
(* The steps.                                                              *)

LEMMA InitKeeps == ASSUME PassInit PROVE PassInv
<1>1. PostgresTypeOK
  BY PostgresAssumption DEF PassInit, PostgresTypeOK, Whole
<1>2. IsFiniteSet({}) /\ Cardinality({} \ {}) = 0
  BY FS_EmptySet
<1>3. TrailCounted
  BY <1>2 DEF PassInit, TrailCounted
<1> QED
  BY <1>1, <1>3 DEF PassInit, PassInv, PlanUnderWay, NothingDoneYet, EventIsDue,
     OnlySeenExtrasAreDropped, DropsComeLast, ClosingIsTrue

LEMMA ObserveKeeps == ASSUME PassInv, Observe PROVE PassInv'
<1>1. PostgresTypeOK'
  <2>1. /\ status' \subseteq Names /\ errors' \in Nat
        /\ pc' = "observed" /\ applied' = {} /\ events' = {} /\ closed' = FALSE
        /\ UNCHANGED <<databases, others, desired, prune, specs, planned, creates, drops,
                       committed>>
    BY DEF PassInv, PostgresTypeOK, Observe, Erring, clients, specification
  <2> QED BY <2>1 DEF PassInv, PostgresTypeOK
<1>2. /\ pc' = "observed" /\ applied' = {} /\ events' = {} /\ ~closed' /\ errors' \in Nat
  BY <1>1 DEF Observe, PostgresTypeOK
<1>3. IsFiniteSet({}) /\ Cardinality({} \ {}) = 0
  BY FS_EmptySet
<1>4. TrailCounted'
  BY <1>2, <1>3 DEF TrailCounted
<1> QED
  BY <1>1, <1>2, <1>4 DEF PassInv, PlanUnderWay, NothingDoneYet, OnlySeenExtrasAreDropped,
     DropsComeLast, EventIsDue, ClosingIsTrue

LEMMA PlanKeeps == ASSUME PassInv, Plan PROVE PassInv'
<1>1. PostgresTypeOK'
  BY DEF PassInv, PostgresTypeOK, Plan, Missing, Extra, clients, specification, trail
<1>2. /\ pc = "observed" /\ pc' \in {"idle", "applying"} /\ ~closed'
      /\ applied = {} /\ applied' = {} /\ events' = {} /\ errors' = errors
      /\ status' = status /\ planned' = [names |-> desired, prune |-> prune]
      /\ pc' = "applying" =>
           creates' = desired \ status /\ drops' = Extra(desired, status, prune)
  BY DEF PassInv, NothingDoneYet, Plan, Missing, trail
<1>3. PlanUnderWay'
  BY <1>2 DEF PlanUnderWay, Extra, Created, Dropped
<1>4. TrailCounted'
  <2>1. events = {}
    BY <1>2 DEF PassInv, NothingDoneYet
  <2> QED BY <1>2, <2>1 DEF PassInv, TrailCounted
<1> QED
  BY <1>1, <1>2, <1>3, <1>4 DEF PassInv, NothingDoneYet, OnlySeenExtrasAreDropped,
     DropsComeLast, EventIsDue, ClosingIsTrue

\* Steps that end a pass, or leave all but the server, the specification and
\* the error count alone.
LEMMA NothingCommitted ==
  ASSUME PassInv, PostgresTypeOK', UNCHANGED <<status, planned, applied, events, closed>>,
         \/ pc' = "idle"
         \/ pc' = pc /\ UNCHANGED <<creates, drops, committed>>,
         errors' >= errors + (IF pc = "auditing" /\ pc' # "auditing" THEN 1 ELSE 0)
  PROVE  PassInv'
<1>. USE DEF PassInv
<1>1. PlanUnderWay' /\ NothingDoneYet' /\ EventIsDue'
  BY DEF PlanUnderWay, NothingDoneYet, EventIsDue, Created, Dropped
<1>2. OnlySeenExtrasAreDropped' /\ DropsComeLast' /\ ClosingIsTrue'
  BY DEF OnlySeenExtrasAreDropped, DropsComeLast, ClosingIsTrue, Created, Dropped, Missing, Extra
<1>3. TrailCounted'
  <2>1. Cardinality(applied \ events) \in Nat /\ errors \in Nat /\ errors' \in Nat
    BY FS_Subset, FS_CardinalityType DEF TrailCounted, PostgresTypeOK
  <2> QED BY <2>1 DEF TrailCounted
<1> QED BY <1>1, <1>2, <1>3

LEMMA SkipKeeps ==
  ASSUME PassInv, NEW change \in Statements, Skip(change) PROVE PassInv'
<1>. USE DEF PassInv
<1>1. /\ pc = "applying" /\ pc' = "applying" /\ change[1] = "drop"
      /\ creates' = creates /\ drops' = drops \ {change[2]}
      /\ change[2] \in System
      /\ UNCHANGED <<databases, others, desired, prune, specs, status, planned, applied,
                     committed, events, closed, errors>>
  BY DEF Skip, Planned, clients, specification, trail
<1>2. PostgresTypeOK' /\ NothingDoneYet'
  BY <1>1 DEF PostgresTypeOK, NothingDoneYet
<1>3. PlanUnderWay'
  BY <1>1 DEF PlanUnderWay, Created, Dropped
<1>4. OnlySeenExtrasAreDropped' /\ DropsComeLast' /\ TrailCounted' /\ EventIsDue'
  BY <1>1 DEF OnlySeenExtrasAreDropped, DropsComeLast, TrailCounted, EventIsDue
<1>5. ClosingIsTrue'
  BY <1>1 DEF NothingDoneYet, ClosingIsTrue
<1> QED BY <1>2, <1>3, <1>4, <1>5

LEMMA CommitKeeps ==
  ASSUME PassInv, NEW change \in Statements, Commit(change) PROVE PassInv'
<1>. USE DEF PassInv
<1>1. PICK verb \in {"create", "drop"}, d \in Names : change = <<verb, d>>
  BY DEF Statements
<1>2. /\ pc = "applying" /\ pc' = "auditing" /\ applied' = applied \cup {change}
      /\ committed' = change
      /\ \/ /\ verb = "create" /\ d \in creates
            /\ creates' = creates \ {d} /\ drops' = drops
         \/ /\ verb = "drop" /\ creates = {} /\ d \in drops
            /\ creates' = creates /\ drops' = drops \ {d}
      /\ databases' = databases \cup {Stored[d]} \/ databases' = databases \ {Stored[d]}
      /\ UNCHANGED <<others, desired, prune, specs, status, planned, events, closed, errors>>
  BY <1>1 DEF Commit, Turn, Planned, specification
<1>3. PostgresTypeOK'
  <2>1. Stored[d] \in Names
    BY PostgresAssumption
  <2> QED BY <1>2, <2>1 DEF PostgresTypeOK
<1>4. PlanUnderWay'
  <2>1. CASE verb = "create"
    <3>1. Created' = Created \cup {d} /\ Dropped' = Dropped
      BY <1>1, <1>2, <2>1 DEF Created, Dropped
    <3> QED BY <1>1, <1>2, <2>1, <3>1 DEF PlanUnderWay
  <2>2. CASE verb = "drop"
    <3>1. Created' = Created /\ Dropped' = Dropped \cup {d}
      BY <1>1, <1>2, <2>2 DEF Created, Dropped
    <3> QED BY <1>1, <1>2, <2>2, <3>1 DEF PlanUnderWay
  <2> QED BY <2>1, <2>2
<1>8. NothingDoneYet' /\ EventIsDue' /\ ClosingIsTrue'
  <2>1. ~closed
    BY <1>2 DEF NothingDoneYet
  <2>2. change \notin applied
    BY <1>1, <1>2 DEF PlanUnderWay, Created, Dropped
  <2> QED BY <1>2, <2>1, <2>2 DEF NothingDoneYet, EventIsDue, ClosingIsTrue, TrailCounted
<1>5. OnlySeenExtrasAreDropped'
  BY <1>1, <1>2 DEF OnlySeenExtrasAreDropped, PlanUnderWay
<1>6. DropsComeLast'
  BY <1>1, <1>2 DEF DropsComeLast, PlanUnderWay
<1>7. TrailCounted'
  <2>1. /\ IsFiniteSet(applied \cup {change}) /\ Cardinality(applied \ events) \in Nat
        /\ Cardinality((applied \cup {change}) \ events) <= Cardinality(applied \ events) + 1
    BY OneMoreToTell DEF TrailCounted
  <2>2. errors \in Nat /\ Cardinality((applied \cup {change}) \ events) \in Nat
    BY <2>1, FS_Subset, FS_CardinalityType DEF PostgresTypeOK
  <2> QED BY <1>2, <2>1, <2>2 DEF TrailCounted
<1> QED BY <1>3, <1>4, <1>5, <1>6, <1>7, <1>8

LEMMA AuditKeeps == ASSUME PassInv, Audit PROVE PassInv'
<1>. USE DEF PassInv
<1>1. /\ pc = "auditing" /\ pc' = "applying" /\ committed' = <<>> /\ ~closed
      /\ UNCHANGED <<databases, others, desired, prune, specs, status, planned, creates, drops,
                     applied, closed>>
  BY DEF Audit, clients, specification, work, NothingDoneYet
<1>2. PlanUnderWay' /\ NothingDoneYet' /\ OnlySeenExtrasAreDropped' /\ DropsComeLast'
  BY <1>1 DEF PlanUnderWay, NothingDoneYet, OnlySeenExtrasAreDropped, DropsComeLast, Created,
              Dropped
<1>3. errors \in Nat /\ Cardinality(applied \ events) \in Nat
      /\ Cardinality(applied \ events) <= errors + 1 /\ events \subseteq applied
  BY <1>1, FS_Subset, FS_CardinalityType DEF PostgresTypeOK, TrailCounted
<1>6. EventIsDue' /\ ClosingIsTrue'
  BY <1>1 DEF EventIsDue, ClosingIsTrue
<1>4. CASE events' = events /\ Erring
  BY <1>1, <1>2, <1>3, <1>4, <1>6 DEF Erring, PostgresTypeOK, TrailCounted
<1>5. CASE events' = events \cup {committed} /\ errors' = errors
  <2>1. committed \in applied \ events
    BY <1>1 DEF EventIsDue
  <2>2. /\ Cardinality(applied \ (events \cup {committed})) \in Nat
        /\ Cardinality(applied \ (events \cup {committed})) = Cardinality(applied \ events) - 1
    BY <2>1, OneLessToTell DEF TrailCounted
  <2>3. TrailCounted'
    BY <1>1, <1>3, <1>5, <2>1, <2>2 DEF TrailCounted
  <2>4. PostgresTypeOK'
    BY <1>1, <1>5, <2>1 DEF PostgresTypeOK
  <2> QED BY <1>2, <1>6, <2>3, <2>4
<1> QED BY <1>4, <1>5 DEF Audit

\* The end of a pass closes its trail with what it did.
LEMMA FinishKeeps == ASSUME PassInv, Finish PROVE PassInv'
<1>. USE DEF PassInv
<1>1. /\ pc = "applying" /\ pc' = "idle" /\ creates = {} /\ drops = {} /\ ~closed
      /\ UNCHANGED <<databases, others, desired, prune, specs, status, planned, creates, drops,
                     committed, applied, events>>
      /\ \/ closed' = ~Nothing /\ errors' = errors
         \/ closed' = closed /\ errors' = errors + 1
  BY DEF Finish, clients, specification, work, NothingDoneYet, Erring
<1>2. PostgresTypeOK'
  <2>1. closed' \in BOOLEAN
    <3>1. closed \in BOOLEAN
      BY DEF PostgresTypeOK
    <3> QED BY <1>1, <3>1
  <2>2. errors' \in Nat
    BY <1>1 DEF PostgresTypeOK
  <2> QED BY <1>1, <2>1, <2>2 DEF PostgresTypeOK
<1>3. /\ PlanUnderWay' /\ NothingDoneYet' /\ EventIsDue'
      /\ OnlySeenExtrasAreDropped' /\ DropsComeLast'
  BY <1>1 DEF PlanUnderWay, NothingDoneYet, EventIsDue, OnlySeenExtrasAreDropped, DropsComeLast
<1>4. TrailCounted'
  <2>1. Cardinality(applied \ events) \in Nat /\ errors \in Nat
    BY FS_Subset, FS_CardinalityType DEF TrailCounted, PostgresTypeOK
  <2> QED BY <1>1, <2>1 DEF TrailCounted
<1>5. /\ Missing(planned.names, status) \subseteq Created
      /\ Extra(planned.names, status, planned.prune) \subseteq Dropped
  BY <1>1 DEF PlanUnderWay, Missing, Extra, Created, PostgresTypeOK
<1>6. ~Nothing => applied # {}
  BY <1>5 DEF Nothing, Created, Dropped
<1>7. ClosingIsTrue'
  BY <1>1, <1>5, <1>6 DEF ClosingIsTrue, Created, Dropped, Missing, Extra
<1> QED BY <1>2, <1>3, <1>4, <1>7

LEMMA StepKeeps == PassInv /\ [PassNext]_passVars => PassInv'
<1>. SUFFICES ASSUME PassInv, [PassNext]_passVars PROVE PassInv'
  OBVIOUS
<1>. errors \in Nat
  BY DEF PassInv, PostgresTypeOK
<1>1. ASSUME NEW change \in Statements, Abort(change) PROVE PassInv'
  <2>1. PostgresTypeOK'
    BY <1>1 DEF PassInv, PostgresTypeOK, Abort, Erring, clients, specification, trail
  <2> QED BY <1>1, <2>1, NothingCommitted DEF Abort, Erring, trail
<1>3. CASE Crash
  <2>1. PostgresTypeOK'
    BY <1>3 DEF PassInv, PostgresTypeOK, Crash, Erring, clients, specification
  <2> QED BY <1>3, <2>1, NothingCommitted DEF Crash, Erring
<1>4. CASE Edit
  <2>1. PostgresTypeOK'
    BY <1>4 DEF PassInv, PostgresTypeOK, Edit, clients, work, trail
  <2> QED BY <1>4, <2>1, NothingCommitted DEF Edit, work, trail
<1>5. CASE Other
  <2>1. PostgresTypeOK'
    <3>1. databases' \subseteq databases \cup Whole
      BY <1>5 DEF Other
    <3> QED BY <1>5, <3>1 DEF PassInv, PostgresTypeOK, Other, specification, work, trail, Whole
  <2> QED BY <1>5, <2>1, NothingCommitted DEF Other, work, trail
<1>6. CASE UNCHANGED passVars
  <2>1. PostgresTypeOK'
    BY <1>6 DEF PassInv, PostgresTypeOK, passVars, clients, specification, work, trail
  <2> QED BY <1>6, <2>1, NothingCommitted DEF passVars, work, trail
<1> QED
  BY <1>1, <1>3, <1>4, <1>5, <1>6, ObserveKeeps, PlanKeeps, SkipKeeps, CommitKeeps,
     AuditKeeps, FinishKeeps DEF PassNext, Pass, Apply

-----------------------------------------------------------------------------

\* The server's databases, the specification and the pass keep their types,
\* for any names and any number of edits, errors and other clients' changes.
THEOREM TypeCorrect == PassSpec => []PostgresTypeOK
<1>1. PassInv => PostgresTypeOK
  BY DEF PassInv
<1> QED BY InitKeeps, StepKeeps, <1>1, PTL DEF PassSpec

\* Whatever a pass drops it had seen itself, outside the specification it
\* planned from, which asked for pruning, and it is no system database.
THEOREM DropsAreMeant == PassSpec => []OnlySeenExtrasAreDropped
<1>1. PassInv => OnlySeenExtrasAreDropped
  BY DEF PassInv
<1> QED BY InitKeeps, StepKeeps, <1>1, PTL DEF PassSpec

\* Wherever a pass stops, by an error, a crash or at its end, it has dropped
\* nothing before every database it found missing was created.
THEOREM PartialPassesConverge == PassSpec => []DropsComeLast
<1>1. PassInv => DropsComeLast
  BY DEF PassInv
<1> QED BY InitKeeps, StepKeeps, <1>1, PTL DEF PassSpec

\* The audit log has an event for each committed change but one per error and
\* the one being recorded, and none for anything else; and a closing event only
\* of a pass that had something to do and did all of it.
THEOREM TrailIsTrue == PassSpec => []AuditTellsWhatHappened
<1>1. PassInv => AuditTellsWhatHappened
  BY DEF PassInv, TrailCounted, ClosingIsTrue, AuditTellsWhatHappened
<1> QED BY InitKeeps, StepKeeps, <1>1, PTL DEF PassSpec

-----------------------------------------------------------------------------
(* What a pass brings about: one that nobody overtakes issues statements   *)
(* the server accepts, each is one less to issue, its end is the           *)
(* specification it planned from, and the pass after it has nothing to do. *)

\* The system databases stay, and no database has a name PostgreSQL would cut;
\* a pass creates what it planned and what it found missing.
OnCourse ==
  /\ System \subseteq databases
  /\ databases \subseteq Whole /\ status \subseteq Whole
  /\ Created \subseteq planned.names \ status
  /\ pc \in {"applying", "auditing"} => planned.names \cap Unquotable = {}

LEMMA StoredIsWhole == ASSUME NEW n \in Names PROVE Stored[n] \in Whole
BY PostgresAssumption DEF Whole

LEMMA CourseStarts == ASSUME PassInit PROVE OnCourse
BY DEF PassInit, OnCourse, Created

LEMMA CourseIsKept == ASSUME PassInv, OnCourse, [PassNext]_passVars PROVE OnCourse'
<1>1. CASE Observe
  <2>1. /\ databases' = databases /\ applied' = {} /\ pc' = "observed"
        /\ status' \subseteq databases
    BY <1>1 DEF Observe, clients
  <2> QED BY <2>1 DEF OnCourse, Created
<1>2. CASE Plan
  <2>1. /\ databases' = databases /\ status' = status /\ applied' = applied /\ applied = {}
        /\ planned' = [names |-> desired, prune |-> prune]
        /\ pc' # "idle" => desired \cap Unquotable = {}
    BY <1>2 DEF Plan, clients, trail, PassInv, NothingDoneYet
  <2> QED BY <2>1 DEF OnCourse, Created
<1>3. ASSUME NEW change \in Statements, Skip(change) PROVE OnCourse'
  <2>1. UNCHANGED <<databases, pc, status, planned, applied>>
    BY <1>3 DEF Skip, clients, trail
  <2> QED BY <2>1 DEF OnCourse, Created
<1>4. ASSUME NEW change \in Statements, Commit(change) PROVE OnCourse'
  <2>1. PICK verb \in {"create", "drop"}, d \in Names : change = <<verb, d>>
    BY DEF Statements
  <2>2. /\ pc = "applying" /\ pc' = "auditing" /\ applied' = applied \cup {change}
        /\ planned' = planned /\ status' = status
    BY <1>4 DEF Commit
  <2>3. CASE verb = "create"
    <3>1. d \in creates /\ databases' = databases \cup {Stored[d]}
      BY <1>4, <2>1, <2>3 DEF Commit, Turn
    <3>2. Created' = Created \cup {d}
      BY <2>1, <2>2, <2>3 DEF Created
    <3>3. d \in planned.names \ status
      BY <2>2, <3>1 DEF PassInv, PlanUnderWay
    <3> QED BY <2>2, <3>1, <3>2, <3>3, StoredIsWhole DEF OnCourse
  <2>4. CASE verb = "drop"
    <3>1. d \in drops /\ d \notin System /\ databases' = databases \ {Stored[d]}
      BY <1>4, <2>1, <2>4 DEF Commit, Turn
    <3>2. Created' = Created
      BY <2>1, <2>2, <2>4 DEF Created
    <3>3. Stored[d] = d
      BY <2>2, <3>1 DEF PassInv, PlanUnderWay, OnCourse, Whole
    <3> QED BY <2>2, <3>1, <3>2, <3>3 DEF OnCourse
  <2> QED BY <2>3, <2>4
<1>5. CASE (\E change \in Statements : Abort(change)) \/ Crash
  BY <1>5 DEF Abort, Crash, clients, trail, OnCourse, Created
<1>6. CASE Audit \/ Finish \/ UNCHANGED passVars
  <2>1. /\ UNCHANGED <<databases, status, planned, applied>>
        /\ pc' \in {"applying", "auditing"} => pc \in {"applying", "auditing"}
    BY <1>6 DEF Audit, Finish, clients, work, passVars, trail
  <2> QED BY <2>1 DEF OnCourse, Created
<1>7. CASE Edit \/ Other
  <2>1. /\ UNCHANGED <<pc, status, planned, applied>>
        /\ System \subseteq databases' /\ databases' \subseteq databases \cup Whole
    BY <1>7 DEF Edit, Other, clients, work, trail, OnCourse
  <2> QED BY <2>1 DEF OnCourse, Created
<1> QED
  BY <1>1, <1>2, <1>3, <1>4, <1>5, <1>6, <1>7 DEF PassNext, Pass, Apply

LEMMA CourseHolds == PassSpec => [](PassInv /\ OnCourse)
<1>1. PassInit => PassInv /\ OnCourse
  BY InitKeeps, CourseStarts
<1>2. PassInv /\ OnCourse /\ [PassNext]_passVars => (PassInv /\ OnCourse)'
  BY StepKeeps, CourseIsKept
<1> QED BY <1>1, <1>2, PTL DEF PassSpec

\* Among names PostgreSQL keeps whole, what was created is there as it was named.
LEMMA WholeIsKept ==
  ASSUME PassInv, OnCourse, planned.names \subseteq Whole
  PROVE  {Stored[n] : n \in Created} = Created
<1>1. \A n \in Created : Stored[n] = n
  BY DEF OnCourse, Whole
<1> QED BY <1>1

\* The convergence loop, one pass: whatever happened before, a pass that ends
\* on a server nobody else changed since it observed has brought about the
\* specification it planned from, extras included if they were to be pruned,
\* for any names, provided PostgreSQL keeps the planned ones whole.
THEOREM PassesDoBringAbout == PassSpec => PassesBringAbout
<1>1. ASSUME PassInv, OnCourse, Finish, NotOvertaken, planned.names \subseteq Whole
      PROVE  Meets(planned.names, planned.prune)
  <2>1. pc = "applying" /\ creates = {} /\ drops = {}
    BY <1>1 DEF Finish
  <2>2. planned.names \subseteq Names /\ Dropped \cap planned.names = {} /\ Created \subseteq planned.names
    BY <1>1 DEF PassInv, PostgresTypeOK, OnlySeenExtrasAreDropped, Dropped, OnCourse
  <2>3. planned.names \subseteq status \cup Created
    BY <1>1, <2>1, <2>2 DEF PassInv, PlanUnderWay, Created
  <2>6. databases \ System = (status \cup Created) \ Dropped
    BY <1>1, WholeIsKept DEF NotOvertaken
  <2>4. planned.names \subseteq databases
    BY <2>2, <2>3, <2>6
  <2>5. planned.prune => (status \ System) \ planned.names \subseteq Dropped
    BY <1>1, <2>1 DEF PassInv, PlanUnderWay
  <2> QED BY <2>2, <2>4, <2>5, <2>6 DEF Meets
<1>2. PassInv /\ OnCourse =>
        (Finish /\ NotOvertaken /\ planned.names \subseteq Whole
           => Meets(planned.names, planned.prune))
  BY <1>1
<1> QED BY <1>2, CourseHolds, PTL DEF PassesBringAbout

\* Only another client overtakes a pass: no statement of its own, no audit
\* event, no edit of the specification and no crash does; and a pass starts
\* from what is so, unless its observation failed.
THEOREM OnlyOthersOvertake ==
  PassSpec => [][/\ Observe => NotOvertaken' \/ Erring
                 /\ NotOvertaken /\ ~Observe /\ ~Other => NotOvertaken']_passVars
<1>. DEFINE Kept == /\ Observe => NotOvertaken' \/ Erring
                    /\ NotOvertaken /\ ~Observe /\ ~Other => NotOvertaken'
<1>1. ASSUME PassInv, OnCourse, [PassNext]_passVars PROVE Kept
  <2>1. ASSUME Observe, ~Erring PROVE NotOvertaken'
    <3>1. status' = databases \ System /\ databases' = databases /\ applied' = {}
      BY <2>1 DEF Observe, clients
    <3>2. Created' = {} /\ Dropped' = {}
      BY <3>1 DEF Created, Dropped
    <3> QED BY <3>1, <3>2 DEF NotOvertaken
  <2>2. ASSUME NEW change \in Statements, Commit(change), NotOvertaken PROVE NotOvertaken'
    <3>1. PICK verb \in {"create", "drop"}, d \in Names : change = <<verb, d>>
      BY DEF Statements
    <3>2. pc = "applying" /\ applied' = applied \cup {change} /\ status' = status
      BY <2>2 DEF Commit
    <3>3. CASE verb = "create"
      <4>1. /\ d \in creates /\ Stored[d] \notin databases
            /\ databases' = databases \cup {Stored[d]}
        BY <2>2, <3>1, <3>3 DEF Commit, Turn, Accepted
      <4>2. Created' = Created \cup {d} /\ Dropped' = Dropped
        BY <3>1, <3>2, <3>3 DEF Created, Dropped
      <4>3. Dropped = {}
        <5>1. d \in planned.names \ status /\ d \notin Created
          BY <1>1, <3>2, <4>1 DEF PassInv, PlanUnderWay
        <5>2. \A n \in Names : <<"drop", n>> \in applied => <<"create", d>> \in applied
          BY <1>1, <5>1 DEF PassInv, DropsComeLast
        <5> QED BY <3>1, <5>1, <5>2 DEF Created, Dropped
      <4>4. Stored[d] \notin System
        BY <1>1, <4>1 DEF OnCourse
      <4>5. {Stored[n] : n \in Created \cup {d}} = {Stored[n] : n \in Created} \cup {Stored[d]}
        OBVIOUS
      <4>. DEFINE Kept1 == {Stored[n] : n \in Created}
      <4>6. databases \ System = (status \cup Kept1) \ Dropped
        BY <2>2 DEF NotOvertaken
      <4>7. NotOvertaken' = (databases' \ System = (status' \cup (Kept1 \cup {Stored[d]})) \ Dropped')
        BY <4>2, <4>5 DEF NotOvertaken
      <4>. HIDE DEF Kept1
      <4> QED BY <3>2, <4>1, <4>2, <4>3, <4>4, <4>6, <4>7
    <3>4. CASE verb = "drop"
      <4>1. d \in drops /\ databases' = databases \ {Stored[d]}
        BY <2>2, <3>1, <3>4 DEF Commit, Turn
      <4>2. Created' = Created /\ Dropped' = Dropped \cup {d}
        BY <3>1, <3>2, <3>4 DEF Created, Dropped
      <4>3. Stored[d] = d
        BY <1>1, <3>2, <4>1 DEF PassInv, PlanUnderWay, OnCourse, Whole
      <4> QED BY <2>2, <3>2, <4>1, <4>2, <4>3 DEF NotOvertaken
    <3> QED BY <3>3, <3>4
  <2>3. ASSUME UNCHANGED <<databases, status, applied>>, NotOvertaken PROVE NotOvertaken'
    BY <2>3 DEF NotOvertaken, Created, Dropped
  <2>4. PassNext => \/ Observe \/ Other \/ UNCHANGED <<databases, status, applied>>
                    \/ \E change \in Statements : Commit(change)
    BY DEF PassNext, Pass, Plan, Apply, Skip, Abort, Audit, Finish, Crash, Edit, clients, work,
           trail
  <2>5. UNCHANGED passVars => UNCHANGED <<databases, status, applied>>
    BY DEF passVars, clients, work, trail
  <2> QED BY <1>1, <2>1, <2>2, <2>3, <2>4, <2>5
<1>2. PassInv /\ OnCourse /\ [PassNext]_passVars => Kept
  BY <1>1
<1> QED BY <1>2, CourseHolds, PTL DEF PassSpec

\* A pass that nobody overtook, with no name in its plan that the reconciler
\* leaves out of what it observes or refuses to quote, or that PostgreSQL cuts,
\* only issues statements the server accepts: an error of the server's own is
\* all that can stop it.
THEOREM StatementsAreAccepted ==
  PassSpec => [](/\ pc = "applying" /\ NotOvertaken /\ planned.names \subseteq Whole
                 /\ planned.names \cap System = {} /\ drops \cap Unquotable = {}
                 => \A change \in Turn : Accepted(change))
<1>. DEFINE Fit == /\ pc = "applying" /\ NotOvertaken /\ planned.names \subseteq Whole
                   /\ planned.names \cap System = {} /\ drops \cap Unquotable = {}
<1>1. ASSUME PassInv, OnCourse, Fit, NEW change \in Turn PROVE Accepted(change)
  <2>1. /\ creates \subseteq planned.names \ status /\ creates \cap Created = {}
        /\ drops \subseteq (status \ System) \ planned.names /\ drops \cap Dropped = {}
        /\ planned.names \cap Unquotable = {}
        /\ databases \ System = (status \cup Created) \ Dropped
        /\ planned.names \subseteq Whole /\ status \subseteq Whole
    BY <1>1, WholeIsKept DEF PassInv, PlanUnderWay, OnCourse, NotOvertaken
  <2>2. CASE creates # {}
    <3>1. PICK d \in creates : change = <<"create", d>>
      BY <2>2 DEF Turn
    <3>2. d \notin databases \ System /\ d \notin System /\ Stored[d] = d
      BY <1>1, <2>1 DEF Whole
    <3> QED BY <2>1, <3>1, <3>2 DEF Accepted
  <2>3. CASE creates = {}
    <3>1. PICK d \in drops : change = <<"drop", d>>
      BY <2>3 DEF Turn
    <3>2. d \in databases /\ Stored[d] = d
      BY <1>1, <2>1 DEF Whole
    <3> QED BY <1>1, <3>1, <3>2 DEF Accepted
  <2> QED BY <2>2, <2>3
<1>2. PassInv /\ OnCourse => (Fit => \A change \in Turn : Accepted(change))
  BY <1>1
<1> QED BY <1>2, CourseHolds, PTL

\* Each statement a pass issues is one less in its plan, and nothing is ever
\* added to a plan under way; so a pass has as many statements as its plan.
THEOREM PlansRunDown ==
  PassSpec => [][/\ Apply => \/ pc' = "idle"
                             \/ \E change \in Turn :
                                  {"create"} \X creates' \cup {"drop"} \X drops' =
                                    ({"create"} \X creates \cup {"drop"} \X drops) \ {change}
                 /\ ~Plan => creates' \subseteq creates /\ drops' \subseteq drops]_passVars
<1>. DEFINE RunsDown == \/ pc' = "idle"
                        \/ \E change \in Turn :
                             {"create"} \X creates' \cup {"drop"} \X drops' =
                               ({"create"} \X creates \cup {"drop"} \X drops) \ {change}
            Adds == /\ Apply => RunsDown
                    /\ ~Plan => creates' \subseteq creates /\ drops' \subseteq drops
<1>1. ASSUME NEW change \in Statements, change \in Turn, Planned(change) PROVE RunsDown
  <2>1. PICK verb \in {"create", "drop"}, d \in Names : change = <<verb, d>>
    BY DEF Statements
  <2>2. CASE verb = "create"
    BY <1>1, <2>1, <2>2 DEF Planned
  <2>3. CASE verb = "drop"
    BY <1>1, <2>1, <2>3 DEF Planned
  <2> QED BY <2>2, <2>3
<1>2. Apply => RunsDown
  <2> SUFFICES ASSUME NEW change \in Statements, Skip(change) \/ Commit(change) \/ Abort(change)
               PROVE  RunsDown
    BY DEF Apply
  <2>1. CASE Abort(change)
    BY <2>1 DEF Abort
  <2>2. CASE Skip(change) \/ Commit(change)
    <3>1. change \in Turn /\ Planned(change)
      BY <2>2 DEF Skip, Commit
    <3>. HIDE DEF RunsDown
    <3> QED BY <1>1, <3>1
  <2> QED BY <2>1, <2>2
<1>3. [PassNext]_passVars /\ ~Plan => creates' \subseteq creates /\ drops' \subseteq drops
  BY DEF PassNext, Pass, Observe, Apply, Skip, Commit, Abort, Audit, Finish, Crash, Edit, Other,
         Planned, work, trail, passVars
<1>4. [PassNext]_passVars => Adds
  BY <1>2, <1>3
<1> QED BY <1>4, PTL DEF PassSpec

\* A server that has what the specification asks for, and that its observation
\* told the truth about, is left alone: the plan is empty.
THEOREM ConvergedIsLeftAlone ==
  PassSpec => [][/\ Plan /\ NotOvertaken
                 /\ desired \cap System = {} /\ Meets(desired, prune)
                 => creates' = {} /\ drops' = {}]_passVars
<1>. DEFINE Still == /\ Plan /\ NotOvertaken
                     /\ desired \cap System = {} /\ Meets(desired, prune)
                     => creates' = {} /\ drops' = {}
<1>1. ASSUME PassInv, Plan, NotOvertaken, desired \cap System = {}, Meets(desired, prune)
      PROVE  creates' = {} /\ drops' = {}
  <2>1. applied = {}
    BY <1>1 DEF PassInv, NothingDoneYet, Plan
  <2>2. status = databases \ System
    <3>1. Created = {} /\ Dropped = {}
      BY <2>1 DEF Created, Dropped
    <3> QED BY <1>1, <3>1 DEF NotOvertaken
  <2> QED BY <1>1, <2>2 DEF Plan, Missing, Extra, Meets
<1>2. PassInv /\ OnCourse => Still
  BY <1>1
<1> QED BY <1>2, CourseHolds, PTL

-----------------------------------------------------------------------------
(* What a tick finds.  TruthIsShown is a promise of many ticks; these are  *)
(* the steps it takes, with no fairness and no bound.  What a badge ought  *)
(* to say is what its reconciler can tell (Due): for sail and trino that   *)
(* the server takes a connection, which one that hangs still does.         *)

\* What an observation can have found of a component, or a row can say of it:
\* failed only if there is a request it cannot do without, a version only if
\* there is one that tells it, and never both.
Credible(c, found) ==
  /\ found.failed => Detects(c) /\ ~found.version
  /\ found.version => Reconciler(c).version # "none"

RowsAreCredible ==
  \A c \in Components :
    row[c] # None /\ row[c].status # None => Credible(c, row[c].status)

\* An observation under way stands at a request of its snapshot or behind the
\* last one, and behind the last one if it has failed.
Underway(ob) ==
  /\ ob.at \in 1..Len(Reconciler(ob.on).requests) + 1
  /\ ob.failed => ob.at = Len(Reconciler(ob.on).requests) + 1
  /\ Credible(ob.on, ob)

Observation ==
  [on : Components \cup {None}, at : Nat, failed : BOOLEAN, version : BOOLEAN]

Observing ==
  /\ observer \in [Observers -> Observation]
  /\ \A o \in Observers : observer[o].on # None => Underway(observer[o])

\* The types of what an observation does not change.
Around ==
  /\ server \in [Components -> Servers]
  /\ token \in BOOLEAN /\ next \in DOMAIN Order
  /\ changes \in Nat /\ faults \in Nat

TickInv ==
  /\ Around
  /\ row \in [Components -> Rows \cup {None}] /\ RowsAreCredible
  /\ Observing

\* An observation has seen the server as it is: no request so far that it
\* cannot do without would fare otherwise now.
Sees(o, c) ==
  /\ observer[o].on = c
  /\ IF observer[o].failed THEN \E r \in Reconciler(c).required : Fails(c, r)
     ELSE \A i \in 1..observer[o].at - 1 : ~Fails(c, Reconciler(c).requests[i])

\* A badge says what is so, and so will whoever is about to write it.
Current(c) ==
  Badge(c) = Due(c) /\ \A o \in Observers : observer[o].on = c => Sees(o, c)

\* What an observation has left to do: its requests, and the write.
Left(o) ==
  IF observer[o].on = None THEN 0
  ELSE Len(Reconciler(observer[o].on).requests) + 2 - observer[o].at

\* A reconciler makes one to four requests, those it cannot do without among
\* them, and none of them is "none".
Sound(rec) ==
  /\ Len(rec.requests) \in 1..4
  /\ \A r \in rec.required : \E i \in 1..Len(rec.requests) : rec.requests[i] = r
  /\ \A i \in 1..Len(rec.requests) : rec.requests[i] # "none"

LEMMA RestIsSound ==
  ASSUME NEW requests, Len(requests) \in 1..4,
         \A i \in 1..Len(requests) : requests[i] # "none", NEW version
  PROVE  Sound(Rest(requests, version))
BY DEF Rest, Sound

LEMMA PairIsSound ==
  ASSUME NEW a, NEW b, a # "none", b # "none", NEW version
  PROVE  Sound(Rest(<<a, b>>, version))
<1>. DEFINE q == <<a, b>>
<1>1. Len(q) = 2 /\ q[1] = a /\ q[2] = b
  OBVIOUS
<1>. HIDE DEF q
<1>2. \A i \in 1..Len(q) : q[i] # "none"
  BY <1>1
<1>3. Sound(Rest(q, version))
  BY <1>1, <1>2, RestIsSound
<1> QED BY <1>3 DEF q

LEMMA TripleIsSound ==
  ASSUME NEW a, NEW b, NEW c, a # "none", b # "none", c # "none", NEW version
  PROVE  Sound(Rest(<<a, b, c>>, version))
<1>. DEFINE q == <<a, b, c>>
<1>1. Len(q) = 3 /\ q[1] = a /\ q[2] = b /\ q[3] = c
  OBVIOUS
<1>. HIDE DEF q
<1>2. \A i \in 1..Len(q) : q[i] # "none"
  BY <1>1
<1>3. Sound(Rest(q, version))
  BY <1>1, <1>2, RestIsSound
<1> QED BY <1>3 DEF q

LEMMA KanidmIsSound == Sound(Kanidm)
<1>. DEFINE q == <<"system", "group", "person">>
<1>1. Kanidm = [Rest(q, "system") EXCEPT !.required = {"system"}, !.absent = {"system"}]
  BY DEF Kanidm
<1>2. Rest(q, "system") = [requests |-> q, required |-> {}, absent |-> {}, version |-> "system",
                          gives_up |-> {}]
  BY DEF Rest
<1>3. Kanidm.requests = q /\ Kanidm.required = {"system"}
  <2>. HIDE DEF q
  <2> QED BY <1>1, <1>2
<1>4. Len(q) = 3 /\ q[1] = "system" /\ q[2] = "group" /\ q[3] = "person"
  OBVIOUS
<1>. HIDE DEF q
<1>5. \A i \in 1..Len(q) : q[i] # "none"
  BY <1>4
<1>6. 1 \in 1..Len(q)
  BY <1>4
<1> QED BY <1>3, <1>4, <1>5, <1>6 DEF Sound

LEMMA PostgresIsSound == Sound(Postgres)
<1>. DEFINE q == <<"acquire", "version", "acquire", "databases">>
<1>1. Postgres.requests = q /\ Postgres.required = {"acquire", "version", "databases"}
  BY DEF Postgres
<1>2. Len(q) = 4 /\ q[1] = "acquire" /\ q[2] = "version" /\ q[3] = "acquire" /\ q[4] = "databases"
  OBVIOUS
<1>. HIDE DEF q
<1>3. \A i \in 1..Len(q) : q[i] # "none"
  BY <1>2
<1>4. 1 \in 1..Len(q) /\ 2 \in 1..Len(q) /\ 4 \in 1..Len(q)
  BY <1>2
<1> QED BY <1>1, <1>2, <1>3, <1>4 DEF Sound

LEMMA TcpIsSound == Sound(Tcp)
<1>. DEFINE q == <<"connect">>
<1>1. Tcp.requests = q /\ Tcp.required = {"connect"}
  BY DEF Tcp
<1>2. Len(q) = 1 /\ q[1] = "connect"
  OBVIOUS
<1>. HIDE DEF q
<1>3. 1 \in 1..Len(q) /\ \A i \in 1..Len(q) : q[i] # "none"
  BY <1>2
<1> QED BY <1>1, <1>2, <1>3 DEF Sound

LEMMA ReconcilerIs == ASSUME NEW c \in Kinds PROVE Sound(Reconciler(c))
<1>1. CASE c \in {"postgres", "kanidm", "sail", "trino"}
  BY <1>1, PostgresIsSound, KanidmIsSound, TcpIsSound DEF Reconciler, Sail, Trino
<1>2. CASE c \in {"garage", "lakekeeper", "databend", "qdrant"}
  <2>1. Sound(Garage) /\ Sound(Lakekeeper)
    BY PairIsSound, TripleIsSound DEF Garage, Lakekeeper
  <2>2. Sound(Databend) /\ Sound(Qdrant)
    BY PairIsSound, TripleIsSound DEF Databend, Qdrant
  <2> QED BY <1>2, <2>1, <2>2 DEF Reconciler
<1>3. CASE c \in {"restate", "greptime", "grafana", "openfga"}
  <2>1. Sound(Restate) /\ Sound(Greptime)
    BY PairIsSound, TripleIsSound DEF Restate, Greptime
  <2>2. Sound(Grafana) /\ Sound(OpenFga)
    BY PairIsSound, TripleIsSound DEF Grafana, OpenFga
  <2> QED BY <1>3, <2>1, <2>2 DEF Reconciler
<1> QED BY <1>1, <1>2, <1>3 DEF Kinds

LEMMA ComponentsAre ==
  /\ Components \subseteq Kinds /\ None \notin Components
  /\ Len(Order) \in Nat \ {0} /\ DOMAIN Order = 1..Len(Order)
<1>1. Order \in Seq(Kinds) /\ Order # <<>> /\ None \notin Kinds
  BY ObservationsAssumption
<1>2. Len(Order) \in Nat /\ DOMAIN Order = 1..Len(Order) /\ \A i \in DOMAIN Order : Order[i] \in Kinds
  BY <1>1
<1>3. Len(Order) # 0
  BY <1>1, EmptySeq
<1> QED BY <1>1, <1>2, <1>3 DEF Components

LEMMA WrapsIsAPlace ==
  ASSUME next \in DOMAIN Order
  PROVE  Wraps \in DOMAIN Order
BY ComponentsAre DEF Wraps

\* An observation that begins has seen nothing yet.
LEMMA BegunIs ==
  ASSUME NEW c \in Components
  PROVE  /\ Begun(c) \in Observation /\ Begun(c).on = c /\ Begun(c).at = 1
         /\ ~Begun(c).failed /\ ~Begun(c).version /\ Underway(Begun(c))
<1>1. /\ Begun(c) \in Observation /\ Begun(c).on = c /\ Begun(c).at = 1
      /\ ~Begun(c).failed /\ ~Begun(c).version
  <2>1. Idle \in Observation /\ ~Idle.failed /\ ~Idle.version
    BY DEF Idle, Observation
  <2>2. \A ob \in Observation :
          LET new == [ob EXCEPT !.on = c, !.at = 1]
          IN /\ new \in Observation /\ new.on = c /\ new.at = 1
             /\ new.failed = ob.failed /\ new.version = ob.version
    BY DEF Observation
  <2> QED BY <2>1, <2>2 DEF Begun
<1>2. Len(Reconciler(c).requests) \in 1..4
  BY ReconcilerIs, ComponentsAre DEF Sound
<1> QED BY <1>1, <1>2 DEF Underway, Credible

LEMMA IdleIs == Idle \in Observation /\ Idle.on = None
BY DEF Idle, Observation

LEMMA TicksStart == ASSUME TickInit PROVE TickInv
<1>1. Around
  BY ComponentsAre DEF TickInit, Around, Servers
<1>2. row \in [Components -> Rows \cup {None}] /\ RowsAreCredible
  <2>1. \A readable \in BOOLEAN :
          Unobserved(readable) \in Rows /\ Unobserved(readable).status = None
    BY DEF Unobserved, Rows
  <2> QED BY <2>1 DEF TickInit, RowsAreCredible
<1>3. Observing
  BY IdleIs DEF TickInit, Observing
<1> QED BY <1>1, <1>2, <1>3 DEF TickInv

\* One request, and what it makes of the observation.
Asked(o) ==
  LET ob == observer[o]
      rec == Reconciler(ob.on)
      r == rec.requests[ob.at]
  IN IF Fails(ob.on, r)
     THEN [ob EXCEPT !.at = Len(rec.requests) + 1, !.failed = TRUE, !.version = FALSE]
     ELSE [ob EXCEPT !.at = @ + 1, !.version = @ \/ (Answers(ob.on, r) /\ r = rec.version)]

LEMMA RequestAsks ==
  ASSUME TickInv, NEW o \in Observers, Request(o)
  PROVE  /\ observer' = [observer EXCEPT ![o] = Asked(o)]
         /\ observer[o].on # None /\ observer[o].on \in Components
         /\ observer[o].at \in 1..Len(Reconciler(observer[o].on).requests)
         /\ ~observer[o].failed
         /\ UNCHANGED <<server, token, row, next, changes, faults>>
<1>1. observer[o].on # None /\ observer[o].on \in Components
  BY DEF Request, TickInv, Observing, Observation
<1>2. Underway(observer[o]) /\ observer[o].at <= Len(Reconciler(observer[o].on).requests)
  BY <1>1 DEF Request, TickInv, Observing
<1>3. Len(Reconciler(observer[o].on).requests) \in Nat
  BY <1>1, ReconcilerIs, ComponentsAre DEF Sound
<1> QED BY <1>1, <1>2, <1>3 DEF Request, Asked, Underway

\* An observation with what it has found so far.
Found(ob, at, failed, version) ==
  [ob EXCEPT !.at = at, !.failed = failed, !.version = version]

LEMMA FoundIs ==
  ASSUME NEW ob \in Observation, NEW at \in Nat, NEW failed \in BOOLEAN, NEW version \in BOOLEAN
  PROVE  LET new == Found(ob, at, failed, version)
         IN /\ new \in Observation /\ new.on = ob.on /\ new.at = at
            /\ new.failed = failed /\ new.version = version
BY DEF Observation, Found

LEMMA AskedIs ==
  ASSUME TickInv, NEW o \in Observers, Request(o), NEW c \in Components, observer[o].on = c
  PROVE  /\ Asked(o) \in Observation
         /\ Asked(o).on = c /\ Underway(Asked(o))
         /\ \/ /\ ~Asked(o).failed /\ Asked(o).at = observer[o].at + 1
               /\ ~Fails(c, Reconciler(c).requests[observer[o].at])
            \/ /\ Asked(o).failed /\ Asked(o).at = Len(Reconciler(c).requests) + 1
               /\ \E r \in Reconciler(c).required : Fails(c, r)
<1>. DEFINE ob == observer[o]
            rec == Reconciler(c)
            r == rec.requests[ob.at]
<1>1. /\ ob \in Observation
      /\ ob.on = c /\ ob.at \in 1..Len(rec.requests) /\ ~ob.failed /\ Credible(c, ob)
  BY RequestAsks, ComponentsAre DEF TickInv, Observing, Underway, Observation
<1>2. Len(rec.requests) \in 1..4 /\ r # "none"
  BY <1>1, ReconcilerIs, ComponentsAre DEF Sound
<1>3. CASE Fails(c, r)
  <2>1. Asked(o) = Found(ob, Len(rec.requests) + 1, TRUE, FALSE)
    BY <1>1, <1>3 DEF Asked, Found
  <2>. HIDE DEF ob, rec
  <2>2. /\ Asked(o) \in Observation /\ Asked(o).on = c /\ Asked(o).at = Len(rec.requests) + 1
        /\ Asked(o).failed /\ ~Asked(o).version
    <3>. DEFINE end == Len(rec.requests) + 1
    <3>1. end \in Nat
      BY <1>2
    <3>. HIDE DEF end
    <3>2. LET new == Found(ob, end, TRUE, FALSE)
          IN /\ new \in Observation /\ new.on = ob.on /\ new.at = end
             /\ new.failed = TRUE /\ new.version = FALSE
      BY <1>1, <3>1, FoundIs
    <3> QED BY <1>1, <2>1, <3>2 DEF end
  <2>3. Detects(c)
    BY <1>3 DEF Detects, Fails
  <2>4. Credible(c, Asked(o))
    BY <2>2, <2>3 DEF Credible
  <2>5. Underway(Asked(o))
    BY <1>2, <2>2, <2>4 DEF Underway, rec
  <2>6. \E denied \in Reconciler(c).required : Fails(c, denied)
    BY <1>3 DEF Fails
  <2> QED BY <2>2, <2>5, <2>6 DEF rec
<1>4. CASE ~Fails(c, r)
  <2>. DEFINE told == ob.version \/ (Answers(c, r) /\ r = rec.version)
  <2>1. Asked(o) = Found(ob, ob.at + 1, FALSE, told)
    <3>1. Asked(o) = [ob EXCEPT !.at = @ + 1, !.version = @ \/ (Answers(c, r) /\ r = rec.version)]
      BY <1>1, <1>4 DEF Asked
    <3>2. \A q \in Observation, v \in BOOLEAN : ~q.failed =>
            [q EXCEPT !.at = q.at + 1, !.version = v]
              = [q EXCEPT !.at = q.at + 1, !.failed = FALSE, !.version = v]
      BY DEF Observation
    <3>3. told \in BOOLEAN
      BY DEF Answers
    <3> QED BY <1>1, <3>1, <3>2, <3>3 DEF Found
  <2>2. told \in BOOLEAN /\ ob.at + 1 \in Nat
    BY <1>1, <1>2 DEF Answers
  <2>. HIDE DEF ob, rec, told
  <2>3. /\ Asked(o) \in Observation /\ Asked(o).on = c /\ Asked(o).at = ob.at + 1
        /\ ~Asked(o).failed /\ Asked(o).version = told
    <3>. DEFINE further == ob.at + 1
    <3>1. further \in Nat
      BY <2>2
    <3>. HIDE DEF further
    <3>2. LET new == Found(ob, further, FALSE, told)
          IN /\ new \in Observation /\ new.on = ob.on /\ new.at = further
             /\ new.failed = FALSE /\ new.version = told
      <4>1. told \in BOOLEAN /\ FALSE \in BOOLEAN /\ ob \in Observation
        BY <1>1, <2>2
      <4> QED BY <3>1, <4>1, FoundIs, Zenon
    <3> QED BY <1>1, <2>1, <3>2 DEF further
  <2>4. told => ob.version \/ r = rec.version
    BY DEF told
  <2>5. Credible(c, Asked(o))
    BY <1>1, <1>2, <2>3, <2>4 DEF Credible, rec
  <2>6. Underway(Asked(o))
    BY <1>1, <1>2, <2>3, <2>5 DEF Underway, rec
  <2>. USE DEF ob, rec
  <2>7. ~Fails(c, Reconciler(c).requests[observer[o].at])
    BY <1>4
  <2>8. Asked(o).at = observer[o].at + 1
    BY <2>3
  <2>. HIDE DEF ob, rec, r
  <2> QED BY <2>3, <2>6, <2>7, <2>8
<1> QED BY <1>3, <1>4

LEMMA OneObserves ==
  ASSUME Observing, NEW o \in Observers, NEW new \in Observation, new.on # None => Underway(new),
         observer' = [observer EXCEPT ![o] = new]
  PROVE  Observing' /\ observer'[o] = new /\ \A p \in Observers \ {o} : observer'[p] = observer[p]
<1>1. /\ observer' \in [Observers -> Observation] /\ observer'[o] = new
      /\ \A p \in Observers \ {o} : observer'[p] = observer[p]
  BY DEF Observing
<1>2. \A p \in Observers : observer'[p].on # None => Underway(observer'[p])
  BY <1>1 DEF Observing
<1> QED BY <1>1, <1>2 DEF Observing

LEMMA RequestKeeps ==
  ASSUME TickInv, NEW o \in Observers, Request(o)
  PROVE  TickInv'
<1>1. /\ observer' = [observer EXCEPT ![o] = Asked(o)]
      /\ UNCHANGED <<server, token, row, next, changes, faults>>
  BY RequestAsks
<1>2. Asked(o) \in Observation /\ Underway(Asked(o))
  BY RequestAsks, AskedIs
<1>3. Observing'
  BY <1>1, <1>2, OneObserves DEF TickInv
<1> QED BY <1>1, <1>3 DEF Around, RowsAreCredible, TickInv

\* The end of an observation, whatever becomes of what it found.
LEMMA LeavesKeeps ==
  ASSUME TickInv, NEW o \in Observers, Leaves(o)
  PROVE  /\ Observing' /\ next' \in DOMAIN Order /\ observer'[o] = Idle
         /\ \A p \in Observers \ {o} : observer'[p] = observer[p]
<1>1. observer' = [observer EXCEPT ![o] = Idle]
  BY DEF Leaves
<1>2. next' \in DOMAIN Order
  BY WrapsIsAPlace DEF Leaves, TickInv, Around
<1> QED BY <1>1, <1>2, IdleIs, OneObserves DEF TickInv

\* What an observation has found of its component when it is through.
LEMMA SnapshotIs ==
  ASSUME TickInv, NEW o \in Observers, Done(o)
  PROVE  /\ observer[o].on \in Components /\ Snapshot(o) \in Snapshots
         /\ Snapshot(o).failed = observer[o].failed
         /\ Credible(observer[o].on, Snapshot(o))
<1>1. observer[o].on # None /\ observer[o] \in Observation /\ Underway(observer[o])
  BY DEF Done, Observing, TickInv
<1>2. Snapshot(o) = [failed |-> observer[o].failed, version |-> observer[o].version]
  BY DEF Snapshot
<1>3. Snapshot(o) \in Snapshots
  BY <1>1 DEF Snapshot, Snapshots, Observation
<1> QED BY <1>1, <1>2, <1>3 DEF Underway, Credible, Observation

LEMMA PersistKeeps ==
  ASSUME TickInv, NEW o \in Observers, Persist(o)
  PROVE  TickInv'
<1>. DEFINE c == observer[o].on
            new == [status |-> Snapshot(o), readable |-> row[c].readable]
<1>1. c \in Components /\ Snapshot(o) \in Snapshots /\ Credible(c, Snapshot(o))
  BY SnapshotIs DEF Persist
<1>2. /\ row' = [row EXCEPT ![c] = IF row[c] = None THEN None ELSE new]
      /\ Leaves(o) /\ UNCHANGED <<server, token, changes, faults>>
  BY DEF Persist
<1>3. Observing' /\ Around'
  BY <1>2, LeavesKeeps DEF Around, TickInv
<1>. HIDE DEF c
<1>4. row \in [Components -> Rows \cup {None}] /\ RowsAreCredible
  BY DEF TickInv
<1>7. row[c] # None => new \in Rows /\ new.status = Snapshot(o)
  <2>1. row[c] # None => row[c].readable \in BOOLEAN
    BY <1>1, <1>4 DEF Rows
  <2> QED BY <1>1, <2>1 DEF Rows
<1>. HIDE DEF new
<1>5. /\ row' \in [Components -> Rows \cup {None}]
      /\ \A b \in Components : row'[b] = row[b] \/ (row'[b].status = Snapshot(o) /\ b = c)
  <2>1. CASE row[c] = None /\ row' = [row EXCEPT ![c] = None]
    BY <1>1, <1>4, <2>1
  <2>2. CASE row[c] # None /\ row' = [row EXCEPT ![c] = new]
    <3>1. \A b \in Components : row'[b] = IF b = c THEN new ELSE row[b]
      BY <1>1, <1>4, <2>2
    <3> QED BY <1>1, <1>4, <1>7, <2>2, <3>1
  <2> QED BY <1>2, <2>1, <2>2
<1>6. RowsAreCredible'
  BY <1>1, <1>4, <1>5 DEF RowsAreCredible
<1> QED BY <1>3, <1>5, <1>6 DEF TickInv

LEMMA LossKeeps ==
  ASSUME TickInv, NEW o \in Observers, PersistFails(o)
  PROVE  TickInv'
<1>1. Leaves(o) /\ UNCHANGED <<server, token, row, changes>> /\ faults' = faults + 1
  BY DEF PersistFails
<1> QED BY <1>1, LeavesKeeps DEF Around, RowsAreCredible, TickInv

LEMMA ListKeeps ==
  ASSUME TickInv, List
  PROVE  TickInv'
<1>. DEFINE c == Order[next]
<1>1. c \in Components /\ "tick" \in Observers
  BY DEF Components, Around, Observers, TickInv
<1>2. /\ observer' = observer \/ observer' = [observer EXCEPT !["tick"] = Begun(c)]
      /\ next' \in {next, Wraps} /\ faults' \in {faults, faults + 1}
      /\ UNCHANGED <<server, token, row, changes>>
  BY DEF List
<1>3. Observing'
  <2>1. CASE observer' = observer
    BY <2>1 DEF Observing, TickInv
  <2>2. CASE observer' = [observer EXCEPT !["tick"] = Begun(c)]
    BY <1>1, <2>2, BegunIs, OneObserves DEF TickInv
  <2> QED BY <1>2, <2>1, <2>2
<1>. HIDE DEF c
<1>4. Around'
  BY <1>2, WrapsIsAPlace DEF Around, TickInv
<1> QED BY <1>2, <1>3, <1>4 DEF RowsAreCredible, TickInv

LEMMA RegisterKeeps ==
  ASSUME TickInv, NEW c \in Components, Register(c) \/ Unregister(c)
  PROVE  TickInv'
<1>1. /\ \/ observer' = observer
         \/ "install" \in Observers /\ observer' = [observer EXCEPT !["install"] = Begun(c)]
      /\ \/ row' = [row EXCEPT ![c] = None]
         \/ row' = [row EXCEPT ![c] =
               IF @ = None THEN Unobserved(TRUE) ELSE [status |-> @.status, readable |-> TRUE]]
      /\ changes' = changes + 1 /\ UNCHANGED <<server, token, next, faults>>
  BY DEF Register, Unregister, Changes, Observers
<1>2. Observing'
  <2>1. CASE observer' = observer
    BY <2>1 DEF Observing, TickInv
  <2>2. CASE "install" \in Observers /\ observer' = [observer EXCEPT !["install"] = Begun(c)]
    BY <2>2, BegunIs, OneObserves DEF TickInv
  <2> QED BY <1>1, <2>1, <2>2
<1>. DEFINE anew == [status |-> row[c].status, readable |-> TRUE]
            fresh == Unobserved(TRUE)
<1>3. fresh \in Rows /\ fresh.status = None
  BY DEF Unobserved, Rows
<1>4. row \in [Components -> Rows \cup {None}]
  BY DEF TickInv
<1>8. row[c] # None => anew \in Rows /\ anew.status = row[c].status
  BY <1>4 DEF Rows
<1>9. \/ row' = [row EXCEPT ![c] = None]
      \/ row' = [row EXCEPT ![c] = IF row[c] = None THEN fresh ELSE anew]
  BY <1>1
<1>. HIDE DEF anew, fresh
<1>5. /\ row' \in [Components -> Rows \cup {None}]
      /\ \A b \in Components :
           \/ row'[b] \in {row[b], fresh, None}
           \/ row[b] # None /\ row'[b].status = row[b].status
  <2>1. CASE row' = [row EXCEPT ![c] = None]
    BY <1>4, <2>1
  <2>2. CASE row[c] = None /\ row' = [row EXCEPT ![c] = fresh]
    BY <1>3, <1>4, <2>2
  <2>3. CASE row[c] # None /\ row' = [row EXCEPT ![c] = anew]
    <3>1. \A b \in Components : row'[b] = IF b = c THEN anew ELSE row[b]
      BY <1>4, <2>3
    <3> QED BY <1>4, <1>8, <2>3, <3>1
  <2> QED BY <1>9, <2>1, <2>2, <2>3
<1>6. RowsAreCredible'
  BY <1>3, <1>5 DEF RowsAreCredible, TickInv
<1>7. Around'
  BY <1>1 DEF Around, TickInv
<1> QED BY <1>2, <1>5, <1>6, <1>7 DEF TickInv

LEMMA OthersKeep ==
  ASSUME TickInv,
         \/ \E c \in Components, s \in Servers : ServerBecomes(c, s)
         \/ TokenChanges \/ UNCHANGED tickVars
  PROVE  TickInv'
<1>1. /\ UNCHANGED <<row, observer, next, faults>> /\ changes' \in {changes, changes + 1}
      /\ token' = token \/ token' = ~token
      /\ \/ server' = server
         \/ \E c \in Components, s \in Servers :
              server' = [server EXCEPT ![c] = s]
  <2>1. CASE \E c \in Components, s \in Servers : ServerBecomes(c, s)
    BY <2>1 DEF ServerBecomes, Changes
  <2>2. CASE TokenChanges
    BY <2>2 DEF TokenChanges, Changes
  <2>3. CASE UNCHANGED tickVars
    BY <2>3 DEF tickVars
  <2> QED BY <2>1, <2>2, <2>3
<1>2. Around
  BY DEF TickInv
<1>3. server' \in [Components -> Servers]
  BY <1>1, <1>2 DEF Around
<1>4. Around'
  <2>1. token \in BOOLEAN /\ next \in DOMAIN Order /\ changes \in Nat /\ faults \in Nat
    BY <1>2 DEF Around
  <2>2. token' \in BOOLEAN
    BY <1>1, <2>1
  <2>3. next' \in DOMAIN Order /\ changes' \in Nat /\ faults' \in Nat
    BY <1>1, <2>1
  <2> QED BY <1>3, <2>2, <2>3 DEF Around
<1>5. Observing' /\ RowsAreCredible' /\ row' \in [Components -> Rows \cup {None}]
  BY <1>1 DEF Observing, RowsAreCredible, TickInv
<1> QED BY <1>4, <1>5 DEF TickInv

LEMMA TicksKeep == ASSUME TickInv, [TickNext]_tickVars PROVE TickInv'
<1>1. CASE \E o \in Observers : Step(o)
  BY <1>1, RequestKeeps, PersistKeeps, LossKeeps DEF Step
<1> QED BY <1>1, ListKeeps, RegisterKeeps, OthersKeep DEF TickNext

LEMMA TicksHold == TickSpec => []TickInv
BY TicksStart, TicksKeep, PTL DEF TickSpec

\* What a step does to one observation.
LEMMA Moves ==
  ASSUME TickInv, [TickNext]_tickVars, NEW o \in Observers
  PROVE  \/ observer'[o] = observer[o]
         \/ Request(o) \/ Persist(o) \/ PersistFails(o)
         \/ observer[o].on = None /\ \E c \in Components : observer'[o] = Begun(c)
<1>1. ASSUME NEW p \in Observers, Step(p), p # o
      PROVE  observer'[o] = observer[o]
  <2>1. CASE Request(p)
    BY <1>1, <2>1, RequestAsks DEF TickInv, Observing
  <2>2. CASE Persist(p) \/ PersistFails(p)
    BY <1>1, <2>2, LeavesKeeps DEF Persist, PersistFails
  <2> QED BY <1>1, <2>1, <2>2 DEF Step
<1>2. CASE List
  <2>1. Order[next] \in Components
    BY DEF TickInv, Around, Components
  <2>2. observer["tick"].on = None
    BY <1>2 DEF List
  <2>3. observer' = observer \/ observer' = [observer EXCEPT !["tick"] = Begun(Order[next])]
    BY <1>2 DEF List
  <2> QED BY <2>1, <2>2, <2>3 DEF TickInv, Observing
<1>3. ASSUME NEW c \in Components, Register(c) \/ Unregister(c)
      PROVE  \/ observer'[o] = observer[o]
             \/ observer[o].on = None /\ observer'[o] = Begun(c)
  <2>1. \/ observer' = observer
        \/ /\ observer["install"].on = None
           /\ observer' = [observer EXCEPT !["install"] = Begun(c)]
    BY <1>3 DEF Register, Unregister
  <2> QED BY <2>1 DEF TickInv, Observing
<1>4. CASE \/ \E c \in Components, s \in Servers : ServerBecomes(c, s)
           \/ TokenChanges \/ UNCHANGED tickVars
  BY <1>4 DEF ServerBecomes, TokenChanges, tickVars
<1> QED BY <1>1, <1>2, <1>3, <1>4 DEF TickNext, Step

\* What a step does to what one row says.
LEMMA RowMoves ==
  ASSUME TickInv, [TickNext]_tickVars, NEW c \in Components
  PROVE  \/ row[c] = None \/ row'[c] = None \/ row'[c].status = row[c].status
         \/ \E o \in Observers : Persist(o) /\ observer[o].on = c
<1>1. CASE \E o \in Observers : Step(o)
  <2>1. ASSUME NEW o \in Observers, Persist(o), observer[o].on # c
        PROVE  row'[c] = row[c]
    BY <2>1, SnapshotIs DEF Persist, TickInv
  <2> QED BY <1>1, <2>1 DEF Step, Request, PersistFails
<1>2. ASSUME NEW b \in Components, Register(b) \/ Unregister(b)
      PROVE  row[c] = None \/ row'[c] = None \/ row'[c].status = row[c].status
  <2>1. row \in [Components -> Rows \cup {None}]
    BY DEF TickInv
  <2>2. CASE Unregister(b)
    BY <2>1, <2>2 DEF Unregister
  <2>3. CASE Register(b) /\ b # c
    BY <2>1, <2>3 DEF Register
  <2>4. CASE Register(b) /\ b = c /\ row[c] # None
    <3>1. row'[c] = [status |-> row[c].status, readable |-> TRUE]
      BY <2>1, <2>4 DEF Register
    <3> QED BY <3>1
  <2> QED BY <1>2, <2>2, <2>3, <2>4
<1>3. CASE \/ \E b \in Components, s \in Servers : ServerBecomes(b, s)
           \/ TokenChanges \/ UNCHANGED tickVars \/ List
  BY <1>3 DEF ServerBecomes, TokenChanges, tickVars, List
<1> QED BY <1>1, <1>2, <1>3 DEF TickNext

\* One more request is seen as the server is.
LEMMA RequestSees ==
  ASSUME TickInv, NEW o \in Observers, NEW c \in Components, Request(o), Sees(o, c)
  PROVE  Sees(o, c)'
<1>1. /\ observer'[o] = Asked(o) /\ server' = server /\ ~observer[o].failed
      /\ observer[o].at \in Nat
  BY RequestAsks DEF TickInv, Observing, Observation
<1>2. \A r : Fails(c, r)' <=> Fails(c, r)
  BY <1>1 DEF Answers, Fails
<1>3. observer[o].on = c
  BY DEF Sees
<1>4. CASE Asked(o).failed
  <2>1. Asked(o).on = c /\ \E r \in Reconciler(c).required : Fails(c, r)
    BY <1>3, <1>4, AskedIs
  <2> QED BY <1>1, <1>2, <1>4, <2>1 DEF Sees
<1>5. CASE ~Asked(o).failed
  <2>1. /\ Asked(o).on = c /\ Asked(o).at = observer[o].at + 1
        /\ ~Fails(c, Reconciler(c).requests[observer[o].at])
    BY <1>3, <1>5, AskedIs
  <2>2. ASSUME NEW i \in 1..Asked(o).at - 1
        PROVE  ~Fails(c, Reconciler(c).requests[i])
    <3>1. i = observer[o].at \/ i \in 1..observer[o].at - 1
      BY <1>1, <2>1
    <3> QED BY <1>1, <2>1, <2>2, <3>1 DEF Sees
  <2> QED BY <1>1, <1>2, <1>5, <2>1, <2>2 DEF Sees
<1> QED BY <1>4, <1>5

\* An observation that is through and has seen the server as it is has found
\* what the badge ought to say, and writes it.
LEMMA PersistTells ==
  ASSUME TickInv, NEW o \in Observers, NEW c \in Components, Persist(o), Sees(o, c)
  PROVE  row[c] = None \/ Badge(c)' = Due(c)'
<1>. SUFFICES ASSUME row[c] # None PROVE Badge(c)' = Due(c)'
  OBVIOUS
<1>1. observer[o].on = c /\ Done(o) /\ server' = server
  BY DEF Sees, Persist
<1>2. row'[c] = [status |-> Snapshot(o), readable |-> row[c].readable]
  BY <1>1 DEF Persist, TickInv
<1>3. /\ Snapshot(o) \in Snapshots /\ Snapshot(o).failed = observer[o].failed
      /\ observer[o].failed \in BOOLEAN /\ observer[o].at \in Nat
  BY <1>1, SnapshotIs DEF TickInv, Observing, Observation
<1>4. row'[c] # None /\ row'[c].status = Snapshot(o) /\ Snapshot(o) # None
  <2>1. row[c].readable \in BOOLEAN
    BY <1>1, SnapshotIs DEF TickInv, Rows
  <2>2. row'[c] \in Rows
    BY <1>2, <1>3, <2>1 DEF Rows
  <2> QED BY <1>2, <1>3, <2>2, ObservationsAssumption
<1>5. Badge(c)' = IF observer[o].failed THEN "failed" ELSE "observing"
  BY <1>3, <1>4 DEF Badge
<1>6. Due(c)' = Due(c)
  BY <1>1 DEF Due, Answers, Fails
<1>7. CASE observer[o].failed
  BY <1>5, <1>6, <1>7 DEF Due, Sees
<1>8. CASE ~observer[o].failed
  <2>1. ASSUME NEW r \in Reconciler(c).required
        PROVE  ~Fails(c, r)
    <3>1. PICK i \in 1..Len(Reconciler(c).requests) : Reconciler(c).requests[i] = r
      BY ReconcilerIs, ComponentsAre DEF Sound
    <3>2. Len(Reconciler(c).requests) \in Nat /\ observer[o].at > Len(Reconciler(c).requests)
      BY <1>1, ReconcilerIs, ComponentsAre DEF Sound, Done
    <3>3. i \in 1..observer[o].at - 1
      BY <1>3, <3>2
    <3> QED BY <1>8, <3>1, <3>3 DEF Sees
  <2> QED BY <1>5, <1>6, <1>8, <2>1 DEF Due
<1> QED BY <1>3, <1>7, <1>8

-----------------------------------------------------------------------------

\* Servers, rows and observations keep their types, for any of the twelve
\* components in any order, and any number of changes and failures.
THEOREM TicksTypeCorrect == TickSpec => []TickTypeOK
<1>1. TickInv => TickTypeOK
  BY DEF TickInv, Around, Observing, Observation, TickTypeOK
<1> QED BY <1>1, TicksHold, PTL

\* The "Failed" badge and the version beside it: whatever dies, a component
\* whose reconciler makes no request it cannot do without is never shown as
\* failed; a version is shown only where a request tells one, and never with
\* "failed".  (Eight reconcilers have no such request: this is why a dead
\* server of theirs stays "observing".)
THEOREM OnlyDetectorsFail ==
  TickSpec => [](/\ RowsAreCredible
                 /\ \A c \in Components : Badge(c) = "failed" => Detects(c))
<1>1. TickInv => RowsAreCredible
  BY DEF TickInv
<1>2. RowsAreCredible => \A c \in Components : Badge(c) = "failed" => Detects(c)
  BY DEF RowsAreCredible, Credible, Badge
<1> QED BY <1>1, <1>2, TicksHold, PTL

\* An observation begins with nothing seen; it goes on seeing its server as it
\* is while that does not change; and at its end it writes what the badge ought
\* to say, unless the row is gone or the store fails.
THEOREM ObservationsTell ==
  TickSpec =>
    [][\A o \in Observers, c \in Components :
         /\ observer[o].on = None /\ observer'[o].on = c => Sees(o, c)'
         /\ Sees(o, c) /\ server'[c] = server[c] =>
              \/ Sees(o, c)'
              \/ /\ observer'[o] = Idle
                 /\ row[c] = None \/ Badge(c)' = Due(c)' \/ faults' > faults]_tickVars
<1>1. ASSUME TickInv, [TickNext]_tickVars, NEW o \in Observers, NEW c \in Components,
             observer[o].on = None, observer'[o].on = c
      PROVE  Sees(o, c)'
  <2>1. c # None
    BY ComponentsAre
  <2>2. observer'[o] = Begun(c)
    <3>1. ~Request(o) /\ ~Persist(o) /\ ~PersistFails(o) /\ observer'[o] # observer[o]
      BY <1>1, <2>1 DEF Request, Persist, PersistFails, Done
    <3> QED BY <1>1, <3>1, Moves, BegunIs
  <2>3. observer'[o].at = 1 /\ ~observer'[o].failed
    BY <2>2, BegunIs
  <2> QED BY <1>1, <2>3 DEF Sees
<1>2. ASSUME TickInv, [TickNext]_tickVars, NEW o \in Observers, NEW c \in Components,
             Sees(o, c), server'[c] = server[c]
      PROVE  \/ Sees(o, c)'
             \/ /\ observer'[o] = Idle
                /\ row[c] = None \/ Badge(c)' = Due(c)' \/ faults' > faults
  <2>1. observer[o].on # None
    BY <1>2, ComponentsAre DEF Sees
  <2>2. CASE observer'[o] = observer[o]
    BY <1>2, <2>2 DEF Sees, Answers, Fails
  <2>3. CASE Request(o)
    BY <1>2, <2>3, RequestSees
  <2>4. CASE Persist(o)
    BY <1>2, <2>4, LeavesKeeps, PersistTells DEF Persist
  <2>5. CASE PersistFails(o)
    BY <1>2, <2>5, LeavesKeeps DEF PersistFails, TickInv, Around
  <2> QED BY <1>2, <2>1, <2>2, <2>3, <2>4, <2>5, Moves
<1>. DEFINE Tell ==
       \A o \in Observers, c \in Components :
         /\ observer[o].on = None /\ observer'[o].on = c => Sees(o, c)'
         /\ Sees(o, c) /\ server'[c] = server[c] =>
              \/ Sees(o, c)'
              \/ /\ observer'[o] = Idle
                 /\ row[c] = None \/ Badge(c)' = Due(c)' \/ faults' > faults
<1>3. TickInv /\ [TickNext]_tickVars => Tell
  BY <1>1, <1>2
<1> QED BY <1>3, TicksHold, PTL DEF TickSpec

\* A badge that says what is so, with no observation under way that saw it
\* otherwise, goes on saying it for as long as the server stays as it is and
\* the row is there, whichever of the tick and the install observes, and
\* whatever else fails or changes.
THEOREM TruthStays ==
  TickSpec =>
    [][\A c \in Components :
         Current(c) /\ server'[c] = server[c] /\ row'[c] # None => Current(c)']_tickVars
<1>1. ASSUME TickInv, [TickNext]_tickVars, NEW c \in Components,
             Current(c), server'[c] = server[c], row'[c] # None
      PROVE  Current(c)'
  <2>1. Due(c)' = Due(c) /\ c # None
    BY <1>1, ComponentsAre DEF Due, Answers, Fails
  <2>2. row[c] # None
    BY <1>1 DEF Current, Badge, Due
  <2>3. ASSUME NEW o \in Observers, observer'[o].on = c
        PROVE  Sees(o, c)'
    <3>1. CASE observer'[o] = observer[o]
      BY <1>1, <2>3, <3>1 DEF Current, Sees, Answers, Fails
    <3>2. CASE Request(o)
      <4>1. observer[o].on = c
        BY <1>1, <2>3, <3>2, RequestAsks, AskedIs DEF TickInv, Observing
      <4> QED BY <1>1, <3>2, <4>1, RequestSees DEF Current
    <3>3. ~Persist(o) /\ ~PersistFails(o)
      BY <1>1, <2>1, <2>3, LeavesKeeps, IdleIs DEF Persist, PersistFails
    <3>4. CASE \E b \in Components : observer'[o] = Begun(b)
      BY <2>3, <3>4, BegunIs DEF Sees
    <3> QED BY <1>1, <3>1, <3>2, <3>3, <3>4, Moves
  <2>4. Badge(c)' = Due(c)'
    <3>1. CASE row'[c].status = row[c].status
      BY <1>1, <2>1, <2>2, <3>1 DEF Current, Badge
    <3>2. ASSUME NEW o \in Observers, Persist(o), observer[o].on = c
          PROVE  Badge(c)' = Due(c)'
      BY <1>1, <2>2, <3>2, PersistTells DEF Current
    <3> QED BY <1>1, <2>2, <3>1, <3>2, RowMoves
  <2> QED BY <2>3, <2>4 DEF Current
<1>. DEFINE Stays ==
       \A c \in Components :
         Current(c) /\ server'[c] = server[c] /\ row'[c] # None => Current(c)'
<1>2. TickInv /\ [TickNext]_tickVars => Stays
  BY <1>1
<1> QED BY <1>2, TicksHold, PTL DEF TickSpec

\* Every step of an observation leaves it with less to do: it is waiting for a
\* server that hangs, and nothing else, that keeps the tick from the next
\* component.
THEOREM ObservationsRunDown ==
  TickSpec =>
    [][\A o \in Observers :
         observer[o].on # None /\ observer'[o] # observer[o] =>
           Left(o) \in Nat /\ Left(o)' \in Nat /\ Left(o)' < Left(o)]_tickVars
<1>1. ASSUME TickInv, [TickNext]_tickVars, NEW o \in Observers,
             observer[o].on # None, observer'[o] # observer[o]
      PROVE  Left(o) \in Nat /\ Left(o)' \in Nat /\ Left(o)' < Left(o)
  <2>. DEFINE c == observer[o].on
              n == Len(Reconciler(c).requests)
  <2>1. c \in Components /\ observer[o].at \in 1..n + 1
    BY <1>1 DEF TickInv, Observing, Observation, Underway
  <2>2. n \in Nat
    BY <2>1, ReconcilerIs, ComponentsAre DEF Sound
  <2>3. Left(o) = n + 2 - observer[o].at
    BY <1>1 DEF Left
  <2>4. Left(o) \in Nat /\ Left(o) > 0
    <3>. HIDE DEF n
    <3> QED BY <2>1, <2>2, <2>3
  <2>5. CASE Request(o)
    <3>1. observer'[o] = Asked(o) /\ observer[o].at \in 1..n
      BY <1>1, <2>5, RequestAsks DEF TickInv, Observing
    <3>2. Asked(o).on = c /\ (Asked(o).at = observer[o].at + 1 \/ Asked(o).at = n + 1)
      BY <1>1, <2>1, <2>5, AskedIs
    <3>3. Left(o)' = n + 2 - Asked(o).at
      BY <1>1, <3>1, <3>2 DEF Left
    <3>. HIDE DEF n
    <3> QED BY <2>2, <2>3, <3>1, <3>2, <3>3
  <2>6. CASE Persist(o) \/ PersistFails(o)
    <3>1. observer'[o] = Idle
      BY <1>1, <2>6, LeavesKeeps DEF Persist, PersistFails
    <3>2. Left(o)' = 0
      BY <3>1, IdleIs DEF Left
    <3> QED BY <2>4, <3>2
  <2> QED BY <1>1, <2>5, <2>6, Moves
<1>. DEFINE RunDown ==
       \A o \in Observers :
         observer[o].on # None /\ observer'[o] # observer[o] =>
           Left(o) \in Nat /\ Left(o)' \in Nat /\ Left(o)' < Left(o)
<1>2. TickInv /\ [TickNext]_tickVars => RunDown
  BY <1>1
<1> QED BY <1>2, TicksHold, PTL DEF TickSpec
=============================================================================
