---------------------------- MODULE RecordsProofs ----------------------------
(***************************************************************************)
(* Proofs about what the server persists, for every value of the           *)
(* constants.  StateStore: its types, the soundness of the revision token, *)
(* the absence of lost updates, and that the transactions implement the    *)
(* atomic table of ResourceTable.  SecretVault: its types, that            *)
(* acknowledged secrets can be read back, that no secret is ever wrong,    *)
(* and that a rotation leaves the vault and the component in agreement.    *)
(* ModelCards: that what the registry answered about a card holds.         *)
(* AuditLog: that the log loses no acknowledged event silently, that an    *)
(* unhurt log verifies, and that an edited copy that verifies is short of  *)
(* the newest acknowledged events only.                                    *)
(***************************************************************************)
EXTENDS StateStore, SecretVault, ModelCards, AuditLog, SequenceTheorems,
        WellFoundedInduction, TLAPS

(* Uuids of rows have been minted, and no two rows share one.              *)
UuidsMinted ==
  \A k \in Keys : rows[k] # NoRow => rows[k].uuid > 0 /\ rows[k].uuid <= minted

UuidsUnique ==
  \A k1, k2 \in Keys :
    rows[k1] # NoRow /\ rows[k2] # NoRow /\ rows[k1].uuid = rows[k2].uuid => k1 = k2

(* A loaded copy is of a row that lives under the same key or no longer    *)
(* lives; of a living row it is an earlier revision or the current one.    *)
HeldCopies ==
  \A c \in Requests :
    LET h == req[c].held IN
    h # NoRow =>
      /\ h.uuid > 0 /\ h.uuid <= minted
      /\ \A k \in Keys : rows[k] # NoRow /\ rows[k].uuid = h.uuid =>
           /\ req[c].key = k
           /\ h.revision <= rows[k].revision
           /\ h.revision = rows[k].revision => h.spec = rows[k].spec

(* While nobody has committed since, a transaction's snapshot is the row.  *)
SnapshotsValid ==
  \A c \in Requests :
    /\ req[c].at <= commits
    /\ req[c].stage \in {"saving", "deleting"} /\ req[c].at = commits
       => req[c].snap = rows[req[c].key]

(* save is called with the revision of the copy its caller holds.          *)
ExpectedIsHeld ==
  \A c \in Requests : req[c].stage = "saving" => req[c].expected = req[c].held.revision

StoreInv ==
  /\ TypeOK
  /\ UuidsMinted
  /\ UuidsUnique
  /\ HeldCopies
  /\ SnapshotsValid
  /\ ExpectedIsHeld

-----------------------------------------------------------------------------
(* A present row is a Row: the sentinel NoRow is told apart by revision 0. *)
LEMMA NoRowIsNoRow == NoRow \notin Row /\ NoRow.revision = 0 /\ NoRow.uuid = 0
  BY DEF NoRow, Row

(* The numbers of a row.                                                   *)
LEMMA RowFields ==
  \A r \in Row : r.uuid \in Nat /\ r.revision \in Nat /\ r.revision > 0
  BY DEF Row

(* What the typing says of a row that is there.                            *)
LEMMA PresentRow ==
  ASSUME TypeOK, NEW k \in Keys, rows[k] # NoRow
  PROVE  /\ rows[k] \in Row
         /\ rows[k].uuid \in Nat
         /\ rows[k].revision \in Nat
  <1>1. rows[k] \in Row
    BY DEF TypeOK, RowOrNone
  <1>2. QED
    BY <1>1, RowFields

(* The same of the copy a request holds.                                   *)
LEMMA PresentCopy ==
  ASSUME TypeOK, NEW c \in Requests, req[c].held # NoRow
  PROVE  /\ req[c].held \in Row
         /\ req[c].held.uuid \in Nat
         /\ req[c].held.revision \in Nat
  <1>1. req[c].held \in Row
    BY DEF TypeOK, Request, RowOrNone
  <1>2. QED
    BY <1>1, RowFields

(* The record of an idle request is one.                                   *)
LEMMA IdleRequest == Idle \in Request
  BY DEF Idle, Request, RowOrNone, None

(* The empty table satisfies the invariant.                                *)
LEMMA InitStoreInv == Init => StoreInv
  <1> SUFFICES ASSUME Init PROVE StoreInv
    OBVIOUS
  <1>1. TypeOK
    BY IdleRequest DEF Init, TypeOK, RowOrNone, Idle
  <1>2. \A c \in Requests : /\ req[c].held = NoRow /\ req[c].at = 0
                            /\ req[c].stage = "idle"
    BY DEF Init, Idle
  <1>3. \A k \in Keys : rows[k] = NoRow
    BY DEF Init
  <1>4. SnapshotsValid
    BY <1>2 DEF SnapshotsValid, Init
  <1>5. QED
    BY <1>1, <1>2, <1>3, <1>4
    DEF StoreInv, UuidsMinted, UuidsUnique, HeldCopies, ExpectedIsHeld

(* A request that goes idle satisfies whatever is said of requests.        *)
LEMMA FinishTyped ==
  ASSUME TypeOK, NEW c \in Requests, Finish(c)
  PROVE  /\ req' \in [Requests -> Request]
         /\ req'[c] = Idle
         /\ \A d \in Requests : d # c => req'[d] = req[d]
         /\ \A d \in Requests :
              /\ req'[d].stage # "idle" => req'[d].key \in Keys
              /\ req'[d].stage = "saving" => req'[d].spec \in Specs
  BY IdleRequest DEF TypeOK, Finish, Idle

(* Typing, one action at a time.                                           *)
LEMMA NextTypeOK == TypeOK /\ [Next]_vars => TypeOK'
  <1> SUFFICES ASSUME TypeOK, [Next]_vars PROVE TypeOK'
    OBVIOUS
  <1>1. ASSUME NEW c \in Requests, NEW k \in Keys, Load(c, k) PROVE TypeOK'
    BY <1>1 DEF Load, Loaded, TypeOK, Request, None, RowOrNone
  <1>2. ASSUME NEW c \in Requests, NEW k \in Keys, AssumeAbsent(c, k) PROVE TypeOK'
    BY <1>2 DEF AssumeAbsent, Loaded, TypeOK, Request, None, RowOrNone
  <1>3. ASSUME NEW c \in Requests, NEW s \in Specs, BeginSave(c, s) PROVE TypeOK'
    <2>1. req[c].held.revision \in Nat
      BY NoRowIsNoRow DEF TypeOK, Request, RowOrNone, Row
    <2>2. QED
      BY <1>3, <2>1 DEF BeginSave, Enter, TypeOK, Request
  <1>4. ASSUME NEW c \in Requests, NEW e \in {None, req[c].held.revision}, BeginDelete(c, e)
        PROVE TypeOK'
    <2>1. e \in Nat
      BY NoRowIsNoRow DEF TypeOK, Request, RowOrNone, Row, None
    <2>2. QED
      BY <1>4, <2>1 DEF BeginDelete, Enter, TypeOK, Request
  <1>5. ASSUME NEW c \in Requests, SaveInserts(c) PROVE TypeOK'
    <2>1. [uuid |-> minted + 1, revision |-> 1, spec |-> req[c].spec, status |-> Null] \in Row
      BY <1>5 DEF SaveInserts, TypeOK, Row
    <2>2. QED
      BY <1>5, <2>1, FinishTyped DEF SaveInserts, Commit, TypeOK, RowOrNone
  <1>6. ASSUME NEW c \in Requests, SaveUpdates(c) PROVE TypeOK'
    <2>1. rows[req[c].key] \in RowOrNone /\ req[c].snap \in RowOrNone
      BY <1>6 DEF SaveUpdates, TypeOK, Request
    <2>2. Revised(rows[req[c].key], req[c].spec, req[c].snap.revision + 1) \in Row
      BY <1>6, <2>1, NoRowIsNoRow, NullAssumption
      DEF SaveUpdates, Revised, Row, RowOrNone, NoRow, TypeOK
    <2>3. QED
      BY <1>6, <2>2, FinishTyped DEF SaveUpdates, Commit, TypeOK, RowOrNone
  <1>7. ASSUME NEW c \in Requests, SaveRejected(c) PROVE TypeOK'
    BY <1>7, FinishTyped DEF SaveRejected, TypeOK
  <1>8. ASSUME NEW c \in Requests, DeleteRemoves(c) PROVE TypeOK'
    BY <1>8, FinishTyped DEF DeleteRemoves, Commit, TypeOK, RowOrNone
  <1>9. ASSUME NEW c \in Requests, DeleteRejected(c) PROVE TypeOK'
    BY <1>9, FinishTyped DEF DeleteRejected, TypeOK
  <1>10. ASSUME NEW c \in Requests, RollBack(c) PROVE TypeOK'
    BY <1>10, FinishTyped DEF RollBack, TypeOK
  <1>11. ASSUME NEW c \in Requests, NEW st \in Statuses, PutStatus(c, st) PROVE TypeOK'
    <2>1. req[c].key \in Keys /\ Finish(c) /\ minted' = minted
      BY <1>11 DEF PutStatus, TypeOK
    <2>2. CASE rows[req[c].key] # NoRow /\ commits' = commits + 1
            /\ rows' = [rows EXCEPT ![req[c].key] = Observed(rows[req[c].key], st)]
      <3>1. Observed(rows[req[c].key], st) \in Row
        BY <2>1, <2>2 DEF Observed, Row, RowOrNone, TypeOK
      <3>2. QED
        BY <2>1, <2>2, <3>1, FinishTyped DEF TypeOK, RowOrNone
    <2>3. CASE UNCHANGED <<rows, commits>>
      BY <2>1, <2>3, FinishTyped DEF TypeOK
    <2>4. QED
      BY <1>11, <2>2, <2>3 DEF PutStatus
  <1>12. ASSUME NEW c \in Requests, Leave(c) PROVE TypeOK'
    BY <1>12, FinishTyped DEF Leave, TypeOK
  <1>13. CASE UNCHANGED vars
    BY <1>13 DEF vars, TypeOK
  <1>14. QED
    BY <1>1, <1>2, <1>3, <1>4, <1>5, <1>6, <1>7, <1>8, <1>9, <1>10, <1>11, <1>12, <1>13
    DEF Next
-----------------------------------------------------------------------------
(* A step that writes no row keeps the invariant when the request that     *)
(* takes it ends up with nothing, with a copy of a row as it is now, or    *)
(* with the copy it had.                                                   *)
LEMMA QuietStep ==
  ASSUME StoreInv, TypeOK', NEW c \in Requests, NEW x \in Request,
         req' = [req EXCEPT ![c] = x], UNCHANGED <<rows, minted, commits>>,
         \/ x.held = NoRow
         \/ x.key \in Keys /\ x.held = rows[x.key]
         \/ x.held = req[c].held /\ x.key = req[c].key,
         x.at <= commits,
         x.stage \in {"saving", "deleting"} => x.snap = rows[x.key],
         x.stage = "saving" => x.expected = x.held.revision
  PROVE  StoreInv'
  <1>1. req'[c] = x /\ \A d \in Requests : d # c => req'[d] = req[d]
    BY DEF StoreInv, TypeOK
  <1>2. UuidsMinted' /\ UuidsUnique'
    BY DEF StoreInv, UuidsMinted, UuidsUnique
  <1>3. HeldCopies'
    <2> SUFFICES ASSUME NEW d \in Requests, req'[d].held # NoRow
                 PROVE  LET h == req'[d].held IN
                        /\ h.uuid > 0 /\ h.uuid <= minted
                        /\ \A k \in Keys : rows[k] # NoRow /\ rows[k].uuid = h.uuid =>
                             /\ req'[d].key = k
                             /\ h.revision <= rows[k].revision
                             /\ h.revision = rows[k].revision => h.spec = rows[k].spec
      BY DEF HeldCopies
    <2>1. CASE d # c \/ (x.held = req[c].held /\ x.key = req[c].key)
      BY <1>1, <2>1 DEF StoreInv, HeldCopies
    <2>2. CASE d = c /\ x.key \in Keys /\ x.held = rows[x.key]
      <3>1. x.held \in Row
        BY <1>1, <2>2 DEF Request, RowOrNone
      <3>2. \A k \in Keys : rows[k] # NoRow /\ rows[k].uuid = x.held.uuid => k = x.key
        BY <1>1, <2>2 DEF StoreInv, UuidsUnique
      <3>3. x.held.uuid > 0 /\ x.held.uuid <= minted
        BY <1>1, <2>2 DEF StoreInv, UuidsMinted
      <3>4. QED
        BY <1>1, <2>2, <3>1, <3>2, <3>3 DEF Row
    <2>3. QED
      BY <1>1, <2>1, <2>2
  <1>4. SnapshotsValid'
    BY <1>1 DEF StoreInv, SnapshotsValid
  <1>5. ExpectedIsHeld'
    BY <1>1 DEF StoreInv, ExpectedIsHeld
  <1>6. QED
    BY <1>2, <1>3, <1>4, <1>5 DEF StoreInv

(* What a commit does to everything but the row: the request goes idle and *)
(* every snapshot taken before is out of date.                             *)
LEMMA CommitStep ==
  ASSUME StoreInv, NEW c \in Requests, Finish(c), commits' = commits + 1
  PROVE  SnapshotsValid' /\ ExpectedIsHeld'
  <1>1. \A d \in Requests : d # c => req'[d] = req[d]
    BY DEF Finish, StoreInv, TypeOK
  <1>2. req'[c] = Idle
    BY DEF Finish, StoreInv, TypeOK
  <1>3. ASSUME NEW d \in Requests
        PROVE  req'[d].at <= commits /\ req[d].at \in Nat
    BY <1>1, <1>2 DEF StoreInv, TypeOK, SnapshotsValid, Idle, Request
  <1>4. commits \in Nat
    BY DEF StoreInv, TypeOK
  <1>5. SnapshotsValid'
    <2> SUFFICES ASSUME NEW d \in Requests
                 PROVE  req'[d].at <= commits' /\ ~(req'[d].at = commits')
      BY DEF SnapshotsValid
    <2>1. req'[d].at \in Nat
      BY <1>1, <1>2, <1>3 DEF Idle
    <2>2. QED
      BY <1>3, <1>4, <2>1
  <1>6. ExpectedIsHeld'
    BY <1>1, <1>2 DEF StoreInv, ExpectedIsHeld, Idle
  <1>7. QED
    BY <1>5, <1>6

(* Whoever is inside a transaction that may still write sees the row.      *)
LEMMA WriterSeesRow ==
  ASSUME StoreInv, NEW c \in Requests, SnapshotCurrent(c),
         req[c].stage \in {"saving", "deleting"}
  PROVE  req[c].key \in Keys /\ req[c].snap = rows[req[c].key]
  BY DEF StoreInv, SnapshotsValid, SnapshotCurrent, TypeOK

(* The write of one row, whatever the statement: the row goes away, or is  *)
(* new with the uuid just minted, or is the row it was, at the same        *)
(* revision and spec or at a later revision.                               *)
LEMMA WriteStep ==
  ASSUME StoreInv, TypeOK', NEW c \in Requests, Finish(c), commits' = commits + 1,
         NEW k \in Keys, NEW r \in RowOrNone, rows' = [rows EXCEPT ![k] = r],
         \/ r = NoRow /\ minted' = minted
         \/ r \in Row /\ r.uuid = minted + 1 /\ minted' = minted + 1
         \/ /\ rows[k] # NoRow /\ r \in Row /\ minted' = minted
            /\ r.uuid = rows[k].uuid /\ r.revision >= rows[k].revision
            /\ r.revision = rows[k].revision => r.spec = rows[k].spec
  PROVE  StoreInv'
  <1>1. rows'[k] = r /\ \A j \in Keys : j # k => rows'[j] = rows[j]
    BY DEF StoreInv, TypeOK
  <1>2. req'[c].held = NoRow /\ \A d \in Requests : d # c => req'[d] = req[d]
    BY DEF Finish, Idle, StoreInv, TypeOK
  <1>3. minted \in Nat /\ minted <= minted' /\ minted' \in Nat
    BY DEF StoreInv, TypeOK
  <1>4. \A j \in Keys : rows[j] # NoRow =>
          rows[j].uuid \in Nat /\ rows[j].revision \in Nat
    BY PresentRow DEF StoreInv
  <1>5. UuidsMinted'
    <2> SUFFICES ASSUME NEW j \in Keys, rows'[j] # NoRow
                 PROVE  rows'[j].uuid > 0 /\ rows'[j].uuid <= minted'
      BY DEF UuidsMinted
    <2>1. \A i \in Keys : rows[i] # NoRow =>
            rows[i].uuid \in Nat /\ rows[i].uuid > 0 /\ rows[i].uuid <= minted
      BY <1>4 DEF StoreInv, UuidsMinted
    <2>2. CASE j # k
      <3>1. rows'[j] = rows[j] /\ rows[j] # NoRow
        BY <1>1, <2>2
      <3>2. QED
        BY <1>3, <2>1, <3>1
    <2>3. CASE j = k
      <3>1. rows'[j] = r /\ r # NoRow
        BY <1>1, <2>3
      <3>2. QED
        BY <1>3, <2>1, <3>1
    <2>4. QED
      BY <2>2, <2>3
  <1>6. UuidsUnique'
    <2> SUFFICES ASSUME NEW j \in Keys, j # k, rows[j] # NoRow, r # NoRow
                 PROVE  rows[j].uuid # r.uuid
      BY <1>1 DEF UuidsUnique, StoreInv
    <2>1. rows[j].uuid <= minted /\ rows[j].uuid \in Nat
      BY <1>4 DEF StoreInv, UuidsMinted
    <2>2. rows[k] # NoRow => rows[k].uuid # rows[j].uuid
      BY DEF StoreInv, UuidsUnique
    <2>3. QED
      BY <1>3, <2>1, <2>2
  <1>7. HeldCopies'
    <2> SUFFICES ASSUME NEW d \in Requests, d # c, req[d].held # NoRow
                 PROVE  LET h == req[d].held IN
                        /\ h.uuid > 0 /\ h.uuid <= minted'
                        /\ \A j \in Keys : rows'[j] # NoRow /\ rows'[j].uuid = h.uuid =>
                             /\ req[d].key = j
                             /\ h.revision <= rows'[j].revision
                             /\ h.revision = rows'[j].revision => h.spec = rows'[j].spec
      BY <1>2 DEF HeldCopies
    <2> DEFINE h == req[d].held
    <2>1. h.uuid \in Nat /\ h.revision \in Nat /\ h.uuid > 0 /\ h.uuid <= minted
      BY PresentCopy DEF StoreInv, HeldCopies
    <2>2. h.uuid <= minted' /\ h.uuid # minted + 1
      BY <1>3, <2>1
    <2>3. ASSUME NEW j \in Keys, rows'[j] # NoRow, rows'[j].uuid = h.uuid
          PROVE  /\ req[d].key = j
                 /\ h.revision <= rows'[j].revision
                 /\ h.revision = rows'[j].revision => h.spec = rows'[j].spec
      <3>1. CASE j # k
        BY <1>1, <2>3, <3>1 DEF StoreInv, HeldCopies
      <3>2. CASE j = k
        <4>1. /\ rows[k] # NoRow /\ r \in Row /\ r.uuid = rows[k].uuid
              /\ r.revision >= rows[k].revision
              /\ r.revision = rows[k].revision => r.spec = rows[k].spec
          BY <1>1, <2>2, <2>3, <3>2
        <4>2. /\ req[d].key = k /\ h.revision <= rows[k].revision
              /\ h.revision = rows[k].revision => h.spec = rows[k].spec
          BY <1>1, <2>3, <3>2, <4>1 DEF StoreInv, HeldCopies
        <4>3. rows[k].revision \in Nat /\ h.revision \in Nat /\ r.revision \in Nat
          BY <1>4, <2>1, <4>1, RowFields DEF h
        <4>4. QED
          BY <1>1, <3>2, <4>1, <4>2, <4>3
      <3>3. QED
        BY <3>1, <3>2
    <2>4. QED
      BY <2>1, <2>2, <2>3
  <1>8. QED
    BY <1>5, <1>6, <1>7, CommitStep DEF StoreInv

(* The two steps into a transaction change no row.                         *)
LEMMA EnterStep ==
  ASSUME StoreInv, TypeOK', NEW c \in Requests, NEW stage \in {"saving", "deleting"},
         NEW s \in Specs \cup {Null}, NEW e \in Nat,
         req[c].stage = "loaded", Enter(c, stage, s, e),
         stage = "saving" => e = req[c].held.revision
  PROVE  StoreInv'
  <1> DEFINE x == [stage |-> stage, key |-> req[c].key, held |-> req[c].held,
                   spec |-> s, expected |-> e, snap |-> rows[req[c].key],
                   at |-> commits]
  <1>1. x \in Request
    BY DEF StoreInv, TypeOK, Request
  <1>2. req' = [req EXCEPT ![c] = x] /\ UNCHANGED <<rows, minted, commits>>
    BY DEF Enter
  <1>3. /\ x.held = req[c].held /\ x.key = req[c].key /\ x.at <= commits
        /\ x.snap = rows[x.key] /\ x.stage = "saving" => x.expected = x.held.revision
    BY DEF StoreInv, TypeOK
  <1>4. QED
    BY <1>1, <1>2, <1>3, QuietStep

(* A request that ends without a write.                                    *)
LEMMA EndStep ==
  ASSUME StoreInv, TypeOK', NEW c \in Requests, Finish(c), UNCHANGED <<rows, minted, commits>>
  PROVE  StoreInv'
  <1>1. Idle.held = NoRow /\ Idle.at <= commits /\ Idle.stage = "idle"
    BY DEF Idle, StoreInv, TypeOK
  <1>2. QED
    BY <1>1, IdleRequest, QuietStep DEF Finish

(* load and its failing variant only give the request its copy.            *)
LEMMA LoadStep ==
  ASSUME StoreInv, TypeOK', NEW c \in Requests, NEW k \in Keys, NEW h \in {NoRow, rows[k]},
         req' = [req EXCEPT ![c] = Loaded(k, h)], UNCHANGED <<rows, minted, commits>>
  PROVE  StoreInv'
  <1> DEFINE x == Loaded(k, h)
  <1>1. x \in Request
    BY DEF StoreInv, TypeOK, Loaded, Request, RowOrNone, None
  <1>2. /\ x.held = h /\ x.key = k /\ x.at <= commits /\ x.stage = "loaded"
    BY DEF Loaded, StoreInv, TypeOK
  <1>3. QED
    BY <1>1, <1>2, QuietStep

(* StoreInv is inductive.                                                      *)
LEMMA NextStoreInv == StoreInv /\ [Next]_vars => StoreInv'
  <1> SUFFICES ASSUME StoreInv, [Next]_vars PROVE StoreInv'
    OBVIOUS
  <1>0. TypeOK'
    BY NextTypeOK DEF StoreInv
  <1>1. ASSUME NEW c \in Requests, NEW k \in Keys, Load(c, k) PROVE StoreInv'
    BY <1>0, <1>1, LoadStep DEF Load
  <1>2. ASSUME NEW c \in Requests, NEW k \in Keys, AssumeAbsent(c, k) PROVE StoreInv'
    BY <1>0, <1>2, LoadStep DEF AssumeAbsent
  <1>3. ASSUME NEW c \in Requests, NEW s \in Specs, BeginSave(c, s) PROVE StoreInv'
    <2>1. req[c].held.revision \in Nat
      BY NoRowIsNoRow DEF StoreInv, TypeOK, Request, RowOrNone, Row
    <2>2. QED
      BY <1>0, <1>3, <2>1, EnterStep DEF BeginSave
  <1>4. ASSUME NEW c \in Requests, NEW e \in {None, req[c].held.revision}, BeginDelete(c, e)
        PROVE StoreInv'
    <2>1. e \in Nat
      BY NoRowIsNoRow DEF StoreInv, TypeOK, Request, RowOrNone, Row, None
    <2>2. QED
      BY <1>0, <1>4, <2>1, EnterStep DEF BeginDelete
  <1>5. ASSUME NEW c \in Requests, SaveInserts(c) PROVE StoreInv'
    <2> DEFINE r == [uuid |-> minted + 1, revision |-> 1, spec |-> req[c].spec, status |-> Null]
    <2>1. r \in Row /\ r.uuid = minted + 1
      BY <1>5 DEF SaveInserts, StoreInv, TypeOK, Row
    <2>2. req[c].key \in Keys
      BY <1>5 DEF SaveInserts, StoreInv, TypeOK
    <2>3. QED
      BY <1>0, <1>5, <2>1, <2>2, WriteStep DEF SaveInserts, Commit, RowOrNone
  <1>6. ASSUME NEW c \in Requests, SaveUpdates(c) PROVE StoreInv'
    <2> DEFINE k == req[c].key
               r == Revised(rows[k], req[c].spec, req[c].snap.revision + 1)
    <2>1. k \in Keys /\ req[c].snap = rows[k] /\ rows[k] # NoRow
      BY <1>6, WriterSeesRow DEF SaveUpdates, Commit
    <2>2. rows[k] \in Row /\ rows[k].revision \in Nat
      BY <2>1, PresentRow DEF StoreInv
    <2>3. r \in Row
      BY <1>6, <2>1, <2>2 DEF SaveUpdates, Revised, Row, StoreInv, TypeOK
    <2>4. /\ r.uuid = rows[k].uuid
          /\ r.revision >= rows[k].revision
          /\ r.revision = rows[k].revision => r.spec = rows[k].spec
      BY <2>1, <2>2 DEF Revised
    <2>5. /\ Finish(c) /\ commits' = commits + 1 /\ minted' = minted
          /\ rows' = [rows EXCEPT ![k] = r]
      BY <1>6 DEF SaveUpdates, Commit
    <2>6. r \in RowOrNone
      BY <2>3 DEF RowOrNone
    <2> HIDE DEF k, r
    <2>7. QED
      BY <1>0, <2>1, <2>3, <2>4, <2>5, <2>6, WriteStep
  <1>7. ASSUME NEW c \in Requests, SaveRejected(c) PROVE StoreInv'
    BY <1>0, <1>7, EndStep DEF SaveRejected
  <1>8. ASSUME NEW c \in Requests, DeleteRemoves(c) PROVE StoreInv'
    <2>1. req[c].key \in Keys
      BY <1>8 DEF DeleteRemoves, StoreInv, TypeOK
    <2>2. QED
      BY <1>0, <1>8, <2>1, WriteStep DEF DeleteRemoves, Commit, RowOrNone
  <1>9. ASSUME NEW c \in Requests, DeleteRejected(c) PROVE StoreInv'
    BY <1>0, <1>9, EndStep DEF DeleteRejected
  <1>10. ASSUME NEW c \in Requests, RollBack(c) PROVE StoreInv'
    BY <1>0, <1>10, EndStep DEF RollBack
  <1>11. ASSUME NEW c \in Requests, NEW st \in Statuses, PutStatus(c, st) PROVE StoreInv'
    <2> DEFINE k == req[c].key
               r == Observed(rows[k], st)
    <2>1. k \in Keys /\ Finish(c) /\ minted' = minted
      BY <1>11 DEF PutStatus, StoreInv, TypeOK
    <2>2. CASE rows[k] # NoRow /\ commits' = commits + 1
               /\ rows' = [rows EXCEPT ![k] = r]
      <3>1. rows[k] \in Row /\ rows[k].revision \in Nat
        BY <2>1, <2>2, PresentRow DEF StoreInv
      <3>2. r \in Row
        BY <3>1 DEF Observed, Row
      <3>3. /\ r.uuid = rows[k].uuid
            /\ r.revision >= rows[k].revision
            /\ r.revision = rows[k].revision => r.spec = rows[k].spec
        BY <3>1 DEF Observed
      <3>4. r \in RowOrNone
        BY <3>2 DEF RowOrNone
      <3> HIDE DEF k, r
      <3>5. QED
        BY <1>0, <2>1, <2>2, <3>2, <3>3, <3>4, WriteStep
    <2>3. CASE UNCHANGED <<rows, commits>>
      BY <1>0, <2>1, <2>3, EndStep
    <2>4. QED
      BY <1>11, <2>2, <2>3 DEF PutStatus
  <1>12. ASSUME NEW c \in Requests, Leave(c) PROVE StoreInv'
    BY <1>0, <1>12, EndStep DEF Leave
  <1>13. CASE UNCHANGED vars
    BY <1>13 DEF vars, StoreInv, TypeOK, UuidsMinted, UuidsUnique, HeldCopies,
                 SnapshotsValid, ExpectedIsHeld
  <1>14. QED
    BY <1>1, <1>2, <1>3, <1>4, <1>5, <1>6, <1>7, <1>8, <1>9, <1>10, <1>11, <1>12, <1>13
    DEF Next

(* The inductive invariant holds throughout.                               *)
LEMMA SpecStoreInv == Spec => []StoreInv
  BY InitStoreInv, NextStoreInv, PTL DEF Spec

(* The store's rows and the requests' copies keep their types.             *)
THEOREM StoreTypeCorrect == Spec => []TypeOK
  <1>1. StoreInv => TypeOK
    BY DEF StoreInv
  <1>2. QED
    BY SpecStoreInv, <1>1, PTL

(* A copy with the row's uuid and revision is a copy of the row's spec,    *)
(* however the transactions of save, delete and put_status interleave.     *)
THEOREM RevisionSound == Spec => []RevisionIdentifiesSpec
  <1>1. StoreInv => RevisionIdentifiesSpec
    BY DEF StoreInv, HeldCopies, RevisionIdentifiesSpec
  <1>2. QED
    BY SpecStoreInv, <1>1, PTL

-----------------------------------------------------------------------------
(* What one step does to the table: nothing, or one write of the trait.    *)
LEMMA StepOfTable == StoreInv /\ [Next]_vars => [Table!Next]_(Table!vars)
  <1> SUFFICES ASSUME StoreInv, [Next]_vars PROVE [Table!Next]_(Table!vars)
    OBVIOUS
  <1> USE DEF Table!Next, Table!vars, Table!NoRow, NoRow
  <1>1. CASE UNCHANGED <<rows, minted>>
    BY <1>1
  <1>2. ASSUME NEW c \in Requests, SaveInserts(c) PROVE Table!Next
    <2>1. req[c].key \in Keys /\ rows[req[c].key] = NoRow /\ req[c].spec \in Specs
      BY <1>2, WriterSeesRow DEF SaveInserts, Commit, StoreInv, TypeOK
    <2>2. Table!Create(req[c].key, req[c].spec)
      BY <1>2, <2>1 DEF SaveInserts, Table!Create
    <2>3. QED
      BY <2>1, <2>2
  <1>3. ASSUME NEW c \in Requests, SaveUpdates(c) PROVE Table!Next
    <2>1. /\ req[c].key \in Keys /\ req[c].snap = rows[req[c].key]
          /\ rows[req[c].key] # NoRow /\ req[c].spec \in Specs
      BY <1>3, WriterSeesRow DEF SaveUpdates, Commit, StoreInv, TypeOK
    <2>2. Table!Revise(req[c].key, req[c].spec)
      BY <1>3, <2>1 DEF SaveUpdates, Revised, Table!Revise
    <2>3. QED
      BY <2>1, <2>2
  <1>4. ASSUME NEW c \in Requests, DeleteRemoves(c) PROVE Table!Next
    <2>1. req[c].key \in Keys /\ rows[req[c].key] # NoRow
      BY <1>4, WriterSeesRow DEF DeleteRemoves, Commit, StoreInv, TypeOK
    <2>2. Table!Remove(req[c].key)
      BY <1>4, <2>1 DEF DeleteRemoves, Table!Remove
    <2>3. QED
      BY <2>1, <2>2
  <1>5. ASSUME NEW c \in Requests, NEW st \in Statuses, PutStatus(c, st)
        PROVE  Table!Next \/ UNCHANGED <<rows, minted>>
    <2>1. req[c].key \in Keys
      BY <1>5 DEF PutStatus, StoreInv, TypeOK
    <2>2. UNCHANGED <<rows, minted>> \/ Table!Observe(req[c].key, st)
      BY <1>5 DEF PutStatus, Observed, Table!Observe
    <2>3. QED
      BY <2>1, <2>2
  <1>6. QED
    BY <1>1, <1>2, <1>3, <1>4, <1>5
    DEF Next, vars, Load, AssumeAbsent, BeginSave, BeginDelete, Enter,
        SaveRejected, DeleteRejected, RollBack, Leave

(* The store implements the table of its trait: the transactions of save   *)
(* and delete and the single statement of put_status appear atomic.        *)
THEOREM StoreImplementsTable == Spec => ImplementsTable
  <1>1. Init => Table!Init
    BY DEF Init, Table!Init, NoRow, Table!NoRow
  <1>2. QED
    BY SpecStoreInv, StepOfTable, <1>1, PTL DEF Spec, ImplementsTable, Table!Spec

-----------------------------------------------------------------------------
Edited(k) ==
  /\ rows[k].uuid # 0 /\ rows'[k].uuid = rows[k].uuid
  /\ <<rows'[k].spec, rows'[k].revision>> # <<rows[k].spec, rows[k].revision>>

(* Only save's UPDATE edits a living row, and its caller held the row.     *)
LEMMA EditStep ==
  ASSUME StoreInv, Next, NEW k \in Keys, Edited(k)
  PROVE  /\ rows'[k].revision = rows[k].revision + 1
         /\ \E c \in Requests :
              /\ req[c].stage = "saving" /\ req[c].key = k
              /\ req[c].held.revision = rows[k].revision
              /\ req[c].held.uuid = rows[k].uuid => req[c].held.spec = rows[k].spec
  <1>1. rows[k] # NoRow /\ rows[k] \in Row /\ rows' # rows
    BY PresentRow DEF Edited, NoRow, StoreInv
  <1>2. ASSUME NEW c \in Requests, SaveInserts(c) PROVE FALSE
    <2>1. req[c].key \in Keys /\ rows[req[c].key] = NoRow
      BY <1>2, WriterSeesRow DEF SaveInserts, Commit
    <2>2. rows'[k] = rows[k]
      BY <1>1, <1>2, <2>1 DEF SaveInserts, StoreInv, TypeOK
    <2>3. QED
      BY <2>2 DEF Edited
  <1>3. ASSUME NEW c \in Requests, DeleteRemoves(c) PROVE FALSE
    <2>1. req[c].key \in Keys
      BY <1>3 DEF DeleteRemoves, StoreInv, TypeOK
    <2>2. rows'[k] = rows[k] \/ rows'[k] = NoRow
      BY <1>3, <2>1 DEF DeleteRemoves, StoreInv, TypeOK
    <2>3. QED
      BY <2>2, NoRowIsNoRow DEF Edited
  <1>4. ASSUME NEW c \in Requests, NEW st \in Statuses, PutStatus(c, st) PROVE FALSE
    <2>1. rows' = [rows EXCEPT ![req[c].key] = Observed(rows[req[c].key], st)]
      BY <1>1, <1>4 DEF PutStatus
    <2>2. rows'[k].spec = rows[k].spec /\ rows'[k].revision = rows[k].revision
      BY <2>1 DEF Observed, StoreInv, TypeOK
    <2>3. QED
      BY <2>2 DEF Edited
  <1>5. PICK c \in Requests : SaveUpdates(c)
    BY <1>1, <1>2, <1>3, <1>4
    DEF Next, Load, AssumeAbsent, BeginSave, BeginDelete, Enter, SaveRejected,
        DeleteRejected, RollBack, Leave
  <1>6. req[c].key = k
    <2>1. req[c].key # k => rows'[k] = rows[k]
      BY <1>5 DEF SaveUpdates, StoreInv, TypeOK
    <2>2. QED
      BY <2>1 DEF Edited
  <1>7. req[c].snap = rows[k] /\ req[c].stage = "saving"
    BY <1>5, <1>6, WriterSeesRow DEF SaveUpdates, Commit
  <1>8. rows'[k].revision = rows[k].revision + 1
    BY <1>5, <1>6, <1>7 DEF SaveUpdates, Revised, StoreInv, TypeOK
  <1>9. req[c].held.revision = rows[k].revision
    BY <1>5, <1>7 DEF SaveUpdates, StoreInv, ExpectedIsHeld
  <1>10. req[c].held.uuid = rows[k].uuid => req[c].held.spec = rows[k].spec
    BY <1>1, <1>9, NoRowIsNoRow DEF Edited, StoreInv, HeldCopies
  <1>11. QED
    BY <1>6, <1>7, <1>8, <1>9, <1>10

(* No lost update, for any number of requests and keys: an edit of a       *)
(* living row replaces exactly the revision its author had loaded.         *)
THEOREM NoUpdateIsLost == Spec => NoLostUpdate
  <1> DEFINE A == \A k \in Keys :
         /\ rows[k].uuid # 0 /\ rows'[k].uuid = rows[k].uuid
         /\ <<rows'[k].spec, rows'[k].revision>> # <<rows[k].spec, rows[k].revision>>
         => /\ rows'[k].revision = rows[k].revision + 1
            /\ \E c \in Requests :
                 /\ req[c].stage = "saving" /\ req[c].key = k
                 /\ req[c].held.revision = rows[k].revision
                 /\ req[c].held.uuid = rows[k].uuid => req[c].held.spec = rows[k].spec
  <1>1. StoreInv /\ [Next]_vars => [A]_vars
    BY EditStep DEF Edited
  <1>2. QED
    BY SpecStoreInv, <1>1, PTL DEF Spec, NoLostUpdate

-----------------------------------------------------------------------------
Service == [kind : {"none", "rotate", "install", "uninstall"}, name : Names \cup {NoValue},
            stage : {"idle", "apply", "put", "drop"}, value : 0..MaxSecrets, raced : BOOLEAN]

Files == [pass |-> pass, salt |-> salt]
Needed(file) == IF file \in Whole THEN 0 ELSE 1

\* The halves of the key a boot still has to make can be made, and none is
\* missing once the store is opened.
KeysSuffice ==
  /\ phase \in {"down", "refused"} => made + Needed(pass) + Needed(salt) <= MaxKeys
  /\ phase = "refused" => pass = Short
  /\ phase = "salting" => pass \in Whole /\ made + Needed(salt) <= MaxKeys
  /\ phase = "writing" => pass \in Whole /\ salt = Short /\ made < MaxKeys
  /\ phase \in {"opening", "up"} => pass \in Whole /\ salt \in Whole
  /\ phase = "up" => key = Files

\* Until a power loss, what is in the file was encrypted under the key the two
\* key files make, and so was what is in the cache.
KeysHold ==
  ~lost =>
    /\ pass # Short
    /\ \A n \in Names : disk[n] # NoEntry =>
         pass \in Whole /\ salt \in Whole /\ disk[n].key = Files
    /\ phase = "up" => \A n \in Names : cache[n] # NoEntry => cache[n].key = Files

\* The file holds what was acknowledged, and so does the cache of a running
\* server.
FileAgrees ==
  \A n \in Names \ unsure :
    /\ (disk[n] = NoEntry) <=> (answered[n] = 0)
    /\ disk[n] # NoEntry => disk[n].value = answered[n]
    /\ phase = "up" => cache[n] = disk[n]

\* Requests are served by a running server only, and carry what they will use.
Served ==
  \A h \in Handlers :
    /\ serving[h].stage = "idle" => serving[h].name = NoValue
    /\ serving[h].stage # "idle" => phase = "up" /\ serving[h].name \in Names
    /\ serving[h].stage \in {"apply", "put"} => serving[h].value # 0

\* Two requests for one name know of each other.
RacesAreKnown ==
  \A h, i \in Handlers :
    h # i /\ serving[h].name = serving[i].name /\ serving[h].name \in Names =>
      serving[h].raced

\* A rotation that nothing races goes to the vault with what the component took.
AppliedBeforeStored ==
  \A h \in Handlers :
    LET r == serving[h] IN
    r.kind = "rotate" /\ r.stage = "put" /\ ~r.raced /\ r.name \in Wired =>
      live[r.name] = r.value

\* No psql left by an earlier request is still to change what such a rotation
\* sets.
NoStrays ==
  \A h \in Handlers :
    serving[h].kind = "rotate" /\ ~serving[h].raced =>
      \A s \in psql : s.name # serving[h].name

\* A rotation that reported success is acknowledged, and nothing touches its
\* name.
RotatedIsQuiet ==
  \A n \in Names :
    rotated[n] # 0 =>
      /\ n \notin unsure /\ answered[n] = rotated[n]
      /\ \A h \in Handlers : serving[h].name # n
      /\ \A s \in psql : s.name # n
      /\ n \in Wired => live[n] = rotated[n]

VaultInv ==
  /\ VaultTypeOK /\ KeysSuffice /\ KeysHold /\ FileAgrees
  /\ Served /\ RacesAreKnown /\ AppliedBeforeStored /\ NoStrays /\ RotatedIsQuiet

LEMMA InvariantImplies ==
  ASSUME VaultInv
  PROVE  AcknowledgedSecretsReadable /\ SecretsAreRightOrUnreadable /\ RotatedSecretIsLive
<1>. USE DEF VaultInv
<1>1. ASSUME NEW n \in Names, disk[n] # NoEntry PROVE disk[n] \in Entry
  BY <1>1 DEF VaultTypeOK
<1>2. ASSUME NEW n \in Names \ unsure, phase = "up"
      PROVE  /\ cache[n] = disk[n] /\ key = Files
             /\ (cache[n] = NoEntry) <=> (answered[n] = 0)
             /\ cache[n] # NoEntry => cache[n].value = answered[n] /\ cache[n] \in Entry
             /\ cache[n] # NoEntry /\ ~lost => cache[n].key = key
  BY <1>1, <1>2 DEF FileAgrees, KeysSuffice, KeysHold
<1>3. AcknowledgedSecretsReadable
  BY <1>2 DEF AcknowledgedSecretsReadable, Entry
<1>4. SecretsAreRightOrUnreadable
  BY <1>2 DEF SecretsAreRightOrUnreadable, Readable
<1>5. RotatedSecretIsLive
  BY <1>2, AppliedAssumption DEF RotatedSecretIsLive, RotatedIsQuiet, Readable
<1> QED BY <1>3, <1>4, <1>5

LEMMA RestingIsARequest ==
  Resting \in Service /\ Resting.name = NoValue /\ Resting.stage = "idle"
BY BoundsAssumption DEF Resting, Service

LEMMA InitKeeps == ASSUME VaultInit PROVE VaultInv
<1>. USE BoundsAssumption, NoValueAssumption DEF VaultInit
<1>1. VaultTypeOK
  <2>1. 0 \in 0..MaxSecrets /\ 0 \in 0..MaxKeys /\ 0 \in KeyFile
    BY DEF KeyFile
  <2>2. Resting \in Service
    BY RestingIsARequest
  <2> QED BY <2>1, <2>2 DEF Service, VaultTypeOK, Absent, NoEntries
<1>2. KeysSuffice /\ KeysHold
  BY DEF KeysSuffice, KeysHold, Needed, Whole, Absent, Short, NoEntries
<1>3. FileAgrees
  BY DEF FileAgrees, NoEntries
<1>4. Served /\ RacesAreKnown /\ AppliedBeforeStored /\ NoStrays /\ RotatedIsQuiet
  BY AppliedAssumption DEF Served, RacesAreKnown, AppliedBeforeStored, NoStrays, RotatedIsQuiet, Resting
<1> QED BY <1>1, <1>2, <1>3, <1>4 DEF VaultInv

-----------------------------------------------------------------------------
(* Boots and crashes.                                                      *)

LEMMA NobodyIsServed ==
  ASSUME Served, phase # "up"
  PROVE  \A h \in Handlers : serving[h].stage = "idle"
BY DEF Served

\* A step of the boot leaves the requests, of which there are none, alone.
LEMMA BootKeepsRequests ==
  ASSUME VaultInv, phase # "up", UNCHANGED <<unsure, answered, live, psql, serving, rotated>>
  PROVE  Served' /\ RacesAreKnown' /\ AppliedBeforeStored' /\ NoStrays' /\ RotatedIsQuiet'
<1>1. \A h \in Handlers : serving[h].stage = "idle"
  BY NobodyIsServed DEF VaultInv
<1> QED
  BY <1>1 DEF VaultInv, Served, RacesAreKnown, AppliedBeforeStored, NoStrays, RotatedIsQuiet

LEMMA ResolveKeeps == ASSUME VaultInv, ResolvePassphrase PROVE VaultInv'
<1>. USE BoundsAssumption DEF VaultInv
<1>1. /\ phase = "down" /\ phase' \in {"salting", "refused"}
      /\ UNCHANGED <<salt, lost, key, cache, disk, answered, unsure, live, psql, issued, serving,
                     rotated>>
  BY DEF ResolvePassphrase, vault
<1>2. made \in Nat /\ pass \in Nat /\ made + Needed(pass) + Needed(salt) <= MaxKeys
  BY <1>1 DEF VaultTypeOK, KeyFile, KeysSuffice
<1>3. VaultTypeOK' /\ KeysSuffice'
  <2>1. CASE pass \in Whole /\ phase' = "salting" /\ UNCHANGED <<pass, settled, made>>
    BY <1>1, <1>2, <2>1 DEF VaultTypeOK, KeysSuffice, Needed
  <2>2. CASE pass = Short /\ phase' = "refused" /\ UNCHANGED <<pass, settled, made>>
    BY <1>1, <1>2, <2>2 DEF VaultTypeOK, KeysSuffice, Needed
  <2>3. CASE /\ pass = Absent /\ made' = made + 1 /\ pass' = made'
             /\ settled' = settled \ {"pass"} /\ phase' = "salting"
    <3>1. Needed(pass) = 1 /\ Needed(salt) \in {0, 1}
      BY <2>3 DEF Needed, Whole, Absent
    <3>2. made' \in Whole /\ made' \in KeyFile /\ made' \in 0..MaxKeys
          /\ made' + Needed(salt) <= MaxKeys
      BY <1>2, <2>3, <3>1 DEF Whole, KeyFile
    <3>3. VaultTypeOK'
      BY <1>1, <2>3, <3>2 DEF VaultTypeOK
    <3>4. Needed(salt)' = Needed(salt)
      BY <1>1 DEF Needed
    <3> QED BY <1>1, <2>3, <3>2, <3>3, <3>4 DEF KeysSuffice
  <2> QED BY <2>1, <2>2, <2>3 DEF ResolvePassphrase
<1>4. KeysHold'
  BY <1>1, <1>2 DEF ResolvePassphrase, KeysHold, Files, Needed, Whole, Absent, Short
<1>5. FileAgrees'
  BY <1>1 DEF FileAgrees
<1> QED BY <1>1, <1>3, <1>4, <1>5, BootKeepsRequests

LEMMA SaltKeeps == ASSUME VaultInv, EnsureSalt \/ WriteSalt PROVE VaultInv'
<1>. USE BoundsAssumption DEF VaultInv
<1>1. /\ phase \in {"salting", "writing"} /\ phase' \in {"writing", "opening"}
      /\ UNCHANGED <<pass, lost, key, cache, disk, answered, unsure, live, psql, issued, serving,
                     rotated>>
  BY DEF EnsureSalt, WriteSalt, vault
<1>2. made \in Nat /\ pass \in Whole
  BY <1>1 DEF VaultTypeOK, KeysSuffice
<1>3. VaultTypeOK' /\ KeysSuffice'
  <2>1. CASE salt \in Whole /\ salt' = salt /\ phase' = "opening" /\ UNCHANGED <<settled, made>>
    BY <1>1, <1>2, <2>1 DEF VaultTypeOK, KeysSuffice
  <2>2. CASE /\ phase = "salting" /\ salt \notin Whole /\ salt' = Short /\ phase' = "writing"
             /\ UNCHANGED <<settled, made>>
    <3>1. made + 1 <= MaxKeys /\ Short \in KeyFile
      BY <1>2, <2>2 DEF KeysSuffice, Needed, KeyFile, Short
    <3> QED BY <1>1, <1>2, <2>2, <3>1 DEF VaultTypeOK, KeysSuffice
  <2>3. CASE /\ phase = "writing" /\ made' = made + 1 /\ salt' = made'
             /\ settled' = settled \ {"salt"} /\ phase' = "opening"
    <3>1. made' \in Whole /\ made' \in KeyFile /\ made' \in 0..MaxKeys
      BY <1>2, <2>3 DEF KeysSuffice, Whole, KeyFile
    <3> QED BY <1>1, <1>2, <2>3, <3>1 DEF VaultTypeOK, KeysSuffice
  <2> QED BY <2>1, <2>2, <2>3 DEF EnsureSalt, WriteSalt
<1>4. KeysHold'
  BY <1>1, <1>2 DEF EnsureSalt, WriteSalt, KeysHold, KeysSuffice, Files, Whole, Short
<1>5. FileAgrees'
  BY <1>1 DEF FileAgrees
<1> QED BY <1>1, <1>3, <1>4, <1>5, BootKeepsRequests

LEMMA OpenKeeps == ASSUME VaultInv, OpenStore PROVE VaultInv'
<1>. USE DEF VaultInv
<1>1. /\ phase = "opening" /\ phase' = "up" /\ key' = Files /\ cache' = disk
      /\ UNCHANGED <<pass, salt, settled, made, lost, disk, answered, unsure, live, psql, issued,
                     serving, rotated>>
  BY DEF OpenStore, Files
<1>2. pass \in Whole /\ salt \in Whole /\ Files \in Key
  BY <1>1 DEF KeysSuffice, Files, Key
<1>3. VaultTypeOK'
  BY <1>1, <1>2 DEF VaultTypeOK
<1>4. KeysSuffice' /\ KeysHold' /\ FileAgrees'
  BY <1>1, <1>2 DEF KeysSuffice, KeysHold, FileAgrees, Files
<1> QED BY <1>1, <1>3, <1>4, BootKeepsRequests

LEMMA DeleteKeeps == ASSUME VaultInv, DeletePassphrase PROVE VaultInv'
<1>. USE BoundsAssumption DEF VaultInv
<1>1. /\ phase = "refused" /\ phase' = "down" /\ pass' = Absent
      /\ UNCHANGED <<salt, settled, made, lost, key, cache, disk, answered, unsure, live, psql, issued,
                     serving, rotated>>
  BY DEF DeletePassphrase, vault
<1>2. VaultTypeOK' /\ FileAgrees'
  BY <1>1 DEF VaultTypeOK, FileAgrees, KeyFile, Absent
<1>3. KeysSuffice' /\ KeysHold'
  <2>1. pass = Short /\ Needed(pass) = 1 /\ Needed(pass)' = 1 /\ Needed(salt)' = Needed(salt)
    BY <1>1 DEF KeysSuffice, Needed, Whole, Short, Absent
  <2>2. lost
    BY <2>1 DEF KeysHold
  <2> QED BY <1>1, <2>1, <2>2 DEF KeysSuffice, KeysHold
<1> QED BY <1>1, <1>2, <1>3, BootKeepsRequests

LEMMA SettleKeeps == ASSUME VaultInv, Settle PROVE VaultInv'
<1>1. /\ settled' = settled \cup {"pass", "salt"}
      /\ UNCHANGED <<phase, pass, salt, made, lost, key, cache, disk, answered, unsure, live, psql,
                     issued, serving, rotated>>
  BY DEF Settle, vault
<1>2. VaultTypeOK' /\ KeysSuffice' /\ KeysHold' /\ FileAgrees'
  BY <1>1 DEF VaultInv, VaultTypeOK, KeysSuffice, KeysHold, FileAgrees, Needed, Files
<1>3. Served' /\ RacesAreKnown' /\ AppliedBeforeStored' /\ NoStrays' /\ RotatedIsQuiet'
  BY <1>1 DEF VaultInv, Served, RacesAreKnown, AppliedBeforeStored, NoStrays, RotatedIsQuiet
<1> QED BY <1>2, <1>3 DEF VaultInv

Stray == [name : Wired, value : 0..MaxSecrets]

LEMMA InHandIs ==
  ASSUME VaultTypeOK, NEW h \in Handlers, NEW s \in InHand(h)
  PROVE  s \in Stray /\ s.name = serving[h].name /\ serving[h].stage = "apply"
<1>1. serving[h].value \in 0..MaxSecrets
  BY DEF VaultTypeOK
<1> QED BY <1>1 DEF InHand, Stray

LEMMA CrashKeeps == ASSUME VaultInv, Crash PROVE VaultInv'
<1>. USE BoundsAssumption DEF VaultInv
<1>1. /\ phase' = "down" /\ key' = NoKey /\ cache' = NoEntries
      /\ pass' \in Left(pass, "pass") /\ salt' \in Left(salt, "salt")
      /\ lost' = (lost \/ pass' # pass \/ salt' # salt)
      /\ made + Needed(pass') + Needed(salt') <= MaxKeys
      /\ serving' = [h \in Handlers |-> Resting]
      /\ UNCHANGED <<settled, made, disk, answered, unsure, live, issued, rotated>>
  BY DEF Crash, Needed
<1>2. pass' \in KeyFile /\ salt' \in KeyFile
  BY <1>1 DEF VaultTypeOK, Left, KeyFile, Short, Absent
<1>3. Resting \in Service
  BY RestingIsARequest
<1>9. \A s \in psql' : s \in Stray /\ (s \in psql \/ \E h \in Handlers : s.name = serving[h].name)
  <2>1. psql' \subseteq psql \cup UNION {InHand(h) : h \in Handlers}
    BY DEF Crash
  <2>2. psql \subseteq Stray
    BY DEF VaultTypeOK, Stray
  <2> QED BY <2>1, <2>2, InHandIs
<1>4. VaultTypeOK'
  BY <1>1, <1>2, <1>3, <1>9 DEF Service, VaultTypeOK, NoEntries, Stray
<1>5. KeysSuffice'
  BY <1>1 DEF KeysSuffice, Needed
<1>6. KeysHold' /\ FileAgrees'
  BY <1>1 DEF KeysHold, FileAgrees, Files
<1>7. Served' /\ RacesAreKnown' /\ AppliedBeforeStored' /\ NoStrays' /\ RotatedIsQuiet'
  BY <1>1, <1>9, NoValueAssumption
     DEF Served, RacesAreKnown, AppliedBeforeStored, NoStrays, RotatedIsQuiet, Resting
<1> QED BY <1>4, <1>5, <1>6, <1>7

-----------------------------------------------------------------------------
(* Requests.                                                               *)

\* A request that starts makes every other one for its name a raced one, and
\* is raced itself if there is any.
LEMMA ServeIs ==
  ASSUME VaultTypeOK, NEW h \in Handlers, NEW n \in Names, NEW value \in 0..MaxSecrets,
         NEW kind \in {"rotate", "install", "uninstall"}, NEW stage \in {"apply", "put", "drop"},
         Serve(h, kind, n, stage, value)
  PROVE  /\ serving' \in [Handlers -> Service]
         /\ serving'[h].kind = kind /\ serving'[h].name = n /\ serving'[h].stage = stage
         /\ serving'[h].value = value
         /\ \A i \in Handlers \ {h} :
              /\ serving'[i].kind = serving[i].kind /\ serving'[i].name = serving[i].name
              /\ serving'[i].stage = serving[i].stage /\ serving'[i].value = serving[i].value
              /\ serving[i].raced => serving'[i].raced
              /\ serving[i].name = n => serving'[i].raced /\ serving'[h].raced
         /\ \A s \in psql : s.name = n => serving'[h].raced
<1>. DEFINE rivals == {i \in Handlers \ {h} : serving[i].name = n}
            own == [kind |-> kind, name |-> n, stage |-> stage, value |-> value,
                    raced |-> rivals # {} \/ \E s \in psql : s.name = n]
            other(i) == [serving[i] EXCEPT !.raced = @ \/ i \in rivals]
<1>1. serving' = [i \in Handlers |-> IF i = h THEN own ELSE other(i)]
  BY DEF Serve
<1>2. own \in Service
  BY DEF Service
<1>3. \A i \in Handlers : serving[i] \in Service
  BY DEF VaultTypeOK, Service
<1>4. ASSUME NEW i \in Handlers
      PROVE  /\ other(i) \in Service
             /\ other(i).kind = serving[i].kind /\ other(i).name = serving[i].name
             /\ other(i).stage = serving[i].stage /\ other(i).value = serving[i].value
             /\ serving[i].raced => other(i).raced
             /\ i \in rivals => other(i).raced
  <2>. HIDE DEF rivals
  <2>1. serving[i].raced \in BOOLEAN /\ (serving[i].raced \/ i \in rivals) \in BOOLEAN
    BY <1>3 DEF Service
  <2> QED BY <1>3, <2>1 DEF Service
<1>5. serving' \in [Handlers -> Service]
  BY <1>1, <1>2, <1>4
<1>6. serving'[h] = own /\ \A i \in Handlers \ {h} : serving'[i] = other(i)
  BY <1>1
<1>7. /\ \A i \in Handlers \ {h} : serving[i].name = n => i \in rivals /\ own.raced
      /\ \A s \in psql : s.name = n => own.raced
  OBVIOUS
<1>. HIDE DEF rivals, other
<1> QED BY <1>4, <1>5, <1>6, <1>7

\* What a new request keeps: the vault is not touched, and its name has no
\* finished rotation any more.
LEMMA StartKeeps ==
  ASSUME VaultInv, NEW h \in Handlers, NEW n \in Names, NEW value \in 0..MaxSecrets,
         NEW kind \in {"rotate", "install", "uninstall"}, NEW stage \in {"apply", "put", "drop"},
         phase = "up", serving[h] = Resting, Serve(h, kind, n, stage, value),
         rotated' = [rotated EXCEPT ![n] = 0],
         stage \in {"apply", "put"} => value # 0,
         stage = "put" => n \notin Applied,
         live' \in {live, [live EXCEPT ![n] = 0]},
         issued' \in 0..MaxSecrets, UNCHANGED <<boot, vault, psql>>
  PROVE  VaultInv'
<1>. USE DEF VaultInv
<1>1. /\ serving' \in [Handlers -> Service]
      /\ serving'[h].kind = kind /\ serving'[h].name = n /\ serving'[h].stage = stage
      /\ serving'[h].value = value
      /\ \A i \in Handlers \ {h} :
           /\ serving'[i].kind = serving[i].kind /\ serving'[i].name = serving[i].name
           /\ serving'[i].stage = serving[i].stage /\ serving'[i].value = serving[i].value
           /\ serving[i].raced => serving'[i].raced
           /\ serving[i].name = n => serving'[i].raced /\ serving'[h].raced
      /\ \A s \in psql : s.name = n => serving'[h].raced
  BY ServeIs
<1>2. UNCHANGED <<phase, pass, salt, settled, made, lost, key, cache, disk, answered, unsure>>
  BY DEF boot, vault
<1>3. 0 \in 0..MaxSecrets
  BY BoundsAssumption
<1>4. VaultTypeOK'
  BY <1>1, <1>2, <1>3 DEF VaultTypeOK, Service
<1>5. KeysSuffice' /\ KeysHold' /\ FileAgrees'
  BY <1>2 DEF KeysSuffice, KeysHold, FileAgrees, Needed, Files
<1>6. Served'
  BY <1>1, <1>2 DEF Served
<1>7. RacesAreKnown'
  BY <1>1 DEF RacesAreKnown
<1>8. \A m \in Names : m # n => live'[m] = live[m] /\ rotated'[m] = rotated[m]
  BY DEF VaultTypeOK
<1>9. rotated'[n] = 0
  BY DEF VaultTypeOK
<1>10. AppliedBeforeStored'
  <2>. SUFFICES ASSUME NEW i \in Handlers, serving'[i].kind = "rotate", serving'[i].stage = "put",
                       ~serving'[i].raced, serving'[i].name \in Wired
                PROVE  live'[serving'[i].name] = serving'[i].value
    BY DEF AppliedBeforeStored
  <2>1. i # h
    BY <1>1, AppliedAssumption
  <2>2. /\ serving[i].kind = "rotate" /\ serving[i].stage = "put" /\ ~serving[i].raced
        /\ serving[i].name \in Wired /\ serving[i].name # n
        /\ serving'[i].name = serving[i].name /\ serving'[i].value = serving[i].value
    BY <1>1, <2>1
  <2> QED BY <1>8, <2>2, AppliedAssumption DEF AppliedBeforeStored
<1>11. RotatedIsQuiet'
  BY <1>1, <1>2, <1>8, <1>9, AppliedAssumption DEF RotatedIsQuiet
<1>12. NoStrays'
  BY <1>1 DEF NoStrays
<1> QED BY <1>4, <1>5, <1>6, <1>7, <1>10, <1>11, <1>12

LEMMA BeginKeeps ==
  ASSUME VaultInv, NEW h \in Handlers, NEW n \in Names,
         Rotate(h, n) \/ Install(h, n) \/ Uninstall(h, n)
  PROVE  VaultInv'
<1>1. ASSUME NEW kind \in {"rotate", "install"}, Begin(h, kind, n, FirstStage(n))
      PROVE  VaultInv'
  <2>1. issued' \in 0..MaxSecrets /\ issued' # 0
    BY <1>1, BoundsAssumption DEF Begin, VaultInv, VaultTypeOK
  <2>2. FirstStage(n) \in {"apply", "put"} /\ (FirstStage(n) = "put" => n \notin Applied)
    BY DEF FirstStage
  <2> QED BY <1>1, <2>1, <2>2, StartKeeps DEF Begin
<1>2. CASE Uninstall(h, n)
  <2>1. 0 \in 0..MaxSecrets /\ issued \in 0..MaxSecrets
    BY BoundsAssumption DEF VaultInv, VaultTypeOK
  <2> QED BY <1>2, <2>1, StartKeeps DEF Uninstall
<1> QED BY <1>1, <1>2 DEF Rotate, Install

\* A request goes on, or ends; in doing so it may have set the component's
\* password for its own name, or left that to psql.
LEMMA GoOnKeeps ==
  ASSUME VaultInv, NEW h \in Handlers, NEW r \in Service, Goto(h, r),
         \/ r = Resting
         \/ /\ serving[h].stage = "apply" /\ r.stage = "put"
            /\ r.name = serving[h].name /\ r.value = serving[h].value
            /\ r.raced = serving[h].raced /\ r.kind = serving[h].kind
            /\ r.kind = "rotate" =>
                 psql' = psql /\ (r.name \in Wired => live' = [live EXCEPT ![r.name] = r.value]),
         \/ live' = live
         \/ serving[h].stage = "apply"
            /\ live' = [live EXCEPT ![serving[h].name] = serving[h].value],
         psql' \in {psql, psql \cup InHand(h)},
         UNCHANGED <<boot, vault, issued, rotated>>
  PROVE  VaultInv'
<1>. USE DEF VaultInv
<1>11. \A s \in psql' : s \in Stray /\ (s \in psql \/ s.name = serving[h].name)
  <2>1. psql \subseteq Stray
    BY DEF VaultTypeOK, Stray
  <2> QED BY <2>1, InHandIs
<1>1. /\ serving' \in [Handlers -> Service] /\ serving'[h] = r
      /\ \A i \in Handlers \ {h} : serving'[i] = serving[i]
  BY DEF Goto, VaultTypeOK, Service
<1>2. UNCHANGED <<phase, pass, salt, settled, made, lost, key, cache, disk, answered, unsure>>
  BY DEF boot, vault
<1>3. serving[h] \in Service /\ serving[h].value \in 0..MaxSecrets
  BY DEF VaultTypeOK, Service
<1>4. VaultTypeOK'
  BY <1>1, <1>2, <1>3, <1>11 DEF VaultTypeOK, Service, Stray
<1>5. KeysSuffice' /\ KeysHold' /\ FileAgrees'
  BY <1>2 DEF KeysSuffice, KeysHold, FileAgrees, Needed, Files
<1>6. Served'
  BY <1>1, <1>2, RestingIsARequest DEF Served, Resting
<1>7. RacesAreKnown'
  BY <1>1, RestingIsARequest, NoValueAssumption DEF RacesAreKnown
<1>8. \A m \in Names : m # serving[h].name => live'[m] = live[m]
  BY DEF VaultTypeOK
<1>9. AppliedBeforeStored'
  <2>. SUFFICES ASSUME NEW i \in Handlers, serving'[i].kind = "rotate", serving'[i].stage = "put",
                       ~serving'[i].raced, serving'[i].name \in Wired
                PROVE  live'[serving'[i].name] = serving'[i].value
    BY DEF AppliedBeforeStored
  <2>1. CASE i = h
    <3>1. /\ r.stage = "put" /\ r.kind = "rotate" /\ r.name \in Wired
          /\ live' = [live EXCEPT ![r.name] = r.value]
      BY <1>1, <2>1, RestingIsARequest
    <3> QED BY <1>1, <2>1, <3>1, AppliedAssumption DEF VaultTypeOK
  <2>2. CASE i # h
    <3>1. live[serving[i].name] = serving[i].value /\ serving[i].name \in Names
      BY <1>1, <2>2, AppliedAssumption DEF AppliedBeforeStored
    <3>2. serving[i].name # serving[h].name
      BY <1>1, <2>2, <3>1 DEF RacesAreKnown
    <3> QED BY <1>1, <1>8, <2>2, <3>1, <3>2
  <2> QED BY <2>1, <2>2
<1>10. RotatedIsQuiet'
  <2>. SUFFICES ASSUME NEW n \in Names, rotated'[n] # 0
                PROVE  /\ n \notin unsure' /\ answered'[n] = rotated'[n]
                       /\ \A i \in Handlers : serving'[i].name # n
                       /\ \A s \in psql' : s.name # n
                       /\ n \in Wired => live'[n] = rotated'[n]
    BY DEF RotatedIsQuiet
  <2>1. /\ n \notin unsure /\ answered[n] = rotated[n]
        /\ \A i \in Handlers : serving[i].name # n
        /\ \A s \in psql : s.name # n
        /\ n \in Wired => live[n] = rotated[n]
    BY DEF RotatedIsQuiet
  <2>2. \A i \in Handlers : serving'[i].name # n
    BY <1>1, <2>1, RestingIsARequest, NoValueAssumption
  <2> QED BY <1>2, <1>8, <1>11, <2>1, <2>2
<1>12. NoStrays'
  <2>. SUFFICES ASSUME NEW i \in Handlers, serving'[i].kind = "rotate", ~serving'[i].raced,
                       NEW s \in psql'
                PROVE  s.name # serving'[i].name
    BY DEF NoStrays
  <2>0. s.name \in Names
    BY <1>11, AppliedAssumption DEF Stray
  <2>1. CASE i = h
    BY <1>1, <2>0, <2>1, RestingIsARequest, NoValueAssumption DEF NoStrays
  <2>2. CASE i # h
    <3>1. serving'[i] = serving[i]
      BY <1>1, <2>2
    <3>2. s \in psql => s.name # serving[i].name
      BY <3>1 DEF NoStrays
    <3>3. s.name = serving[h].name => s.name # serving[i].name
      BY <2>0, <2>2, <3>1 DEF RacesAreKnown
    <3> QED BY <1>11, <3>1, <3>2, <3>3
  <2> QED BY <2>1, <2>2
<1> QED BY <1>4, <1>5, <1>6, <1>7, <1>9, <1>10, <1>12

LEMMA ApplyKeeps ==
  ASSUME VaultInv, NEW h \in Handlers, Apply(h) \/ HangUp(h) PROVE VaultInv'
<1>. DEFINE r == serving[h]
            next == [r EXCEPT !.stage = "put"]
<1>1. r \in Service
  BY DEF VaultInv, VaultTypeOK, Service
<1>2. /\ next \in Service /\ next.stage = "put" /\ next.name = r.name /\ next.value = r.value
      /\ next.raced = r.raced /\ next.kind = r.kind
  BY <1>1 DEF Service
<1>3. Resting \in Service
  BY RestingIsARequest
<1>. HIDE DEF next
<1>4. CASE /\ r.stage = "apply" /\ r.name \notin Wired /\ live' = live /\ psql' = psql
           /\ Goto(h, next) /\ UNCHANGED <<boot, vault, issued, rotated>>
  BY <1>2, <1>4, GoOnKeeps
<1>5. CASE /\ r.stage = "apply" /\ live' = [live EXCEPT ![r.name] = r.value] /\ psql' = psql
           /\ Goto(h, next) /\ UNCHANGED <<boot, vault, issued, rotated>>
  BY <1>2, <1>5, GoOnKeeps
<1>6. CASE /\ r.stage = "apply" /\ psql' \in {psql, psql \cup InHand(h)} /\ live' = live
           /\ IF r.kind = "rotate" THEN Goto(h, Resting) ELSE Goto(h, next)
           /\ UNCHANGED <<boot, vault, issued, rotated>>
  BY <1>2, <1>3, <1>6, GoOnKeeps
<1>7. CASE HangUp(h)
  BY <1>3, <1>7, GoOnKeeps DEF HangUp, Done
<1> QED BY <1>4, <1>5, <1>6, <1>7 DEF Apply, Done, next

\* A psql that ends late sets a name that no rotation vouches for.
LEMMA StrayKeeps == ASSUME VaultInv, NEW s \in psql, PsqlEnds(s) PROVE VaultInv'
<1>. USE DEF VaultInv
<1>1. s.name \in Wired /\ s.name \in Names /\ s.value \in 0..MaxSecrets
  BY AppliedAssumption DEF VaultTypeOK
<1>2. /\ UNCHANGED <<phase, pass, salt, settled, made, lost, key, cache, disk, answered, unsure,
                     issued, serving, rotated>>
      /\ psql' \subseteq psql
  BY DEF PsqlEnds, boot, vault
<1>3. /\ live' \in [Names -> 0..MaxSecrets]
      /\ \A m \in Names : m # s.name => live'[m] = live[m]
  BY <1>1 DEF PsqlEnds, VaultTypeOK
<1>4. VaultTypeOK'
  BY <1>2, <1>3 DEF VaultTypeOK
<1>5. KeysSuffice' /\ KeysHold' /\ FileAgrees' /\ Served' /\ RacesAreKnown'
  BY <1>2 DEF KeysSuffice, KeysHold, FileAgrees, Needed, Files, Served, RacesAreKnown
<1>6. AppliedBeforeStored'
  BY <1>2, <1>3, AppliedAssumption DEF AppliedBeforeStored, NoStrays
<1>7. NoStrays' /\ RotatedIsQuiet'
  BY <1>2, <1>3 DEF NoStrays, RotatedIsQuiet
<1> QED BY <1>4, <1>5, <1>6, <1>7

-----------------------------------------------------------------------------
(* Writes.                                                                 *)

\* A write of a request's own name, or none, keeps what ties the vault to its
\* file and to what was acknowledged.
LEMMA StoreKeeps ==
  ASSUME VaultInv, phase = "up", NEW n \in Names, NEW entry \in Entry \cup {NoEntry},
         entry # NoEntry => entry.key = key,
         Store(n, entry) \/ UNCHANGED vault,
         UNCHANGED boot
  PROVE  /\ cache' \in [Names -> Entry \cup {NoEntry}]
         /\ disk' \in [Names -> Entry \cup {NoEntry}]
         /\ answered' \in [Names -> 0..MaxSecrets] /\ unsure' \subseteq Names
         /\ KeysSuffice' /\ KeysHold' /\ FileAgrees'
         /\ \A m \in Names \ {n} :
              answered'[m] = answered[m] /\ (m \in unsure' <=> m \in unsure)
         /\ Store(n, entry) /\ n \notin unsure' => answered'[n] = entry.value
<1>. USE DEF VaultInv
<1>1. UNCHANGED <<phase, pass, salt, settled, made, lost, key>>
  BY DEF boot
<1>2. KeysSuffice'
  BY <1>1 DEF KeysSuffice, Needed, Files
<1>3. /\ entry.value \in 0..MaxSecrets
      /\ (entry = NoEntry) <=> (entry.value = 0)
  BY BoundsAssumption DEF Entry, NoEntry
<1>4. key = Files /\ pass \in Whole /\ salt \in Whole
  BY DEF KeysSuffice
<1>5. CASE UNCHANGED vault
  <2>1. UNCHANGED <<cache, disk, answered, unsure>>
    BY <1>5 DEF vault
  <2>2. KeysHold' /\ FileAgrees'
    BY <1>1, <2>1 DEF KeysHold, FileAgrees, Files
  <2>3. /\ cache' \in [Names -> Entry \cup {NoEntry}] /\ disk' \in [Names -> Entry \cup {NoEntry}]
        /\ answered' \in [Names -> 0..MaxSecrets] /\ unsure' \subseteq Names
    BY <2>1 DEF VaultTypeOK
  <2>4. Store(n, entry) /\ n \notin unsure' => answered'[n] = entry.value
    BY <2>1 DEF Store, VaultTypeOK
  <2> QED BY <1>2, <2>1, <2>2, <2>3, <2>4
<1>6. CASE Store(n, entry)
  <2>1. /\ cache' \in [Names -> Entry \cup {NoEntry}] /\ cache'[n] = entry
        /\ \A m \in Names \ {n} : cache'[m] = cache[m]
    BY <1>6 DEF Store, VaultTypeOK
  <2>2. CASE /\ disk' = cache' /\ answered' = [answered EXCEPT ![n] = entry.value]
             /\ unsure' = unsure \ {n}
    <3>1. /\ answered' \in [Names -> 0..MaxSecrets] /\ answered'[n] = entry.value
          /\ \A m \in Names \ {n} : answered'[m] = answered[m]
      BY <1>3, <2>2 DEF VaultTypeOK
    <3>2. KeysHold'
      BY <1>1, <1>4, <2>1, <2>2 DEF KeysHold, Files
    <3>3. FileAgrees'
      BY <1>1, <1>3, <2>1, <2>2, <3>1 DEF FileAgrees
    <3> QED BY <1>2, <2>1, <2>2, <3>1, <3>2, <3>3 DEF VaultTypeOK
  <2>3. CASE unsure' = unsure \cup {n} /\ UNCHANGED <<disk, answered>>
    <3>1. KeysHold'
      BY <1>1, <1>4, <2>1, <2>3 DEF KeysHold, Files
    <3>2. FileAgrees'
      BY <1>1, <2>1, <2>3 DEF FileAgrees
    <3> QED BY <1>2, <2>1, <2>3, <3>1, <3>2 DEF VaultTypeOK
  <2> QED BY <1>6, <2>2, <2>3 DEF Store
<1> QED BY <1>5, <1>6

\* The request that wrote is done; if it is a rotation that nothing raced and
\* the write was Ok, the component has the value it wrote.
LEMMA PutDropKeeps ==
  ASSUME VaultInv, NEW h \in Handlers, Put(h) \/ Drop(h) PROVE VaultInv'
<1>. USE DEF VaultInv
<1>. DEFINE r == serving[h]
            n == r.name
<1>1. /\ r \in Service /\ r.stage \in {"put", "drop"} /\ phase = "up" /\ n \in Names
      /\ r.stage = "put" => r.value # 0
  BY DEF Put, Drop, Served, VaultTypeOK, Service
<1>2. PICK entry \in Entry \cup {NoEntry} :
        /\ entry # NoEntry => entry.key = key
        /\ Store(n, entry) \/ UNCHANGED vault
        /\ Put(h) => Store(n, entry) /\ entry.value = r.value
  <2>1. CASE Put(h)
    <3>. DEFINE e == [value |-> r.value, key |-> key]
    <3>1. r.value \in 1..MaxSecrets /\ key \in Key
      BY <1>1, <2>1, BoundsAssumption DEF Put, Service, KeysSuffice, Files, Key
    <3>2. e \in Entry /\ e.key = key /\ e.value = r.value
      BY <3>1 DEF Entry
    <3>3. Store(n, e)
      BY <2>1 DEF Put
    <3> QED BY <3>2, <3>3
  <2>2. CASE Drop(h) /\ ~Put(h)
    BY <2>2 DEF Drop
  <2> QED BY <2>1, <2>2
<1>3. UNCHANGED <<boot, live, psql, issued>> /\ Goto(h, Resting)
  BY DEF Put, Drop, Done
<1>4. /\ cache' \in [Names -> Entry \cup {NoEntry}]
      /\ disk' \in [Names -> Entry \cup {NoEntry}]
      /\ answered' \in [Names -> 0..MaxSecrets] /\ unsure' \subseteq Names
      /\ KeysSuffice' /\ KeysHold' /\ FileAgrees'
      /\ \A m \in Names \ {n} :
           answered'[m] = answered[m] /\ (m \in unsure' <=> m \in unsure)
      /\ Store(n, entry) /\ n \notin unsure' => answered'[n] = entry.value
  <2>. HIDE DEF n, r, VaultInv
  <2> QED BY <1>1, <1>2, <1>3, StoreKeeps
<1>5. /\ serving' \in [Handlers -> Service] /\ serving'[h] = Resting
      /\ \A i \in Handlers \ {h} : serving'[i] = serving[i]
  BY <1>3, RestingIsARequest DEF Goto, VaultTypeOK, Service
<1>6. UNCHANGED <<phase, pass, salt, settled, made, lost, key>>
  BY <1>3 DEF boot
<1>7. rotated[n] = 0
  BY <1>1 DEF RotatedIsQuiet
<1>8. /\ rotated' \in [Names -> 0..MaxSecrets]
      /\ \A m \in Names \ {n} : rotated'[m] = rotated[m]
      /\ rotated'[n] # 0 =>
           Put(h) /\ r.kind = "rotate" /\ ~r.raced /\ n \notin unsure' /\ rotated'[n] = r.value
  <2>1. r.value \in 0..MaxSecrets /\ 0 \in 0..MaxSecrets
    BY <1>1, BoundsAssumption DEF Service
  <2> QED BY <1>1, <1>7, <2>1 DEF Put, Drop, VaultTypeOK
<1>9. VaultTypeOK'
  BY <1>3, <1>4, <1>5, <1>6, <1>8 DEF VaultTypeOK, Service
<1>10. Served' /\ RacesAreKnown'
  <2>1. Served'
    BY <1>5, <1>6, RestingIsARequest DEF Served
  <2>2. RacesAreKnown'
    BY <1>5, RestingIsARequest, NoValueAssumption DEF RacesAreKnown
  <2> QED BY <2>1, <2>2
<1>11. AppliedBeforeStored'
  BY <1>3, <1>5, RestingIsARequest DEF AppliedBeforeStored
<1>13. NoStrays'
  BY <1>3, <1>5 DEF NoStrays, Resting
<1>12. RotatedIsQuiet'
  <2>. SUFFICES ASSUME NEW m \in Names, rotated'[m] # 0
                PROVE  /\ m \notin unsure' /\ answered'[m] = rotated'[m]
                       /\ \A i \in Handlers : serving'[i].name # m
                       /\ \A s \in psql' : s.name # m
                       /\ m \in Wired => live'[m] = rotated'[m]
    BY DEF RotatedIsQuiet
  <2>1. CASE m = n
    <3>1. /\ Put(h) /\ r.kind = "rotate" /\ ~r.raced /\ n \notin unsure' /\ rotated'[n] = r.value
          /\ r.stage = "put"
      BY <1>8, <2>1 DEF Put
    <3>2. answered'[n] = r.value
      BY <1>2, <1>4, <3>1
    <3>3. n \in Wired => live[n] = r.value
      BY <3>1 DEF AppliedBeforeStored
    <3>5. \A s \in psql : s.name # n
      BY <3>1 DEF NoStrays
    <3>4. \A i \in Handlers : serving'[i].name # n
      BY <1>1, <1>5, <3>1, RestingIsARequest, NoValueAssumption DEF RacesAreKnown
    <3> QED BY <1>3, <2>1, <3>1, <3>2, <3>3, <3>4, <3>5
  <2>2. CASE m # n
    <3>1. rotated'[m] = rotated[m] /\ answered'[m] = answered[m] /\ (m \in unsure' <=> m \in unsure)
      BY <1>4, <1>8, <2>2
    <3>2. /\ m \notin unsure /\ answered[m] = rotated[m]
          /\ \A i \in Handlers : serving[i].name # m
          /\ \A s \in psql : s.name # m
          /\ m \in Wired => live[m] = rotated[m]
      BY <3>1 DEF RotatedIsQuiet
    <3>3. \A i \in Handlers : serving'[i].name # m
      BY <1>5, <3>2, RestingIsARequest, NoValueAssumption
    <3> QED BY <1>3, <3>1, <3>2, <3>3
  <2> QED BY <2>1, <2>2
<1> QED BY <1>4, <1>9, <1>10, <1>11, <1>12, <1>13

-----------------------------------------------------------------------------
(* The theorems.                                                           *)

LEMMA StepKeeps == ASSUME VaultInv, [VaultNext]_vaultVars PROVE VaultInv'
<1>1. CASE UNCHANGED vaultVars
  <2>1. UNCHANGED <<phase, pass, salt, settled, made, lost, key, cache, disk, answered, unsure,
                    live, psql, issued, serving, rotated>>
    BY <1>1 DEF vaultVars, boot, vault
  <2>2. VaultTypeOK' /\ KeysSuffice' /\ KeysHold' /\ FileAgrees'
    BY <2>1 DEF VaultInv, VaultTypeOK, KeysSuffice, KeysHold, FileAgrees, Needed, Files
  <2>3. Served' /\ RacesAreKnown' /\ AppliedBeforeStored' /\ NoStrays' /\ RotatedIsQuiet'
    BY <2>1 DEF VaultInv, Served, RacesAreKnown, AppliedBeforeStored, NoStrays, RotatedIsQuiet
  <2> QED BY <2>2, <2>3 DEF VaultInv
<1>2. CASE ResolvePassphrase \/ EnsureSalt \/ WriteSalt \/ OpenStore
  BY <1>2, ResolveKeeps, SaltKeeps, OpenKeeps
<1>3. CASE DeletePassphrase \/ Settle \/ Crash
  BY <1>3, DeleteKeeps, SettleKeeps, CrashKeeps
<1>4. ASSUME NEW h \in Handlers, NEW n \in Names, Rotate(h, n) \/ Install(h, n) \/ Uninstall(h, n)
      PROVE  VaultInv'
  BY <1>4, BeginKeeps
<1>5. ASSUME NEW h \in Handlers, Apply(h) \/ HangUp(h)
      PROVE  VaultInv'
  BY <1>5, ApplyKeeps
<1>6. ASSUME NEW h \in Handlers, Put(h) \/ Drop(h)
      PROVE  VaultInv'
  BY <1>6, PutDropKeeps
<1>7. ASSUME NEW s \in psql, PsqlEnds(s) PROVE VaultInv'
  BY <1>7, StrayKeeps
<1> QED BY <1>1, <1>2, <1>3, <1>4, <1>5, <1>6, <1>7 DEF VaultNext

LEMMA VaultInvAlways == VaultSpec => []VaultInv
<1>1. VaultInit => VaultInv
  BY InitKeeps
<1>2. VaultInv /\ [VaultNext]_vaultVars => VaultInv'
  BY StepKeeps
<1> QED BY <1>1, <1>2, PTL DEF VaultSpec

\* Every variable keeps its type: in particular no boot runs out of key halves
\* and no request is served under a name that is not one.
THEOREM VaultTypeCorrect == VaultSpec => []VaultTypeOK
<1>1. VaultInv => VaultTypeOK
  BY DEF VaultInv
<1> QED BY <1>1, VaultInvAlways, PTL

\* What SecretsStore's put and delete said Ok to is what get returns, through
\* crashes and re-boots of open_secrets_store at every step, until a power loss
\* takes a key file.
THEOREM AcknowledgedAlwaysReadable == VaultSpec => []AcknowledgedSecretsReadable
<1>1. VaultInv => AcknowledgedSecretsReadable
  BY InvariantImplies
<1> QED BY <1>1, VaultInvAlways, PTL

\* Whatever a power loss takes, get returns the acknowledged value, an error,
\* or "not found" when that was acknowledged, and never another value.
THEOREM NeverWrong == VaultSpec => []SecretsAreRightOrUnreadable
<1>1. VaultInv => SecretsAreRightOrUnreadable
  BY InvariantImplies
<1> QED BY <1>1, VaultInvAlways, PTL

\* A rotation of PostgreSQL's password that secrets_rotate_handler reported as
\* done, and that neither another request for its name nor a psql left by one
\* raced, leaves the vault and the component with the value the operator was
\* shown.
THEOREM RotationAgrees == VaultSpec => []RotatedSecretIsLive
<1>1. VaultInv => RotatedSecretIsLive
  BY InvariantImplies
<1> QED BY <1>1, VaultInvAlways, PTL

-----------------------------------------------------------------------------
(* The model cards: what a create or a delete is doing to the file and to  *)
(* the cache.                                                              *)
Clerk == [stage : {"rest", "check", "open", "line", "newline", "push", "retain", "rewrite"},
          id : Ids \cup {NoId}, handle : Nat]
CardLine == Seq(Ids \cup {NoId})

CardsTyped ==
  /\ attached \in BOOLEAN
  /\ cached \subseteq Ids /\ disturbed \subseteq Ids
  /\ written \subseteq CardLine /\ unended \in CardLine
  /\ inode \in Nat
  /\ clerk \in [Clients -> Clerk]
  /\ \A c \in Clients : clerk[c].stage # "rest" => clerk[c].id \in Ids
  /\ asked \in 0..MaxAsked
  /\ promised \in [Ids -> {"there", "gone"}]

Appending(c) == clerk[c].stage \in {"line", "newline", "push"}
Rewriting(id) == \E c \in Clients : clerk[c].id = id /\ clerk[c].stage = "rewrite"
Appended(id) == \E c \in Clients : clerk[c].id = id /\ clerk[c].stage \in {"newline", "push"}

(* One delete at a time rewrites the file, and its card is out of memory.  *)
OneRewrites ==
  /\ \A c, d \in Clients : clerk[c].stage = "rewrite" /\ clerk[d].stage = "rewrite" => c = d
  /\ \A c \in Clients : clerk[c].stage = "rewrite" => clerk[c].id \notin cached

(* An append that goes to a file already replaced is on record.            *)
AppendsToTheFile ==
  \A c \in Clients : Appending(c) => clerk[c].handle = inode \/ clerk[c].id \in disturbed

(* The last answer about a card says whether it is in memory, but while    *)
(* its delete rewrites the file.                                           *)
AnswersAreCached ==
  attached => \A id \in Ids \ disturbed :
    promised[id] = "there" <=> id \in cached \/ Rewriting(id)

(* The file holds what is in memory, what is on its way there and what is  *)
(* on its way out.                                                         *)
FileFollows ==
  attached => \A id \in Ids \ disturbed :
    Filed(id) <=> id \in cached \/ Appended(id) \/ Rewriting(id)

(* Without a registry nobody asks for a card, and the file stays           *)
(* unreadable.                                                             *)
DetachedRests ==
  ~attached => /\ \A c \in Clients : clerk[c].stage = "rest"
               /\ \E line \in Lines : ~(Len(line) = 1 /\ line # <<NoId>>)

RegistryInv ==
  /\ CardsTyped /\ OneRewrites /\ AppendsToTheFile
  /\ AnswersAreCached /\ FileFollows /\ DetachedRests

(* A card is in the file when a finished line or the unfinished one holds  *)
(* it: the blank lines that are left out hold none.                        *)
LEMMA FiledIs ==
  ASSUME NEW id
  PROVE  /\ Filed(id) <=> (\E line \in written : Contains(line, id)) \/ Contains(unended, id)
         /\ Filed(id)' <=> (\E line \in written' : Contains(line, id)) \/ Contains(unended', id)
<1>1. ~Contains(<<>>, id)
  BY DEF Contains
<1> QED
  BY <1>1 DEF Filed, Lines

LEMMA HeldByAppend ==
  ASSUME NEW S, NEW line \in Seq(S), NEW other \in S, NEW id
  PROVE  Contains(Append(line, other), id) <=> Contains(line, id) \/ id = other
<1> DEFINE longer == Append(line, other)
<1>1. /\ Len(longer) = Len(line) + 1 /\ Len(line) \in Nat
      /\ longer[Len(line) + 1] = other
      /\ \A i \in 1..Len(line) : longer[i] = line[i]
  OBVIOUS
<1> HIDE DEF longer
<1>2. ASSUME Contains(longer, id) PROVE Contains(line, id) \/ id = other
  <2>1. PICK i \in 1..Len(longer) : longer[i] = id
    BY <1>2 DEF Contains
  <2>2. i \in 1..Len(line) \/ i = Len(line) + 1
    BY <1>1
  <2> QED
    BY <1>1, <2>1, <2>2 DEF Contains
<1>3. ASSUME Contains(line, id) PROVE Contains(longer, id)
  <2>1. PICK i \in 1..Len(line) : line[i] = id
    BY <1>3 DEF Contains
  <2>2. i \in 1..Len(longer)
    BY <1>1
  <2> QED
    BY <1>1, <2>1, <2>2 DEF Contains
<1>4. ASSUME id = other PROVE Contains(longer, id)
  <2>1. Len(line) + 1 \in 1..Len(longer)
    BY <1>1
  <2> QED
    BY <1>1, <1>4, <2>1 DEF Contains
<1> QED
  BY <1>2, <1>3, <1>4 DEF longer

LEMMA RestIsAClerk == AtRest \in Clerk /\ AtRest.stage = "rest" /\ AtRest.id = NoId
BY DEF AtRest, Clerk

LEMMA CardsInit == ASSUME RegistryInit PROVE RegistryInv
<1>1. CardsTyped
  BY RestIsAClerk, CardsAssumption DEF RegistryInit, CardsTyped, CardLine
<1>2. \A c \in Clients : clerk[c].stage = "rest"
  BY RestIsAClerk DEF RegistryInit
<1>3. \A id : ~Contains(<<>>, id)
  BY DEF Contains
<1>4. \A id : ~Filed(id)
  BY <1>3, FiledIs DEF RegistryInit
<1> QED
  BY <1>1, <1>2, <1>4 DEF RegistryInv, RegistryInit, OneRewrites, AppendsToTheFile,
     AnswersAreCached, FileFollows, DetachedRests, Appending, Rewriting, Appended

(* A step that moves one clerk, leaves the file alone and what is on its   *)
(* way to it, keeps what is said of the file.                              *)
LEMMA ClerkMoves ==
  ASSUME CardsTyped, NEW c \in Clients, NEW x \in Clerk, clerk' = [clerk EXCEPT ![c] = x]
  PROVE  clerk'[c] = x /\ clerk' \in [Clients -> Clerk]
         /\ \A d \in Clients : d # c => clerk'[d] = clerk[d]
BY DEF CardsTyped

(* The clerk that a Turn makes.                                            *)
LEMMA TurnIs ==
  ASSUME CardsTyped, NEW c \in Clients, Turn(c, "open") \/ Turn(c, "newline") \/ Turn(c, "push")
                                        \/ Turn(c, "rewrite")
  PROVE  /\ clerk' \in [Clients -> Clerk]
         /\ clerk'[c].id = clerk[c].id /\ clerk'[c].handle = clerk[c].handle
         /\ Turn(c, "open") => clerk'[c].stage = "open"
         /\ Turn(c, "newline") => clerk'[c].stage = "newline"
         /\ Turn(c, "push") => clerk'[c].stage = "push"
         /\ Turn(c, "rewrite") => clerk'[c].stage = "rewrite"
         /\ \A d \in Clients : d # c => clerk'[d] = clerk[d]
BY DEF CardsTyped, Turn, Clerk

(* While nobody touches the file.                                          *)
LEMMA FiledStays ==
  ASSUME UNCHANGED <<written, unended>>
  PROVE  /\ \A id : Filed(id)' <=> Filed(id)
         /\ Lines' = Lines
BY DEF Filed, Lines

(* Requests that come, wait or are turned away touch nothing that is said  *)
(* of any card.                                                            *)
LEMMA QuietClerk ==
  ASSUME RegistryInv, NEW c \in Clients, attached, clerk' \in [Clients -> Clerk],
         \A d \in Clients : d # c => clerk'[d] = clerk[d],
         clerk[c].stage \notin {"line", "newline", "push", "rewrite"},
         clerk'[c].stage \notin {"newline", "push", "rewrite"},
         clerk'[c].stage # "rest" => clerk'[c].id \in Ids,
         clerk'[c].stage = "line" => clerk'[c].handle = inode,
         asked' \in 0..MaxAsked,
         UNCHANGED <<attached, cached, written, unended, inode, promised, disturbed>>
  PROVE  RegistryInv'
<1> USE DEF RegistryInv
<1>1. CardsTyped'
  BY DEF CardsTyped
<1>2. OneRewrites'
  BY DEF OneRewrites
<1>3. AppendsToTheFile'
  BY DEF AppendsToTheFile, Appending
<1>4. \A id : (Rewriting(id)' <=> Rewriting(id)) /\ (Appended(id)' <=> Appended(id))
  BY DEF Rewriting, Appended
<1>5. AnswersAreCached'
  BY <1>4 DEF AnswersAreCached
<1>6. FileFollows'
  BY <1>4, FiledStays DEF FileFollows
<1> QED
  BY <1>1, <1>2, <1>3, <1>5, <1>6 DEF DetachedRests

(* Come, Check and OpenFile are such steps.                                *)
LEMMA ComingKeeps ==
  ASSUME RegistryInv, NEW c \in Clients, Come(c) \/ Check(c) \/ OpenFile(c)
  PROVE  RegistryInv'
<1> USE DEF RegistryInv
<1>1. CASE Come(c)
  <2>1. PICK id \in Ids, stage \in {"check", "retain"} :
          clerk' = [clerk EXCEPT ![c] = [stage |-> stage, id |-> id, handle |-> 0]]
    BY <1>1 DEF Come
  <2>2. [stage |-> stage, id |-> id, handle |-> 0] \in Clerk
    BY DEF Clerk
  <2>3. asked' \in 0..MaxAsked
    BY <1>1, CardsAssumption DEF Come, CardsTyped
  <2> QED
    BY <1>1, <2>1, <2>2, <2>3, ClerkMoves, QuietClerk DEF Come, IsAt
<1>2. CASE Check(c)
  <2>1. attached /\ clerk[c].id \in Ids
    BY <1>2 DEF Check, IsAt, DetachedRests, CardsTyped
  <2>2. CASE Turn(c, "open")
    BY <1>2, <2>1, <2>2, TurnIs, QuietClerk DEF Check, IsAt, CardsTyped
  <2>3. CASE clerk' = [clerk EXCEPT ![c] = AtRest]
    BY <1>2, <2>1, <2>3, ClerkMoves, RestIsAClerk, QuietClerk DEF Check, IsAt, CardsTyped
  <2> QED
    BY <1>2, <2>2, <2>3 DEF Check
<1>3. CASE OpenFile(c)
  <2>1. attached /\ clerk[c].id \in Ids
    BY <1>3 DEF OpenFile, IsAt, DetachedRests, CardsTyped
  <2>2. /\ clerk' \in [Clients -> Clerk]
        /\ clerk'[c].stage = "line" /\ clerk'[c].id = clerk[c].id /\ clerk'[c].handle = inode
        /\ \A d \in Clients : d # c => clerk'[d] = clerk[d]
    <3> DEFINE k == [clerk[c] EXCEPT !.stage = "line", !.handle = inode]
    <3>1. clerk \in [Clients -> Clerk] /\ inode \in Nat
      BY DEF CardsTyped
    <3>2. k \in Clerk /\ k.stage = "line" /\ k.id = clerk[c].id /\ k.handle = inode
      BY <3>1 DEF Clerk
    <3>3. clerk' = [clerk EXCEPT ![c] = k]
      BY <1>3 DEF OpenFile
    <3> HIDE DEF k
    <3> QED
      BY <3>1, <3>2, <3>3
  <2> QED
    BY <1>3, <2>1, <2>2, QuietClerk DEF OpenFile, IsAt, CardsTyped
<1> QED
  BY <1>1, <1>2, <1>3

LEMMA AppendingKeeps ==
  ASSUME RegistryInv, NEW c \in Clients, AppendLine(c) \/ AppendNewline(c)
  PROVE  RegistryInv'
<1>0. PICK id : id = clerk[c].id
  OBVIOUS
<1> USE <1>0 DEF RegistryInv
<1>1. /\ attached /\ id \in Ids /\ id \in Ids \cup {NoId}
      /\ UNCHANGED <<attached, cached, inode, asked, promised, disturbed>>
      /\ clerk[c].handle = inode \/ id \in disturbed
      /\ clerk[c].stage \in {"line", "newline"}
  BY DEF AppendLine, AppendNewline, IsAt, DetachedRests, CardsTyped, AppendsToTheFile, Appending
<1>2. /\ clerk' \in [Clients -> Clerk]
      /\ clerk'[c].id = id /\ clerk'[c].handle = clerk[c].handle
      /\ clerk'[c].stage \in {"newline", "push"}
      /\ \A d \in Clients : d # c => clerk'[d] = clerk[d]
  BY TurnIs DEF AppendLine, AppendNewline
<1>3. CardsTyped' /\ \A j \in Ids : j # id => (Filed(j)' <=> Filed(j))
  <2>1. CASE AppendLine(c) /\ clerk[c].handle = inode
    <3>1. unended \in CardLine /\ unended' = Append(unended, id) /\ written' = written
      BY <2>1 DEF AppendLine, CardsTyped
    <3>2. unended' \in CardLine
      BY <1>1, <3>1 DEF CardLine
    <3>3. \A j : Contains(unended', j) <=> Contains(unended, j) \/ j = id
      BY <1>1, <3>1, HeldByAppend DEF CardLine
    <3> QED
      BY <1>1, <1>2, <3>1, <3>2, <3>3, FiledIs DEF CardsTyped
  <2>2. CASE AppendNewline(c) /\ clerk[c].handle = inode
    <3>1. written' = written \cup {unended} /\ unended' = <<>> /\ <<>> \in CardLine
      BY <2>2 DEF AppendNewline, CardLine
    <3> QED
      BY <1>1, <1>2, <3>1, FiledIs DEF CardsTyped, Contains
  <2>3. CASE UNCHANGED <<written, unended>>
    BY <1>1, <1>2, <2>3, FiledStays DEF CardsTyped
  <2> QED
    BY <2>1, <2>2, <2>3 DEF AppendLine, AppendNewline
<1>4. id \notin disturbed => Filed(id)'
  <2> HAVE id \notin disturbed
  <2>1. CASE AppendLine(c)
    <3>1. unended \in Seq(Ids \cup {NoId}) /\ unended' = Append(unended, id)
      BY <1>1, <2>1 DEF AppendLine, CardsTyped, CardLine
    <3>2. Contains(unended', id)
      BY <1>1, <3>1, HeldByAppend
    <3> QED
      BY <3>2, FiledIs
  <2>2. CASE AppendNewline(c)
    <3>1. written' = written \cup {unended} /\ unended' = <<>>
      BY <1>1, <2>2 DEF AppendNewline
    <3>2. Filed(id)
      BY <1>1, <2>2 DEF FileFollows, Appended, AppendNewline, IsAt
    <3> QED
      BY <3>1, <3>2, FiledIs
  <2> QED
    BY <2>1, <2>2
<1>5. OneRewrites'
  BY <1>1, <1>2 DEF OneRewrites
<1>6. AppendsToTheFile'
  BY <1>1, <1>2 DEF AppendsToTheFile, Appending
<1>7. \A j : Rewriting(j)' <=> Rewriting(j)
  BY <1>1, <1>2 DEF Rewriting
<1>8. Appended(id)' /\ \A j : j # id => (Appended(j)' <=> Appended(j))
  BY <1>1, <1>2 DEF Appended
<1>9. AnswersAreCached'
  BY <1>1, <1>7 DEF AnswersAreCached
<1>10. FileFollows'
  <2> SUFFICES ASSUME NEW j \in Ids \ disturbed
               PROVE  Filed(j)' <=> j \in cached \/ Appended(j)' \/ Rewriting(j)'
    BY <1>1 DEF FileFollows
  <2>1. CASE j = id
    BY <1>4, <1>8, <2>1
  <2>2. CASE j # id
    BY <1>1, <1>3, <1>7, <1>8, <2>2 DEF FileFollows
  <2> QED
    BY <2>1, <2>2
<1> QED
  BY <1>1, <1>3, <1>5, <1>6, <1>9, <1>10 DEF DetachedRests

(* What an answer does to the clerks and to the promises.                  *)
LEMMA AnswerIs ==
  ASSUME CardsTyped, NEW c \in Clients, clerk[c].id \in Ids,
         NEW word \in {"there", "gone"}, Answer(c, word)
  PROVE  /\ clerk' \in [Clients -> Clerk] /\ clerk'[c].stage = "rest"
         /\ \A d \in Clients : d # c => clerk'[d] = clerk[d]
         /\ promised' \in [Ids -> {"there", "gone"}] /\ promised'[clerk[c].id] = word
         /\ \A j \in Ids : j # clerk[c].id => promised'[j] = promised[j]
BY RestIsAClerk, ClerkMoves DEF Answer, CardsTyped

LEMMA PushKeeps ==
  ASSUME RegistryInv, NEW c \in Clients, Push(c)
  PROVE  RegistryInv'
<1> DEFINE id == clerk[c].id
<1> USE DEF RegistryInv
<1>1. /\ attached /\ id \in Ids /\ clerk[c].stage = "push"
      /\ cached' = cached \cup {id}
      /\ UNCHANGED <<attached, written, unended, inode, asked, disturbed>>
      /\ \A d \in Clients : clerk[d].stage # "rewrite"
  BY DEF Push, IsAt, Unlocked, DetachedRests, CardsTyped
<1>2. /\ clerk' \in [Clients -> Clerk] /\ clerk'[c].stage = "rest"
      /\ \A d \in Clients : d # c => clerk'[d] = clerk[d]
      /\ promised' \in [Ids -> {"there", "gone"}] /\ promised'[id] = "there"
      /\ \A j \in Ids : j # id => promised'[j] = promised[j]
  BY <1>1, AnswerIs DEF Push
<1>3. CardsTyped'
  BY <1>1, <1>2 DEF CardsTyped
<1>4. OneRewrites' /\ AppendsToTheFile'
  BY <1>1, <1>2 DEF OneRewrites, AppendsToTheFile, Appending
<1>5. \A j : ~Rewriting(j) /\ ~Rewriting(j)'
  BY <1>1, <1>2 DEF Rewriting
<1>6. AnswersAreCached'
  BY <1>1, <1>2, <1>5 DEF AnswersAreCached
<1>7. Appended(id) /\ \A j : j # id => (Appended(j)' <=> Appended(j))
  BY <1>1, <1>2 DEF Appended
<1>8. FileFollows'
  BY <1>1, <1>5, <1>7, FiledStays DEF FileFollows
<1> QED
  BY <1>1, <1>3, <1>4, <1>6, <1>8 DEF DetachedRests

LEMMA RetainKeeps ==
  ASSUME RegistryInv, NEW c \in Clients, Retain(c)
  PROVE  RegistryInv'
<1> DEFINE id == clerk[c].id
<1> USE DEF RegistryInv
<1>1. /\ attached /\ id \in Ids /\ clerk[c].stage = "retain"
      /\ cached' = cached \ {id}
      /\ UNCHANGED <<attached, written, unended, inode, asked, disturbed>>
      /\ \A d \in Clients : clerk[d].stage # "rewrite"
  BY DEF Retain, IsAt, Unlocked, DetachedRests, CardsTyped
<1>2. \A j : ~Rewriting(j)
  BY <1>1 DEF Rewriting
<1>3. CASE id \notin cached
  <2>1. Answer(c, "gone")
    BY <1>1, <1>3 DEF Retain
  <2>2. /\ clerk' \in [Clients -> Clerk] /\ clerk'[c].stage = "rest"
        /\ \A d \in Clients : d # c => clerk'[d] = clerk[d]
        /\ promised' \in [Ids -> {"there", "gone"}] /\ promised'[id] = "gone"
        /\ \A j \in Ids : j # id => promised'[j] = promised[j]
    BY <1>1, <2>1, AnswerIs
  <2>3. CardsTyped'
    BY <1>1, <2>2 DEF CardsTyped
  <2>4. OneRewrites' /\ AppendsToTheFile'
    BY <1>1, <2>2 DEF OneRewrites, AppendsToTheFile, Appending
  <2>5. \A j : ~Rewriting(j)' /\ (Appended(j)' <=> Appended(j))
    BY <1>1, <2>2 DEF Rewriting, Appended
  <2>6. AnswersAreCached'
    BY <1>1, <1>2, <1>3, <2>2, <2>5 DEF AnswersAreCached
  <2>7. FileFollows'
    BY <1>1, <1>2, <1>3, <2>5, FiledStays DEF FileFollows
  <2> QED
    BY <1>1, <2>3, <2>4, <2>6, <2>7 DEF DetachedRests
<1>4. CASE id \in cached
  <2>1. Turn(c, "rewrite") /\ promised' = promised
    BY <1>1, <1>4 DEF Retain
  <2>2. /\ clerk' \in [Clients -> Clerk] /\ clerk'[c].stage = "rewrite" /\ clerk'[c].id = id
        /\ \A d \in Clients : d # c => clerk'[d] = clerk[d]
    BY <2>1, TurnIs
  <2>3. CardsTyped'
    BY <1>1, <2>1, <2>2 DEF CardsTyped
  <2>4. OneRewrites' /\ AppendsToTheFile'
    BY <1>1, <2>2 DEF OneRewrites, AppendsToTheFile, Appending
  <2>5. /\ \A j : Rewriting(j)' <=> j = id
        /\ \A j : Appended(j)' <=> Appended(j)
    BY <1>1, <2>2 DEF Rewriting, Appended
  <2>6. AnswersAreCached'
    BY <1>1, <1>2, <1>4, <2>1, <2>5 DEF AnswersAreCached
  <2>7. FileFollows'
    BY <1>1, <1>2, <1>4, <2>5, FiledStays DEF FileFollows
  <2> QED
    BY <1>1, <2>3, <2>4, <2>6, <2>7 DEF DetachedRests
<1> QED
  BY <1>3, <1>4

LEMMA RenameKeeps ==
  ASSUME RegistryInv, NEW c \in Clients, Rename(c)
  PROVE  RegistryInv'
<1> DEFINE id == clerk[c].id
<1> USE DEF RegistryInv
<1>1. /\ attached /\ id \in Ids /\ clerk[c].stage = "rewrite" /\ id \notin cached
      /\ written' = {<<j>> : j \in cached} /\ unended' = <<>> /\ inode' = inode + 1
      /\ disturbed' = disturbed \cup Creating
      /\ UNCHANGED <<attached, cached, asked>>
      /\ \A d \in Clients : d # c => clerk[d].stage # "rewrite"
  BY DEF Rename, IsAt, DetachedRests, CardsTyped, OneRewrites
<1>2. /\ clerk' \in [Clients -> Clerk] /\ clerk'[c].stage = "rest"
      /\ \A d \in Clients : d # c => clerk'[d] = clerk[d]
      /\ promised' \in [Ids -> {"there", "gone"}] /\ promised'[id] = "gone"
      /\ \A j \in Ids : j # id => promised'[j] = promised[j]
  BY <1>1, AnswerIs DEF Rename
<1>3. /\ Creating \subseteq Ids
      /\ \A d \in Clients : Appending(d) => clerk[d].id \in Creating
  BY DEF Creating, Appending, CardsTyped
<1>4. CardsTyped'
  <2>1. unended' \in CardLine /\ \A j \in Ids : <<j>> \in CardLine
    BY <1>1 DEF CardLine
  <2> QED
    BY <1>1, <1>2, <1>3, <2>1 DEF CardsTyped
<1>5. OneRewrites' /\ AppendsToTheFile'
  BY <1>1, <1>2, <1>3 DEF OneRewrites, AppendsToTheFile, Appending
<1>6. \A j : ~Rewriting(j)' /\ (Rewriting(j) => j = id)
  BY <1>1, <1>2 DEF Rewriting
<1>7. \A j \in Ids \ disturbed' : ~Appended(j)'
  BY <1>1, <1>2, <1>3 DEF Appended, Appending
<1>8. \A j : Filed(j)' <=> j \in cached
  <2>1. \A i, j : Contains(<<i>>, j) <=> i = j
    BY DEF Contains
  <2>2. \A j : ~Contains(<<>>, j)
    BY DEF Contains
  <2> SUFFICES ASSUME NEW j PROVE Filed(j)' <=> j \in cached
    OBVIOUS
  <2>3. Filed(j)' <=> \E line \in written' : Contains(line, j)
    BY <1>1, <2>2, FiledIs
  <2>4. ASSUME j \in cached PROVE \E line \in written' : Contains(line, j)
    <3>1. <<j>> \in written' /\ Contains(<<j>>, j)
      BY <1>1, <2>1, <2>4
    <3> QED
      BY <3>1
  <2>5. ASSUME NEW line \in written', Contains(line, j) PROVE j \in cached
    <3>1. PICK i \in cached : line = <<i>>
      BY <1>1, <2>5
    <3> QED
      BY <2>1, <2>5, <3>1
  <2> QED
    BY <2>3, <2>4, <2>5
<1>9. AnswersAreCached'
  BY <1>1, <1>2, <1>6 DEF AnswersAreCached
<1>10. FileFollows'
  BY <1>1, <1>6, <1>7, <1>8 DEF FileFollows
<1> QED
  BY <1>1, <1>4, <1>5, <1>9, <1>10 DEF DetachedRests

LEMMA CutKeeps ==
  ASSUME RegistryInv, NEW c \in Clients, Cut(c)
  PROVE  RegistryInv'
<1> DEFINE id == clerk[c].id
<1> USE DEF RegistryInv
<1>1. /\ attached /\ id \in Ids /\ clerk[c].stage # "rest"
      /\ disturbed' = disturbed \/ disturbed' = disturbed \cup {id}
      /\ disturbed' = disturbed => clerk[c].stage \in {"check", "open", "retain"} \/ id \in disturbed
      /\ unended' = unended \/ unended' = Append(unended, NoId)
      /\ UNCHANGED <<attached, cached, written, inode, asked, promised>>
  BY DEF Cut, IsAt, DetachedRests, CardsTyped
<1>2. /\ clerk' \in [Clients -> Clerk] /\ clerk'[c].stage = "rest"
      /\ \A d \in Clients : d # c => clerk'[d] = clerk[d]
  BY RestIsAClerk, ClerkMoves DEF Cut
<1>3. CardsTyped' /\ \A j \in Ids : Filed(j)' <=> Filed(j)
  <2>1. unended \in CardLine /\ unended \in Seq(Ids \cup {NoId}) /\ NoId \in Ids \cup {NoId}
    BY DEF CardsTyped, CardLine
  <2>2. CASE unended' = unended
    BY <1>1, <1>2, <2>2, FiledStays DEF CardsTyped
  <2>3. CASE unended' = Append(unended, NoId)
    <3>1. unended' \in CardLine
      BY <2>1, <2>3 DEF CardLine
    <3>2. \A j : Contains(unended', j) <=> Contains(unended, j) \/ j = NoId
      BY <2>1, <2>3, HeldByAppend
    <3>3. \A j \in Ids : Filed(j)' <=> Filed(j)
      BY <1>1, <3>2, FiledIs, CardsAssumption
    <3> QED
      BY <1>1, <1>2, <3>1, <3>3 DEF CardsTyped
  <2> QED
    BY <1>1, <2>2, <2>3
<1>4. OneRewrites' /\ AppendsToTheFile'
  BY <1>1, <1>2 DEF OneRewrites, AppendsToTheFile, Appending
<1>5. \A j \in Ids \ disturbed' :
        j \notin disturbed /\ (Rewriting(j)' <=> Rewriting(j)) /\ (Appended(j)' <=> Appended(j))
  BY <1>1, <1>2 DEF Rewriting, Appended
<1>6. AnswersAreCached'
  BY <1>1, <1>5 DEF AnswersAreCached
<1>7. FileFollows'
  BY <1>1, <1>3, <1>5 DEF FileFollows
<1> QED
  BY <1>1, <1>3, <1>4, <1>6, <1>7 DEF DetachedRests

LEMMA RestartKeeps == ASSUME RegistryInv, Restart PROVE RegistryInv'
<1> USE DEF RegistryInv
<1> DEFINE OneEach == \A line \in Lines : Len(line) = 1 /\ line # <<NoId>>
<1>1. /\ clerk' = [c \in Clients |-> AtRest]
      /\ attached' = OneEach /\ attached' \in BOOLEAN
      /\ cached' = IF attached' THEN {line[1] : line \in Lines} ELSE {}
      /\ UNCHANGED <<written, unended, inode, asked, promised>>
  BY DEF Restart
<1>2. \A c \in Clients : clerk'[c].stage = "rest" /\ clerk'[c].id = NoId
  BY <1>1, RestIsAClerk
<1>3. /\ disturbed \subseteq disturbed' /\ disturbed' \subseteq Ids
      /\ \A j \in Ids \ disturbed' : ~Appended(j) /\ ~Rewriting(j)
  BY DEF Restart, CardsTyped, Appended, Rewriting
<1>4. \A j : ~Appended(j)' /\ ~Rewriting(j)'
  BY <1>2 DEF Appended, Rewriting
<1>5. Lines' = Lines /\ \A j : Filed(j)' <=> Filed(j)
  BY <1>1, FiledStays
<1>6. ASSUME OneEach
      PROVE  \A line \in Lines : line[1] \in Ids /\ \A j : Contains(line, j) <=> j = line[1]
  <2> SUFFICES ASSUME NEW line \in Lines
               PROVE  line[1] \in Ids /\ \A j : Contains(line, j) <=> j = line[1]
    OBVIOUS
  <2>1. line \in Seq(Ids \cup {NoId}) /\ Len(line) = 1 /\ line # <<NoId>>
    BY <1>6 DEF Lines, CardsTyped, CardLine
  <2>2. line = <<line[1]>> /\ line[1] \in Ids \cup {NoId}
    BY <2>1
  <2>3. line[1] \in Ids
    BY <2>1, <2>2
  <2>4. \A j : Contains(line, j) <=> j = line[1]
    BY <2>1 DEF Contains
  <2> QED
    BY <2>3, <2>4
<1>7. attached' => attached /\ \A j : j \in cached' <=> Filed(j)
  <2> HAVE attached'
  <2>1. OneEach
    BY <1>1
  <2>2. attached
    BY <2>1 DEF DetachedRests, CardsTyped
  <2>3. \A j : j \in cached' <=> Filed(j)
    BY <1>1, <1>6, <2>1 DEF Filed
  <2> QED
    BY <2>2, <2>3
<1>8. CardsTyped'
  <2>1. cached' \subseteq Ids
    BY <1>1, <1>6
  <2> QED
    BY <1>1, <1>2, <1>3, <2>1, RestIsAClerk DEF CardsTyped
<1>9. OneRewrites' /\ AppendsToTheFile'
  BY <1>2 DEF OneRewrites, AppendsToTheFile, Appending
<1>10. AnswersAreCached' /\ FileFollows'
  <2>1. attached' => \A j \in Ids \ disturbed' : promised[j] = "there" <=> Filed(j)
    BY <1>3, <1>7 DEF AnswersAreCached, FileFollows
  <2> QED
    BY <1>1, <1>4, <1>5, <1>7, <2>1 DEF AnswersAreCached, FileFollows
<1>11. DetachedRests'
  BY <1>1, <1>2, <1>5 DEF DetachedRests
<1> QED
  BY <1>8, <1>9, <1>10, <1>11

LEMMA RegistryStep == ASSUME RegistryInv, [RegistryNext]_registryVars PROVE RegistryInv'
<1>1. ASSUME NEW c \in Clients, Come(c) \/ Check(c) \/ OpenFile(c) PROVE RegistryInv'
  BY <1>1, ComingKeeps
<1>2. ASSUME NEW c \in Clients, AppendLine(c) \/ AppendNewline(c) PROVE RegistryInv'
  BY <1>2, AppendingKeeps
<1>3. ASSUME NEW c \in Clients, Push(c) PROVE RegistryInv'
  BY <1>3, PushKeeps
<1>4. ASSUME NEW c \in Clients, Retain(c) PROVE RegistryInv'
  BY <1>4, RetainKeeps
<1>5. ASSUME NEW c \in Clients, Rename(c) PROVE RegistryInv'
  BY <1>5, RenameKeeps
<1>6. ASSUME NEW c \in Clients, Cut(c) PROVE RegistryInv'
  BY <1>6, CutKeeps
<1>7. CASE Restart
  BY <1>7, RestartKeeps
<1>8. CASE UNCHANGED registryVars
  BY <1>8, FiledStays DEF registryVars, RegistryInv, CardsTyped, OneRewrites, AppendsToTheFile,
     AnswersAreCached, FileFollows, DetachedRests, Appending, Rewriting, Appended
<1> QED
  BY <1>1, <1>2, <1>3, <1>4, <1>5, <1>6, <1>7, <1>8 DEF RegistryNext

LEMMA RegistryAlways == RegistrySpec => []RegistryInv
<1>1. RegistryInit => RegistryInv
  BY CardsInit
<1>2. RegistryInv /\ [RegistryNext]_registryVars => RegistryInv'
  BY RegistryStep
<1> QED
  BY <1>1, <1>2, PTL DEF RegistrySpec

(* What create and delete answered about a card holds, in memory, in the   *)
(* file and across restarts, until the next request about it, unless one   *)
(* was cut off or its append overtaken by a rewrite: for any number of     *)
(* cards and of requests at work at a time.                                *)
THEOREM AnswersAlwaysHold == RegistrySpec => []AnswersHold
<1>1. RegistryInv => AnswersHold
  <2> SUFFICES ASSUME RegistryInv, attached, NEW id \in Ids \ disturbed,
                      \A c \in Clients : clerk[c].id # id
               PROVE  IF promised[id] = "there" THEN id \in cached /\ Filed(id)
                      ELSE id \notin cached /\ ~Filed(id)
    BY DEF AnswersHold
  <2>1. ~Rewriting(id) /\ ~Appended(id)
    BY DEF Rewriting, Appended
  <2> QED
    BY <2>1 DEF RegistryInv, AnswersAreCached, FileFollows
<1> QED
  BY <1>1, RegistryAlways, PTL

-----------------------------------------------------------------------------
(* The file as the writer sees it: the line it is writing comes last.      *)
File == Append(lines, tail)

(* The p-th piece of the k-th line is a whole event.                       *)
IsEvent(k, p) == k \in DOMAIN File /\ p \in DOMAIN File[k] /\ File[k][p] # Torn

-----------------------------------------------------------------------------
(* The inductive invariant.                                                *)

(* Events are written in the order in which they were signed.              *)
Ordered ==
  \A k, l, p, q \in Nat :
    IsEvent(k, p) /\ IsEvent(l, q) /\ (k < l \/ (k = l /\ p < q)) =>
      File[k][p].id < File[l][q].id

(* The append at work has the newest event: not yet in the file, at the    *)
(* end of the tail, or at the end of the last line.                        *)
Working ==
  /\ server # "up" => cur = NoAppend
  /\ cur.pc = "idle" => cur = NoAppend
  /\ cur.pc # "idle" =>
       /\ cur.event \in Event /\ cur.event.id = numbered
       /\ cur.event.seq = mem.seq /\ cur.event.prev = mem.head
  /\ cur.pc = "written" => tail # <<>> /\ tail[Len(tail)] = cur.event
  /\ cur.pc = "closed" =>
       /\ tail = <<>> /\ lines # <<>> /\ lines[Len(lines)] # <<>>
       /\ lines[Len(lines)][Len(lines[Len(lines)])] = cur.event

(* No event in the file is newer.                                          *)
Bounded ==
  \A k, p \in Nat : IsEvent(k, p) =>
    File[k][p].id <= numbered - (IF cur.pc = "signed" THEN 1 ELSE 0)

OnDisk(id) ==
  \E k \in 1..synced, p \in Nat : IsEvent(k, p) /\ File[k][p].id = id

(* An acknowledged event is on disk, and they were acknowledged in order.  *)
Durable ==
  /\ \A i \in DOMAIN acked : OnDisk(acked[i])
  /\ \A i, j \in DOMAIN acked : i < j => acked[i] < acked[j]
  /\ \A i \in DOMAIN acked :
       acked[i] <= numbered - (IF cur.pc # "idle" THEN 1 ELSE 0)

(* The writer's head is at or past every acknowledged event, and so is     *)
(* what each event names as the one before it.                             *)
Linked ==
  /\ mem.head <= numbered - (IF cur.pc # "idle" THEN 1 ELSE 0)
  /\ server = "up" => \A i \in DOMAIN acked : acked[i] <= mem.head
  /\ \A k, p \in Nat : IsEvent(k, p) =>
       /\ File[k][p].prev < File[k][p].id
       /\ \A i \in DOMAIN acked :
            acked[i] < File[k][p].id => acked[i] <= File[k][p].prev

(* The state after the lines of a text.                                    *)
Tip(text) == IF text = <<>> THEN Genesis ELSE After(text[Len(text)][1])

(* While nothing is hurt, the lines verify, and the writer is at their tip *)
(* or one event behind it.                                                 *)
Unhurt ==
  ~hurt =>
    /\ server # "refused"
    /\ Verifies(lines)
    /\ tail = IF cur.pc = "written" THEN <<cur.event>> ELSE <<>>
    /\ server = "up" /\ cur.pc # "closed" => mem = Tip(lines)
    /\ cur.pc = "closed" => lines[Len(lines)] = <<cur.event>>

IInv == LogTypeOK /\ Ordered /\ Working /\ Bounded /\ Durable /\ Linked /\ Unhurt

-----------------------------------------------------------------------------
(* The file and its events after each step.                                *)

LEMMA FileShape ==
  ASSUME LogTypeOK
  PROVE  /\ File \in Seq(Line) /\ Len(File) = Len(lines) + 1
         /\ DOMAIN File = 1..Len(File)
         /\ \A k \in 1..Len(lines) : File[k] = lines[k]
         /\ File[Len(File)] = tail
         /\ \A k \in DOMAIN File : File[k] \in Line /\ DOMAIN File[k] = 1..Len(File[k])
         /\ \A k, p \in Nat : IsEvent(k, p) => File[k][p] \in Event
  <1>1. lines \in Seq(Line) /\ tail \in Line
    BY DEF LogTypeOK
  <1>2. File \in Seq(Line) /\ Len(File) = Len(lines) + 1
    BY <1>1 DEF File
  <1>3. File[Len(File)] = tail /\ \A k \in 1..Len(lines) : File[k] = lines[k]
    BY <1>1, <1>2 DEF File
  <1>4. ASSUME NEW k \in DOMAIN File
        PROVE  File[k] \in Line /\ DOMAIN File[k] = 1..Len(File[k])
    BY <1>2 DEF Line
  <1>5. ASSUME NEW k \in Nat, NEW p \in Nat, IsEvent(k, p)
        PROVE  File[k][p] \in Event
    BY <1>4, <1>5 DEF IsEvent, Line
  <1> QED BY <1>2, <1>3, <1>4, <1>5

LEMMA EventFields ==
  ASSUME LogTypeOK, NEW k \in Nat, NEW p \in Nat, IsEvent(k, p)
  PROVE  /\ File[k][p].id \in Nat /\ File[k][p].id >= 1
         /\ File[k][p].prev \in Nat /\ File[k][p].seq \in Nat
  <1> DEFINE e == File[k][p]
  <1>1. e \in Event
    BY FileShape
  <1> HIDE DEF e
  <1>2. e.id \in 1..MaxEvents /\ e.prev \in 0..MaxEvents /\ e.seq \in Nat
    BY <1>1 DEF Event
  <1> QED BY <1>2, MaxEventsAssumption DEF e

LEMMA OfALineThatParses ==
  ASSUME NEW line \in Line, Parses(line)
  PROVE  /\ DOMAIN line = {1} /\ line[1] \in Event /\ line[1] # Torn
         /\ line[1].id \in 1..MaxEvents /\ line[1].prev \in 0..MaxEvents
         /\ line[1].seq \in Nat
  <1>1. line \in Seq(Event \cup {Torn}) /\ Len(line) = 1 /\ line[1] # Torn
    BY DEF Line, Parses
  <1>2. DOMAIN line = {1} /\ line[1] \in Event
    BY <1>1
  <1> QED BY <1>1, <1>2 DEF Event

(* A step that adds no event to the file.                                  *)
NoNewEvent ==
  \A k, p \in Nat :
    IsEvent(k, p)' => IsEvent(k, p) /\ File'[k][p] = File[k][p]

(* A step that leaves every event in its place.                            *)
NoEventLost ==
  \A k, p \in Nat :
    IsEvent(k, p) => IsEvent(k, p)' /\ File'[k][p] = File[k][p]

LEMMA SameFile ==
  ASSUME UNCHANGED <<lines, tail>>
  PROVE  File' = File /\ NoNewEvent /\ NoEventLost
  BY DEF File, NoNewEvent, NoEventLost, IsEvent

LEMMA AfterWriteLine ==
  ASSUME LogTypeOK, WriteLine
  PROVE  /\ NoEventLost
         /\ \A k, p \in Nat : IsEvent(k, p)' /\ ~IsEvent(k, p) =>
              /\ k = Len(File) /\ p = Len(tail) + 1
              /\ File'[k][p] = cur.event
  <1> DEFINE n == Len(lines) + 1
  <1>1. lines \in Seq(Line) /\ tail \in Seq(Event \cup {Torn}) /\ cur.event \in Event \cup {Torn}
    BY DEF LogTypeOK, Line
  <1>2. lines' = lines /\ tail' = Append(tail, cur.event)
    BY DEF WriteLine
  <1>3. File = Append(lines, tail) /\ File' = Append(lines, tail')
    BY <1>2 DEF File
  <1>4. DOMAIN File = 1..n /\ DOMAIN File' = 1..n /\ Len(File) = n
    BY <1>1, <1>2, <1>3 DEF Line
  <1>5. \A k \in 1..n : k # n => File'[k] = File[k]
    BY <1>1, <1>2, <1>3 DEF Line
  <1>6. File[n] = tail /\ File'[n] = Append(tail, cur.event)
    BY <1>1, <1>2, <1>3 DEF Line
  <1>7. /\ DOMAIN tail = 1..Len(tail) /\ DOMAIN tail' = 1..(Len(tail) + 1)
        /\ tail'[Len(tail) + 1] = cur.event
        /\ \A p \in 1..Len(tail) : tail'[p] = tail[p]
    BY <1>1, <1>2
  <1>8. ASSUME NEW k \in Nat, NEW p \in Nat, IsEvent(k, p)
        PROVE  IsEvent(k, p)' /\ File'[k][p] = File[k][p]
    <2>1. CASE k = n
      BY <2>1, <1>4, <1>6, <1>7, <1>2, <1>8 DEF IsEvent
    <2>2. CASE k # n
      BY <2>2, <1>4, <1>5, <1>8 DEF IsEvent
    <2> QED BY <2>1, <2>2
  <1>9. ASSUME NEW k \in Nat, NEW p \in Nat, IsEvent(k, p)', ~IsEvent(k, p)
        PROVE  k = n /\ p = Len(tail) + 1 /\ File'[k][p] = cur.event
    <2>1. k = n
      BY <1>4, <1>5, <1>9 DEF IsEvent
    <2>2. p \in DOMAIN tail' /\ File'[k][p] = tail'[p] /\ tail'[p] # Torn
      BY <2>1, <1>2, <1>6, <1>9 DEF IsEvent
    <2>3. p = Len(tail) + 1
      BY <2>1, <2>2, <1>4, <1>6, <1>7, <1>9 DEF IsEvent
    <2> QED BY <2>1, <2>2, <2>3, <1>7
  <1> QED BY <1>4, <1>8, <1>9 DEF NoEventLost

LEMMA AfterWriteNewline ==
  ASSUME LogTypeOK, WriteNewline
  PROVE  NoNewEvent /\ NoEventLost
  <1> DEFINE n == Len(lines) + 1
  <1>1. lines \in Seq(Line) /\ tail \in Line
    BY DEF LogTypeOK
  <1>2. lines' = File /\ tail' = <<>> /\ File' = Append(File, <<>>)
    BY DEF WriteNewline, File
  <1>3. File \in Seq(Line) /\ Len(File) = n /\ DOMAIN File = 1..n
    BY <1>1 DEF File
  <1>4. DOMAIN File' = 1..(n + 1) /\ File'[n + 1] = <<>>
        /\ \A k \in 1..n : File'[k] = File[k]
    BY <1>2, <1>3
  <1>5. ASSUME NEW k \in Nat, NEW p \in Nat
        PROVE  /\ IsEvent(k, p)' <=> IsEvent(k, p)
               /\ IsEvent(k, p) => File'[k][p] = File[k][p]
    <2>1. CASE k \in 1..n
      BY <2>1, <1>3, <1>4 DEF IsEvent
    <2>2. CASE k \notin 1..n
      <3>1. ~IsEvent(k, p)
        BY <2>2, <1>3 DEF IsEvent
      <3>2. ~IsEvent(k, p)'
        BY <2>2, <1>3, <1>4 DEF IsEvent
      <3> QED BY <3>1, <3>2
    <2> QED BY <2>1, <2>2
  <1> QED BY <1>5 DEF NoNewEvent, NoEventLost

LEMMA AfterAbandon ==
  ASSUME LogTypeOK, Abandon
  PROVE  NoNewEvent /\ NoEventLost
  <1>1. CASE tail' = tail
    BY <1>1, SameFile DEF Abandon
  <1>2. CASE tail' = Append(tail, Torn)
    <2> DEFINE n == Len(lines) + 1
    <2>1. lines \in Seq(Line) /\ tail \in Seq(Event \cup {Torn}) /\ lines' = lines
      BY DEF LogTypeOK, Line, Abandon
    <2>2. File = Append(lines, tail) /\ File' = Append(lines, tail')
      BY <2>1 DEF File
    <2>3. tail' \in Line /\ tail \in Line
      BY <2>1, <1>2 DEF Line
    <2>4. /\ DOMAIN File = 1..n /\ DOMAIN File' = 1..n
          /\ \A k \in 1..n : k # n => File'[k] = File[k]
          /\ File[n] = tail /\ File'[n] = tail'
      BY <2>1, <2>2, <2>3
    <2>5. /\ DOMAIN tail = 1..Len(tail) /\ DOMAIN tail' = 1..(Len(tail) + 1)
          /\ tail'[Len(tail) + 1] = Torn
          /\ \A p \in 1..Len(tail) : tail'[p] = tail[p]
      BY <2>1, <1>2
    <2>6. ASSUME NEW k \in Nat, NEW p \in Nat
          PROVE  /\ IsEvent(k, p)' <=> IsEvent(k, p)
                 /\ IsEvent(k, p) => File'[k][p] = File[k][p]
      <3>1. CASE k = n
        BY <3>1, <2>4, <2>5, <2>1 DEF IsEvent
      <3>2. CASE k # n
        BY <3>2, <2>4 DEF IsEvent
      <3> QED BY <3>1, <3>2
    <2> QED BY <2>6 DEF NoNewEvent, NoEventLost
  <1> QED BY <1>1, <1>2 DEF Abandon

LEMMA AfterCrash ==
  ASSUME LogTypeOK, LogCrash
  PROVE  /\ NoNewEvent
         /\ synced' \in synced..Len(lines) /\ Len(lines') = synced'
         /\ \A k \in 1..synced' : k \in DOMAIN File' /\ File'[k] = File[k]
         /\ lines' \in Seq(Line) /\ tail' \in Line
  <1>1. lines \in Seq(Line) /\ tail \in Line /\ synced \in 0..Len(lines)
    BY DEF LogTypeOK
  <1>2. PICK n \in synced..Len(lines) :
          /\ lines' = SubSeq(lines, 1, n) /\ synced' = n
          /\ tail' \in Cuts(IF n < Len(lines) THEN lines[n + 1] ELSE tail)
    BY DEF LogCrash
  <1> DEFINE line == File[n + 1]
  <1>3. /\ DOMAIN File = 1..(Len(lines) + 1)
        /\ line = IF n < Len(lines) THEN lines[n + 1] ELSE tail
        /\ line \in Line /\ \A k \in 1..Len(lines) : File[k] = lines[k]
    <2>1. /\ DOMAIN File = 1..(Len(lines) + 1) /\ File[Len(lines) + 1] = tail
          /\ \A k \in 1..Len(lines) : File[k] = lines[k]
          /\ \A k \in DOMAIN File : File[k] \in Line
      BY FileShape
    <2>2. n \in Nat /\ n <= Len(lines) /\ Len(lines) \in Nat
      BY <1>1, <1>2
    <2>3. CASE n < Len(lines)
      BY <2>1, <2>2, <2>3
    <2>4. CASE n = Len(lines)
      BY <2>1, <2>2, <2>4
    <2> QED BY <2>1, <2>2, <2>3, <2>4
  <1>4. lines' \in Seq(Line) /\ Len(lines') = n /\ \A k \in 1..n : lines'[k] = lines[k]
    BY <1>1, <1>2
  <1> HIDE DEF line
  <1>5. /\ tail' \in Line /\ DOMAIN tail' = 1..Len(tail')
        /\ \A p \in DOMAIN tail' : (p \in DOMAIN line /\ tail'[p] = line[p]) \/ tail'[p] = Torn
    <2>1. line \in Seq(Event \cup {Torn}) /\ Len(line) \in Nat /\ DOMAIN line = 1..Len(line)
      BY <1>3 DEF Line
    <2>2. ASSUME NEW m \in 0..Len(line)
          PROVE  /\ SubSeq(line, 1, m) \in Line /\ Len(SubSeq(line, 1, m)) = m
                 /\ \A p \in 1..m : SubSeq(line, 1, m)[p] = line[p]
      BY <2>1 DEF Line
    <2>3. CASE tail' \in {SubSeq(line, 1, m) : m \in 0..Len(line)}
      <3>1. PICK m \in 0..Len(line) : tail' = SubSeq(line, 1, m)
        BY <2>3
      <3> QED BY <3>1, <2>2, <2>1 DEF Line
    <2>4. CASE tail' \in {Append(SubSeq(line, 1, m), Torn) : m \in 0..(Len(line) - 1)}
      <3>1. PICK m \in 0..(Len(line) - 1) : tail' = Append(SubSeq(line, 1, m), Torn)
        BY <2>4
      <3>2. m \in 0..Len(line)
        BY <2>1
      <3>3. /\ SubSeq(line, 1, m) \in Seq(Event \cup {Torn}) /\ Len(SubSeq(line, 1, m)) = m
            /\ \A p \in 1..m : SubSeq(line, 1, m)[p] = line[p]
        BY <2>2, <3>2 DEF Line
      <3>4. /\ tail' \in Line /\ DOMAIN tail' = 1..(m + 1) /\ Len(tail') = m + 1
            /\ tail'[m + 1] = Torn /\ \A p \in 1..m : tail'[p] = line[p]
        BY <3>1, <3>3 DEF Line
      <3> QED BY <3>4, <2>1
    <2> QED BY <2>3, <2>4, <1>2, <1>3 DEF Cuts
  <1>6. /\ DOMAIN File' = 1..(n + 1) /\ File'[n + 1] = tail'
        /\ \A k \in 1..n : File'[k] = File[k]
    <2>1. File' = Append(lines', tail')
      BY DEF File
    <2> QED BY <2>1, <1>2, <1>3, <1>4, <1>5
  <1>7. ASSUME NEW k \in Nat, NEW p \in Nat, IsEvent(k, p)'
        PROVE  IsEvent(k, p) /\ File'[k][p] = File[k][p]
    <2>1. CASE k \in 1..n
      BY <2>1, <1>7, <1>6, <1>3, <1>2 DEF IsEvent
    <2>2. CASE k = n + 1
      BY <2>2, <1>7, <1>6, <1>3, <1>2, <1>5 DEF IsEvent, line
    <2> QED BY <2>1, <2>2, <1>6, <1>7 DEF IsEvent
  <1> QED BY <1>2, <1>4, <1>5, <1>6, <1>7 DEF NoNewEvent

-----------------------------------------------------------------------------
(* Types.                                                                  *)

LEMMA TypeInit == LogInit => LogTypeOK
  <1> SUFFICES ASSUME LogInit PROVE LogTypeOK
    OBVIOUS
  <1>1. <<>> \in Seq(Line) /\ <<>> \in Line /\ <<>> \in Seq(1..MaxEvents) /\ Len(<<>>) = 0
    BY EmptySeq DEF Line
  <1>2. Genesis \in [seq : Nat, head : 0..MaxEvents] /\ 0 \in 0..MaxEvents
    BY MaxEventsAssumption DEF Genesis
  <1>3. NoAppend \in [pc : {"idle", "signed", "written", "closed"}, event : Event \cup {Torn}]
    BY DEF NoAppend
  <1>4. /\ lines \in Seq(Line) /\ tail \in Line /\ acked \in Seq(1..MaxEvents)
        /\ synced \in 0..Len(lines)
    BY <1>1 DEF LogInit
  <1>5. /\ mem \in [seq : Nat, head : 0..MaxEvents] /\ numbered \in 0..MaxEvents
        /\ cur \in [pc : {"idle", "signed", "written", "closed"}, event : Event \cup {Torn}]
        /\ server \in {"up", "down", "refused"} /\ hurt \in BOOLEAN
    BY <1>2, <1>3 DEF LogInit
  <1> QED BY <1>4, <1>5 DEF LogTypeOK

LEMMA LineGrows ==
  ASSUME NEW line \in Line, NEW e \in Event \cup {Torn}
  PROVE  Append(line, e) \in Line
  BY AppendProperties DEF Line

LEMMA TypeStep ==
  ASSUME LogTypeOK, Working, [LogNext]_logVars
  PROVE  LogTypeOK'
  <1> USE DEF LogTypeOK
  <1> DEFINE Pcs == {"idle", "signed", "written", "closed"}
  <1>0. NoAppend \in [pc : Pcs, event : Event \cup {Torn}] /\ <<>> \in Line
    BY DEF NoAppend, Line
  <1>1. CASE Sign
    <2>1. numbered + 1 \in 1..MaxEvents
      BY <1>1, MaxEventsAssumption DEF Sign
    <2>2. cur'.event \in Event
      BY <1>1, <2>1 DEF Sign, Event
    <2> QED BY <1>1, <2>1, <2>2 DEF Sign
  <1>2. CASE WriteLine
    <2>1. tail' \in Line
      <3>1. Append(tail, cur.event) \in Line
        BY LineGrows
      <3> QED BY <1>2, <3>1 DEF WriteLine
    <2>2. cur' \in [pc : Pcs, event : Event \cup {Torn}]
      BY <1>2 DEF WriteLine
    <2> QED BY <1>2, <2>1, <2>2 DEF WriteLine
  <1>3. CASE WriteNewline
    <2>1. lines' \in Seq(Line) /\ Len(lines') = Len(lines) + 1
      BY <1>3 DEF WriteNewline
    <2>2. cur' \in [pc : Pcs, event : Event \cup {Torn}]
      BY <1>3 DEF WriteNewline
    <2>3. synced' \in 0..Len(lines')
      BY <1>3, <2>1 DEF WriteNewline
    <2> QED BY <1>0, <1>3, <2>1, <2>2, <2>3 DEF WriteNewline
  <1>4. CASE SyncAndAdvance
    <2>1. cur.event \in Event
      BY <1>4 DEF SyncAndAdvance, Working
    <2>2. mem' \in [seq : Nat, head : 0..MaxEvents] /\ acked' \in Seq(1..MaxEvents)
      BY <1>4, <2>1 DEF SyncAndAdvance, After, Event
    <2> QED BY <1>4, <2>2 DEF SyncAndAdvance, NoAppend
  <1>5. CASE Abandon
    <2>1. tail' \in Line
      <3>1. tail \in Line /\ Append(tail, Torn) \in Line
        BY LineGrows
      <3>2. tail' \in {tail, Append(tail, Torn)}
        BY <1>5 DEF Abandon
      <3> QED BY <3>1, <3>2
    <2>2. cur' \in [pc : Pcs, event : Event \cup {Torn}]
      BY <1>0, <1>5 DEF Abandon
    <2>3. hurt' \in BOOLEAN
      BY <1>5 DEF Abandon
    <2> QED BY <1>5, <2>1, <2>2, <2>3 DEF Abandon
  <1>6. CASE LogCrash
    <2>1. lines' \in Seq(Line) /\ tail' \in Line /\ synced' \in 0..Len(lines')
      BY <1>6, AfterCrash
    <2> QED BY <1>6, <2>1 DEF LogCrash, NoAppend
  <1>7. CASE Open
    <2>1. CASE mem' = mem
      BY <1>7, <2>1 DEF Open
    <2>2. CASE mem' = Recovered /\ Text # <<>> /\ \A i \in DOMAIN Text : Parses(Text[i])
      <3>1. Text \in Seq(Line)
        BY DEF Text
      <3>2. Last(Text) \in Line /\ Parses(Last(Text))
        BY <2>2, <3>1 DEF Last
      <3>3. Last(Text)[1] \in Event
        BY <3>2, OfALineThatParses
      <3>4. Recovered \in [seq : Nat, head : 0..MaxEvents]
        BY <2>2, <3>3 DEF Recovered, After, Event
      <3> QED BY <1>7, <2>2, <3>4 DEF Open
    <2>3. CASE mem' = Recovered /\ Text = <<>>
      BY <1>7, <2>3, MaxEventsAssumption DEF Open, Recovered, Genesis
    <2> QED BY <2>1, <2>2, <2>3, <1>7 DEF Open
  <1>8. CASE UNCHANGED logVars
    BY <1>8 DEF logVars
  <1> QED BY <1>1, <1>2, <1>3, <1>4, <1>5, <1>6, <1>7, <1>8 DEF LogNext

-----------------------------------------------------------------------------
(* Order.                                                                  *)

LEMMA OrderedStep ==
  ASSUME LogTypeOK, Ordered, Working, Bounded, [LogNext]_logVars
  PROVE  Ordered'
  <1>1. ASSUME NoNewEvent PROVE Ordered'
    BY <1>1 DEF NoNewEvent, Ordered
  <1>2. CASE WriteLine
    <2> SUFFICES ASSUME NEW k \in Nat, NEW l \in Nat, NEW p \in Nat, NEW q \in Nat,
                        IsEvent(k, p)', IsEvent(l, q)', k < l \/ (k = l /\ p < q)
                 PROVE  File'[k][p].id < File'[l][q].id
      BY DEF Ordered
    <2>1. IsEvent(k, p)
      <3> SUFFICES ASSUME ~IsEvent(k, p) PROVE FALSE
        OBVIOUS
      <3>1. k = Len(File) /\ p = Len(tail) + 1
        BY <1>2, AfterWriteLine
      <3>2. l = Len(File) /\ q <= Len(tail) + 1
        <4>1. CASE IsEvent(l, q)
          BY <4>1, <3>1, FileShape DEF IsEvent
        <4>2. CASE ~IsEvent(l, q)
          BY <4>2, <1>2, AfterWriteLine, LenProperties DEF LogTypeOK
        <4> QED BY <4>1, <4>2
      <3>3. Len(File) \in Nat /\ Len(tail) \in Nat
        <4>1. File \in Seq(Line) /\ tail \in Seq(Event \cup {Torn})
          BY FileShape DEF LogTypeOK, Line
        <4> QED BY <4>1, LenProperties
      <3> QED BY <3>1, <3>2, <3>3
    <2>2. File'[k][p] = File[k][p]
      BY <2>1, <1>2, AfterWriteLine DEF NoEventLost
    <2>3. CASE IsEvent(l, q)
      BY <2>1, <2>2, <2>3, <1>2, AfterWriteLine DEF NoEventLost, Ordered
    <2>4. CASE ~IsEvent(l, q)
      <3>1. File'[l][q] = cur.event
        BY <2>4, <1>2, AfterWriteLine
      <3>2. cur.pc = "signed" /\ cur.event.id = numbered
        BY <1>2 DEF WriteLine, Working
      <3>3. File[k][p].id <= numbered - 1
        BY <2>1, <3>2 DEF Bounded
      <3>4. File[k][p].id \in Nat /\ numbered \in Nat
        BY <2>1, EventFields DEF LogTypeOK
      <3> QED BY <2>2, <3>1, <3>2, <3>3, <3>4
    <2> QED BY <2>3, <2>4
  <1>3. CASE WriteNewline
    BY <1>1, <1>3, AfterWriteNewline
  <1>4. CASE Abandon
    BY <1>1, <1>4, AfterAbandon
  <1>5. CASE LogCrash
    BY <1>1, <1>5, AfterCrash
  <1>6. CASE UNCHANGED <<lines, tail>>
    BY <1>1, <1>6, SameFile
  <1> QED BY <1>2, <1>3, <1>4, <1>5, <1>6
          DEF LogNext, logVars, Sign, SyncAndAdvance, Open

-----------------------------------------------------------------------------
(* The append at work.                                                     *)

LEMMA WorkingStep ==
  ASSUME LogTypeOK, Working, [LogNext]_logVars
  PROVE  Working'
  <1> USE DEF Working
  <1>0. NoAppend.pc = "idle"
    BY DEF NoAppend
  <1>1. CASE Sign
    <2>1. numbered + 1 \in 1..MaxEvents
      BY <1>1, MaxEventsAssumption DEF Sign, LogTypeOK
    <2>2. mem.seq \in Nat /\ mem.head \in 0..MaxEvents
      BY DEF LogTypeOK
    <2>3. /\ cur'.pc = "signed" /\ cur'.event.id = numbered + 1
          /\ cur'.event.seq = mem.seq /\ cur'.event.prev = mem.head
          /\ cur'.event \in Event
      BY <1>1, <2>1, <2>2 DEF Sign, Event
    <2> QED BY <1>1, <2>3 DEF Sign
  <1>2. CASE WriteLine
    <2>1. cur'.event = cur.event /\ cur'.pc = "written"
      BY <1>2 DEF WriteLine, LogTypeOK
    <2>2. tail' # <<>> /\ tail'[Len(tail')] = cur.event
      BY <1>2 DEF WriteLine, LogTypeOK, Line
    <2> QED BY <1>0, <1>2, <2>1, <2>2 DEF WriteLine
  <1>3. CASE WriteNewline
    <2>1. cur'.event = cur.event /\ cur'.pc = "closed"
      BY <1>3 DEF WriteNewline, LogTypeOK
    <2>2. lines' # <<>> /\ lines'[Len(lines')] = tail /\ tail' = <<>>
      BY <1>3 DEF WriteNewline, LogTypeOK
    <2> QED BY <1>0, <1>3, <2>1, <2>2 DEF WriteNewline
  <1>4. CASE SyncAndAdvance
    BY <1>0, <1>4 DEF SyncAndAdvance
  <1>5. CASE Abandon
    BY <1>0, <1>5 DEF Abandon
  <1>6. CASE LogCrash
    BY <1>0, <1>6 DEF LogCrash
  <1>7. CASE Open
    BY <1>0, <1>7 DEF Open
  <1>8. CASE UNCHANGED logVars
    BY <1>8 DEF logVars
  <1> QED BY <1>1, <1>2, <1>3, <1>4, <1>5, <1>6, <1>7, <1>8 DEF LogNext

LEMMA BoundedStep ==
  ASSUME LogTypeOK, Working, Bounded, [LogNext]_logVars
  PROVE  Bounded'
  <1> DEFINE bound == numbered - (IF cur.pc = "signed" THEN 1 ELSE 0)
  <1>1. numbered \in Nat
    BY DEF LogTypeOK
  <1>2. ASSUME NoNewEvent, bound' >= bound
        PROVE  Bounded'
    <2> SUFFICES ASSUME NEW k \in Nat, NEW p \in Nat, IsEvent(k, p)'
                 PROVE  File'[k][p].id <= bound'
      BY DEF Bounded
    <2>1. IsEvent(k, p) /\ File'[k][p] = File[k][p]
      BY <1>2 DEF NoNewEvent
    <2>2. File[k][p].id <= bound /\ File[k][p].id \in Nat
      BY <2>1, EventFields DEF Bounded
    <2>3. bound \in Int /\ bound' \in Int
      <3>1. numbered' \in Nat
        BY <1>1 DEF LogNext, logVars, Sign, WriteLine, WriteNewline, SyncAndAdvance,
                    Abandon, LogCrash, Open
      <3> QED BY <1>1, <3>1
    <2> HIDE DEF bound
    <2> QED BY <1>2, <2>1, <2>2, <2>3
  <1>3. CASE Sign
    <2>1. NoNewEvent
      BY <1>3, SameFile DEF Sign
    <2>2. bound' >= bound
      BY <1>1, <1>3 DEF Sign
    <2> QED BY <1>2, <2>1, <2>2
  <1>4. CASE WriteLine
    <2>1. numbered' = numbered /\ cur'.pc = "written" /\ cur.event.id = numbered /\ cur.pc = "signed"
      BY <1>4 DEF WriteLine, Working, LogTypeOK
    <2> SUFFICES ASSUME NEW k \in Nat, NEW p \in Nat, IsEvent(k, p)'
                 PROVE  File'[k][p].id <= numbered
      BY <2>1, <1>1 DEF Bounded
    <2>2. CASE IsEvent(k, p)
      <3>1. File'[k][p] = File[k][p]
        BY <1>4, <2>2, AfterWriteLine DEF NoEventLost
      <3>2. File[k][p].id <= numbered - 1 /\ File[k][p].id \in Nat
        BY <2>1, <2>2, EventFields DEF Bounded
      <3> QED BY <3>1, <3>2, <1>1
    <2>3. CASE ~IsEvent(k, p)
      BY <1>1, <1>4, <2>1, <2>3, AfterWriteLine
    <2> QED BY <2>2, <2>3
  <1>5. CASE WriteNewline
    <2>1. bound' = bound
      BY <1>5 DEF WriteNewline, LogTypeOK
    <2> QED BY <1>1, <1>2, <1>5, <2>1, AfterWriteNewline
  <1>6. CASE SyncAndAdvance
    <2>1. bound' = bound /\ NoNewEvent
      BY <1>6, SameFile DEF SyncAndAdvance, NoAppend
    <2> QED BY <1>1, <1>2, <2>1
  <1>7. CASE Abandon
    <2>1. bound' >= bound
      BY <1>1, <1>7 DEF Abandon, NoAppend
    <2> QED BY <1>2, <1>7, <2>1, AfterAbandon
  <1>8. CASE LogCrash
    <2>1. bound' >= bound
      BY <1>1, <1>8 DEF LogCrash, NoAppend
    <2> QED BY <1>2, <1>8, <2>1, AfterCrash
  <1>9. CASE Open \/ UNCHANGED logVars
    <2>1. bound' = bound /\ NoNewEvent
      BY <1>9, SameFile DEF Open, logVars
    <2> QED BY <1>1, <1>2, <2>1
  <1> QED BY <1>3, <1>4, <1>5, <1>6, <1>7, <1>8, <1>9 DEF LogNext

-----------------------------------------------------------------------------
(* What has been acknowledged.                                             *)

LEMMA DurableStep ==
  ASSUME LogTypeOK, Working, Bounded, Durable, [LogNext]_logVars, LogTypeOK'
  PROVE  Durable'
  <1> DEFINE last == numbered - (IF cur.pc # "idle" THEN 1 ELSE 0)
  <1>1. /\ numbered \in Nat /\ numbered' \in Nat /\ acked \in Seq(Nat)
        /\ \A i \in DOMAIN acked : acked[i] \in Nat
        /\ synced \in Nat /\ synced' \in Nat /\ synced <= Len(lines)
        /\ Len(lines) \in Nat /\ lines \in Seq(Line)
    <2>1. acked \in Seq(1..MaxEvents) /\ synced \in 0..Len(lines) /\ synced' \in 0..Len(lines')
          /\ numbered \in 0..MaxEvents /\ numbered' \in 0..MaxEvents
          /\ lines \in Seq(Line) /\ lines' \in Seq(Line)
      BY DEF LogTypeOK
    <2> QED BY <2>1, MaxEventsAssumption
  <1>2. ASSUME NEW a \in Nat, OnDisk(a), synced' >= synced,
               \A k \in 1..synced, p \in Nat : IsEvent(k, p) =>
                 IsEvent(k, p)' /\ File'[k][p] = File[k][p]
        PROVE  OnDisk(a)'
    <2>1. PICK k \in 1..synced, p \in Nat : IsEvent(k, p) /\ File[k][p].id = a
      BY <1>2 DEF OnDisk
    <2>2. k \in 1..synced'
      BY <1>1, <1>2
    <2> QED BY <2>1, <2>2, <1>2 DEF OnDisk
  <1>3. ASSUME acked' = acked, last' >= last, synced' >= synced,
               \A k \in 1..synced, p \in Nat : IsEvent(k, p) =>
                 IsEvent(k, p)' /\ File'[k][p] = File[k][p]
        PROVE  Durable'
    <2>1. ASSUME NEW i \in DOMAIN acked, NEW a, a = acked[i] PROVE OnDisk(a)'
      <3>1. a \in Nat /\ OnDisk(a)
        BY <1>1, <2>1 DEF Durable
      <3> QED BY <1>2, <1>3, <3>1
    <2>2. last \in Int /\ last' \in Int
      BY <1>1
    <2>3. \A i \in DOMAIN acked : acked[i] <= last
      BY DEF Durable
    <2> HIDE DEF last
    <2>4. \A i \in DOMAIN acked : acked[i] <= last'
      BY <1>1, <1>3, <2>2, <2>3
    <2>5. \A i \in DOMAIN acked : OnDisk(acked[i])'
      BY <1>3, <2>1
    <2> QED BY <1>3, <2>4, <2>5 DEF Durable, last
  <1>4. ASSUME NoEventLost
        PROVE  \A k \in 1..synced, p \in Nat : IsEvent(k, p) =>
                 IsEvent(k, p)' /\ File'[k][p] = File[k][p]
    BY <1>1, <1>4 DEF NoEventLost
  <1>5. CASE Sign
    <2>1. NoEventLost /\ acked' = acked /\ synced' = synced
      BY <1>5, SameFile DEF Sign
    <2>2. last' >= last
      BY <1>1, <1>5 DEF Sign
    <2> QED BY <1>1, <1>3, <1>4, <2>1, <2>2
  <1>6. CASE WriteLine
    <2>1. NoEventLost /\ acked' = acked /\ synced' = synced
      BY <1>6, AfterWriteLine DEF WriteLine
    <2>2. last' >= last
      BY <1>1, <1>6 DEF WriteLine, LogTypeOK
    <2> QED BY <1>1, <1>3, <1>4, <2>1, <2>2
  <1>7. CASE WriteNewline
    <2>1. NoEventLost /\ acked' = acked /\ synced' = synced
      BY <1>7, AfterWriteNewline DEF WriteNewline
    <2>2. last' >= last
      BY <1>1, <1>7 DEF WriteNewline, LogTypeOK
    <2> QED BY <1>1, <1>3, <1>4, <2>1, <2>2
  <1>8. CASE Abandon
    <2>1. NoEventLost /\ acked' = acked /\ synced' = synced
      BY <1>8, AfterAbandon DEF Abandon
    <2>2. last' >= last
      BY <1>1, <1>8 DEF Abandon, NoAppend
    <2> QED BY <1>1, <1>3, <1>4, <2>1, <2>2
  <1>9. CASE LogCrash
    <2>1. acked' = acked /\ synced' \in synced..Len(lines)
      BY <1>9, AfterCrash DEF LogCrash
    <2>2. last' >= last
      BY <1>1, <1>9 DEF LogCrash, NoAppend
    <2>3. ASSUME NEW k \in 1..synced, NEW p \in Nat, IsEvent(k, p)
          PROVE  IsEvent(k, p)' /\ File'[k][p] = File[k][p]
      <3>1. k \in 1..synced'
        BY <1>1, <2>1
      <3>2. k \in DOMAIN File' /\ File'[k] = File[k]
        BY <1>9, <3>1, AfterCrash
      <3> QED BY <2>3, <3>2 DEF IsEvent
    <2> QED BY <1>1, <1>3, <2>1, <2>2, <2>3
  <1>10. CASE Open \/ UNCHANGED logVars
    <2>1. NoEventLost /\ acked' = acked /\ synced' = synced
      BY <1>10, SameFile DEF Open, logVars
    <2>2. last' >= last
      <3>1. cur' = cur /\ numbered' = numbered
        BY <1>10 DEF Open, logVars
      <3> QED BY <1>1, <3>1
    <2>3. synced' >= synced
      BY <1>1, <2>1
    <2> HIDE DEF last
    <2> QED BY <1>3, <1>4, <2>1, <2>2, <2>3
  <1>11. CASE SyncAndAdvance
    <2>1. /\ acked' = Append(acked, cur.event.id) /\ synced' = Len(lines)
          /\ numbered' = numbered /\ cur'.pc = "idle" /\ NoEventLost
          /\ cur.pc = "closed" /\ File' = File /\ lines' = lines
      BY <1>11, SameFile DEF SyncAndAdvance, NoAppend
    <2>2. /\ DOMAIN acked = 1..Len(acked) /\ Len(acked) \in Nat
          /\ DOMAIN acked' = 1..(Len(acked) + 1)
          /\ acked'[Len(acked) + 1] = numbered
          /\ \A i \in DOMAIN acked : acked'[i] = acked[i]
      <3>1. cur.event.id = numbered
        BY <2>1 DEF Working
      <3> QED BY <1>1, <2>1, <3>1
    <2>3. ASSUME NEW a, a = numbered PROVE OnDisk(a)'
      <3> DEFINE k == Len(lines)  p == Len(lines[k])
      <3>1. /\ lines # <<>> /\ lines[k] # <<>> /\ lines[k][p] = cur.event
            /\ cur.event \in Event /\ cur.event.id = numbered
        BY <2>1 DEF Working
      <3>2. k \in 1..Len(lines) /\ k \in DOMAIN File /\ File[k] = lines[k] /\ lines[k] \in Line
        <4>1. lines \in Seq(Line) /\ k \in 1..Len(lines)
          BY <3>1 DEF LogTypeOK
        <4>2. k \in DOMAIN File /\ File[k] = lines[k]
          BY <4>1, FileShape
        <4> QED BY <4>1, <4>2
      <3>3. p \in Nat /\ p \in DOMAIN File[k]
        BY <3>1, <3>2 DEF Line
      <3>4. cur.event # Torn
        BY <3>1 DEF Event, Torn
      <3>5. IsEvent(k, p) /\ File[k][p].id = numbered
        BY <3>1, <3>2, <3>3, <3>4 DEF IsEvent
      <3>6. PICK m \in Nat, q \in Nat : m = k /\ q = p
        BY <3>2, <3>3
      <3>7. IsEvent(m, q) /\ File[m][q].id = a
        BY <2>3, <3>5, <3>6
      <3>8. IsEvent(m, q)' /\ File'[m][q].id = a
        BY <2>1, <3>7 DEF NoEventLost
      <3>9. m \in 1..synced'
        BY <2>1, <3>2, <3>6
      <3> QED BY <3>8, <3>9 DEF OnDisk
    <2>4. ASSUME NEW i \in DOMAIN acked, NEW a, a = acked[i] PROVE OnDisk(a)'
      <3>1. a \in Nat /\ OnDisk(a)
        BY <1>1, <2>4 DEF Durable
      <3>2. synced' >= synced
        BY <1>1, <2>1
      <3> QED BY <1>2, <1>4, <2>1, <3>1, <3>2
    <2>5. \A i \in DOMAIN acked : acked[i] < numbered
      BY <1>1, <2>1 DEF Durable
    <2>6. ASSUME NEW i \in DOMAIN acked', NEW a, a = acked'[i] PROVE OnDisk(a)'
      <3>1. CASE i = Len(acked) + 1
        BY <2>2, <2>3, <2>6, <3>1
      <3>2. CASE i \in DOMAIN acked
        BY <2>2, <2>4, <2>6, <3>2
      <3> QED BY <2>2, <3>1, <3>2
    <2>7. \A i, j \in DOMAIN acked' : i < j => acked'[i] < acked'[j]
      BY <2>2, <2>5 DEF Durable
    <2>8. \A i \in DOMAIN acked' : acked'[i] <= numbered'
      BY <1>1, <2>1, <2>2, <2>5
    <2>9. \A i \in DOMAIN acked' : OnDisk(acked[i])'
      BY <2>6
    <2> QED BY <1>1, <2>1, <2>7, <2>8, <2>9 DEF Durable
  <1> QED BY <1>5, <1>6, <1>7, <1>8, <1>9, <1>10, <1>11 DEF LogNext

-----------------------------------------------------------------------------
(* What the events name as the one before them.                            *)

LEMMA TextShape ==
  ASSUME LogTypeOK
  PROVE  /\ Text \in Seq(Line) /\ DOMAIN Text = 1..Len(Text) /\ Len(Text) \in Nat
         /\ Len(Text) >= Len(lines) /\ Len(lines) \in Nat
         /\ \A k \in DOMAIN Text : k \in DOMAIN File /\ Text[k] = File[k]
  <1>1. lines \in Seq(Line) /\ tail \in Line
    BY DEF LogTypeOK
  <1>2. CASE tail = <<>>
    <2>1. Text = lines
      BY <1>2 DEF Text
    <2>2. DOMAIN lines = 1..Len(lines) /\ Len(lines) \in Nat
      BY <1>1
    <2>3. \A k \in 1..Len(lines) : k \in DOMAIN File /\ lines[k] = File[k]
      BY <2>2, FileShape
    <2> QED BY <1>1, <2>1, <2>2, <2>3
  <1>3. CASE tail # <<>>
    <2>1. Text = File
      BY <1>3 DEF Text, File
    <2>2. File \in Seq(Line) /\ Len(File) = Len(lines) + 1 /\ DOMAIN File = 1..Len(File)
      BY FileShape
    <2>3. Len(lines) \in Nat
      BY <1>1
    <2> QED BY <2>1, <2>2, <2>3
  <1> QED BY <1>2, <1>3

LEMMA TextEvent ==
  ASSUME LogTypeOK, NEW k \in DOMAIN Text, Parses(Text[k])
  PROVE  /\ IsEvent(k, 1) /\ k \in Nat /\ File[k] = Text[k] /\ File[k][1] = Text[k][1]
         /\ \A p \in Nat : IsEvent(k, p) => p = 1
         /\ Text[k][1] \in Event
  <1>1. Text[k] \in Line /\ k \in Nat /\ k \in DOMAIN File /\ Text[k] = File[k]
    BY TextShape
  <1>2. DOMAIN Text[k] = {1} /\ Text[k][1] # Torn /\ Text[k][1] \in Event
    BY <1>1, OfALineThatParses
  <1> QED BY <1>1, <1>2 DEF IsEvent

LEMMA AckedIds ==
  ASSUME LogTypeOK, NEW i \in DOMAIN acked
  PROVE  acked[i] \in Nat /\ acked[i] >= 1 /\ i \in Nat /\ numbered \in Nat
  <1>1. acked \in Seq(1..MaxEvents) /\ numbered \in 0..MaxEvents
    BY DEF LogTypeOK
  <1> QED BY <1>1, MaxEventsAssumption

(* The last line of a text that parses is no older than an acknowledged    *)
(* event.                                                                  *)
LEMMA LastIsNewest ==
  ASSUME LogTypeOK, Ordered, Durable, \A k \in DOMAIN Text : Parses(Text[k]),
         NEW i \in DOMAIN acked
  PROVE  Text # <<>> /\ acked[i] <= Text[Len(Text)][1].id
  <1>1. PICK k \in 1..synced, p \in Nat : IsEvent(k, p) /\ File[k][p].id = acked[i]
    BY DEF Durable, OnDisk
  <1>2. k \in 1..Len(lines) /\ k \in Nat
    BY <1>1 DEF LogTypeOK
  <1>3. k \in DOMAIN Text /\ Len(Text) \in DOMAIN Text
    BY <1>2, TextShape
  <1> DEFINE n == Len(Text)
  <1>4. n \in Nat /\ n >= k /\ Text # <<>>
    BY <1>2, <1>3, TextShape
  <1>5. IsEvent(n, 1) /\ File[n][1] = Text[n][1] /\ p = 1
    BY <1>1, <1>2, <1>3, TextEvent
  <1> HIDE DEF n
  <1>6. CASE k = n
    BY <1>1, <1>4, <1>5, <1>6, EventFields DEF n
  <1>7. CASE k < n
    <2>1. File[k][p].id < File[n][1].id
      BY <1>1, <1>2, <1>4, <1>5, <1>7 DEF Ordered
    <2>2. File[k][p].id \in Nat /\ File[n][1].id \in Nat
      BY <1>1, <1>2, <1>4, <1>5, EventFields
    <2> QED BY <1>1, <1>4, <1>5, <2>1, <2>2 DEF n
  <1> QED BY <1>2, <1>4, <1>6, <1>7

LEMMA LinkedStep ==
  ASSUME LogTypeOK, Ordered, Working, Bounded, Durable, Linked,
         [LogNext]_logVars, LogTypeOK', Bounded', Durable'
  PROVE  Linked'
  <1> DEFINE last == numbered - (IF cur.pc # "idle" THEN 1 ELSE 0)
             Link(k, p) == /\ File[k][p].prev < File[k][p].id
                           /\ \A i \in DOMAIN acked :
                                acked[i] < File[k][p].id => acked[i] <= File[k][p].prev
  <1>1. numbered \in Nat /\ numbered' \in Nat /\ mem.head \in Nat /\ mem'.head \in Nat
    <2>1. /\ numbered \in 0..MaxEvents /\ numbered' \in 0..MaxEvents
          /\ mem.head \in 0..MaxEvents /\ mem'.head \in 0..MaxEvents
      BY DEF LogTypeOK
    <2> QED BY <2>1, MaxEventsAssumption
  <1>2. ASSUME NoNewEvent, acked' = acked
        PROVE  \A k, p \in Nat : IsEvent(k, p)' => Link(k, p)'
    BY <1>2 DEF NoNewEvent, Linked
  <1>3. ASSUME NoNewEvent, acked' = acked, mem' = mem, last' >= last,
               server' = "up" => server = "up"
        PROVE  Linked'
    <2>1. mem.head <= last'
      <3>1. mem.head <= last /\ last \in Int /\ last' \in Int
        BY <1>1 DEF Linked
      <3> HIDE DEF last
      <3> QED BY <1>1, <1>3, <3>1
    <2>2. \A k, p \in Nat : IsEvent(k, p)' => Link(k, p)'
      BY <1>2, <1>3
    <2>3. server' = "up" => \A i \in DOMAIN acked : acked[i] <= mem.head
      BY <1>3 DEF Linked
    <2> QED BY <1>3, <2>1, <2>2, <2>3 DEF Linked
  <1>4. CASE Sign
    <2>1. last' >= last
      BY <1>1, <1>4 DEF Sign
    <2> QED BY <1>3, <1>4, <2>1, SameFile DEF Sign
  <1>5. CASE WriteLine
    <2>1. /\ last' = last /\ mem' = mem /\ acked' = acked /\ server' = server
          /\ last = numbered - 1 /\ cur.pc = "signed"
      BY <1>5 DEF WriteLine, LogTypeOK
    <2>2. /\ cur.event.id = numbered /\ cur.event.prev = mem.head /\ server = "up"
      BY <2>1 DEF Working, NoAppend
    <2>3. mem.head < numbered /\ \A i \in DOMAIN acked : acked[i] <= mem.head
      BY <1>1, <2>1, <2>2 DEF Linked
    <2>4. ASSUME NEW k \in Nat, NEW p \in Nat, IsEvent(k, p)'
          PROVE  Link(k, p)'
      <3>1. CASE IsEvent(k, p)
        BY <1>5, <2>1, <3>1, AfterWriteLine DEF NoEventLost, Linked
      <3>2. CASE ~IsEvent(k, p)
        <4>1. File'[k][p] = cur.event
          BY <1>5, <2>4, <3>2, AfterWriteLine
        <4> QED BY <2>1, <2>2, <2>3, <4>1
      <3> QED BY <3>1, <3>2
    <2>5. mem.head <= last'
      BY <2>1 DEF Linked
    <2> QED BY <2>1, <2>3, <2>4, <2>5 DEF Linked
  <1>6. CASE WriteNewline
    <2>1. last' >= last
      BY <1>1, <1>6 DEF WriteNewline, LogTypeOK
    <2> QED BY <1>3, <1>6, <2>1, AfterWriteNewline DEF WriteNewline
  <1>7. CASE SyncAndAdvance
    <2>1. /\ mem'.head = numbered /\ numbered' = numbered /\ cur'.pc = "idle"
          /\ acked' = Append(acked, numbered) /\ File' = File
      BY <1>7, SameFile DEF SyncAndAdvance, Working, After, NoAppend
    <2>2. \A i \in DOMAIN acked' : acked'[i] <= numbered
      BY <1>1, <2>1 DEF Durable
    <2>3. /\ DOMAIN acked' = DOMAIN acked \cup {Len(acked) + 1}
          /\ \A i \in DOMAIN acked : acked'[i] = acked[i]
          /\ acked'[Len(acked) + 1] = numbered
      <3>1. acked \in Seq(Nat) /\ numbered \in Nat
        BY MaxEventsAssumption DEF LogTypeOK
      <3> QED BY <2>1, <3>1
    <2>4. ASSUME NEW k \in Nat, NEW p \in Nat, IsEvent(k, p)'
          PROVE  Link(k, p)'
      <3>1. IsEvent(k, p)
        BY <1>7, <2>4, SameFile DEF SyncAndAdvance, NoNewEvent
      <3>2. File[k][p].id \in Nat /\ File[k][p].id <= numbered
        <4>1. IsEvent(k, p) => File'[k][p].id <= numbered
          BY <1>1, <2>1, <2>4 DEF Bounded
        <4> QED BY <2>1, <3>1, <4>1, EventFields
      <3>3. Link(k, p)
        BY <3>1 DEF Linked
      <3> QED BY <1>1, <2>1, <2>3, <3>2, <3>3
    <2>5. mem'.head <= numbered' - (IF cur'.pc # "idle" THEN 1 ELSE 0)
      BY <1>1, <2>1
    <2>6. \A i \in DOMAIN acked' : acked'[i] <= mem'.head
      BY <2>1, <2>2
    <2> HIDE DEF Link
    <2>7. \A k, p \in Nat : IsEvent(k, p)' => Link(k, p)'
      BY <2>4
    <2> QED BY <2>5, <2>6, <2>7 DEF Linked, Link
  <1>8. CASE Abandon
    <2>1. last' >= last
      BY <1>1, <1>8 DEF Abandon, NoAppend
    <2> QED BY <1>3, <1>8, <2>1, AfterAbandon DEF Abandon
  <1>9. CASE LogCrash
    <2>1. last' >= last
      BY <1>1, <1>9 DEF LogCrash, NoAppend
    <2> QED BY <1>3, <1>9, <2>1, AfterCrash DEF LogCrash
  <1>10. CASE Open
    <2>1. /\ NoNewEvent /\ acked' = acked /\ cur' = cur /\ numbered' = numbered /\ last' = last
          /\ cur.pc = "idle"
      BY <1>10, SameFile DEF Open, Working, NoAppend
    <2>2. CASE server' # "up"
      <3>1. mem' = mem /\ last' >= last
        BY <1>1, <1>10, <2>1, <2>2 DEF Open
      <3> QED BY <1>3, <2>1, <2>2, <3>1
    <2>3. CASE server' = "up"
      <3>1. mem' = Recovered /\ \A k \in DOMAIN Text : Parses(Text[k])
        BY <1>10, <2>3 DEF Open
      <3>2. \A i \in DOMAIN acked : acked[i] <= mem'.head
        BY <3>1, LastIsNewest DEF Recovered, After, Last
      <3>3. mem'.head <= numbered
        <4>1. CASE Text = <<>>
          BY <1>1, <3>1, <4>1 DEF Recovered, Genesis
        <4>2. CASE Text # <<>>
          <5>1. Len(Text) \in DOMAIN Text
            BY <4>2, TextShape
          <5>2. IsEvent(Len(Text), 1) /\ File[Len(Text)][1] = Text[Len(Text)][1]
            BY <3>1, <5>1, TextEvent
          <5>3. Len(Text) \in Nat
            BY TextShape
          <5>4. Text[Len(Text)][1].id <= numbered
            BY <1>1, <2>1, <5>2, <5>3 DEF Bounded
          <5> QED BY <3>1, <4>2, <5>4 DEF Recovered, After, Last
        <4> QED BY <4>1, <4>2
      <3>4. \A k, p \in Nat : IsEvent(k, p)' => Link(k, p)'
        BY <1>2, <2>1
      <3> QED BY <1>1, <2>1, <3>2, <3>3, <3>4 DEF Linked
    <2> QED BY <2>2, <2>3
  <1>11. CASE UNCHANGED logVars
    <2>1. NoNewEvent /\ acked' = acked /\ mem' = mem /\ last' >= last /\ server' = server
      BY <1>1, <1>11, SameFile DEF logVars
    <2> QED BY <1>3, <2>1
  <1> QED BY <1>4, <1>5, <1>6, <1>7, <1>8, <1>9, <1>10, <1>11 DEF LogNext

-----------------------------------------------------------------------------
(* The log nothing has hurt.                                               *)

LEMMA VerifiesAsItGrows ==
  ASSUME NEW text \in Seq(Line), Verifies(text), NEW e \in Event,
         e.seq = Tip(text).seq, e.prev = Tip(text).head
  PROVE  Verifies(Append(text, <<e>>))
  <1> DEFINE n == Len(text)  longer == Append(text, <<e>>)
  <1>1. /\ n \in Nat /\ DOMAIN text = 1..n /\ DOMAIN longer = 1..(n + 1)
        /\ longer[n + 1] = <<e>> /\ \A i \in 1..n : longer[i] = text[i]
    OBVIOUS
  <1>2. e # Torn
    BY DEF Event, Torn
  <1>3. Parses(longer[n + 1]) /\ longer[n + 1][1] = e
    BY <1>1, <1>2 DEF Parses
  <1>4. CASE text = <<>>
    <2>1. n = 0 /\ e.seq = 0 /\ e.prev = 0
      BY <1>4 DEF Tip, Genesis
    <2>2. DOMAIN longer = {1}
      BY <1>1, <2>1
    <2> HIDE DEF longer
    <2> QED BY <1>1, <1>3, <2>1, <2>2 DEF Verifies, InSequence, Chained
  <1>5. CASE text # <<>>
    <2>1. n \in 1..n /\ n >= 1
      BY <1>1, <1>5
    <2>2. text[n][1].seq = n - 1 /\ text[n] \in Line /\ Parses(text[n])
      BY <1>1, <2>1 DEF Verifies, InSequence
    <2>3. e.seq = n /\ e.prev = text[n][1].id
      BY <1>1, <1>5, <2>1, <2>2 DEF Tip, After
    <2> HIDE DEF longer
    <2>4. ASSUME NEW i \in 1..(n + 1)
          PROVE  Parses(longer[i]) /\ InSequence(longer, i) /\ Chained(longer, i)
      <3>1. CASE i = n + 1
        <4>1. longer[i][1] = e /\ i # 1 /\ longer[i - 1] = text[n] /\ i - 1 = n
          BY <1>1, <1>3, <2>1, <3>1
        <4> QED BY <1>3, <2>3, <3>1, <4>1 DEF InSequence, Chained
      <3>2. CASE i \in 1..n
        <4>1. longer[i] = text[i] /\ (i # 1 => longer[i - 1] = text[i - 1])
          BY <1>1, <3>2
        <4>2. Parses(text[i]) /\ InSequence(text, i) /\ Chained(text, i)
          BY <1>1, <3>2 DEF Verifies
        <4> QED BY <4>1, <4>2 DEF InSequence, Chained
      <3> QED BY <1>1, <3>1, <3>2
    <2>5. Verifies(longer)
      BY <1>1, <2>4 DEF Verifies
    <2> QED BY <2>5 DEF longer
  <1> QED BY <1>4, <1>5

LEMMA VerifiesCutShort ==
  ASSUME NEW text \in Seq(Line), Verifies(text), NEW n \in 0..Len(text)
  PROVE  Verifies(SubSeq(text, 1, n))
  <1> DEFINE short == SubSeq(text, 1, n)
  <1>1. /\ DOMAIN short = 1..n /\ \A i \in 1..n : short[i] = text[i]
        /\ DOMAIN text = 1..Len(text) /\ Len(text) \in Nat /\ n \in Nat
    OBVIOUS
  <1> HIDE DEF short
  <1>2. ASSUME NEW i \in 1..n
        PROVE  Parses(short[i]) /\ InSequence(short, i) /\ Chained(short, i)
    <2>1. short[i] = text[i] /\ (i # 1 => short[i - 1] = text[i - 1])
      BY <1>1
    <2>2. Parses(text[i]) /\ InSequence(text, i) /\ Chained(text, i)
      BY <1>1 DEF Verifies
    <2> QED BY <2>1, <2>2 DEF InSequence, Chained
  <1> QED BY <1>1, <1>2 DEF Verifies, short

LEMMA UnhurtStep ==
  ASSUME LogTypeOK, Working, Unhurt, [LogNext]_logVars
  PROVE  Unhurt'
  <1> SUFFICES ASSUME ~hurt'
               PROVE  /\ server' # "refused"
                      /\ Verifies(lines')
                      /\ tail' = IF cur'.pc = "written" THEN <<cur'.event>> ELSE <<>>
                      /\ server' = "up" /\ cur'.pc # "closed" => mem' = Tip(lines')
                      /\ cur'.pc = "closed" => lines'[Len(lines')] = <<cur'.event>>
    BY DEF Unhurt, Verifies, InSequence, Chained, Tip
  <1>0. ~hurt /\ lines \in Seq(Line)
    BY DEF LogNext, logVars, Sign, WriteLine, WriteNewline, SyncAndAdvance, Abandon,
           LogCrash, Open, LogTypeOK
  <1>1. CASE Sign
    BY <1>0, <1>1 DEF Sign, Unhurt
  <1>2. CASE WriteLine
    <2>1. cur'.pc = "written" /\ cur'.event = cur.event
      BY <1>2 DEF WriteLine, LogTypeOK
    <2> QED BY <1>0, <1>2, <2>1 DEF WriteLine, Unhurt
  <1>3. CASE WriteNewline
    <2>1. cur'.pc = "closed" /\ cur'.event = cur.event /\ tail = <<cur.event>>
      BY <1>0, <1>3 DEF WriteNewline, LogTypeOK, Unhurt
    <2>2. server = "up" /\ cur.event \in Event
      BY <1>3 DEF WriteNewline, Working, NoAppend
    <2>3. cur.event.seq = Tip(lines).seq /\ cur.event.prev = Tip(lines).head
      BY <1>0, <1>3, <2>2 DEF WriteNewline, Working, Unhurt
    <2>4. lines' = Append(lines, <<cur.event>>)
      BY <1>3, <2>1 DEF WriteNewline
    <2>5. Verifies(lines')
      BY <1>0, <2>2, <2>3, <2>4, VerifiesAsItGrows DEF Unhurt
    <2>6. lines'[Len(lines')] = <<cur.event>>
      BY <1>0, <2>4
    <2> QED BY <1>0, <1>3, <2>1, <2>2, <2>5, <2>6 DEF WriteNewline
  <1>4. CASE SyncAndAdvance
    <2>1. lines[Len(lines)] = <<cur.event>> /\ tail = <<>> /\ lines # <<>>
      BY <1>0, <1>4 DEF SyncAndAdvance, Unhurt, Working
    <2>2. mem' = Tip(lines)
      BY <1>4, <2>1 DEF SyncAndAdvance, Tip
    <2> QED BY <1>0, <1>4, <2>1, <2>2 DEF SyncAndAdvance, NoAppend, Unhurt
  <1>5. CASE Abandon
    <2>1. cur.pc = "signed" /\ tail' = tail
      BY <1>5 DEF Abandon
    <2> QED BY <1>0, <1>5, <2>1 DEF Abandon, NoAppend, Unhurt
  <1>6. CASE LogCrash
    <2>1. PICK n \in synced..Len(lines) : lines' = SubSeq(lines, 1, n)
      BY <1>6 DEF LogCrash
    <2>2. n \in 0..Len(lines)
      BY <2>1 DEF LogTypeOK
    <2>3. Verifies(lines')
      BY <1>0, <2>1, <2>2, VerifiesCutShort DEF Unhurt
    <2>4. tail' = <<>>
      BY <1>6 DEF LogCrash
    <2> QED BY <1>6, <2>3, <2>4 DEF LogCrash, NoAppend
  <1>7. CASE Open
    <2>1. cur.pc = "idle" /\ tail = <<>> /\ Text = lines
      BY <1>0, <1>7 DEF Open, Working, NoAppend, Unhurt, Text
    <2>2. server' = "up" /\ mem' = Recovered
      BY <1>0, <1>7, <2>1 DEF Open, Unhurt, Verifies
    <2>3. Recovered = Tip(lines)
      BY <2>1 DEF Recovered, Tip, Last
    <2> QED BY <1>0, <1>7, <2>1, <2>2, <2>3 DEF Open, Unhurt
  <1>8. CASE UNCHANGED logVars
    BY <1>0, <1>8 DEF logVars, Unhurt
  <1> QED BY <1>1, <1>2, <1>3, <1>4, <1>5, <1>6, <1>7, <1>8 DEF LogNext

-----------------------------------------------------------------------------
LEMMA InvariantInit == LogInit => IInv
  <1> SUFFICES ASSUME LogInit PROVE IInv
    OBVIOUS
  <1>1. LogTypeOK
    BY TypeInit
  <1>2. /\ lines = <<>> /\ tail = <<>> /\ acked = <<>> /\ server = "up" /\ mem = Genesis
        /\ cur = NoAppend /\ numbered = 0
    BY DEF LogInit
  <1>3. \A k, p \in Nat : ~IsEvent(k, p)
    <2>1. File = <<<<>>>>
      BY <1>2 DEF File
    <2> QED BY <2>1 DEF IsEvent
  <1>4. Ordered /\ Bounded
    BY <1>3 DEF Ordered, Bounded
  <1>5. Working
    BY <1>2 DEF Working, NoAppend
  <1>6. DOMAIN acked = {}
    BY <1>2
  <1>7. Durable /\ Linked
    BY <1>2, <1>3, <1>6 DEF Durable, Linked, NoAppend, Genesis
  <1>8. Unhurt
    BY <1>2 DEF Unhurt, Verifies, Tip, NoAppend
  <1> QED BY <1>1, <1>4, <1>5, <1>7, <1>8 DEF IInv

LEMMA InvariantStep == IInv /\ [LogNext]_logVars => IInv'
  <1> SUFFICES ASSUME IInv, [LogNext]_logVars PROVE IInv'
    OBVIOUS
  <1> USE DEF IInv
  <1>1. LogTypeOK'
    BY TypeStep
  <1>2. Ordered'
    BY OrderedStep
  <1>3. Working'
    BY WorkingStep
  <1>4. Bounded'
    BY BoundedStep
  <1>5. Durable'
    BY <1>1, DurableStep
  <1>6. Linked'
    BY <1>1, <1>4, <1>5, LinkedStep
  <1>7. Unhurt'
    BY UnhurtStep
  <1> QED BY <1>1, <1>2, <1>3, <1>4, <1>5, <1>6, <1>7

LEMMA InvariantAlways == LogSpec => []IInv
  BY InvariantInit, InvariantStep, PTL DEF LogSpec

(* The log has its types in every state: what is in the file are events    *)
(* and torn ones, and no more lines count as synced than there are.        *)
THEOREM LogTypeCorrect == LogSpec => []LogTypeOK
  <1>1. IInv => LogTypeOK
    BY DEF IInv
  <1> QED BY <1>1, InvariantAlways, PTL

(* recover_state and append keep a log that nothing hurt verifiable, and   *)
(* the writer at its tip.                                                  *)
THEOREM UnhurtAlwaysVerifies == LogSpec => []UnhurtLogVerifies
  <1>1. IInv => UnhurtLogVerifies
    <2> SUFFICES ASSUME IInv, ~hurt PROVE UnhurtLogVerifies
      BY DEF UnhurtLogVerifies
    <2>1. cur.pc # "written" => Text = lines
      BY DEF IInv, Unhurt, Text
    <2>2. cur.pc # "written" => Recovered = Tip(lines)
      BY <2>1 DEF Recovered, Tip, Last
    <2> QED BY <2>1, <2>2 DEF IInv, Unhurt, UnhurtLogVerifies
  <1> QED BY <1>1, InvariantAlways, PTL

-----------------------------------------------------------------------------
(* Files that verify.                                                      *)

LEMMA Smallest ==
  ASSUME NEW S, S \subseteq Nat, S # {}
  PROVE  \E m \in S : \A n \in S : m <= n
  <1>1. PICK m \in S : \A n \in S : ~(<<n, m>> \in OpToRel(<, Nat))
    BY NatLessThanWellFounded, WFMin
  <1>2. ASSUME NEW n \in S PROVE m <= n
    <2>1. ~(n < m)
      BY <1>1 DEF OpToRel
    <2>2. m \in Nat /\ n \in Nat
      BY <1>1
    <2> QED BY <2>1, <2>2
  <1>3. \A n \in S : m <= n
    BY <1>2
  <1> QED
    <2> WITNESS m \in S
    <2> QED BY <1>3

(* A text made of lines of the file.                                       *)
IsCopy(text) ==
  /\ DOMAIN text = 1..Len(text) /\ Len(text) \in Nat
  /\ \A k \in DOMAIN text : \E n \in DOMAIN Text : text[k] = Text[n]

LEMMA CopiedEvent ==
  ASSUME IInv, NEW copy, IsCopy(copy), Verifies(copy), NEW k \in DOMAIN copy
  PROVE  /\ copy[k][1].id \in Nat /\ copy[k][1].prev \in Nat
         /\ copy[k][1].prev < copy[k][1].id
         /\ \A i \in DOMAIN acked :
              acked[i] < copy[k][1].id => acked[i] <= copy[k][1].prev
         /\ copy[k][1].prev = IF k = 1 THEN 0 ELSE copy[k - 1][1].id
  <1>1. PICK n \in DOMAIN Text : copy[k] = Text[n]
    BY DEF IsCopy
  <1>2. Parses(copy[k]) /\ Chained(copy, k)
    BY DEF Verifies
  <1>3. IsEvent(n, 1) /\ n \in Nat /\ File[n][1] = copy[k][1]
    BY <1>1, <1>2, TextEvent DEF IInv
  <1>4. copy[k][1].id \in Nat /\ copy[k][1].prev \in Nat
    BY <1>3, EventFields DEF IInv
  <1> QED BY <1>2, <1>3, <1>4 DEF IInv, Linked, Chained

(* Its events are in the order of their signing.                           *)
LEMMA VerifiedRises ==
  ASSUME IInv, NEW copy, IsCopy(copy), Verifies(copy),
         NEW k \in DOMAIN copy, NEW l \in DOMAIN copy, k < l
  PROVE  copy[k][1].id < copy[l][1].id
  <1> SUFFICES ASSUME ~(copy[k][1].id < copy[l][1].id) PROVE FALSE
    OBVIOUS
  <1> DEFINE S == {n \in DOMAIN copy : k < n /\ ~(copy[k][1].id < copy[n][1].id)}
  <1>1. DOMAIN copy = 1..Len(copy) /\ Len(copy) \in Nat /\ S \subseteq Nat /\ S # {}
    BY DEF IsCopy
  <1>2. PICK m \in S : \A n \in S : m <= n
    BY <1>1, Smallest
  <1>3. m - 1 \in DOMAIN copy /\ k <= m - 1 /\ m # 1 /\ m \in DOMAIN copy
    BY <1>1, <1>2
  <1>4. copy[m - 1][1].id < copy[m][1].id
    BY <1>3, CopiedEvent
  <1>5. /\ copy[k][1].id \in Nat /\ copy[m - 1][1].id \in Nat /\ copy[m][1].id \in Nat
    BY <1>3, CopiedEvent
  <1>6. m - 1 \notin S
    BY <1>1, <1>2, <1>3
  <1>7. k = m - 1 \/ copy[k][1].id < copy[m - 1][1].id
    BY <1>1, <1>3, <1>6
  <1> QED BY <1>2, <1>4, <1>5, <1>7

LEMMA VerifiedInOrder ==
  ASSUME IInv, NEW copy, IsCopy(copy), Verifies(copy)
  PROVE  InOrder(copy)
  <1> SUFFICES ASSUME NEW i \in DOMAIN acked, NEW j \in DOMAIN acked,
                      NEW k \in DOMAIN copy, NEW l \in DOMAIN copy,
                      copy[k][1].id = acked[i], copy[l][1].id = acked[j]
               PROVE  i < j <=> k < l
    BY DEF InOrder, Shows
  <1>1. /\ acked[i] \in Nat /\ acked[j] \in Nat /\ i \in Nat /\ j \in Nat
        /\ k \in Nat /\ l \in Nat
    BY AckedIds DEF IInv, IsCopy
  <1>2. (i < j => acked[i] < acked[j]) /\ (j < i => acked[j] < acked[i])
    BY DEF IInv, Durable
  <1>3. (k < l => acked[i] < acked[j]) /\ (l < k => acked[j] < acked[i])
    BY VerifiedRises
  <1>4. i < j => k < l
    BY <1>1, <1>2, <1>3
  <1>5. k < l => i < j
    BY <1>1, <1>2, <1>3
  <1> QED BY <1>4, <1>5

(* Going back from an event along what each names as the one before it     *)
(* meets every older acknowledged event.                                   *)
LEMMA VerifiedWithoutGap ==
  ASSUME IInv, NEW copy, IsCopy(copy), Verifies(copy)
  PROVE  WithoutGap(copy)
  <1> SUFFICES ASSUME NEW i \in DOMAIN acked, NEW j \in DOMAIN acked,
                      NEW l \in DOMAIN copy, i < j, copy[l][1].id = acked[j]
               PROVE  \E k \in DOMAIN copy : copy[k][1].id = acked[i]
    BY DEF WithoutGap, Shows
  <1>1. acked[i] < acked[j] /\ acked[i] \in Nat /\ acked[i] >= 1
    BY AckedIds DEF IInv, Durable
  <1> DEFINE S == {n \in DOMAIN copy : acked[i] < copy[n][1].id}
  <1>2. DOMAIN copy = 1..Len(copy) /\ Len(copy) \in Nat /\ S \subseteq Nat /\ S # {}
    BY <1>1 DEF IsCopy
  <1>3. PICK m \in S : \A n \in S : m <= n
    BY <1>2, Smallest
  <1>4. /\ acked[i] <= copy[m][1].prev
        /\ copy[m][1].prev = IF m = 1 THEN 0 ELSE copy[m - 1][1].id
    BY <1>3, CopiedEvent
  <1>5. m # 1 /\ m - 1 \in DOMAIN copy
    BY <1>1, <1>2, <1>3, <1>4
  <1>6. m - 1 \notin S
    BY <1>2, <1>3
  <1>7. copy[m - 1][1].id \in Nat
    BY <1>5, CopiedEvent
  <1>8. copy[m - 1][1].id = acked[i]
    BY <1>1, <1>4, <1>5, <1>6, <1>7
  <1> QED BY <1>5, <1>8

(* Whatever was abandoned and wherever the server crashed, a file that     *)
(* verify_log accepts has every event whose append returned Ok, in order.  *)
THEOREM NothingIsLostSilently == LogSpec => []NoSilentLoss
  <1>1. IInv => NoSilentLoss
    <2> SUFFICES ASSUME IInv, Verifies(Text) PROVE NoSilentLoss
      BY DEF NoSilentLoss
    <2>1. IsCopy(Text)
      BY TextShape DEF IInv, IsCopy
    <2>2. ASSUME NEW i \in DOMAIN acked
          PROVE  \E k \in DOMAIN Text : Shows(Text, k, i)
      <3>1. PICK k \in 1..synced, p \in Nat : IsEvent(k, p) /\ File[k][p].id = acked[i]
        BY DEF IInv, Durable, OnDisk
      <3>2. k \in 1..Len(lines)
        BY DEF IInv, LogTypeOK
      <3>3. k \in DOMAIN Text /\ k \in Nat
        BY <3>2, TextShape DEF IInv
      <3>4. Parses(Text[k])
        BY <3>3 DEF Verifies
      <3>5. p = 1 /\ File[k][1] = Text[k][1]
        BY <3>1, <3>3, <3>4, TextEvent DEF IInv
      <3> QED BY <3>1, <3>3, <3>5 DEF Shows
    <2> QED BY <2>1, <2>2, VerifiedInOrder DEF NoSilentLoss
  <1> QED BY <1>1, InvariantAlways, PTL

LEMMA EditIsCopy ==
  ASSUME IInv, NEW copy \in Edits(Text)
  PROVE  IsCopy(copy)
  <1> DEFINE n == Len(Text)
  <1>1. n \in Nat /\ DOMAIN Text = 1..n /\ Text \in Seq(Line)
    BY TextShape DEF IInv
  <1>2. CASE copy \in Deletions(Text)
    <2>1. PICK j \in DOMAIN Text :
            copy = [i \in 1..(n - 1) |-> Text[IF i < j THEN i ELSE i + 1]]
      BY <1>2 DEF Deletions
    <2>2. n - 1 \in Nat
      BY <1>1
    <2>3. Len(copy) = n - 1 /\ DOMAIN copy = 1..(n - 1)
      BY <2>1, <2>2
    <2>4. ASSUME NEW k \in 1..(n - 1)
          PROVE  \E m \in DOMAIN Text : copy[k] = Text[m]
      BY <1>1, <2>1
    <2> QED BY <2>2, <2>3, <2>4 DEF IsCopy
  <1>3. CASE copy \in Truncations(Text)
    <2>1. PICK m \in 0..(n - 1) : copy = SubSeq(Text, 1, m)
      BY <1>3 DEF Truncations
    <2>2. Len(copy) = m /\ DOMAIN copy = 1..m /\ \A k \in 1..m : copy[k] = Text[k]
      BY <1>1, <2>1
    <2> QED BY <1>1, <2>1, <2>2 DEF IsCopy
  <1>4. CASE copy \in Swaps(Text)
    <2>1. PICK i \in DOMAIN Text, j \in DOMAIN Text :
            copy = [Text EXCEPT ![i] = Text[j], ![j] = Text[i]]
      BY <1>4 DEF Swaps
    <2>2. Len(copy) = n /\ DOMAIN copy = 1..n
      BY <1>1, <2>1
    <2>3. \A k \in 1..n : copy[k] = Text[j] \/ copy[k] = Text[i] \/ copy[k] = Text[k]
      BY <1>1, <2>1
    <2> QED BY <1>1, <2>1, <2>2, <2>3 DEF IsCopy
  <1> QED BY <1>2, <1>3, <1>4 DEF Edits

(* Deleting, truncating or swapping lines passes verify_log only where it  *)
(* leaves off the newest acknowledged events, forks or not.                *)
THEOREM EditsOnlyTruncate == LogSpec => []AcceptedEditsOnlyTruncate
  <1>1. IInv => AcceptedEditsOnlyTruncate
    BY EditIsCopy, VerifiedInOrder, VerifiedWithoutGap DEF AcceptedEditsOnlyTruncate
  <1> QED BY <1>1, InvariantAlways, PTL
=============================================================================
