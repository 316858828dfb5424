----------------------------- MODULE StateStore -----------------------------
(***************************************************************************)
(* The metadata store of computeza-state (SqliteStore) and the requests    *)
(* that use it.                                                            *)
(*                                                                         *)
(* A row carries a uuid minted by its INSERT, an optimistic-concurrency    *)
(* revision, the declared spec and the observed status.  save and delete   *)
(* read the row and write it inside one SQLite transaction; the handlers   *)
(* around them load the row first, in a statement of its own, and pass on  *)
(* the revision they saw.  A request is therefore up to three steps, and   *)
(* requests interleave between any two of them.                            *)
(***************************************************************************)
EXTENDS Naturals

CONSTANTS
  Keys,        \* resource keys (kind, name, workspace)
  Specs,       \* spec payloads, opaque JSON to the store
  Statuses,    \* observed statuses, opaque JSON as well
  Requests,    \* concurrent handlers and reconciler passes
  Null,        \* SQL NULL
  MaxCommits   \* bound on the number of committed writes

ASSUME NullAssumption == Null \notin Specs \cup Statuses \cup Keys
ASSUME MaxCommitsAssumption == MaxCommits \in Nat

VARIABLES
  rows,     \* the resources table: key -> row, or NoRow
  minted,   \* how many uuids save has minted; the i-th row created has uuid i
  commits,  \* how many write transactions SQLite has committed
  req       \* what each request is doing

vars == <<rows, minted, commits, req>>

Row == [uuid : Nat, revision : Nat \ {0}, spec : Specs,
        status : Statuses \cup {Null}]

NoRow == [uuid |-> 0, revision |-> 0, spec |-> Null, status |-> Null]

RowOrNone == Row \cup {NoRow}

(* The revision of Option<u64>::None; the revisions of rows start at 1.    *)
None == 0

(***************************************************************************)
(* A request is idle; or it has loaded a row, `held` (NoRow when load      *)
(* found nothing); or it is inside the transaction of save or delete,      *)
(* with the row that transaction has read, `snap`, and the commit count    *)
(* at that moment, `at`.                                                   *)
(***************************************************************************)
Request ==
  [stage : {"idle", "loaded", "saving", "deleting"},
   key : Keys \cup {Null}, held : RowOrNone, spec : Specs \cup {Null},
   expected : Nat, snap : RowOrNone, at : Nat]

Idle == [stage |-> "idle", key |-> Null, held |-> NoRow, spec |-> Null,
         expected |-> None, snap |-> NoRow, at |-> 0]

Loaded(k, h) == [stage |-> "loaded", key |-> k, held |-> h, spec |-> Null,
                 expected |-> None, snap |-> NoRow, at |-> 0]

(* The two UPDATE statements, as functions of the row they find.           *)
Revised(r, s, revision) ==
  [uuid |-> r.uuid, revision |-> revision, spec |-> s, status |-> r.status]

Observed(r, st) ==
  [uuid |-> r.uuid, revision |-> r.revision, spec |-> r.spec, status |-> st]

TypeOK ==
  /\ rows \in [Keys -> RowOrNone]
  /\ minted \in Nat
  /\ commits \in Nat
  /\ req \in [Requests -> Request]
  /\ \A c \in Requests :
       /\ req[c].stage # "idle" => req[c].key \in Keys
       /\ req[c].stage = "saving" => req[c].spec \in Specs

Init ==
  /\ rows = [k \in Keys |-> NoRow]
  /\ minted = 0
  /\ commits = 0
  /\ req = [c \in Requests |-> Idle]

-----------------------------------------------------------------------------
(* What a request knows before it writes.                                  *)

(* load of a key, or one row of the list the reconcile tick walks.         *)
Load(c, k) ==
  /\ req[c].stage = "idle"
  /\ req' = [req EXCEPT ![c] = Loaded(k, rows[k])]
  /\ UNCHANGED <<rows, minted, commits>>

(* A handler that creates without looking, or whose load failed: the       *)
(* `_ => None` arm treats an error as "no such row".                       *)
AssumeAbsent(c, k) ==
  /\ req[c].stage = "idle"
  /\ req' = [req EXCEPT ![c] = Loaded(k, NoRow)]
  /\ UNCHANGED <<rows, minted, commits>>

Finish(c) == req' = [req EXCEPT ![c] = Idle]

-----------------------------------------------------------------------------
(* save and delete: BEGIN and SELECT, then the write and COMMIT.           *)

(* Entering either transaction reads the row again.                        *)
Enter(c, stage, s, expected) ==
  /\ req' = [req EXCEPT ![c] =
       [stage |-> stage, key |-> req[c].key, held |-> req[c].held, spec |-> s,
        expected |-> expected, snap |-> rows[req[c].key], at |-> commits]]
  /\ UNCHANGED <<rows, minted, commits>>

BeginSave(c, s) ==
  /\ req[c].stage = "loaded"
  /\ Enter(c, "saving", s, req[c].held.revision)

(* delete passes None (the handlers) or the revision it has seen.          *)
BeginDelete(c, expected) ==
  /\ req[c].stage = "loaded"
  /\ expected \in {None, req[c].held.revision}
  /\ Enter(c, "deleting", Null, expected)

(* SQLite lets a transaction that has read go on to write only while no    *)
(* other connection has committed since its snapshot.                      *)
SnapshotCurrent(c) == req[c].at = commits

Commit(c) ==
  /\ SnapshotCurrent(c)
  /\ commits < MaxCommits
  /\ commits' = commits + 1
  /\ Finish(c)

(* (None, None): INSERT with a fresh uuid and revision 1.                  *)
SaveInserts(c) ==
  LET r == req[c] IN
  /\ r.stage = "saving"
  /\ r.snap = NoRow /\ r.expected = None
  /\ Commit(c)
  /\ minted' = minted + 1
  /\ rows' = [rows EXCEPT ![r.key] = [uuid |-> minted + 1, revision |-> 1,
                                      spec |-> r.spec, status |-> Null]]

(* An UPDATE that forgets revision.next().                                 *)
SaveUpdatesInPlace(c) ==
  LET r == req[c] IN
  /\ r.stage = "saving"
  /\ r.snap # NoRow /\ r.expected = r.snap.revision
  /\ Commit(c)
  /\ rows' = [rows EXCEPT ![r.key] = Revised(rows[r.key], r.spec, r.snap.revision)]
  /\ UNCHANGED minted

(* An UPDATE that does not compare the revisions.                          *)
SaveOverwrites(c) ==
  LET r == req[c] IN
  /\ r.stage = "saving"
  /\ r.snap # NoRow
  /\ Commit(c)
  /\ rows' = [rows EXCEPT ![r.key] =
                 Revised(rows[r.key], r.spec, r.snap.revision + 1)]
  /\ UNCHANGED minted

(* (Some, Some) with the expected revision: UPDATE of spec and revision.   *)
SaveUpdates(c) ==
  LET r == req[c] IN
  /\ r.stage = "saving"
  /\ r.snap # NoRow /\ r.expected = r.snap.revision
  /\ Commit(c)
  /\ rows' = [rows EXCEPT ![r.key] =
                 Revised(rows[r.key], r.spec, r.snap.revision + 1)]
  /\ UNCHANGED minted

(* NotFound, or RevisionConflict: the other arms of save's match.          *)
SaveRejected(c) ==
  LET r == req[c] IN
  /\ r.stage = "saving"
  /\ r.expected # r.snap.revision
  /\ Finish(c)
  /\ UNCHANGED <<rows, minted, commits>>

DeleteRemoves(c) ==
  LET r == req[c] IN
  /\ r.stage = "deleting"
  /\ r.snap # NoRow
  /\ r.expected \in {None, r.snap.revision}
  /\ Commit(c)
  /\ rows' = [rows EXCEPT ![r.key] = NoRow]
  /\ UNCHANGED minted

DeleteRejected(c) ==
  LET r == req[c] IN
  /\ r.stage = "deleting"
  /\ r.snap = NoRow \/ r.expected \notin {None, r.snap.revision}
  /\ Finish(c)
  /\ UNCHANGED <<rows, minted, commits>>

(* SQLITE_BUSY or an I/O error: the transaction is dropped.                *)
RollBack(c) ==
  /\ req[c].stage \in {"saving", "deleting"}
  /\ Finish(c)
  /\ UNCHANGED <<rows, minted, commits>>

-----------------------------------------------------------------------------
(* A put_status that counts as an edit.                                    *)
PutStatusBumps(c, st) ==
  LET k == req[c].key IN
  /\ req[c].stage = "loaded" /\ req[c].held # NoRow
  /\ rows[k] # NoRow
  /\ Finish(c)
  /\ commits < MaxCommits
  /\ commits' = commits + 1
  /\ rows' = [rows EXCEPT ![k] =
                 Observed(Revised(rows[k], rows[k].spec, rows[k].revision + 1), st)]
  /\ UNCHANGED minted

(* put_status after an observe: one UPDATE of the status column, whatever  *)
(* row the key names by then.  No row at all is NotFound.                  *)
PutStatus(c, st) ==
  LET k == req[c].key IN
  /\ req[c].stage = "loaded" /\ req[c].held # NoRow
  /\ Finish(c)
  /\ \/ /\ rows[k] # NoRow
        /\ commits < MaxCommits
        /\ commits' = commits + 1
        /\ rows' = [rows EXCEPT ![k] = Observed(rows[k], st)]
     \/ /\ rows[k] = NoRow
        /\ UNCHANGED <<rows, commits>>
  /\ UNCHANGED minted

(* A handler that loads only to show the row, or gives up.                 *)
Leave(c) ==
  /\ req[c].stage = "loaded"
  /\ Finish(c)
  /\ UNCHANGED <<rows, minted, commits>>

Next ==
  \E c \in Requests :
    \/ \E k \in Keys : Load(c, k) \/ AssumeAbsent(c, k)
    \/ \E s \in Specs : BeginSave(c, s)
    \/ \E e \in {None, req[c].held.revision} : BeginDelete(c, e)
    \/ SaveInserts(c) \/ SaveUpdates(c) \/ SaveRejected(c)
    \/ DeleteRemoves(c) \/ DeleteRejected(c)
    \/ RollBack(c)
    \/ \E st \in Statuses : PutStatus(c, st)
    \/ Leave(c)

Spec == Init /\ [][Next]_vars

-----------------------------------------------------------------------------
(* The optimistic-concurrency token does its job: while a row lives, a     *)
(* request holding a copy of it with the row's revision holds the row's    *)
(* spec.  Were it violated, a save with a matching revision could          *)
(* overwrite an edit its caller has never seen.                            *)
RevisionIdentifiesSpec ==
  \A c \in Requests, k \in Keys :
    LET h == req[c].held IN
    /\ h # NoRow /\ rows[k] # NoRow
    /\ h.uuid = rows[k].uuid /\ h.revision = rows[k].revision
    => req[c].key = k /\ h.spec = rows[k].spec

(* No lost update: whenever the spec or the revision of a living row       *)
(* changes, the request that changed it had loaded a copy with exactly the *)
(* revision it replaces, and if that copy is of the same row, with the     *)
(* spec it replaces; the revision grows by one.                            *)
NoLostUpdate ==
  [][\A k \in Keys :
       /\ rows[k].uuid # 0 /\ rows'[k].uuid = rows[k].uuid
       /\ <<rows'[k].spec, rows'[k].revision>> # <<rows[k].spec, rows[k].revision>>
       => /\ rows'[k].revision = rows[k].revision + 1
          /\ \E c \in Requests :
               /\ req[c].stage = "saving" /\ req[c].key = k
               /\ req[c].held.revision = rows[k].revision
               /\ req[c].held.uuid = rows[k].uuid => req[c].held.spec = rows[k].spec
    ]_vars

(* The store implements the table of its trait: through all interleavings  *)
(* of transactions the rows only change by whole creates, revisions,       *)
(* observations and removals.                                              *)
Table == INSTANCE ResourceTable
ImplementsTable == Table!Spec
=============================================================================
