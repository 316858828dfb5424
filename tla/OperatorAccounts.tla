--------------------------- MODULE OperatorAccounts ---------------------------
(***************************************************************************)
(* Operator accounts of the console: OperatorFile (a cache behind an       *)
(* RwLock, rewritten whole to operators.jsonl on every change), the        *)
(* session table, and the handlers that manage accounts.                   *)
(*                                                                         *)
(* Every handler checks first and acts in a later critical section, with   *)
(* awaits in between; OperatorFile's own operations hold the write lock    *)
(* across the file write and are single steps.  A write that fails, or     *)
(* whose request is dropped, leaves the cache changed and the file not.    *)
(***************************************************************************)
EXTENDS Naturals, FiniteSets

CONSTANTS
  Users,       \* usernames
  Passwords,   \* what password hashes are told apart by
  Handlers,    \* requests being served at the same time
  Seats,       \* seat count of the active license
  Null

ASSUME SeatsAssumption == Seats \in Nat \ {0}
ASSUME NullAssumption == Null \notin Users \cup Passwords
ASSUME FiniteAssumption == IsFiniteSet(Users) /\ IsFiniteSet(Handlers)

VARIABLES
  proc,      \* the server: up or down
  cache,     \* OperatorFile::cache, username -> account
  disk,      \* operators.jsonl
  sessions,  \* users with a live entry in the session table
  handler,   \* what each request being served is doing
  unsure     \* history: users the last change to whom was not acknowledged

vars == <<proc, cache, disk, sessions, handler, unsure>>

(* Of an account's groups only "admins" matters: it grants Manage.         *)
Roles == {"admin", "other"}
Account == [role : Roles, password : Passwords]
NoAccount == [role |-> "none", password |-> Null]
Empty == [u \in Users |-> NoAccount]

Stages == {"idle", "authorized", "creating", "deleting", "setup", "rehash"}
(* What a request is doing, for whom, and what it saw; fresh is history:   *)
(* no account has changed since the request looked.                        *)
At(stage, actor, name, role, saw) ==
  [stage |-> stage, actor |-> actor, name |-> name, role |-> role, saw |-> saw,
   fresh |-> TRUE]
Overtaken(r) ==
  [stage |-> r.stage, actor |-> r.actor, name |-> r.name, role |-> r.role,
   saw |-> r.saw, fresh |-> FALSE]
Idle == [stage |-> "idle", actor |-> Null, name |-> Null, role |-> "other",
         saw |-> Null, fresh |-> FALSE]

TypeOK ==
  /\ proc \in {"up", "down"}
  /\ cache \in [Users -> Account \cup {NoAccount}]
  /\ disk \in [Users -> Account \cup {NoAccount}]
  /\ sessions \subseteq Users
  /\ handler \in [Handlers ->
       [stage : Stages, actor : Users \cup {Null}, name : Users \cup {Null},
        role : Roles, saw : Passwords \cup {Null}, fresh : BOOLEAN]]
  /\ unsure \subseteq Users

Init ==
  /\ proc = "up"
  /\ cache = Empty /\ disk = Empty
  /\ sessions = {}
  /\ handler = [h \in Handlers |-> Idle]
  /\ unsure = {}

Exists(u) == cache[u] # NoAccount
Accounts == {u \in Users : Exists(u)}
Admins == {u \in Users : cache[u].role = "admin"}

Goto(h, r) == handler' = [handler EXCEPT ![h] = r]
Done(h) == Goto(h, Idle)

-----------------------------------------------------------------------------
(* OperatorFile: change the cache, then write_atomic the whole of it.      *)

(* A change that answers Ok before, or without, writing the file.          *)
PersistLater(u) ==
  /\ disk' \in {cache', disk}
  /\ unsure' = unsure \ {u}

Persist(u) ==
  \/ disk' = cache' /\ unsure' = unsure \ {u}
  \/ disk' = disk /\ unsure' = unsure \cup {u}

(* The last thing a request does, and what the others no longer know.      *)
Store(h, u, account) ==
  /\ cache' = [cache EXCEPT ![u] = account]
  /\ Persist(u)
  /\ handler' = [i \in Handlers |->
                   IF i = h THEN Idle ELSE Overtaken(handler[i])]

Refuse(h) == Done(h) /\ UNCHANGED <<proc, cache, disk, sessions, unsure>>

-----------------------------------------------------------------------------
(* Sessions, and the two middlewares before every managing handler.        *)

Login(u) ==
  /\ proc = "up" /\ Exists(u)
  /\ sessions' = sessions \cup {u}
  /\ UNCHANGED <<proc, cache, disk, handler, unsure>>

Logout(u) ==
  /\ proc = "up"
  /\ sessions' = sessions \ {u}
  /\ UNCHANGED <<proc, cache, disk, handler, unsure>>

Authorize(h, a) ==
  /\ proc = "up" /\ handler[h] = Idle
  /\ a \in sessions /\ a \in Admins
  /\ Goto(h, At("authorized", a, Null, "other", Null))
  /\ UNCHANGED <<proc, cache, disk, sessions, unsure>>

-----------------------------------------------------------------------------
(* admin_create_operator_handler: count, then create.                      *)

(* `>` where the handler has `>=`.                                         *)
SeatFreeOffByOne == Cardinality(Accounts) <= Seats

SeatFree == Cardinality(Accounts) < Seats

CheckSeats(h, u, r) ==
  /\ handler[h].stage = "authorized"
  /\ IF SeatFree
     THEN Goto(h, At("creating", handler[h].actor, u, r, Null))
     ELSE Done(h)
  /\ UNCHANGED <<proc, cache, disk, sessions, unsure>>

Create(h, p) ==
  LET u == handler[h].name IN
  /\ handler[h].stage = "creating"
  /\ \/ Exists(u) /\ Refuse(h)
     \/ /\ ~Exists(u)
        /\ Store(h, u, [role |-> handler[h].role, password |-> p])
        /\ UNCHANGED <<proc, sessions>>

(* setup_post_handler: is_empty, then create an admin and sign them in.    *)

CheckSetup(h) ==
  /\ proc = "up" /\ handler[h] = Idle
  /\ Accounts = {}
  /\ Goto(h, At("setup", Null, Null, "other", Null))
  /\ UNCHANGED <<proc, cache, disk, sessions, unsure>>

Setup(h, u, p) ==
  /\ handler[h].stage = "setup"
  /\ \/ Exists(u) /\ Refuse(h)
     \/ /\ ~Exists(u)
        /\ Store(h, u, [role |-> "admin", password |-> p])
        /\ sessions' = IF u \in unsure' THEN sessions ELSE sessions \cup {u}
        /\ UNCHANGED proc

(* admin_update_operator_groups_handler.                                   *)
SetRole(h, u, r) ==
  /\ handler[h].stage = "authorized"
  /\ \/ ~Exists(u) /\ Refuse(h)
     \/ /\ Exists(u)
        /\ Store(h, u, [role |-> r, password |-> cache[u].password])
        /\ UNCHANGED <<proc, sessions>>

(* admin_delete_operator_handler: look at a list, then delete.             *)

(* Neither of the handler's two refusals.                                  *)
MayDeleteAnyone(a, u) == a \in Users /\ u \in Users

MayDelete(a, u) ==
  /\ a # u
  /\ ~(u \in Admins /\ Cardinality(Admins) <= 1)

CheckDelete(h, u) ==
  /\ handler[h].stage = "authorized"
  /\ IF MayDelete(handler[h].actor, u)
     THEN Goto(h, At("deleting", handler[h].actor, u, "other", Null))
     ELSE Done(h)
  /\ UNCHANGED <<proc, cache, disk, sessions, unsure>>

Delete(h) ==
  LET u == handler[h].name IN
  /\ handler[h].stage = "deleting"
  /\ \/ ~Exists(u) /\ Refuse(h)
     \/ /\ Exists(u)
        /\ Store(h, u, NoAccount)
        /\ UNCHANGED <<proc, sessions>>

(* account_password_submit_handler: verify the current password, hash the  *)
(* new one, then store it.                                                 *)

CheckPassword(h, u) ==
  /\ proc = "up" /\ handler[h] = Idle
  /\ u \in sessions /\ Exists(u)
  /\ Goto(h, At("rehash", u, u, "other", cache[u].password))
  /\ UNCHANGED <<proc, cache, disk, sessions, unsure>>

SetPassword(h, p) ==
  LET u == handler[h].name IN
  /\ handler[h].stage = "rehash"
  /\ \/ ~Exists(u) /\ Refuse(h)
     \/ /\ Exists(u)
        /\ Store(h, u, [role |-> cache[u].role, password |-> p])
        /\ UNCHANGED <<proc, sessions>>

-----------------------------------------------------------------------------
Crash ==
  /\ proc = "up" /\ proc' = "down"
  /\ cache' = Empty /\ sessions' = {}
  /\ handler' = [h \in Handlers |-> Idle]
  /\ UNCHANGED <<disk, unsure>>

(* OperatorFile::open.                                                     *)
Open ==
  /\ proc = "down" /\ proc' = "up"
  /\ cache' = disk
  /\ UNCHANGED <<disk, sessions, handler, unsure>>

Next ==
  \/ \E u \in Users : Login(u) \/ Logout(u)
  \/ \E h \in Handlers :
       \/ CheckSetup(h)
       \/ Delete(h)
       \/ \E u \in Users :
            \/ Authorize(h, u) \/ CheckDelete(h, u) \/ CheckPassword(h, u)
            \/ \E r \in Roles : CheckSeats(h, u, r) \/ SetRole(h, u, r)
       \/ \E p \in Passwords :
            \/ Create(h, p) \/ SetPassword(h, p)
            \/ \E u \in Users : Setup(h, u, p)
  \/ Crash \/ Open

Spec == Init /\ [][Next]_vars

-----------------------------------------------------------------------------
(* Acknowledged changes survive a restart: memory and file agree on every  *)
(* account whose last change was not cut short, also after failed writes   *)
(* to other accounts, and after restarts.                                  *)
AcknowledgedChangesPersist ==
  proc = "up" => \A u \in Users \ unsure : cache[u] = disk[u]

(* The seat cap is overrun by no more than the requests that checked it at *)
(* the same time.                                                          *)
SeatOvershootBounded ==
  Cardinality(Accounts) < Seats + Cardinality(Handlers)

(* The handlers' checks are enough where nothing overtakes them: a request *)
(* that acts on accounts that have not changed since it looked keeps the   *)
(* seat cap, leaves an admin, creates the first account only, and replaces *)
(* only the password it was shown.                                         *)
ChecksHoldUnlessOvertaken ==
  [][\A h \in Handlers :
       LET r == handler[h] IN
       r.fresh /\ handler'[h] = Idle /\ proc' = "up" =>
         /\ r.stage = "creating" => Cardinality(Accounts') <= Seats
         /\ r.stage = "setup" => Accounts = {}
         /\ r.stage = "deleting" /\ Admins # {} => Admins' # {}
         /\ r.stage = "rehash" =>
              cache[r.name].password = r.saw \/ cache' = cache]_vars

(* "the live operator count must stay <= cap. We count BEFORE create so    *)
(* the limit holds even under rapid double-submits."                       *)
SeatCapHolds == Cardinality(Accounts) <= Seats

(* Deleting "refuses to delete [...] the last remaining admin": no delete  *)
(* leaves a console that had an admin without one.                         *)
DeleteKeepsAnAdmin ==
  [][\A h \in Handlers :
       /\ handler[h].stage = "deleting" /\ proc' = "up"
       /\ Admins # {} /\ cache' = [cache EXCEPT ![handler[h].name] = NoAccount]
       => Admins' # {}]_vars
=============================================================================
