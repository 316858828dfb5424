----------------------- MODULE OperatorAccountsProofs -----------------------
(***************************************************************************)
(* Proofs about OperatorAccounts, for every set of users, passwords and    *)
(* handlers and every seat count: its types, the persistence of            *)
(* acknowledged changes, the bound on how far the seat cap is overrun, and *)
(* that the handlers' checks are enough where nothing overtakes them.      *)
(***************************************************************************)
EXTENDS OperatorAccounts, FiniteSetTheorems, TLAPS

(* A crash ends every request.                                             *)
DownIsQuiet == proc = "down" => \A h \in Handlers : handler[h] = Idle

(* What a check has seen holds as long as no account has changed.          *)
FreshChecks ==
  \A h \in Handlers :
    LET r == handler[h] IN
    r.fresh =>
      /\ r.stage = "creating" => Cardinality(Accounts) < Seats
      /\ r.stage = "setup" => Accounts = {}
      /\ r.stage = "deleting" => ~(r.name \in Admins /\ Cardinality(Admins) <= 1)
      /\ r.stage = "rehash" => cache[r.name].password = r.saw

(* The requests that will still create an account, and the accounts that   *)
(* the next start will find.                                               *)
Creators == {h \in Handlers : handler[h].stage \in {"creating", "setup"}}
Stored == {u \in Users : disk[u] # NoAccount}

(* Accounts and those still to come stay under the bound: a request joins  *)
(* the creators only while there is a free seat.                           *)
SeatsAccounted ==
  /\ Cardinality(Accounts) + Cardinality(Creators) < Seats + Cardinality(Handlers)
  /\ Cardinality(Stored) < Seats + Cardinality(Handlers)

(* The name a request carries in the stages that use it.                   *)
NamesKnown ==
  \A h \in Handlers :
    handler[h].stage \in {"creating", "deleting", "rehash"} => handler[h].name \in Users

IInv ==
  /\ TypeOK
  /\ NamesKnown
  /\ DownIsQuiet
  /\ AcknowledgedChangesPersist
  /\ FreshChecks
  /\ SeatsAccounted

-----------------------------------------------------------------------------
(* The steps, as far as accounts and requests can tell them apart.         *)

(* A request moves on without touching an account.                         *)
Moves(h, r) ==
  /\ proc = "up"
  /\ UNCHANGED <<proc, cache, disk, unsure>>
  /\ handler' = [handler EXCEPT ![h] = r]

(* What it may move to.                                                    *)
Look(h, r) ==
  \/ r = Idle
  \/ \E a \in Users : r = At("authorized", a, Null, "other", Null)
  \/ SeatFree /\ \E a \in Users \cup {Null}, u \in Users, role \in Roles :
                   r = At("creating", a, u, role, Null)
  \/ Accounts = {} /\ r = At("setup", Null, Null, "other", Null)
  \/ \E a \in Users \cup {Null}, u \in Users :
       ~(u \in Admins /\ Cardinality(Admins) <= 1) /\ r = At("deleting", a, u, "other", Null)
  \/ \E u \in Users : Exists(u) /\ r = At("rehash", u, u, "other", cache[u].password)

(* A request ends by changing one account.                                 *)
Acts(h, u, account) ==
  /\ proc = "up" /\ proc' = proc
  /\ Store(h, u, account)
  /\ \/ /\ handler[h].stage \in {"creating", "setup"}
        /\ ~Exists(u) /\ account \in Account
     \/ /\ handler[h].stage \in {"authorized", "rehash"}
        /\ Exists(u) /\ account \in Account
     \/ /\ handler[h].stage = "deleting" /\ u = handler[h].name
        /\ Exists(u) /\ account = NoAccount

(* Every step of the system is one of five kinds.                          *)
LEMMA StepKinds ==
  ASSUME TypeOK, NamesKnown, DownIsQuiet, Next
  PROVE  \/ UNCHANGED <<proc, cache, disk, handler, unsure>>
         \/ \E h \in Handlers : \E r : Look(h, r) /\ Moves(h, r)
         \/ \E h \in Handlers, u \in Users : \E account \in Account \cup {NoAccount} :
              Acts(h, u, account)
         \/ Crash
         \/ Open
  <1> DEFINE Looks == \E h \in Handlers : \E r : Look(h, r) /\ Moves(h, r)
             Act == \E h \in Handlers, u \in Users : \E account \in Account \cup {NoAccount} :
                      Acts(h, u, account)
  <1>1. ASSUME NEW h \in Handlers, handler[h].stage # "idle"
        PROVE  proc = "up"
    BY <1>1 DEF DownIsQuiet, Idle, TypeOK
  <1>2. ASSUME NEW u \in Users, Login(u) \/ Logout(u)
        PROVE  UNCHANGED <<proc, cache, disk, handler, unsure>>
    BY <1>2 DEF Login, Logout
  <1>3. ASSUME NEW h \in Handlers, Refuse(h), handler[h].stage # "idle"
        PROVE  Looks
    BY <1>3, <1>1 DEF Refuse, Done, Goto, Look, Moves
  <1>4. ASSUME NEW h \in Handlers, CheckSetup(h)
        PROVE  Looks
    BY <1>4 DEF CheckSetup, Goto, Look, Moves
  <1>5. ASSUME NEW h \in Handlers, NEW u \in Users, Authorize(h, u)
        PROVE  Looks
    BY <1>5 DEF Authorize, Goto, Look, Moves
  <1>6. ASSUME NEW h \in Handlers, NEW u \in Users, CheckDelete(h, u)
        PROVE  Looks
    <2>1. proc = "up" /\ handler[h].actor \in Users \cup {Null}
      BY <1>6, <1>1 DEF CheckDelete, TypeOK
    <2>2. CASE MayDelete(handler[h].actor, u)
      <3>1. Moves(h, At("deleting", handler[h].actor, u, "other", Null))
        BY <1>6, <2>1, <2>2 DEF CheckDelete, Goto, Moves
      <3>2. QED
        BY <2>1, <2>2, <3>1 DEF MayDelete, Look
    <2>3. CASE ~MayDelete(handler[h].actor, u)
      BY <1>6, <2>1, <2>3 DEF CheckDelete, Goto, Done, Moves, Look
    <2>4. QED
      BY <2>2, <2>3
  <1>7. ASSUME NEW h \in Handlers, NEW u \in Users, CheckPassword(h, u)
        PROVE  Looks
    BY <1>7 DEF CheckPassword, Goto, Look, Moves
  <1>8. ASSUME NEW h \in Handlers, NEW u \in Users, NEW r \in Roles, CheckSeats(h, u, r)
        PROVE  Looks
    <2>1. proc = "up" /\ handler[h].actor \in Users \cup {Null}
      BY <1>8, <1>1 DEF CheckSeats, TypeOK
    <2>2. CASE SeatFree
      <3>1. Moves(h, At("creating", handler[h].actor, u, r, Null))
        BY <1>8, <2>1, <2>2 DEF CheckSeats, Goto, Moves
      <3>2. QED
        BY <2>1, <2>2, <3>1 DEF Look
    <2>3. CASE ~SeatFree
      BY <1>8, <2>1, <2>3 DEF CheckSeats, Goto, Done, Moves, Look
    <2>4. QED
      BY <2>2, <2>3
  <1>9. ASSUME NEW h \in Handlers, NEW p \in Passwords, Create(h, p)
        PROVE  Looks \/ Act
    <2>1. proc = "up" /\ handler[h].name \in Users /\ handler[h].role \in Roles
      BY <1>9, <1>1 DEF Create, TypeOK, NamesKnown
    <2>2. QED
      BY <1>9, <1>3, <2>1 DEF Create, Acts, Account
  <1>10. ASSUME NEW h \in Handlers, NEW u \in Users, NEW p \in Passwords, Setup(h, u, p)
         PROVE  Looks \/ Act
    BY <1>10, <1>1, <1>3 DEF Setup, Acts, Account, Roles
  <1>11. ASSUME NEW h \in Handlers, NEW u \in Users, NEW r \in Roles, SetRole(h, u, r)
         PROVE  Looks \/ Act
    <2>1. Exists(u) => [role |-> r, password |-> cache[u].password] \in Account
      BY DEF Exists, TypeOK, Account
    <2>2. QED
      BY <1>11, <1>1, <1>3, <2>1 DEF SetRole, Acts
  <1>12. ASSUME NEW h \in Handlers, Delete(h)
         PROVE  Looks \/ Act
    <2>1. proc = "up" /\ handler[h].name \in Users
      BY <1>12, <1>1 DEF Delete, NamesKnown
    <2>2. QED
      BY <1>12, <1>3, <2>1 DEF Delete, Acts
  <1>13. ASSUME NEW h \in Handlers, NEW p \in Passwords, SetPassword(h, p)
         PROVE  Looks \/ Act
    <2>1. proc = "up" /\ handler[h].name \in Users
      BY <1>13, <1>1 DEF SetPassword, NamesKnown
    <2>2. Exists(handler[h].name) =>
            [role |-> cache[handler[h].name].role, password |-> p] \in Account
      BY <2>1 DEF Exists, TypeOK, Account
    <2>3. QED
      BY <1>13, <1>3, <2>1, <2>2 DEF SetPassword, Acts
  <1>14. QED
    BY <1>2, <1>4, <1>5, <1>6, <1>7, <1>8, <1>9, <1>10, <1>11, <1>12, <1>13 DEF Next

-----------------------------------------------------------------------------
(* What each kind of step leaves behind.                                   *)

Request ==
  [stage : Stages, actor : Users \cup {Null}, name : Users \cup {Null},
   role : Roles, saw : Passwords \cup {Null}, fresh : BOOLEAN]

(* A look yields a request whose checks hold.                              *)
LEMMA LookSound ==
  ASSUME TypeOK, NEW h \in Handlers, NEW r, Look(h, r)
  PROVE  /\ r \in Request
         /\ r.stage \in {"creating", "deleting", "rehash"} => r.name \in Users
         /\ r.fresh /\ r.stage = "creating" => SeatFree
         /\ r.fresh /\ r.stage = "setup" => Accounts = {}
         /\ r.fresh /\ r.stage = "deleting" =>
              ~(r.name \in Admins /\ Cardinality(Admins) <= 1)
         /\ r.fresh /\ r.stage = "rehash" => cache[r.name].password = r.saw
         /\ r.stage \in {"creating", "setup"} => SeatFree \/ Accounts = {}
  <1> USE DEF Request, Stages, Roles
  <1>1. CASE r = Idle
    BY <1>1 DEF Idle
  <1>2. CASE \E a \in Users : r = At("authorized", a, Null, "other", Null)
    BY <1>2 DEF At
  <1>3. CASE SeatFree /\ \E a \in Users \cup {Null}, u \in Users, role \in Roles :
                           r = At("creating", a, u, role, Null)
    BY <1>3 DEF At
  <1>4. CASE Accounts = {} /\ r = At("setup", Null, Null, "other", Null)
    BY <1>4 DEF At
  <1>5. CASE \E a \in Users \cup {Null}, u \in Users :
               /\ ~(u \in Admins /\ Cardinality(Admins) <= 1)
               /\ r = At("deleting", a, u, "other", Null)
    BY <1>5 DEF At
  <1>6. CASE \E u \in Users :
               Exists(u) /\ r = At("rehash", u, u, "other", cache[u].password)
    <2>1. PICK u \in Users : Exists(u) /\ r = At("rehash", u, u, "other", cache[u].password)
      BY <1>6
    <2>2. cache[u].password \in Passwords
      BY <2>1 DEF Exists, TypeOK, Account
    <2>3. QED
      BY <2>1, <2>2 DEF At
  <1>7. QED
    BY <1>1, <1>2, <1>3, <1>4, <1>5, <1>6 DEF Look

(* Typing, whichever step is taken.                                        *)
LEMMA NextTyped ==
  ASSUME TypeOK, NamesKnown, DownIsQuiet, [Next]_vars
  PROVE  TypeOK' /\ NamesKnown'
  <1>1. sessions' \subseteq Users
    <2>1. CASE UNCHANGED vars
      BY <2>1 DEF vars, TypeOK
    <2>2. sessions \subseteq Users
      BY DEF TypeOK
    <2>3. ASSUME NEW u \in Users, Login(u) \/ Logout(u) PROVE sessions' \subseteq Users
      <3>1. sessions' = sessions \cup {u} \/ sessions' = sessions \ {u}
        BY <2>3 DEF Login, Logout
      <3>2. QED
        BY <2>2, <3>1
    <2>4. ASSUME NEW h \in Handlers, NEW p \in Passwords, NEW u \in Users, Setup(h, u, p)
          PROVE  sessions' \subseteq Users
      <3>1. sessions' = sessions \cup {u} \/ sessions' = sessions
        BY <2>4 DEF Setup, Refuse
      <3>2. QED
        BY <2>2, <3>1
    <2>5. CASE Crash \/ Open
      BY <2>2, <2>5 DEF Crash, Open
    <2>6. ASSUME NEW h \in Handlers, NEW u \in Users, NEW r \in Roles,
                 \/ Authorize(h, u) \/ CheckDelete(h, u) \/ CheckPassword(h, u)
                 \/ CheckSeats(h, u, r) \/ SetRole(h, u, r)
          PROVE  sessions' \subseteq sessions
      BY <2>6 DEF Authorize, CheckDelete, CheckPassword, CheckSeats, SetRole, Refuse
    <2>7. ASSUME NEW h \in Handlers, CheckSetup(h) \/ Delete(h) PROVE sessions' \subseteq sessions
      BY <2>7 DEF CheckSetup, Delete, Refuse
    <2>8. ASSUME NEW h \in Handlers, NEW p \in Passwords, Create(h, p) \/ SetPassword(h, p)
          PROVE  sessions' \subseteq sessions
      BY <2>8 DEF Create, SetPassword, Refuse
    <2>9. "admin" \in Roles
      BY DEF Roles
    <2>10. QED
      BY <2>1, <2>2, <2>3, <2>4, <2>5, <2>6, <2>7, <2>8, <2>9 DEF Next
  <1>2. CASE UNCHANGED <<proc, cache, disk, handler, unsure>>
    BY <1>1, <1>2 DEF TypeOK, NamesKnown
  <1>3. ASSUME NEW h \in Handlers, NEW r, Look(h, r), Moves(h, r)
        PROVE  TypeOK' /\ NamesKnown'
    <2>1. /\ r \in Request
          /\ r.stage \in {"creating", "deleting", "rehash"} => r.name \in Users
      BY <1>3, LookSound
    <2>2. QED
      BY <1>1, <1>3, <2>1 DEF Moves, TypeOK, NamesKnown, Request
  <1>4. ASSUME NEW h \in Handlers, NEW u \in Users, NEW account \in Account \cup {NoAccount},
               Acts(h, u, account)
        PROVE  TypeOK' /\ NamesKnown'
    <2>1. /\ proc' \in {"up", "down"}
          /\ cache' \in [Users -> Account \cup {NoAccount}]
          /\ disk' \in [Users -> Account \cup {NoAccount}]
          /\ unsure' \subseteq Users
      BY <1>4 DEF Acts, Store, Persist, TypeOK
    <2>2. ASSUME NEW i \in Handlers
          PROVE  /\ handler'[i] \in Request
                 /\ handler'[i].stage \in {"creating", "deleting", "rehash"}
                      => handler'[i].name \in Users
      <3>1. CASE i = h
        BY <1>4, <3>1 DEF Acts, Store, Idle, Request, Stages, Roles
      <3>2. CASE i # h
        BY <1>4, <3>2 DEF Acts, Store, Overtaken, Request, TypeOK, NamesKnown
      <3>3. QED
        BY <3>1, <3>2
    <2>3. handler' \in [Handlers -> Request]
      BY <1>4, <2>2 DEF Acts, Store
    <2>4. QED
      BY <1>1, <2>1, <2>2, <2>3 DEF TypeOK, NamesKnown, Request
  <1>5. CASE Crash
    <2>1. Idle \in Request /\ Idle.stage = "idle"
      BY DEF Idle, Request, Stages, Roles
    <2>2. QED
      BY <1>1, <1>5, <2>1 DEF Crash, Empty, TypeOK, NamesKnown, Request
  <1>6. CASE Open
    BY <1>1, <1>6 DEF Open, TypeOK, NamesKnown
  <1>7. CASE UNCHANGED vars
    BY <1>2, <1>7 DEF vars
  <1>8. QED
    BY <1>2, <1>3, <1>4, <1>5, <1>6, <1>7, StepKinds

(* Requests are only served by a server that is up.                        *)
LEMMA NextQuiet ==
  ASSUME TypeOK, NamesKnown, DownIsQuiet, [Next]_vars
  PROVE  DownIsQuiet'
  <1>1. CASE UNCHANGED <<proc, cache, disk, handler, unsure>>
    BY <1>1 DEF DownIsQuiet
  <1>2. ASSUME NEW h \in Handlers, NEW r, Moves(h, r)
        PROVE  DownIsQuiet'
    BY <1>2 DEF Moves, DownIsQuiet
  <1>3. ASSUME NEW h \in Handlers, NEW u \in Users, NEW account, Acts(h, u, account)
        PROVE  DownIsQuiet'
    BY <1>3 DEF Acts, DownIsQuiet
  <1>4. CASE Crash
    BY <1>4 DEF Crash, DownIsQuiet
  <1>5. CASE Open
    BY <1>5 DEF Open, DownIsQuiet
  <1>6. CASE UNCHANGED vars
    BY <1>1, <1>6 DEF vars
  <1>7. QED
    BY <1>1, <1>2, <1>3, <1>4, <1>5, <1>6, StepKinds

(* Cache and file agree on acknowledged accounts.                          *)
LEMMA NextPersists ==
  ASSUME TypeOK, NamesKnown, DownIsQuiet, AcknowledgedChangesPersist, [Next]_vars
  PROVE  AcknowledgedChangesPersist'
  <1> USE DEF AcknowledgedChangesPersist
  <1>1. CASE UNCHANGED <<proc, cache, disk, handler, unsure>>
    BY <1>1
  <1>2. ASSUME NEW h \in Handlers, NEW r, Moves(h, r)
        PROVE  AcknowledgedChangesPersist'
    BY <1>2 DEF Moves
  <1>3. ASSUME NEW h \in Handlers, NEW u \in Users, NEW account, Acts(h, u, account)
        PROVE  AcknowledgedChangesPersist'
    <2>1. CASE disk' = cache'
      BY <2>1
    <2>2. CASE disk' = disk /\ unsure' = unsure \cup {u}
      BY <1>3, <2>2 DEF Acts, Store, TypeOK
    <2>3. QED
      BY <1>3, <2>1, <2>2 DEF Acts, Store, Persist
  <1>4. CASE Crash
    BY <1>4 DEF Crash
  <1>5. CASE Open
    BY <1>5 DEF Open
  <1>6. CASE UNCHANGED vars
    BY <1>1, <1>6 DEF vars
  <1>7. QED
    BY <1>1, <1>2, <1>3, <1>4, <1>5, <1>6, StepKinds

-----------------------------------------------------------------------------
(* Checks and seats.                                                       *)

(* Accounts change with the cache only.                                    *)
LEMMA SameAccounts ==
  ASSUME cache' = cache
  PROVE  Accounts' = Accounts /\ Admins' = Admins
  BY DEF Accounts, Admins, Exists

(* What a request saw is true until an account changes.                    *)
LEMMA NextFresh ==
  ASSUME TypeOK, NamesKnown, DownIsQuiet, FreshChecks, [Next]_vars
  PROVE  FreshChecks'
  <1>1. CASE UNCHANGED <<proc, cache, disk, handler, unsure>>
    BY <1>1, SameAccounts DEF FreshChecks
  <1>2. ASSUME NEW h \in Handlers, NEW r, Look(h, r), Moves(h, r)
        PROVE  FreshChecks'
    <2>1. cache' = cache /\ Accounts' = Accounts /\ Admins' = Admins
      BY <1>2, SameAccounts DEF Moves
    <2>2. /\ r.fresh /\ r.stage = "creating" => SeatFree
          /\ r.fresh /\ r.stage = "setup" => Accounts = {}
          /\ r.fresh /\ r.stage = "deleting" =>
               ~(r.name \in Admins /\ Cardinality(Admins) <= 1)
          /\ r.fresh /\ r.stage = "rehash" => cache[r.name].password = r.saw
      BY <1>2, LookSound
    <2>3. handler'[h] = r /\ \A i \in Handlers : i # h => handler'[i] = handler[i]
      BY <1>2 DEF Moves, TypeOK
    <2>4. QED
      BY <2>1, <2>2, <2>3 DEF FreshChecks, SeatFree
  <1>3. ASSUME NEW h \in Handlers, NEW u \in Users, NEW account, Acts(h, u, account)
        PROVE  FreshChecks'
    <2>1. \A i \in Handlers : handler'[i].fresh = FALSE
      BY <1>3 DEF Acts, Store, Idle, Overtaken
    <2>2. QED
      BY <2>1 DEF FreshChecks
  <1>4. CASE Crash
    BY <1>4 DEF Crash, FreshChecks, Idle
  <1>5. CASE Open
    <2>1. \A i \in Handlers : handler'[i].fresh = FALSE
      BY <1>5 DEF Open, DownIsQuiet, Idle
    <2>2. QED
      BY <2>1 DEF FreshChecks
  <1>6. CASE UNCHANGED vars
    BY <1>1, <1>6 DEF vars
  <1>7. QED
    BY <1>1, <1>2, <1>3, <1>4, <1>5, <1>6, StepKinds

(* The sets that are counted are finite, and their sizes numbers.          *)
LEMMA Counted ==
  /\ IsFiniteSet(Accounts) /\ Cardinality(Accounts) \in Nat
  /\ IsFiniteSet(Admins) /\ Cardinality(Admins) \in Nat
  /\ IsFiniteSet(Stored) /\ Cardinality(Stored) \in Nat
  /\ IsFiniteSet(Creators) /\ Cardinality(Creators) \in Nat
  /\ Cardinality(Creators) <= Cardinality(Handlers)
  /\ Cardinality(Handlers) \in Nat
  <1>1. /\ Accounts \in SUBSET Users /\ Admins \in SUBSET Users /\ Stored \in SUBSET Users
        /\ Creators \in SUBSET Handlers
    BY DEF Accounts, Admins, Stored, Creators
  <1>2. IsFiniteSet(Users) /\ IsFiniteSet(Handlers)
    BY FiniteAssumption
  <1>3. QED
    BY <1>1, <1>2, FS_Subset, FS_CardinalityType

(* One account is what a request adds or removes.                          *)
LEMMA AccountsAfter ==
  ASSUME TypeOK, NEW h \in Handlers, NEW u \in Users,
         NEW account \in Account \cup {NoAccount}, Acts(h, u, account)
  PROVE  Accounts' = IF account = NoAccount THEN Accounts \ {u} ELSE Accounts \cup {u}
  <1>1. /\ cache'[u] = account
        /\ \A v \in Users : v # u => cache'[v] = cache[v]
    BY DEF Acts, Store, TypeOK
  <1>2. QED
    BY <1>1 DEF Accounts, Exists

(* No account has the sentinel's role.                                     *)
LEMMA AccountIsNoNone == NoAccount \notin Account
  BY DEF Account, NoAccount, Roles

(* Seats are taken by requests before they are taken by accounts.          *)
LEMMA NextSeats ==
  ASSUME TypeOK, NamesKnown, DownIsQuiet, SeatsAccounted, [Next]_vars
  PROVE  SeatsAccounted'
  <1> DEFINE Bound == Seats + Cardinality(Handlers)
  <1> Bound \in Nat
    BY Counted, SeatsAssumption
  <1>1. CASE UNCHANGED <<proc, cache, disk, handler, unsure>>
    BY <1>1, SameAccounts DEF SeatsAccounted, Creators, Stored
  <1>2. ASSUME NEW h \in Handlers, NEW r, Look(h, r), Moves(h, r)
        PROVE  SeatsAccounted'
    <2>1. Accounts' = Accounts /\ Stored' = Stored
      BY <1>2, SameAccounts DEF Moves, Stored
    <2>2. CASE r.stage \in {"creating", "setup"}
      <3>1. SeatFree \/ Accounts = {}
        BY <1>2, <2>2, LookSound
      <3>2. Cardinality(Accounts) < Seats
        BY <3>1, FS_EmptySet, SeatsAssumption DEF SeatFree
      <3>3. Creators' \in SUBSET Handlers /\ IsFiniteSet(Handlers)
        BY FiniteAssumption DEF Creators
      <3>4. Cardinality(Creators') \in Nat /\ Cardinality(Creators') <= Cardinality(Handlers)
        BY <3>3, FS_Subset, FS_CardinalityType
      <3>5. QED
        BY <2>1, <3>2, <3>4, Counted, SeatsAssumption DEF SeatsAccounted
    <2>3. CASE r.stage \notin {"creating", "setup"}
      <3>1. Creators' \in SUBSET Creators
        BY <1>2, <2>3 DEF Moves, Creators, TypeOK
      <3>2. Cardinality(Creators') \in Nat /\ Cardinality(Creators') <= Cardinality(Creators)
        BY <3>1, Counted, FS_Subset, FS_CardinalityType
      <3>3. QED
        BY <2>1, <3>2, Counted, SeatsAssumption DEF SeatsAccounted
    <2>4. QED
      BY <2>2, <2>3
  <1>3. ASSUME NEW h \in Handlers, NEW u \in Users, NEW account \in Account \cup {NoAccount},
               Acts(h, u, account)
        PROVE  SeatsAccounted'
    <2>1. Creators' = Creators \ {h}
      BY <1>3 DEF Acts, Store, Creators, Idle, Overtaken
    <2>2. Cardinality(Creators') = IF h \in Creators THEN Cardinality(Creators) - 1
                                   ELSE Cardinality(Creators)
      BY <2>1, Counted, FS_RemoveElement
    <2>3. Cardinality(Accounts') \in Nat /\ Cardinality(Creators') \in Nat
      <3>1. Accounts' \in SUBSET Users /\ Creators' \in SUBSET Handlers
        BY DEF Accounts, Creators
      <3>2. QED
        BY <3>1, FiniteAssumption, FS_Subset, FS_CardinalityType
    <2>4. Cardinality(Accounts') + Cardinality(Creators') < Bound
      <3>1. CASE handler[h].stage \in {"creating", "setup"}
        <4>1. h \in Creators /\ account \in Account
          BY <1>3, <3>1 DEF Acts, Creators
        <4>2. Accounts' = Accounts \cup {u}
          BY <1>3, <4>1, AccountsAfter, AccountIsNoNone
        <4>3. Cardinality(Accounts') <= Cardinality(Accounts) + 1
          <5>1. Cardinality(Accounts \cup {u}) \in {Cardinality(Accounts), Cardinality(Accounts) + 1}
            BY Counted, FS_AddElement
          <5>2. QED
            BY <4>2, <5>1, Counted
        <4>4. QED
          BY <2>2, <2>3, <4>1, <4>3, Counted, SeatsAssumption DEF SeatsAccounted
      <3>2. CASE handler[h].stage \in {"authorized", "rehash", "deleting"}
        <4>1. Exists(u)
          BY <1>3, <3>2 DEF Acts
        <4>2. Accounts' \in SUBSET Accounts
          BY <1>3, <4>1, AccountsAfter DEF Accounts
        <4>3. Cardinality(Accounts') <= Cardinality(Accounts)
          BY <4>2, Counted, FS_Subset
        <4>4. QED
          BY <2>2, <2>3, <4>3, Counted, SeatsAssumption DEF SeatsAccounted
      <3>3. QED
        BY <1>3, <3>1, <3>2 DEF Acts
    <2>5. Stored' = Stored \/ Stored' = Accounts'
      BY <1>3 DEF Acts, Store, Persist, Stored, Accounts, Exists
    <2>6. QED
      BY <2>3, <2>4, <2>5, SeatsAssumption, Counted DEF SeatsAccounted
  <1>4. CASE Crash
    <2>1. Accounts' = {} /\ Creators' = {} /\ Stored' = Stored
      BY <1>4 DEF Crash, Accounts, Exists, Empty, Creators, Idle, Stored
    <2>2. QED
      BY <2>1, FS_EmptySet, SeatsAssumption, Counted DEF SeatsAccounted
  <1>5. CASE Open
    <2>1. Accounts' = Stored /\ Creators' = {} /\ Stored' = Stored
      BY <1>5 DEF Open, Accounts, Exists, Creators, Stored, DownIsQuiet, Idle
    <2>2. QED
      BY <2>1, FS_EmptySet, SeatsAssumption, Counted DEF SeatsAccounted
  <1>6. CASE UNCHANGED vars
    BY <1>1, <1>6 DEF vars
  <1>7. QED
    BY <1>1, <1>2, <1>3, <1>4, <1>5, <1>6, StepKinds

-----------------------------------------------------------------------------
(* The invariant, and what follows from it.                                *)

(* The empty console satisfies it.                                         *)
LEMMA InitIInv == Init => IInv
  <1> SUFFICES ASSUME Init PROVE IInv
    OBVIOUS
  <1>1. TypeOK
    <2>1. Idle \in Request
      BY DEF Idle, Request, Stages, Roles
    <2>2. QED
      BY <2>1 DEF Init, TypeOK, Empty, Request
  <1>2. NamesKnown /\ DownIsQuiet /\ AcknowledgedChangesPersist /\ FreshChecks
    BY DEF Init, NamesKnown, DownIsQuiet, AcknowledgedChangesPersist, FreshChecks, Idle
  <1>3. Accounts = {} /\ Creators = {} /\ Stored = {}
    BY DEF Init, Accounts, Exists, Empty, Creators, Stored, Idle
  <1>4. SeatsAccounted
    BY <1>3, FS_EmptySet, Counted, SeatsAssumption DEF SeatsAccounted
  <1>5. QED
    BY <1>1, <1>2, <1>4 DEF IInv

(* Every reachable state satisfies it.                                     *)
LEMMA SpecIInv == Spec => []IInv
  <1>1. IInv /\ [Next]_vars => IInv'
    BY NextTyped, NextQuiet, NextPersists, NextFresh, NextSeats DEF IInv
  <1>2. QED
    BY InitIInv, <1>1, PTL DEF Spec

(* The cache, the file, the sessions and every request keep their types.   *)
THEOREM TypeCorrect == Spec => []TypeOK
  <1>1. IInv => TypeOK
    BY DEF IInv
  <1>2. QED
    BY SpecIInv, <1>1, PTL

(* Acknowledged changes of accounts survive crashes, restarts and failed   *)
(* writes of other accounts.                                               *)
THEOREM ChangesPersist == Spec => []AcknowledgedChangesPersist
  <1>1. IInv => AcknowledgedChangesPersist
    BY DEF IInv
  <1>2. QED
    BY SpecIInv, <1>1, PTL

(* However many creations race, accounts exceed the seat cap by fewer than *)
(* the requests being served.                                              *)
THEOREM OvershootBounded == Spec => []SeatOvershootBounded
  <1>1. IInv => SeatOvershootBounded
    BY Counted, SeatsAssumption DEF IInv, SeatsAccounted, SeatOvershootBounded
  <1>2. QED
    BY SpecIInv, <1>1, PTL

-----------------------------------------------------------------------------
(* The act of a request nothing overtook.                                  *)

(* What ChecksHoldUnlessOvertaken asks of one request.                     *)
Kept(h) ==
  LET r == handler[h] IN
  /\ r.stage = "creating" => Cardinality(Accounts') <= Seats
  /\ r.stage = "setup" => Accounts = {}
  /\ r.stage = "deleting" /\ Admins # {} => Admins' # {}
  /\ r.stage = "rehash" => cache[r.name].password = r.saw \/ cache' = cache

(* A deletion that its check allowed leaves an admin.                      *)
LEMMA AnAdminStays ==
  ASSUME NEW u, Admins # {}, ~(u \in Admins /\ Cardinality(Admins) <= 1)
  PROVE  Admins \ {u} # {}
  <1>1. CASE u \notin Admins
    BY <1>1
  <1>2. CASE u \in Admins
    <2>1. Cardinality(Admins \ {u}) = Cardinality(Admins) - 1
      BY <1>2, Counted, FS_RemoveElement
    <2>2. Cardinality(Admins \ {u}) # 0
      BY <1>2, <2>1, Counted
    <2>3. QED
      BY <2>2, FS_EmptySet
  <1>3. QED
    BY <1>1, <1>2

(* Nor does any other act that its check allowed break what it promised.   *)
LEMMA FreshActsKeep ==
  ASSUME IInv, [Next]_vars, NEW h \in Handlers,
         handler[h].fresh, handler'[h] = Idle, proc' = "up"
  PROVE  Kept(h)
  <1> USE DEF IInv
  <1>1. /\ handler[h].stage = "creating" => Cardinality(Accounts) < Seats
        /\ handler[h].stage = "setup" => Accounts = {}
        /\ handler[h].stage = "deleting" =>
             ~(handler[h].name \in Admins /\ Cardinality(Admins) <= 1)
        /\ handler[h].stage = "rehash" => cache[handler[h].name].password = handler[h].saw
    BY DEF FreshChecks
  <1>2. handler[h] # Idle
    BY DEF Idle
  <1>3. CASE cache' = cache
    BY <1>1, <1>3, SameAccounts, Counted, SeatsAssumption DEF Kept
  <1>4. ASSUME NEW i \in Handlers, NEW u \in Users, NEW account \in Account \cup {NoAccount},
               Acts(i, u, account)
        PROVE  Kept(h)
    <2>1. CASE i # h
      <3>1. handler[h].stage = "idle"
        BY <1>4, <2>1 DEF Acts, Store, Overtaken, Idle
      <3>2. QED
        BY <3>1 DEF Kept
    <2>2. CASE i = h
      <3>1. handler[h].stage = "creating" => Cardinality(Accounts') <= Seats
        <4> SUFFICES ASSUME handler[h].stage = "creating"
                     PROVE  Cardinality(Accounts') <= Seats
          OBVIOUS
        <4>1. Accounts' = Accounts \cup {u}
          BY <1>4, <2>2, AccountsAfter, AccountIsNoNone DEF Acts
        <4>2. Cardinality(Accounts \cup {u}) \in {Cardinality(Accounts), Cardinality(Accounts) + 1}
          BY Counted, FS_AddElement
        <4>3. QED
          BY <1>1, <4>1, <4>2, Counted, SeatsAssumption
      <3>2. handler[h].stage = "deleting" /\ Admins # {} => Admins' # {}
        <4> SUFFICES ASSUME handler[h].stage = "deleting", Admins # {}
                     PROVE  Admins' # {}
          OBVIOUS
        <4>1. Admins \ {handler[h].name} # {}
          BY <1>1, AnAdminStays
        <4>2. \A v \in Users : v # handler[h].name => cache'[v] = cache[v]
          BY <1>4, <2>2 DEF Acts, Store, TypeOK
        <4>3. Admins \ {handler[h].name} \subseteq Admins'
          BY <4>2 DEF Admins
        <4>4. QED
          BY <4>1, <4>3
      <3>3. QED
        BY <1>1, <3>1, <3>2 DEF Kept
    <2>3. QED
      BY <2>1, <2>2
  <1>5. CASE Crash
    BY <1>5 DEF Crash
  <1>6. CASE Open
    BY <1>2, <1>6 DEF Open, DownIsQuiet
  <1>7. CASE UNCHANGED vars
    BY <1>3, <1>7 DEF vars
  <1>8. QED
    BY <1>3, <1>4, <1>5, <1>6, <1>7, StepKinds DEF Moves

(* The handlers' checks are enough for every request that acts on accounts *)
(* which have not changed since it looked.                                 *)
THEOREM ChecksAreEnough == Spec => ChecksHoldUnlessOvertaken
  <1> DEFINE A == \A h \in Handlers :
         LET r == handler[h] IN
         r.fresh /\ handler'[h] = Idle /\ proc' = "up" =>
           /\ r.stage = "creating" => Cardinality(Accounts') <= Seats
           /\ r.stage = "setup" => Accounts = {}
           /\ r.stage = "deleting" /\ Admins # {} => Admins' # {}
           /\ r.stage = "rehash" =>
                cache[r.name].password = r.saw \/ cache' = cache
  <1>1. IInv /\ [Next]_vars => [A]_vars
    BY FreshActsKeep DEF Kept
  <1>2. QED
    BY SpecIInv, <1>1, PTL DEF Spec, ChecksHoldUnlessOvertaken
=============================================================================
