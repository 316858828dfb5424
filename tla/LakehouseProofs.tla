--------------------------- MODULE LakehouseProofs ---------------------------
(***************************************************************************)
(* Warehouses are not mixed, pages heal, and a bootstrap leaves what can   *)
(* be queried, for any names, any number of requests and every             *)
(* interleaving of their calls.                                            *)
(***************************************************************************)
EXTENDS Lakehouse, TLAPS
-----------------------------------------------------------------------------
(* The shape of the state.                                                 *)

Turns == {"candidates", "again", "wiring", "caching", "sail"}
Ends == {"idle", "shown", "failed", "ok"}
Thens == {"idle", "list", "read", "write-to", "candidates", "wiring", "ok", "drop",
          "caching", "again", "configure", "cache"}
Labels ==
  Turns \cup Ends \cup Thens \cup
  {"cached", "legacy", "config", "list-all", "remember", "remember-default",
   "credentials", "post", "look-up", "keep", "name", "share", "drop-again", "write",
   "create", "read-catalogs", "write-catalogs", "key", "bucket", "store-id",
   "store-secret", "wipe", "forget-id", "forget-name", "forget-catalogs"}

Job == [op : Ops \cup {None}, name : Names \cup {None}, at : Labels, id : Nat,
        made : Nat, then : Thens, candidates : Seq(Nat), gone : BOOLEAN,
        recovered : BOOLEAN, secret : BOOLEAN, seen : SUBSET Catalogs,
        hurt : BOOLEAN, alone : BOOLEAN]

(* An identifier of the name, among those ever given out: O.               *)
Good(n, id, O) == id = 0 \/ (id \in 1..Len(O) /\ O[id] = n)

(* What a catalog asks for, and what it may: a warehouse it is named for.  *)
Askable == Names \cup Nat \cup {None}
MayReach(c, asked, O) ==
  \/ asked = None
  \/ asked \in Names /\ Catalog(asked) = c
  \/ asked \in 1..Len(O) /\ Catalog(O[asked]) = c

(* A request carries identifiers of its own name; only the default         *)
(* warehouse's takes one from the shared key.                              *)
Owned(j, O) ==
  /\ j.at # "idle" => j.name \in Names
  /\ j.at = "legacy" => j.name = Default
  /\ j.at \in {"write", "create", "drop-again"} => j.candidates # <<>>
  /\ j.name \in Names \ {Default} =>
       /\ Good(j.name, j.id, O) /\ Good(j.name, j.made, O)
       /\ \A i \in 1..Len(j.candidates) : Good(j.name, j.candidates[i], O)

(* A page that nothing hurt recovers at most once, and once recovered it   *)
(* holds an identifier that Lakekeeper knows.                              *)
Known(W, id) == id # 0 /\ \E n \in Names : W[n] = id

Resolving == {"cached", "legacy", "config", "list-all", "remember", "remember-default"}

Healing(j, W) ==
  j.op = "open" /\ ~j.hurt =>
    /\ j.at \in Resolving \cup {"list", "credentials", "post", "look-up", "share", "again", "shown"}
    /\ j.at \in Resolving => j.then = "list" /\ ~j.recovered
    /\ j.at = "share" => j.then = "again"
    /\ j.at \in {"share", "again"} => j.recovered /\ Known(W, j.id)
    /\ j.at = "list" /\ j.recovered => Known(W, j.id)
    /\ j.at \in {"credentials", "post", "look-up"} => ~j.recovered
    /\ j.at = "look-up" => W[j.name] # 0

JobInv(j, W, O) == j \in Job /\ Owned(j, O) /\ Healing(j, W)

Lakekeeper(W, O) ==
  /\ W \in [Names -> Nat] /\ O \in Seq(Names)
  /\ \A n \in Names : Good(n, W[n], O)

Vault(v, O) ==
  /\ v \in [key_id : BOOLEAN, secret : BOOLEAN, id_of : [Names -> Nat], shared : Nat,
            known : Names \cup {None}, sail : [Catalogs -> Askable],
            catalogs : SUBSET Catalogs]
  /\ \A n \in Names \ {Default} : Good(n, v.id_of[n], O)
  /\ \A c \in Catalogs \ {Catalog(Default)} : MayReach(c, v.sail[c], O)

Holds(a, O) ==
  /\ a \in [Catalogs -> Askable]
  /\ \A c \in Catalogs \ {Catalog(Default)} : MayReach(c, a[c], O)

Jobs(J, W, O) ==
  /\ J = [r \in Requests |-> J[r]]
  /\ \A r \in Requests : JobInv(J[r], W, O)

LakeInv ==
  /\ Lakekeeper(warehouse, owners) /\ Vault(vault, owners)
  /\ Holds(trino, owners) /\ Holds(file, owners)
  /\ key \in BOOLEAN
  /\ Jobs(request, warehouse, owners)

-----------------------------------------------------------------------------
LEMMA Asking ==
  ASSUME NEW n \in Names, NEW id \in Nat, NEW O, n # Default => Good(n, id, O)
  PROVE  /\ Catalog(n) \in Catalogs /\ Ask(n, id) \in Askable
         /\ Catalog(n) # Catalog(Default) => MayReach(Catalog(n), Ask(n, id), O)
<1>1. CASE id = 0
  BY <1>1 DEF Catalogs, Ask, Askable, MayReach
<1>2. CASE id # 0
  BY <1>2 DEF Catalogs, Ask, Askable, MayReach, Good
<1> QED
  BY <1>1, <1>2

(* A request that turns.                                                   *)

(* The name a request works for, and what it carries, stay.                *)
LEMMA JobFields ==
  ASSUME NEW j \in Job
  PROVE  /\ j.op \in Ops \cup {None} /\ j.name \in Names \cup {None} /\ j.at \in Labels
         /\ j.id \in Nat /\ j.made \in Nat /\ j.then \in Thens
         /\ j.candidates \in Seq(Nat) /\ j.gone \in BOOLEAN /\ j.recovered \in BOOLEAN
         /\ j.secret \in BOOLEAN /\ j.seen \in SUBSET Catalogs /\ j.hurt \in BOOLEAN
         /\ j.alone \in BOOLEAN
  BY DEF Job

LEMMA Turned ==
  ASSUME NEW j \in Job, NEW l \in Labels
  PROVE  LET k == [j EXCEPT !.at = l] IN
         /\ k \in Job /\ k.at = l /\ k.op = j.op /\ k.name = j.name /\ k.id = j.id
         /\ k.made = j.made /\ k.then = j.then /\ k.candidates = j.candidates
         /\ k.recovered = j.recovered /\ k.hurt = j.hurt /\ k.alone = j.alone
  BY DEF Job

(* What is hurt may fail.                                                  *)
LEMMA HurtKeeps ==
  ASSUME LakehouseAssumption, NEW j \in Job, NEW O, Owned(j, O), NEW W
  PROVE  JobInv(Hurt(j), W, O) /\ Hurt(j).at = j.at /\ Hurt(j).then = j.then
<1> DEFINE k == Hurt(j)
<1>1. /\ k \in Job /\ k.at = j.at /\ k.op = j.op /\ k.name = j.name /\ k.id = j.id
      /\ k.made = j.made /\ k.then = j.then /\ k.candidates = j.candidates
      /\ k.hurt = (j.op # None)
  BY DEF Job, Hurt
<1>2. k.op = "open" => k.hurt
  BY <1>1 DEF LakehouseAssumption, Ops
<1> HIDE DEF k
<1>3. Owned(k, O) /\ Healing(k, W)
  BY <1>1, <1>2 DEF Owned, Healing
<1> QED
  BY <1>1, <1>3 DEF JobInv, k

(* The turns without a call keep it.                                       *)
LEMMA ArriveKeeps ==
  ASSUME NEW j, NEW W, NEW O, JobInv(j, W, O)
  PROVE  JobInv(Arrive(j), W, O)
<1> USE JobFields DEF JobInv
<1>1. CASE j.at = "candidates"
  <2> DEFINE cs == IF j.id = 0 THEN <<0>> ELSE <<0, j.id>>
             k == [j EXCEPT !.candidates = cs, !.at = "config", !.then = "drop"]
  <2>1. Arrive(j) = k
    BY <1>1, Zenon DEF Arrive, Resolves
  <2>2. cs \in Seq(Nat) /\ \A i \in 1..Len(cs) : cs[i] \in {0, j.id}
    OBVIOUS
  <2> HIDE DEF cs
  <2>3. /\ k \in Job /\ k.at = "config" /\ k.op = j.op /\ k.name = j.name /\ k.id = j.id
        /\ k.made = j.made /\ k.then = "drop" /\ k.candidates = cs /\ k.hurt = j.hurt
    BY <2>2 DEF Job, Labels, Thens
  <2> HIDE DEF k
  <2>4. Owned(k, O)
    BY <1>1, <2>2, <2>3 DEF Owned, Good
  <2>5. Healing(k, W)
    BY <1>1, <2>3 DEF Healing, Resolving
  <2> QED
    BY <2>1, <2>3, <2>4, <2>5
<1>2. CASE j.at = "again" /\ j.op = "open"
  <2> DEFINE k == [j EXCEPT !.at = IF j.id = 0 THEN "failed" ELSE "list"]
  <2>1. Arrive(j) = k
    <3>1. /\ j.at # "candidates" /\ j.op # "wire" /\ j.at # "wiring" /\ j.at # "caching"
          /\ j.at # "sail" /\ j.op # "submit"
      BY <1>2
    <3> QED
      BY <1>2, <3>1, Zenon DEF Arrive, Resolves
  <2>2. (IF j.id = 0 THEN "failed" ELSE "list") \in Labels
    BY DEF Labels, Thens, Ends
  <2>3. /\ k \in Job /\ k.at = (IF j.id = 0 THEN "failed" ELSE "list") /\ k.op = j.op
        /\ k.name = j.name /\ k.id = j.id /\ k.made = j.made /\ k.then = j.then
        /\ k.candidates = j.candidates /\ k.recovered = j.recovered /\ k.hurt = j.hurt
    BY <2>2, Turned
  <2> HIDE DEF k
  <2>4. Owned(k, O)
    BY <1>2, <2>3 DEF Owned
  <2>5. Healing(k, W)
    BY <1>2, <2>3 DEF Healing, Resolving, Known
  <2> QED
    BY <2>1, <2>3, <2>4, <2>5
<1>3. CASE j.at \notin Turns
  BY <1>3 DEF Arrive, Resolves, ToSail, Turns
<1>4. CASE /\ j.at \in Turns \ {"candidates"} /\ ~(j.at = "again" /\ j.op = "open")
           /\ ~(j.op = "open" /\ ~j.hurt)
  <2> DEFINE Keeps2(k) == /\ k \in Job /\ k.op = j.op /\ k.name = j.name /\ k.id \in {j.id, j.made}
                          /\ k.made = j.made /\ k.candidates = j.candidates /\ k.hurt = j.hurt
                          /\ k.at \notin {"idle", "legacy", "write", "create", "drop-again"}
  <2>1. \A k : Keeps2(k) => JobInv(k, W, O)
    BY <1>4 DEF Owned, Healing, Turns
  <2>0. /\ "ok" \in Labels /\ "configure" \in Labels /\ "cached" \in Labels /\ "share" \in Labels
        /\ "candidates" \in Thens /\ "configure" \in Thens /\ "cache" \in Thens
    BY DEF Labels, Thens, Ends
  <2>2. Keeps2([j EXCEPT !.at = "ok"])
    BY <2>0, Turned
  <2>3. \A t \in {"candidates", "configure"} : Keeps2([j EXCEPT !.at = "cached", !.then = t])
    <3> SUFFICES ASSUME NEW t \in {"candidates", "configure"}
                 PROVE  Keeps2([j EXCEPT !.at = "cached", !.then = t])
      OBVIOUS
    <3> DEFINE k == [j EXCEPT !.at = "cached", !.then = t]
    <3>1. k \in Job /\ k.at = "cached" /\ k.op = j.op /\ k.name = j.name /\ k.id = j.id
          /\ k.made = j.made /\ k.candidates = j.candidates /\ k.hurt = j.hurt
      BY <2>0 DEF Job
    <3> HIDE DEF k
    <3>2. Keeps2(k)
      BY <3>1
    <3> QED
      BY <3>2 DEF k
  <2>4. Keeps2([j EXCEPT !.at = "share", !.then = "cache"])
    <3> DEFINE k == [j EXCEPT !.at = "share", !.then = "cache"]
    <3>1. k \in Job /\ k.at = "share" /\ k.op = j.op /\ k.name = j.name /\ k.id = j.id
          /\ k.made = j.made /\ k.candidates = j.candidates /\ k.hurt = j.hurt
      BY <2>0 DEF Job
    <3> HIDE DEF k
    <3>2. Keeps2(k)
      BY <3>1
    <3> QED
      BY <3>2 DEF k
  <2>5. Keeps2([j EXCEPT !.id = j.made, !.at = "configure"])
    <3> DEFINE k == [j EXCEPT !.id = j.made, !.at = "configure"]
    <3>1. k \in Job /\ k.at = "configure" /\ k.op = j.op /\ k.name = j.name /\ k.id = j.made
          /\ k.made = j.made /\ k.candidates = j.candidates /\ k.hurt = j.hurt
      BY <2>0 DEF Job
    <3> HIDE DEF k
    <3>2. Keeps2(k)
      BY <3>1
    <3> QED
      BY <3>2 DEF k
  <2>6. Arrive(j) \in {[j EXCEPT !.at = "cached", !.then = "candidates"], [j EXCEPT !.at = "ok"],
                       [j EXCEPT !.at = "share", !.then = "cache"],
                       [j EXCEPT !.id = j.made, !.at = "configure"],
                       [j EXCEPT !.at = "cached", !.then = "configure"]}
    BY <1>4 DEF Arrive, Resolves, ToSail, Turns
  <2> HIDE DEF Keeps2
  <2> QED
    BY <2>1, <2>2, <2>3, <2>4, <2>5, <2>6
<1>5. j.op = "open" /\ ~j.hurt /\ j.at \in Turns => j.at = "again"
  BY DEF Healing, Turns, Resolving
<1> QED
  BY <1>1, <1>2, <1>3, <1>4, <1>5

(* One request moves, and the others see no change of Lakekeeper.          *)
LEMMA OneMoves ==
  ASSUME NEW J, NEW W, NEW O, Jobs(J, W, O), NEW r \in Requests, NEW k, JobInv(k, W, O)
  PROVE  Jobs([J EXCEPT ![r] = k], W, O)
<1> DEFINE J2 == [J EXCEPT ![r] = k]
<1>1. J2 = [q \in Requests |-> IF q = r THEN k ELSE J[q]]
  BY DEF Jobs
<1> HIDE DEF J2
<1>2. J2 = [q \in Requests |-> J2[q]] /\ \A q \in Requests : J2[q] = IF q = r THEN k ELSE J[q]
  BY <1>1
<1>3. \A q \in Requests : JobInv(J2[q], W, O)
  BY <1>2 DEF Jobs
<1>4. Jobs(J2, W, O)
  BY <1>2, <1>3 DEF Jobs
<1> QED
  BY <1>4 DEF J2

(* A request on its way at a label.                                        *)
LEMMA On ==
  ASSUME LakeInv, NEW r \in Requests
  PROVE  request[r] \in Job /\ Owned(request[r], owners) /\ Healing(request[r], warehouse)
         /\ JobInv(request[r], warehouse, owners)
  BY DEF LakeInv, Jobs, JobInv

Quiet == UNCHANGED <<warehouse, owners>>
Unseen == UNCHANGED <<warehouse, owners, key, vault, trino, file>>

LEMMA QuietJobs ==
  ASSUME LakeInv, Unseen, Jobs(request', warehouse, owners)
  PROVE  LakeInv'
  BY DEF LakeInv, Unseen

LEMMA Goes ==
  ASSUME LakeInv, NEW r \in Requests, NEW k, JobInv(k, warehouse, owners), To(r, Arrive(k)) \/ To(r, k)
  PROVE  Jobs(request', warehouse, owners)
<1>1. JobInv(Arrive(k), warehouse, owners)
  BY ArriveKeeps
<1> QED
  BY <1>1, OneMoves DEF To, LakeInv

LEMMA Fails ==
  ASSUME LakeInv, NEW r \in Requests, NEW k \in Job, Owned(k, owners),
         To(r, Arrive(Hurt(k))) \/ To(r, Hurt(k))
  PROVE  Jobs(request', warehouse, owners)
<1>1. JobInv(Hurt(k), warehouse, owners)
  BY HurtKeeps, LakehouseAssumption
<1> QED
  BY <1>1, Goes

(* A write to the vault whose failure is ignored.                          *)
LEMMA Puts ==
  ASSUME LakeInv, NEW r \in Requests, NEW label, NEW new, Put(r, new, label), UNCHANGED services,
         Vault(new, owners), JobInv([request[r] EXCEPT !.at = label], warehouse, owners)
  PROVE  LakeInv'
<1> DEFINE k == [request[r] EXCEPT !.at = label]
<1>1. k \in Job /\ Owned(k, owners)
  BY DEF JobInv
<1>2. \/ vault' = new /\ To(r, Arrive(k))
      \/ vault' = vault /\ To(r, Arrive(Hurt(k)))
  BY Zenon DEF Put, Go
<1> HIDE DEF k
<1>3. JobInv(k, warehouse, owners)
  BY DEF k
<1>4. Jobs(request', warehouse, owners) /\ Vault(vault', owners)
  <2>1. CASE vault' = new /\ To(r, Arrive(k))
    BY <1>3, <2>1, Goes
  <2>2. CASE vault' = vault /\ To(r, Arrive(Hurt(k)))
    BY <1>1, <2>2, Fails DEF LakeInv
  <2> QED
    BY <1>2, <2>1, <2>2
<1> QED
  BY <1>4 DEF LakeInv, services

(* A request moves on to a label that asks nothing of it.                  *)
LEMMA Moves ==
  ASSUME NEW j \in Job, NEW O, Owned(j, O), j.at # "idle",
         NEW l \in Labels \ {"legacy", "write", "create", "drop-again"}
  PROVE  LET k == [j EXCEPT !.at = l] IN
         /\ k \in Job /\ Owned(k, O) /\ k.at = l /\ k.op = j.op /\ k.name = j.name
         /\ k.id = j.id /\ k.then = j.then /\ k.recovered = j.recovered /\ k.hurt = j.hurt
<1> DEFINE k == [j EXCEPT !.at = l]
<1>1. /\ k \in Job /\ k.at = l /\ k.op = j.op /\ k.name = j.name /\ k.id = j.id
      /\ k.made = j.made /\ k.then = j.then /\ k.candidates = j.candidates
      /\ k.recovered = j.recovered /\ k.hurt = j.hurt
  BY Turned
<1> HIDE DEF k
<1>2. Owned(k, O)
  BY <1>1 DEF Owned
<1>3. /\ k \in Job /\ Owned(k, O) /\ k.at = l /\ k.op = j.op /\ k.name = j.name
      /\ k.id = j.id /\ k.then = j.then /\ k.recovered = j.recovered /\ k.hurt = j.hurt
  BY <1>1, <1>2
<1> QED
  BY <1>3 DEF k

LEMMA NotOpen ==
  ASSUME NEW j, NEW W, NEW O, j \in Job, Owned(j, O), j.op # "open" \/ j.hurt
  PROVE  JobInv(j, W, O)
  BY DEF JobInv, Healing

-----------------------------------------------------------------------------
(* From a name to an identifier.                                           *)

LEMMA Takes ==
  ASSUME LakeInv, NEW r \in Requests, request[r].at \in {"cached", "legacy"}, NEW id \in Nat,
         request[r].name # Default => Good(request[r].name, id, owners), Take(r, id), Unseen
  PROVE  LakeInv'
<1> DEFINE j == request[r]
           l == IF id # 0 THEN j.then ELSE "config"
           k == [j EXCEPT !.id = id, !.at = l]
<1>1. j \in Job /\ Owned(j, owners) /\ Healing(j, warehouse)
  BY On
<1>2. To(r, Arrive(k))
  BY DEF Take
<1> HIDE DEF j
<1>3. l \in Labels \ {"legacy", "write", "create", "drop-again"}
  BY <1>1 DEF Job, Labels, Thens
<1>4. l = j.then \/ l = "config"
  OBVIOUS
<1> HIDE DEF l
<1>5. /\ k \in Job /\ k.at = l /\ k.op = j.op /\ k.name = j.name /\ k.id = id
      /\ k.made = j.made /\ k.then = j.then /\ k.candidates = j.candidates
      /\ k.recovered = j.recovered /\ k.hurt = j.hurt
  BY <1>1, <1>3 DEF Job
<1> HIDE DEF k
<1>6. j.at \in {"cached", "legacy"} /\ (j.name # Default => Good(j.name, id, owners))
  BY DEF j
<1>7. Owned(k, owners)
  BY <1>1, <1>3, <1>5, <1>6 DEF Owned
<1>8. Healing(k, warehouse)
  BY <1>1, <1>4, <1>5, <1>6 DEF Healing, Resolving
<1>9. Jobs(request', warehouse, owners)
  BY <1>2, <1>5, <1>7, <1>8, Goes DEF JobInv
<1> QED
  BY <1>9, QuietJobs

LEMMA CachedKeeps ==
  ASSUME LakeInv, NEW r \in Requests, Cached(r)
  PROVE  LakeInv'
<1> DEFINE j == request[r]
           k == [j EXCEPT !.at = "legacy"]
<1>1. Unseen /\ j.at = "cached"
  BY DEF Cached, Keeps, services, Unseen, At
<1>2. j \in Job /\ Owned(j, owners) /\ Healing(j, warehouse)
  BY On
<1>3. j.name \in Names
  BY <1>1, <1>2 DEF Owned
<1>4. vault.id_of[j.name] \in Nat /\ (j.name # Default => Good(j.name, vault.id_of[j.name], owners))
  BY <1>3 DEF LakeInv, Vault
<1>5. CASE vault.id_of[j.name] = 0 /\ j.name = Default
  <2>1. To(r, Arrive(k))
    BY <1>5 DEF Cached, Go
  <2> HIDE DEF j
  <2>2. "legacy" \in Labels
    BY DEF Labels
  <2>3. /\ k \in Job /\ k.at = "legacy" /\ k.op = j.op /\ k.name = j.name /\ k.id = j.id
        /\ k.made = j.made /\ k.then = j.then /\ k.candidates = j.candidates
        /\ k.recovered = j.recovered /\ k.hurt = j.hurt
    BY <1>2, <2>2, Turned
  <2> HIDE DEF k
  <2>4. Owned(k, owners) /\ Healing(k, warehouse)
    BY <1>1, <1>2, <1>5, <2>3 DEF Owned, Healing, Resolving
  <2>5. Jobs(request', warehouse, owners)
    BY <2>1, <2>3, <2>4, Goes DEF JobInv
  <2> QED
    BY <1>1, <2>5, QuietJobs
<1>6. CASE ~(vault.id_of[j.name] = 0 /\ j.name = Default)
  BY <1>1, <1>4, <1>6, Takes DEF Cached
<1> QED
  BY <1>5, <1>6

LEMMA LegacyKeeps ==
  ASSUME LakeInv, NEW r \in Requests, Legacy(r)
  PROVE  LakeInv'
<1>1. Unseen /\ request[r].at = "legacy" /\ Take(r, vault.shared)
  BY DEF Legacy, Keeps, services, Unseen, At
<1>2. request[r].name = Default /\ vault.shared \in Nat
  BY <1>1, On DEF Owned, LakeInv, Vault
<1> QED
  BY <1>1, <1>2, Takes

LEMMA FindsKeeps ==
  ASSUME LakeInv, NEW r \in Requests, request[r].at \in {"config", "list-all"},
         NEW l, Finds(r, l), l \in Thens \cup {"list-all"},
         request[r].op = "open" /\ ~request[r].hurt => l \in {"list", "list-all"}
  PROVE  LakeInv'
<1> DEFINE j == request[r]
           id == warehouse[j.name]
           k == [j EXCEPT !.id = id, !.at = "remember"]
           m == [j EXCEPT !.id = 0, !.at = l]
<1>1. Unseen
  BY DEF Finds, Keeps, services, Unseen
<1>2. To(r, k) \/ To(r, Arrive(m)) \/ To(r, Arrive(Hurt(m)))
  BY Zenon DEF Finds
<1>3. j \in Job /\ Owned(j, owners) /\ Healing(j, warehouse)
  BY On
<1>4. j.at \in {"config", "list-all"} /\ (j.op = "open" /\ ~j.hurt => l \in {"list", "list-all"})
  OBVIOUS
<1> HIDE DEF j
<1>5. id \in Nat /\ Good(j.name, id, owners)
  BY <1>3, <1>4 DEF Owned, LakeInv, Lakekeeper
<1> HIDE DEF id
<1>6. l \in Labels \ {"legacy", "write", "create", "drop-again"} /\ "remember" \in Labels
  BY DEF Labels, Thens
<1>7. /\ k \in Job /\ k.at = "remember" /\ k.op = j.op /\ k.name = j.name /\ k.id = id
      /\ k.made = j.made /\ k.then = j.then /\ k.candidates = j.candidates
      /\ k.recovered = j.recovered /\ k.hurt = j.hurt
  BY <1>3, <1>5, <1>6 DEF Job
<1>8. /\ m \in Job /\ m.at = l /\ m.op = j.op /\ m.name = j.name /\ m.id = 0
      /\ m.made = j.made /\ m.then = j.then /\ m.candidates = j.candidates
      /\ m.recovered = j.recovered /\ m.hurt = j.hurt
  BY <1>3, <1>6 DEF Job
<1> HIDE DEF k, m
<1>9. JobInv(k, warehouse, owners)
  BY <1>3, <1>4, <1>5, <1>7 DEF JobInv, Owned, Healing, Resolving
<1>10. Owned(m, owners)
  BY <1>3, <1>4, <1>6, <1>8 DEF Owned, Good
<1>11. Healing(m, warehouse)
  BY <1>3, <1>4, <1>8 DEF Healing, Resolving
<1>12. Jobs(request', warehouse, owners)
  BY <1>2, <1>8, <1>9, <1>10, <1>11, Goes, Fails DEF JobInv
<1> QED
  BY <1>1, <1>12, QuietJobs

LEMMA DiscoverKeeps ==
  ASSUME LakeInv, NEW r \in Requests, Discover(r)
  PROVE  LakeInv'
<1>1. request[r].at = "config" /\ Finds(r, Asks(request[r]))
  BY DEF Discover, At
<1>2. Asks(request[r]) \in Thens \cup {"list-all"}
  BY DEF Asks, Thens
<1>3. request[r].op = "open" /\ ~request[r].hurt => Asks(request[r]) = "list-all"
  BY <1>1, On DEF Asks, Healing, Resolving
<1> QED
  BY <1>1, <1>2, <1>3, FindsKeeps

LEMMA ListAllKeeps ==
  ASSUME LakeInv, NEW r \in Requests, ListAll(r)
  PROVE  LakeInv'
<1>1. request[r].at = "list-all" /\ Finds(r, request[r].then)
  BY DEF ListAll, At
<1>2. request[r].then \in Thens
  BY On DEF Job
<1>3. request[r].op = "open" /\ ~request[r].hurt => request[r].then = "list"
  BY <1>1, On DEF Healing, Resolving
<1> QED
  BY <1>1, <1>2, <1>3, FindsKeeps

(* Where a request goes on to after a write that it made.                  *)
LEMMA ThensAllow ==
  ASSUME NEW j \in Job
  PROVE  j.then \in Labels \ {"legacy", "write", "create", "drop-again"}
  BY DEF Job, Labels, Thens

LEMMA RememberKeeps ==
  ASSUME LakeInv, NEW r \in Requests, Remember(r)
  PROVE  LakeInv'
<1> DEFINE j == request[r]
           l == IF j.name = Default THEN "remember-default" ELSE j.then
           k == [j EXCEPT !.at = l]
           new == [vault EXCEPT !.id_of[j.name] = j.id]
<1>1. j.at = "remember" /\ Put(r, new, l) /\ UNCHANGED services
  BY DEF Remember, At, Keeps
<1>2. j \in Job /\ Owned(j, owners) /\ Healing(j, warehouse)
  BY On
<1>3. Vault(new, owners)
  BY <1>1, <1>2 DEF LakeInv, Vault, Owned, Job
<1>4. JobInv(k, warehouse, owners)
  <2> HIDE DEF j
  <2>1. l \in Labels \ {"legacy", "write", "create", "drop-again"} /\ l \in {"remember-default", j.then}
    BY <1>2, ThensAllow DEF Labels
  <2> HIDE DEF l
  <2>2. /\ k \in Job /\ Owned(k, owners) /\ k.at = l /\ k.op = j.op /\ k.name = j.name
        /\ k.id = j.id /\ k.then = j.then /\ k.recovered = j.recovered /\ k.hurt = j.hurt
    BY <1>1, <1>2, <2>1, Moves
  <2> HIDE DEF k
  <2>3. Healing(k, warehouse)
    BY <1>1, <1>2, <2>1, <2>2 DEF Healing, Resolving
  <2> QED
    BY <2>2, <2>3 DEF JobInv
<1> QED
  BY <1>1, <1>3, <1>4, Puts

LEMMA RememberDefaultKeeps ==
  ASSUME LakeInv, NEW r \in Requests, RememberDefault(r)
  PROVE  LakeInv'
<1> DEFINE j == request[r]
           k == [j EXCEPT !.at = j.then]
           new == [vault EXCEPT !.shared = j.id]
<1>1. j.at = "remember-default" /\ Put(r, new, j.then) /\ UNCHANGED services
  BY DEF RememberDefault, At, Keeps
<1>2. j \in Job /\ Owned(j, owners) /\ Healing(j, warehouse)
  BY On
<1>3. Vault(new, owners)
  BY <1>1, <1>2 DEF LakeInv, Vault, Owned, Job
<1>4. JobInv(k, warehouse, owners)
  <2> HIDE DEF j
  <2>2. /\ k \in Job /\ Owned(k, owners) /\ k.at = j.then /\ k.op = j.op /\ k.name = j.name
        /\ k.id = j.id /\ k.then = j.then /\ k.recovered = j.recovered /\ k.hurt = j.hurt
    BY <1>1, <1>2, ThensAllow, Moves
  <2> HIDE DEF k
  <2>3. Healing(k, warehouse)
    BY <1>1, <1>2, <2>2 DEF Healing, Resolving
  <2> QED
    BY <2>2, <2>3 DEF JobInv
<1> QED
  BY <1>1, <1>3, <1>4, Puts

-----------------------------------------------------------------------------
(* The pages and what they recover.                                        *)

LEMMA AskedKeeps ==
  ASSUME LakeInv, NEW r \in Requests, NEW missing \in {"failed", "credentials"},
         Asked(r, "shown", missing), request[r].at # "idle",
         request[r].op = "open" /\ ~request[r].hurt /\ ~Live(request[r].id) =>
           missing = "credentials" /\ ~request[r].recovered
  PROVE  LakeInv'
<1> DEFINE j == request[r]
           l == IF Live(j.id) THEN "shown" ELSE missing
           k == [j EXCEPT !.at = l]
           f == [j EXCEPT !.at = "failed"]
<1>1. Unseen
  BY DEF Asked, Keeps, services, Unseen
<1>2. To(r, Arrive(k)) \/ To(r, Hurt(f))
  BY Zenon DEF Asked, Go
<1>3. j \in Job /\ Owned(j, owners) /\ Healing(j, warehouse)
  BY On
<1>4. j.at # "idle" /\ (j.op = "open" /\ ~j.hurt /\ l = missing => l = "credentials" /\ ~j.recovered)
  OBVIOUS
<1> HIDE DEF j
<1>5. l \in {"shown", "failed", "credentials"} /\ (l # "shown" => l = missing)
  OBVIOUS
<1> HIDE DEF l
<1>6. {"shown", "failed", "credentials"} \subseteq Labels \ {"legacy", "write", "create", "drop-again"}
  BY DEF Labels, Thens, Ends
<1>7. /\ k \in Job /\ Owned(k, owners) /\ k.at = l /\ k.op = j.op /\ k.name = j.name
      /\ k.id = j.id /\ k.then = j.then /\ k.recovered = j.recovered /\ k.hurt = j.hurt
  BY <1>3, <1>4, <1>5, <1>6, Moves
<1>8. f \in Job /\ Owned(f, owners)
  BY <1>3, <1>4, <1>6, Moves
<1> HIDE DEF k, f
<1>9. Healing(k, warehouse)
  BY <1>3, <1>4, <1>5, <1>7 DEF Healing, Resolving
<1>10. Jobs(request', warehouse, owners)
  BY <1>2, <1>7, <1>8, <1>9, Goes, Fails DEF JobInv
<1> QED
  BY <1>1, <1>10, QuietJobs

LEMMA PagesKeep ==
  ASSUME LakeInv, NEW r \in Requests, List(r) \/ Browse(r) \/ Change(r)
  PROVE  LakeInv'
<1>1. CASE List(r)
  <2>1. request[r].at = "list" /\ Asked(r, "shown", IF request[r].recovered THEN "failed" ELSE "credentials")
    BY <1>1 DEF List, At
  <2>2. request[r].op = "open" /\ ~request[r].hurt /\ ~Live(request[r].id) => ~request[r].recovered
    BY <2>1, On DEF Healing, Live, Known
  <2> QED
    BY <2>1, <2>2, AskedKeeps
<1>2. CASE Browse(r) \/ Change(r)
  <2>1. request[r].at \in {"read", "write-to"} /\ Asked(r, "shown", "failed")
    BY <1>2 DEF Browse, Change, At
  <2>2. ~(request[r].op = "open" /\ ~request[r].hurt)
    BY <2>1, On DEF Healing, Resolving
  <2> QED
    BY <2>1, <2>2, AskedKeeps
<1> QED
  BY <1>1, <1>2

LEMMA UnrecoveredKeeps ==
  ASSUME NEW j \in Job, NEW O, Owned(j, O), j.at # "idle"
  PROVE  LET k == [j EXCEPT !.at = Unrecovered(j)] IN k \in Job /\ Owned(k, O)
<1>1. Unrecovered(j) \in Labels \ {"legacy", "write", "create", "drop-again"}
  BY DEF Unrecovered, Labels, Turns, Ends
<1> QED
  BY <1>1, Moves

LEMMA CredentialsKeeps ==
  ASSUME LakeInv, NEW r \in Requests, Credentials(r)
  PROVE  LakeInv'
<1> DEFINE j == request[r]
           k == [j EXCEPT !.at = "post"]
           f == [j EXCEPT !.at = Unrecovered(j)]
<1>1. Unseen /\ j.at = "credentials"
  BY DEF Credentials, Keeps, services, Unseen, At
<1>2. To(r, Arrive(k)) \/ To(r, Arrive(Hurt(f)))
  BY Zenon DEF Credentials, Go
<1>3. j \in Job /\ Owned(j, owners) /\ Healing(j, warehouse)
  BY On
<1> HIDE DEF j
<1>4. f \in Job /\ Owned(f, owners)
  BY <1>1, <1>3, UnrecoveredKeeps
<1>5. "post" \in Labels \ {"legacy", "write", "create", "drop-again"}
  BY DEF Labels
<1>6. /\ k \in Job /\ Owned(k, owners) /\ k.at = "post" /\ k.op = j.op /\ k.name = j.name
      /\ k.id = j.id /\ k.then = j.then /\ k.recovered = j.recovered /\ k.hurt = j.hurt
  BY <1>1, <1>3, <1>5, Moves
<1> HIDE DEF k, f
<1>7. Healing(k, warehouse)
  BY <1>1, <1>3, <1>6 DEF Healing, Resolving
<1>8. Jobs(request', warehouse, owners)
  BY <1>2, <1>4, <1>6, <1>7, Goes, Fails DEF JobInv
<1> QED
  BY <1>1, <1>8, QuietJobs

(* A warehouse made or found again: its request holds its identifier.      *)
LEMMA MadeKeeps ==
  ASSUME NEW j \in Job, NEW O, Owned(j, O), j.at # "idle", NEW W, NEW id \in Nat, Good(j.name, id, O)
  PROVE  LET k == Made(j, id) IN
         /\ k \in Job /\ Owned(k, O)
         /\ (j.op = "open" /\ ~j.hurt => Known(W, id)) => JobInv(k, W, O)
<1> DEFINE l == CASE j.op = "submit" -> "keep" [] j.op = "auto" -> "name"
                  [] OTHER -> IF id # 0 THEN "share" ELSE "config"
           k == Made(j, id)
<1>1. l \in {"keep", "name", "share", "config"}
  OBVIOUS
<1>2. /\ k.op = j.op /\ k.name = j.name /\ k.at = l /\ k.id = id /\ k.made = id
      /\ k.candidates = j.candidates /\ k.recovered = TRUE /\ k.hurt = j.hurt
      /\ k.then = IF j.op \in {"submit", "auto"} THEN j.then ELSE "again"
      /\ k \in Job
  <2>1. "keep" \in Labels /\ "name" \in Labels /\ "share" \in Labels /\ "config" \in Labels
        /\ "again" \in Thens
    BY DEF Labels, Thens
  <2>2. CASE j.op = "submit"
    BY <2>1, <2>2 DEF Made, Job
  <2>3. CASE j.op = "auto"
    BY <2>1, <2>3 DEF Made, Job
  <2>4. CASE j.op \notin {"submit", "auto"} /\ id # 0
    BY <2>1, <2>4 DEF Made, Job
  <2>5. CASE j.op \notin {"submit", "auto"} /\ id = 0
    BY <2>1, <2>5 DEF Made, Job
  <2> QED
    BY <2>2, <2>3, <2>4, <2>5
<1>3. j.op = "open" => (l = IF id # 0 THEN "share" ELSE "config")
  OBVIOUS
<1> HIDE DEF k, l
<1>4. Owned(k, O)
  BY <1>1, <1>2 DEF Owned
<1>5. (j.op = "open" /\ ~j.hurt => Known(W, id)) => Healing(k, W)
  BY <1>2, <1>3 DEF Healing, Known, Resolving
<1>6. k \in Job /\ Owned(k, O) /\ ((j.op = "open" /\ ~j.hurt => Known(W, id)) => JobInv(k, W, O))
  BY <1>2, <1>4, <1>5 DEF JobInv
<1> QED
  BY <1>6 DEF k

(* Another warehouse: what is known of the others stays.                   *)
LEMMA AnotherWarehouse ==
  ASSUME LakeInv, NEW n \in Names, warehouse[n] = 0,
         NEW W, W = [warehouse EXCEPT ![n] = Len(owners) + 1],
         NEW O, O = Append(owners, n)
  PROVE  /\ Lakekeeper(W, O) /\ Vault(vault, O) /\ Holds(trino, O) /\ Holds(file, O)
         /\ Good(n, Len(owners) + 1, O) /\ Known(W, Len(owners) + 1)
         /\ \A m \in Names, id \in Nat : Good(m, id, owners) => Good(m, id, O)
         /\ \A j : JobInv(j, warehouse, owners) => JobInv(j, W, O)
<1>1. Lakekeeper(warehouse, owners) /\ Len(owners) \in Nat
  BY DEF LakeInv, Lakekeeper
<1>2. /\ O \in Seq(Names) /\ Len(O) = Len(owners) + 1 /\ O[Len(owners) + 1] = n
      /\ \A i \in 1..Len(owners) : O[i] = owners[i]
  BY <1>1 DEF Lakekeeper
<1>3. /\ W \in [Names -> Nat] /\ W[n] = Len(owners) + 1
      /\ \A m \in Names : m # n => W[m] = warehouse[m]
  BY <1>1 DEF Lakekeeper
<1>4. \A m, id : Good(m, id, owners) => Good(m, id, O)
  BY <1>1, <1>2 DEF Good
<1>5. Good(n, Len(owners) + 1, O) /\ Known(W, Len(owners) + 1)
  BY <1>1, <1>2, <1>3 DEF Good, Known
<1>6. Lakekeeper(W, O)
  BY <1>1, <1>2, <1>3, <1>4, <1>5 DEF Lakekeeper
<1>7. Vault(vault, O) /\ Holds(trino, O) /\ Holds(file, O)
  BY <1>4 DEF LakeInv, Vault, Holds, MayReach
<1>8. ASSUME NEW j, JobInv(j, warehouse, owners) PROVE JobInv(j, W, O)
  <2>1. \A id : Known(warehouse, id) => Known(W, id)
    BY <1>3 DEF Known
  <2>2. \A m \in Names : warehouse[m] # 0 => W[m] # 0
    BY <1>3
  <2>3. Owned(j, O)
    BY <1>4, <1>8 DEF JobInv, Owned
  <2>4. j.op = "open" /\ j.at = "look-up" => j.name \in Names
    BY <1>8 DEF JobInv, Owned
  <2>5. Healing(j, W)
    BY <1>8, <2>1, <2>2, <2>4 DEF JobInv, Healing
  <2> QED
    BY <1>8, <2>3, <2>5 DEF JobInv
<1> QED
  BY <1>4, <1>5, <1>6, <1>7, <1>8

LEMMA PostKeeps ==
  ASSUME LakeInv, NEW r \in Requests, Post(r)
  PROVE  LakeInv'
<1> DEFINE j == request[r]
           n == j.name
           id == Len(owners) + 1
           k == [j EXCEPT !.at = "look-up"]
           f == [j EXCEPT !.at = Unrecovered(j)]
           makes == /\ warehouse[n] = 0
                    /\ warehouse' = [warehouse EXCEPT ![n] = id]
                    /\ owners' = Append(owners, n)
<1>1. j.at = "post" /\ UNCHANGED <<key, vault, trino, file>>
  BY DEF Post, At, Keeps
<1>2. \/ makes /\ To(r, Made(j, id))
      \/ warehouse[n] # 0 /\ To(r, Arrive(k)) /\ Quiet
      \/ makes /\ To(r, Arrive(Hurt(f)))
      \/ To(r, Arrive(Hurt(f))) /\ Quiet
  BY Zenon DEF Post, Go, Quiet
<1>3. j \in Job /\ Owned(j, owners) /\ Healing(j, warehouse)
  BY On
<1>4. n \in Names
  BY <1>1, <1>3 DEF Owned
<1>5. f \in Job /\ Owned(f, owners)
  BY <1>1, <1>3, UnrecoveredKeeps
<1>6. CASE makes
  <2>1. /\ Lakekeeper(warehouse', owners') /\ Vault(vault, owners') /\ Holds(trino, owners')
        /\ Holds(file, owners') /\ Good(n, id, owners') /\ Known(warehouse', id)
        /\ \A i \in Nat : Good(n, i, owners) => Good(n, i, owners')
        /\ \A i : JobInv(i, warehouse, owners) => JobInv(i, warehouse', owners')
    BY <1>4, <1>6, AnotherWarehouse
  <2>2. Jobs(request, warehouse', owners')
    BY <2>1 DEF LakeInv, Jobs
  <2>3. JobInv(j, warehouse', owners')
    BY <2>1, On
  <2>4. j \in Job /\ Owned(j, owners')
    BY <2>3 DEF JobInv
  <2>5. To(r, Made(j, id)) \/ To(r, Arrive(Hurt(f)))
    BY <1>2, <1>6, Zenon
  <2>6. id \in Nat
    BY DEF LakeInv, Lakekeeper
  <2> HIDE DEF j, id, n
  <2>7. Good(j.name, id, owners')
    BY <2>1 DEF n
  <2>8. JobInv(Made(j, id), warehouse', owners')
    BY <1>1, <2>1, <2>4, <2>6, <2>7, MadeKeeps
  <2>9. f \in Job /\ Owned(f, owners')
    BY <1>1, <2>4, UnrecoveredKeeps
  <2> HIDE DEF f
  <2>10. JobInv(Arrive(Hurt(f)), warehouse', owners')
    BY <2>9, HurtKeeps, ArriveKeeps, LakehouseAssumption
  <2>11. Jobs(request', warehouse', owners')
    BY <2>2, <2>5, <2>8, <2>10, OneMoves DEF To
  <2> QED
    BY <1>1, <2>1, <2>11 DEF LakeInv
<1>7. CASE Quiet
  <2>1. \/ warehouse[n] # 0 /\ To(r, Arrive(k))
        \/ To(r, Arrive(Hurt(f)))
        \/ makes
    BY <1>2
  <2> HIDE DEF j, f
  <2>2. "look-up" \in Labels \ {"legacy", "write", "create", "drop-again"}
    BY DEF Labels
  <2>3. /\ k \in Job /\ Owned(k, owners) /\ k.at = "look-up" /\ k.op = j.op /\ k.name = j.name
        /\ k.id = j.id /\ k.then = j.then /\ k.recovered = j.recovered /\ k.hurt = j.hurt
    BY <1>1, <1>3, <2>2, Moves
  <2> HIDE DEF k
  <2>4. warehouse[n] # 0 => Healing(k, warehouse)
    BY <1>1, <1>3, <2>3 DEF Healing, Resolving
  <2>5. ~makes => Jobs(request', warehouse, owners)
    BY <1>5, <2>1, <2>3, <2>4, Goes, Fails DEF JobInv
  <2>6. Unseen
    BY <1>1, <1>7 DEF Quiet, Unseen
  <2> QED
    BY <1>6, <2>5, <2>6, QuietJobs
<1> QED
  BY <1>2, <1>6, <1>7

LEMMA LookUpKeeps ==
  ASSUME LakeInv, NEW r \in Requests, LookUp(r)
  PROVE  LakeInv'
<1> DEFINE j == request[r]
           id == warehouse[j.name]
           k == Made(j, id)
           f == Made(j, 0)
<1>1. Unseen /\ j.at = "look-up"
  BY DEF LookUp, Keeps, services, Unseen, At
<1>2. To(r, k) \/ To(r, Hurt(f))
  BY Zenon DEF LookUp
<1>3. j \in Job /\ Owned(j, owners) /\ Healing(j, warehouse)
  BY On
<1> HIDE DEF j
<1>4. /\ id \in Nat /\ Good(j.name, id, owners)
      /\ (j.op = "open" /\ ~j.hurt => Known(warehouse, id))
  BY <1>1, <1>3 DEF Owned, LakeInv, Lakekeeper, Healing, Known
<1> HIDE DEF id
<1>5. JobInv(k, warehouse, owners)
  BY <1>1, <1>3, <1>4, MadeKeeps
<1>6. f \in Job /\ Owned(f, owners)
  BY <1>1, <1>3, MadeKeeps DEF Good
<1> HIDE DEF f, k
<1>7. Jobs(request', warehouse, owners)
  BY <1>2, <1>5, <1>6, Goes, Fails
<1> QED
  BY <1>1, <1>7, QuietJobs

LEMMA KeepKeeps ==
  ASSUME LakeInv, NEW r \in Requests, Keep(r)
  PROVE  LakeInv'
<1> DEFINE j == request[r]
           k == [j EXCEPT !.at = "name"]
           new == [vault EXCEPT !.key_id = TRUE, !.secret = TRUE]
           half == [vault EXCEPT !.key_id = TRUE]
<1>1. j.at = "keep" /\ UNCHANGED services
  BY DEF Keep, At, Keeps
<1>2. Put(r, new, "name") \/ (vault' = half /\ To(r, Hurt(k)))
  BY Zenon DEF Keep
<1>3. j \in Job /\ Owned(j, owners) /\ Healing(j, warehouse)
  BY On
<1>4. Vault(new, owners) /\ Vault(half, owners)
  BY DEF LakeInv, Vault
<1>5. "name" \in Labels \ {"legacy", "write", "create", "drop-again"}
  BY DEF Labels
<1>6. k \in Job /\ Owned(k, owners) /\ JobInv(k, warehouse, owners)
  <2> HIDE DEF j
  <2>2. /\ k \in Job /\ Owned(k, owners) /\ k.at = "name" /\ k.op = j.op /\ k.name = j.name
        /\ k.id = j.id /\ k.then = j.then /\ k.recovered = j.recovered /\ k.hurt = j.hurt
    BY <1>1, <1>3, <1>5, Moves
  <2> HIDE DEF k
  <2>3. Healing(k, warehouse)
    BY <1>1, <1>3, <2>2 DEF Healing, Resolving
  <2> QED
    BY <2>2, <2>3 DEF JobInv
<1>7. CASE Put(r, new, "name")
  BY <1>1, <1>4, <1>6, <1>7, Puts
<1>8. CASE vault' = half /\ To(r, Hurt(k))
  <2> HIDE DEF k, half
  <2>1. Jobs(request', warehouse, owners)
    BY <1>6, <1>8, Fails
  <2> QED
    BY <1>1, <1>4, <1>8, <2>1 DEF LakeInv, services
<1> QED
  BY <1>2, <1>7, <1>8

LEMMA NameKeeps ==
  ASSUME LakeInv, NEW r \in Requests, Name(r)
  PROVE  LakeInv'
<1> DEFINE j == request[r]
           l == IF j.id # 0 THEN "share" ELSE j.then
           k == [j EXCEPT !.at = l]
           new == [vault EXCEPT !.known = j.name]
<1>1. j.at = "name" /\ Put(r, new, l) /\ UNCHANGED services
  BY DEF Name, At, Keeps
<1>2. j \in Job /\ Owned(j, owners) /\ Healing(j, warehouse)
  BY On
<1>3. Vault(new, owners)
  BY <1>1, <1>2 DEF LakeInv, Vault, Owned, Job
<1>4. JobInv(k, warehouse, owners)
  <2> HIDE DEF j
  <2>1. l \in Labels \ {"legacy", "write", "create", "drop-again"}
    BY <1>2, ThensAllow DEF Labels
  <2> HIDE DEF l
  <2>2. /\ k \in Job /\ Owned(k, owners) /\ k.at = l /\ k.op = j.op /\ k.name = j.name
        /\ k.id = j.id /\ k.then = j.then /\ k.recovered = j.recovered /\ k.hurt = j.hurt
    BY <1>1, <1>2, <2>1, Moves
  <2> HIDE DEF k
  <2>3. Healing(k, warehouse)
    BY <1>1, <1>2, <2>1, <2>2 DEF Healing, Resolving
  <2> QED
    BY <2>2, <2>3 DEF JobInv
<1> QED
  BY <1>1, <1>3, <1>4, Puts

LEMMA ShareKeeps ==
  ASSUME LakeInv, NEW r \in Requests, Share(r)
  PROVE  LakeInv'
<1> DEFINE j == request[r]
           k == [j EXCEPT !.at = j.then]
           new == [vault EXCEPT !.shared = j.id]
<1>1. j.at = "share" /\ Put(r, new, j.then) /\ UNCHANGED services
  BY DEF Share, At, Keeps
<1>2. j \in Job /\ Owned(j, owners) /\ Healing(j, warehouse)
  BY On
<1>3. Vault(new, owners)
  BY <1>1, <1>2 DEF LakeInv, Vault, Owned, Job
<1>4. JobInv(k, warehouse, owners)
  <2> HIDE DEF j
  <2>2. /\ k \in Job /\ Owned(k, owners) /\ k.at = j.then /\ k.op = j.op /\ k.name = j.name
        /\ k.id = j.id /\ k.then = j.then /\ k.recovered = j.recovered /\ k.hurt = j.hurt
    BY <1>1, <1>2, ThensAllow, Moves
  <2> HIDE DEF k
  <2>3. Healing(k, warehouse)
    BY <1>1, <1>2, <2>2 DEF Healing, Resolving
  <2> QED
    BY <2>2, <2>3 DEF JobInv
<1> QED
  BY <1>1, <1>3, <1>4, Puts

-----------------------------------------------------------------------------
(* Trino's catalogs.                                                       *)

(* What the candidates are once the catalog is dropped: the names first,   *)
(* every one of the request's own.                                         *)
LEMMA CandidatesOwned ==
  ASSUME NEW j \in Job, NEW O, Owned(j, O), NEW id \in Nat, Good(j.name, id, O)
  PROVE  LET cs == Append(j.candidates, id) IN
         /\ cs \in Seq(Nat) /\ cs # <<>>
         /\ j.name \in Names \ {Default} => \A i \in 1..Len(cs) : Good(j.name, cs[i], O)
  BY JobFields DEF Owned

LEMMA TailOwned ==
  ASSUME NEW cs \in Seq(Nat), cs # <<>>, NEW n, NEW O,
         n \in Names \ {Default} => \A i \in 1..Len(cs) : Good(n, cs[i], O)
  PROVE  /\ Tail(cs) \in Seq(Nat)
         /\ n \in Names \ {Default} => \A i \in 1..Len(Tail(cs)) : Good(n, Tail(cs)[i], O)
<1>1. Tail(cs) \in Seq(Nat) /\ Len(Tail(cs)) = Len(cs) - 1
      /\ \A i \in 1..Len(Tail(cs)) : Tail(cs)[i] = cs[i + 1] /\ i + 1 \in 1..Len(cs)
  OBVIOUS
<1> QED
  BY <1>1

LEMMA HeadOwned ==
  ASSUME NEW j \in Job, NEW O, Owned(j, O), j.at \in {"write", "create"}
  PROVE  /\ Head(j.candidates) \in Nat
         /\ j.name \in Names /\ (j.name # Default => Good(j.name, Head(j.candidates), O))
<1>1. j.candidates \in Seq(Nat) /\ j.candidates # <<>>
  BY JobFields DEF Owned
<1>2. Head(j.candidates) = j.candidates[1] /\ 1 \in 1..Len(j.candidates)
      /\ j.candidates[1] \in Nat
  BY <1>1
<1> QED
  BY <1>2 DEF Owned

LEMMA DropKeeps ==
  ASSUME LakeInv, NEW r \in Requests, Drop(r)
  PROVE  LakeInv'
<1> DEFINE j == request[r]
           cs == IF j.at = "drop" /\ j.id \notin {0} \cup {j.candidates[i] : i \in DOMAIN j.candidates}
                 THEN Append(j.candidates, j.id) ELSE j.candidates
           rest == IF j.at = "drop" THEN cs ELSE Tail(cs)
           next == CASE rest # <<>> -> "write"
                     [] rest = <<>> /\ j.op = "wire" /\ j.gone /\ ~j.recovered -> "credentials"
                     [] OTHER -> "sail"
           k == [j EXCEPT !.candidates = rest, !.at = next]
<1>1. j.at \in {"drop", "drop-again"} /\ UNCHANGED <<warehouse, owners, key, vault, file>>
  BY DEF Drop, Keeps, elsewhere
<1>2. \/ trino' = [trino EXCEPT ![Catalog(j.name)] = None] /\ To(r, Arrive(k))
      \/ trino' = trino /\ To(r, Arrive(Hurt(k)))
  BY Zenon DEF Drop
<1>3. j \in Job /\ Owned(j, owners) /\ Healing(j, warehouse)
  BY On
<1> HIDE DEF j
<1>4. /\ cs \in Seq(Nat) /\ (j.at = "drop-again" => cs # <<>>)
      /\ j.name \in Names \ {Default} => \A i \in 1..Len(cs) : Good(j.name, cs[i], owners)
  <2>1. CASE j.name \in Names \ {Default}
    BY <1>1, <1>3, <2>1, CandidatesOwned, JobFields DEF Owned
  <2>2. CASE j.name \notin Names \ {Default}
    BY <1>1, <1>3, <2>2, JobFields DEF Owned
  <2> QED
    BY <2>1, <2>2
<1> HIDE DEF cs
<1>5. /\ rest \in Seq(Nat)
      /\ j.name \in Names \ {Default} => \A i \in 1..Len(rest) : Good(j.name, rest[i], owners)
  <2>1. CASE j.at = "drop"
    BY <1>4, <2>1
  <2>2. CASE j.at = "drop-again"
    BY <1>4, <2>2, TailOwned
  <2> QED
    BY <1>1, <2>1, <2>2
<1>6. next \in {"write", "credentials", "sail"} /\ (next = "write" => rest # <<>>)
  OBVIOUS
<1> HIDE DEF rest, next
<1>7. "write" \in Labels /\ "credentials" \in Labels /\ "sail" \in Labels
  BY DEF Labels, Turns
<1>8. /\ k \in Job /\ k.at = next /\ k.op = j.op /\ k.name = j.name /\ k.id = j.id
      /\ k.made = j.made /\ k.then = j.then /\ k.candidates = rest
      /\ k.recovered = j.recovered /\ k.hurt = j.hurt
  BY <1>3, <1>5, <1>6, <1>7 DEF Job
<1> HIDE DEF k
<1>9. Owned(k, owners)
  BY <1>1, <1>3, <1>5, <1>6, <1>8 DEF Owned
<1>10. Healing(k, warehouse)
  BY <1>1, <1>3, <1>8 DEF Healing, Resolving
<1>11. Jobs(request', warehouse, owners)
  BY <1>2, <1>8, <1>9, <1>10, Goes, Fails DEF JobInv
<1>12. Holds(trino', owners)
  BY <1>2 DEF LakeInv, Holds, Askable, MayReach
<1> QED
  BY <1>1, <1>11, <1>12 DEF LakeInv

LEMMA WriteKeeps ==
  ASSUME LakeInv, NEW r \in Requests, Write(r)
  PROVE  LakeInv'
<1> DEFINE j == request[r]
           k == [j EXCEPT !.at = "create"]
           c == Head(j.candidates)
<1>1. j.at = "write" /\ UNCHANGED <<warehouse, owners, key, vault, trino>>
  BY DEF Write, At, Keeps
<1>2. \/ file' = [file EXCEPT ![Catalog(j.name)] = Ask(j.name, c)] /\ To(r, Arrive(k))
      \/ file' = file /\ To(r, Hurt(k))
  BY Zenon DEF Write, Go
<1>3. j \in Job /\ Owned(j, owners) /\ Healing(j, warehouse)
  BY On
<1> HIDE DEF j
<1>4. /\ Catalog(j.name) \in Catalogs /\ Ask(j.name, c) \in Askable
      /\ Catalog(j.name) # Catalog(Default) => MayReach(Catalog(j.name), Ask(j.name, c), owners)
  BY <1>1, <1>3, HeadOwned, Asking
<1> HIDE DEF c
<1>5. "create" \in Labels
  BY DEF Labels
<1>6. /\ k \in Job /\ k.at = "create" /\ k.op = j.op /\ k.name = j.name /\ k.id = j.id
      /\ k.made = j.made /\ k.then = j.then /\ k.candidates = j.candidates
      /\ k.recovered = j.recovered /\ k.hurt = j.hurt
  BY <1>3, <1>5, Turned
<1> HIDE DEF k
<1>7. Owned(k, owners) /\ Healing(k, warehouse)
  BY <1>1, <1>3, <1>6 DEF Owned, Healing, Resolving
<1>8. Jobs(request', warehouse, owners)
  BY <1>2, <1>6, <1>7, Goes, Fails DEF JobInv
<1>9. Holds(file', owners)
  BY <1>2, <1>4 DEF LakeInv, Holds
<1> QED
  BY <1>1, <1>8, <1>9 DEF LakeInv

LEMMA CreateKeeps ==
  ASSUME LakeInv, NEW r \in Requests, Create(r)
  PROVE  LakeInv'
<1> DEFINE j == request[r]
           c == Head(j.candidates)
           made == [trino EXCEPT ![Catalog(j.name)] = Ask(j.name, c)]
           there == trino[Catalog(j.name)] # None
           resolves == [j EXCEPT !.at = "config", !.then = "caching"]
           caches == [j EXCEPT !.at = "caching", !.id = c]
           refused == [j EXCEPT !.at = "drop-again"]
           again == [refused EXCEPT !.gone = @ \/ ~there]
<1>1. j.at = "create" /\ UNCHANGED <<warehouse, owners, key, vault, file>>
  BY DEF Create, At, Keeps, elsewhere
<1>2. /\ trino' = made \/ trino' = trino
      /\ To(r, resolves) \/ To(r, Arrive(caches)) \/ To(r, again) \/ To(r, Hurt(refused))
  <2>1. \/ trino' = made /\ To(r, IF c = 0 THEN resolves ELSE Arrive(caches))
        \/ trino' = trino /\ To(r, again)
        \/ trino' = made /\ To(r, Hurt(refused))
        \/ trino' = trino /\ To(r, Hurt(refused))
    BY Zenon DEF Create
  <2> QED
    BY <2>1, Zenon
<1>3. j \in Job /\ Owned(j, owners) /\ Healing(j, warehouse)
  BY On
<1> HIDE DEF j
<1>4. c \in Nat /\ j.name \in Names /\ (j.name # Default => Good(j.name, c, owners))
  BY <1>1, <1>3, HeadOwned
<1> HIDE DEF c, there
<1>5. Holds(trino', owners)
  BY <1>2, <1>4, Asking DEF LakeInv, Holds
<1>6. ~(j.op = "open" /\ ~j.hurt) /\ j.candidates # <<>>
  BY <1>1, <1>3 DEF Healing, Resolving, Owned
<1>7. JobInv(resolves, warehouse, owners)
  <2> DEFINE k == resolves
  <2>1. "config" \in Labels /\ "caching" \in Thens
    BY DEF Labels, Thens
  <2>2. /\ k \in Job /\ k.at = "config" /\ k.op = j.op /\ k.name = j.name /\ k.id = j.id
        /\ k.made = j.made /\ k.candidates = j.candidates /\ k.hurt = j.hurt
    BY <1>3, <2>1 DEF Job
  <2> HIDE DEF k
  <2>3. JobInv(k, warehouse, owners)
    BY <1>1, <1>3, <1>6, <2>2 DEF JobInv, Owned, Healing
  <2> QED
    BY <2>3 DEF k
<1>8. JobInv(caches, warehouse, owners)
  <2> DEFINE k == caches
  <2>1. "caching" \in Labels
    BY DEF Labels, Thens
  <2>2. /\ k \in Job /\ k.at = "caching" /\ k.op = j.op /\ k.name = j.name /\ k.id = c
        /\ k.made = j.made /\ k.candidates = j.candidates /\ k.hurt = j.hurt
    BY <1>3, <1>4, <2>1 DEF Job
  <2> HIDE DEF k
  <2>3. JobInv(k, warehouse, owners)
    BY <1>1, <1>3, <1>4, <1>6, <2>2 DEF JobInv, Owned, Healing
  <2> QED
    BY <2>3 DEF k
<1>9. /\ JobInv(again, warehouse, owners)
      /\ refused \in Job /\ Owned(refused, owners)
  <2>1. "drop-again" \in Labels
    BY DEF Labels
  <2>2. /\ refused \in Job /\ refused.at = "drop-again" /\ refused.op = j.op
        /\ refused.name = j.name /\ refused.id = j.id /\ refused.made = j.made
        /\ refused.candidates = j.candidates /\ refused.hurt = j.hurt
    BY <1>3, <2>1, Turned
  <2> HIDE DEF refused
  <2>3. /\ again \in Job /\ again.at = "drop-again" /\ again.op = j.op
        /\ again.name = j.name /\ again.id = j.id /\ again.made = j.made
        /\ again.candidates = j.candidates /\ again.hurt = j.hurt
    BY <2>2 DEF Job
  <2> HIDE DEF again
  <2>4. JobInv(again, warehouse, owners) /\ Owned(refused, owners)
    BY <1>1, <1>3, <1>6, <2>2, <2>3 DEF JobInv, Owned, Healing
  <2> QED
    BY <2>2, <2>4
<1> HIDE DEF resolves, caches, again, refused
<1>10. Jobs(request', warehouse, owners)
  BY <1>2, <1>7, <1>8, <1>9, Goes, Fails
<1> QED
  BY <1>1, <1>5, <1>10 DEF LakeInv

LEMMA CacheKeeps ==
  ASSUME LakeInv, NEW r \in Requests, Cache(r)
  PROVE  LakeInv'
<1> DEFINE j == request[r]
           k == [j EXCEPT !.at = "sail"]
           new == [vault EXCEPT !.id_of[j.name] = j.id]
<1>1. j.at = "cache" /\ Put(r, new, "sail") /\ UNCHANGED services
  BY DEF Cache, At, Keeps
<1>2. j \in Job /\ Owned(j, owners) /\ Healing(j, warehouse)
  BY On
<1>3. Vault(new, owners)
  BY <1>1, <1>2 DEF LakeInv, Vault, Owned, Job
<1>4. JobInv(k, warehouse, owners)
  <2> HIDE DEF j
  <2>1. "sail" \in Labels \ {"legacy", "write", "create", "drop-again"}
    BY DEF Labels, Turns
  <2>2. /\ k \in Job /\ Owned(k, owners) /\ k.at = "sail" /\ k.op = j.op /\ k.name = j.name
        /\ k.id = j.id /\ k.then = j.then /\ k.recovered = j.recovered /\ k.hurt = j.hurt
    BY <1>1, <1>2, <2>1, Moves
  <2> HIDE DEF k
  <2>3. Healing(k, warehouse)
    BY <1>1, <1>2, <2>2 DEF Healing, Resolving
  <2> QED
    BY <2>2, <2>3 DEF JobInv
<1> QED
  BY <1>1, <1>3, <1>4, Puts

-----------------------------------------------------------------------------
(* Sail, Garage, the reset, and the ends.  None of these steps is a page's *)
(* as long as nothing hurt it.                                             *)

Elsewhere == {"configure", "read-catalogs", "write-catalogs", "key", "bucket", "store-id",
              "store-secret", "wipe", "forget-id", "forget-name", "forget-catalogs"}
Beyond == Elsewhere \cup {"ok", "failed"}

LEMMA MovesElsewhere ==
  ASSUME LakeInv, NEW r \in Requests, request[r].at \in Elsewhere, NEW l \in Beyond
  PROVE  LET k == [request[r] EXCEPT !.at = l] IN
         k \in Job /\ Owned(k, owners) /\ JobInv(k, warehouse, owners)
<1> DEFINE j == request[r]
           k == [j EXCEPT !.at = l]
<1>1. j \in Job /\ Owned(j, owners) /\ Healing(j, warehouse)
  BY On
<1>2. ~(j.op = "open" /\ ~j.hurt) /\ j.at # "idle"
  BY <1>1 DEF Healing, Resolving, Elsewhere
<1> HIDE DEF j
<1>3. l \in Labels \ {"legacy", "write", "create", "drop-again"}
  BY DEF Beyond, Elsewhere, Labels, Thens, Ends
<1>4. k \in Job /\ Owned(k, owners) /\ k.op = j.op /\ k.hurt = j.hurt
  BY <1>1, <1>2, <1>3, Moves
<1> HIDE DEF k
<1>5. JobInv(k, warehouse, owners)
  BY <1>2, <1>4, NotOpen
<1> QED
  BY <1>4, <1>5 DEF k, j

LEMMA ConfigureKeeps ==
  ASSUME LakeInv, NEW r \in Requests, Configure(r)
  PROVE  LakeInv'
<1> DEFINE j == request[r]
           k == [j EXCEPT !.at = "read-catalogs"]
           f == [j EXCEPT !.at = "ok"]
           new == [vault EXCEPT !.sail[Catalog(j.name)] = Ask(j.name, j.id)]
<1>1. j.at = "configure" /\ UNCHANGED services
  BY DEF Configure, At, Keeps
<1>2. vault' \in {vault, new} /\ (To(r, Arrive(k)) \/ To(r, Hurt(f)))
  <2>1. \/ vault' = new /\ To(r, Arrive(k))
        \/ vault' \in {vault, new} /\ To(r, Hurt(f))
    BY Zenon DEF Configure, Go
  <2> QED
    BY <2>1
<1>3. j \in Job /\ Owned(j, owners)
  BY On
<1>4. Vault(new, owners)
  <2> HIDE DEF j
  <2>1. /\ Catalog(j.name) \in Catalogs /\ Ask(j.name, j.id) \in Askable
        /\ Catalog(j.name) # Catalog(Default) =>
             MayReach(Catalog(j.name), Ask(j.name, j.id), owners)
    BY <1>1, <1>3, JobFields, Asking DEF Owned
  <2> QED
    BY <2>1 DEF LakeInv, Vault
<1>5. JobInv(k, warehouse, owners) /\ f \in Job /\ Owned(f, owners)
  BY <1>1, MovesElsewhere DEF Elsewhere, Beyond
<1> HIDE DEF j, k, f, new
<1>6. Jobs(request', warehouse, owners)
  BY <1>2, <1>5, Goes, Fails
<1>7. Vault(vault', owners)
  BY <1>2, <1>4 DEF LakeInv
<1> QED
  BY <1>1, <1>6, <1>7 DEF LakeInv, services

LEMMA ReadCatalogsKeeps ==
  ASSUME LakeInv, NEW r \in Requests, ReadCatalogs(r)
  PROVE  LakeInv'
<1> DEFINE j == request[r]
           Label(seen) == IF Catalog(j.name) \in seen THEN "ok" ELSE "write-catalogs"
           Reads(seen) == [j EXCEPT !.seen = seen, !.at = Label(seen)]
<1>1. Unseen /\ j.at = "read-catalogs"
  BY DEF ReadCatalogs, Keeps, services, Unseen, At
<1>2. To(r, Reads(vault.catalogs)) \/ To(r, Hurt(Reads({})))
  BY Zenon DEF ReadCatalogs
<1>3. j \in Job /\ Owned(j, owners) /\ Healing(j, warehouse)
  BY On
<1>4. vault.catalogs \in SUBSET Catalogs
  BY DEF LakeInv, Vault
<1> HIDE DEF j
<1>5. ~(j.op = "open" /\ ~j.hurt)
  BY <1>1, <1>3 DEF Healing, Resolving
<1>6. \A seen \in SUBSET Catalogs : JobInv(Reads(seen), warehouse, owners)
  <2> SUFFICES ASSUME NEW seen \in SUBSET Catalogs PROVE JobInv(Reads(seen), warehouse, owners)
    OBVIOUS
  <2> DEFINE l == Label(seen)
             k == [j EXCEPT !.seen = seen, !.at = l]
  <2>1. l \in Labels /\ l \notin {"legacy", "write", "create", "drop-again", "idle"}
    BY DEF Labels, Ends
  <2> HIDE DEF l
  <2>2. /\ k \in Job /\ k.at = l /\ k.op = j.op /\ k.name = j.name /\ k.id = j.id
        /\ k.made = j.made /\ k.candidates = j.candidates /\ k.hurt = j.hurt
    BY <1>3, <2>1 DEF Job
  <2> HIDE DEF k
  <2>3. JobInv(k, warehouse, owners)
    BY <1>1, <1>3, <1>5, <2>1, <2>2 DEF JobInv, Owned, Healing
  <2> QED
    BY <2>3 DEF k, l
<1> HIDE DEF Reads
<1>7. Jobs(request', warehouse, owners)
  BY <1>2, <1>4, <1>6, Goes, Fails DEF JobInv
<1> QED
  BY <1>1, <1>7, QuietJobs

(* The steps that write something to the vault and go on.                  *)
LEMMA WritesKeep ==
  ASSUME LakeInv, NEW r \in Requests, WriteCatalogs(r) \/ Store(r) \/ Forget(r)
  PROVE  LakeInv'
<1>1. Vault(vault, owners) /\ request[r].seen \in SUBSET Catalogs
  BY On DEF LakeInv, Job
<1>2. CASE WriteCatalogs(r)
  <2>1. request[r].at \in Elsewhere /\ UNCHANGED services
        /\ Put(r, [vault EXCEPT !.catalogs = request[r].seen \cup {Catalog(request[r].name)}], "ok")
    BY <1>2 DEF WriteCatalogs, At, Keeps, Elsewhere
  <2>2. request[r].name \in Names
    BY <2>1, On DEF Owned, Elsewhere
  <2>3. Vault([vault EXCEPT !.catalogs = request[r].seen \cup {Catalog(request[r].name)}], owners)
    <3>1. request[r].seen \cup {Catalog(request[r].name)} \in SUBSET Catalogs
      BY <1>1, <2>2 DEF Catalogs
    <3> QED
      BY <1>1, <3>1 DEF Vault
  <2>4. "ok" \in Beyond
    BY DEF Beyond
  <2> QED
    BY <2>1, <2>3, <2>4, MovesElsewhere, Puts
<1>3. CASE Store(r)
  <2>1. request[r].at \in Elsewhere /\ UNCHANGED services
    BY <1>3 DEF Store, At, Keeps, Elsewhere
  <2>2. /\ Vault([vault EXCEPT !.key_id = TRUE], owners)
        /\ Vault([vault EXCEPT !.secret = TRUE], owners)
    BY <1>1 DEF Vault
  <2>3. \/ \E l \in Beyond : Put(r, [vault EXCEPT !.key_id = TRUE], l)
        \/ \E l \in Beyond : Put(r, [vault EXCEPT !.secret = TRUE], l)
    <3>1. "ok" \in Beyond /\ (IF request[r].secret THEN "store-secret" ELSE "ok") \in Beyond
      BY DEF Beyond, Elsewhere
    <3> QED
      BY <1>3, <3>1, Zenon DEF Store
  <2> QED
    BY <2>1, <2>2, <2>3, MovesElsewhere, Puts
<1>4. CASE Forget(r)
  <2>1. request[r].at \in Elsewhere /\ UNCHANGED services
    BY <1>4 DEF Forget, At, Keeps, Elsewhere
  <2>2. /\ Vault([vault EXCEPT !.shared = 0], owners)
        /\ Vault([vault EXCEPT !.known = None], owners)
        /\ Vault([vault EXCEPT !.catalogs = {}], owners)
    BY <1>1 DEF Vault
  <2>3. "ok" \in Beyond /\ "forget-name" \in Beyond /\ "forget-catalogs" \in Beyond
    BY DEF Beyond, Elsewhere
  <2>4. CASE Put(r, [vault EXCEPT !.shared = 0], "forget-name")
    BY <2>1, <2>2, <2>3, <2>4, MovesElsewhere, Puts
  <2>5. CASE Put(r, [vault EXCEPT !.known = None], "forget-catalogs")
    BY <2>1, <2>2, <2>3, <2>5, MovesElsewhere, Puts
  <2>6. CASE Put(r, [vault EXCEPT !.catalogs = {}], "ok")
    BY <2>1, <2>2, <2>3, <2>6, MovesElsewhere, Puts
  <2> QED
    BY <1>4, <2>4, <2>5, <2>6, Zenon DEF Forget
<1> QED
  BY <1>2, <1>3, <1>4

LEMMA KeyKeeps ==
  ASSUME LakeInv, NEW r \in Requests, Key(r)
  PROVE  LakeInv'
<1> DEFINE k == [request[r] EXCEPT !.at = "bucket"]
           f == [k EXCEPT !.at = "failed"]
           m == [k EXCEPT !.secret = ~key]
<1>1. request[r].at \in Elsewhere /\ UNCHANGED <<warehouse, owners, vault, trino, file>>
      /\ key' \in BOOLEAN
  BY DEF Key, At, Keeps, Elsewhere, LakeInv
<1>2. To(r, m) \/ To(r, Hurt(f))
  BY Zenon DEF Key
<1>3. "bucket" \in Beyond /\ "failed" \in Labels \ {"legacy", "write", "create", "drop-again"}
  BY DEF Beyond, Elsewhere, Labels, Ends
<1>4. JobInv(k, warehouse, owners) /\ k \in Job /\ Owned(k, owners)
  BY <1>1, <1>3, MovesElsewhere
<1>5. k.at = "bucket"
  BY <1>1, On DEF Job
<1> HIDE DEF k
<1>6. f \in Job /\ Owned(f, owners)
  BY <1>3, <1>4, <1>5, Moves
<1>7. /\ m \in Job /\ m.at = k.at /\ m.op = k.op /\ m.name = k.name /\ m.id = k.id
      /\ m.made = k.made /\ m.candidates = k.candidates /\ m.hurt = k.hurt
  BY <1>4 DEF Job
<1> HIDE DEF f, m
<1>8. JobInv(m, warehouse, owners)
  BY <1>4, <1>5, <1>7 DEF JobInv, Owned, Healing, Resolving
<1>9. Jobs(request', warehouse, owners)
  BY <1>2, <1>6, <1>8, Goes, Fails
<1> QED
  BY <1>1, <1>9 DEF LakeInv

LEMMA BucketKeeps ==
  ASSUME LakeInv, NEW r \in Requests, Bucket(r)
  PROVE  LakeInv'
<1> DEFINE k == [request[r] EXCEPT !.at = "store-id"]
           f == [request[r] EXCEPT !.at = "failed"]
<1>1. Unseen /\ request[r].at \in Elsewhere
  BY DEF Bucket, Keeps, services, Unseen, At, Elsewhere
<1>2. To(r, Arrive(k)) \/ To(r, Hurt(f))
  BY Zenon DEF Bucket, Go
<1>3. "store-id" \in Beyond /\ "failed" \in Beyond
  BY DEF Beyond, Elsewhere
<1>4. JobInv(k, warehouse, owners) /\ f \in Job /\ Owned(f, owners)
  BY <1>1, <1>3, MovesElsewhere
<1> HIDE DEF k, f
<1>5. Jobs(request', warehouse, owners)
  BY <1>2, <1>4, Goes, Fails
<1> QED
  BY <1>1, <1>5, QuietJobs

(* The database is dropped: everyone is hurt, and no name is known.        *)
LEMMA EmptiedKeeps ==
  ASSUME LakeInv, NEW W, W = [n \in Names |-> 0]
  PROVE  Lakekeeper(W, owners) /\ Jobs(AllHurt, W, owners)
<1>1. Lakekeeper(W, owners)
  BY DEF LakeInv, Lakekeeper, Good
<1>2. \A q \in Requests : JobInv(Hurt(request[q]), W, owners)
  BY On, HurtKeeps, LakehouseAssumption
<1>3. Jobs(AllHurt, W, owners)
  BY <1>2 DEF Jobs, AllHurt
<1> QED
  BY <1>1, <1>3

LEMMA WipeKeeps ==
  ASSUME LakeInv, NEW r \in Requests, Wipe(r)
  PROVE  LakeInv'
<1> DEFINE k == [request[r] EXCEPT !.at = "forget-id"]
           h == [AllHurt[r] EXCEPT !.at = "forget-id"]
<1>1. request[r].at \in Elsewhere /\ UNCHANGED <<owners, key, vault, trino, file>>
  BY DEF Wipe, At, Keeps, Elsewhere
<1>2. \/ Emptied /\ request' = [AllHurt EXCEPT ![r].at = "forget-id"]
      \/ To(r, Hurt(k)) /\ UNCHANGED warehouse
  BY Zenon DEF Wipe
<1>3. "forget-id" \in Beyond
  BY DEF Beyond, Elsewhere
<1>4. CASE Emptied /\ request' = [AllHurt EXCEPT ![r].at = "forget-id"]
  <2>1. Lakekeeper(warehouse', owners) /\ Jobs(AllHurt, warehouse', owners)
    BY <1>4, EmptiedKeeps DEF Emptied
  <2>2. AllHurt[r] = Hurt(request[r]) /\ request' = [AllHurt EXCEPT ![r] = h]
    BY <1>4 DEF AllHurt
  <2>3. JobInv(AllHurt[r], warehouse', owners) /\ AllHurt[r].at = request[r].at
    BY <2>1, <2>2, On, HurtKeeps, LakehouseAssumption DEF Jobs
  <2> DEFINE i == AllHurt[r]
  <2>4. i \in Job /\ Owned(i, owners) /\ i.at # "idle" /\ ~(i.op = "open" /\ ~i.hurt)
    BY <1>1, <2>3 DEF JobInv, Elsewhere, Healing, Resolving
  <2> HIDE DEF i
  <2>5. "forget-id" \in Labels \ {"legacy", "write", "create", "drop-again"}
    BY DEF Labels
  <2> DEFINE k2 == [i EXCEPT !.at = "forget-id"]
  <2>6. k2 \in Job /\ Owned(k2, owners) /\ k2.op = i.op /\ k2.hurt = i.hurt
    BY <2>4, <2>5, Moves
  <2> HIDE DEF k2
  <2>7. JobInv(k2, warehouse', owners)
    BY <2>4, <2>6, NotOpen
  <2>8. Jobs([AllHurt EXCEPT ![r] = k2], warehouse', owners)
    BY <2>1, <2>7, OneMoves
  <2>9. Jobs(request', warehouse', owners)
    BY <2>2, <2>8 DEF k2, i
  <2> QED
    BY <1>1, <2>1, <2>9 DEF LakeInv
<1>5. CASE To(r, Hurt(k)) /\ UNCHANGED warehouse
  <2>1. k \in Job /\ Owned(k, owners)
    BY <1>1, <1>3, MovesElsewhere
  <2> HIDE DEF k
  <2>2. Jobs(request', warehouse, owners) /\ Unseen
    BY <1>1, <1>5, <2>1, Fails DEF Unseen
  <2> QED
    BY <2>2, QuietJobs
<1> QED
  BY <1>2, <1>4, <1>5

(* A request that is not there.                                            *)
LEMMA IdleKeeps ==
  ASSUME NEW W, NEW O
  PROVE  JobInv(Idle, W, O)
<1>1. Idle \in Job
  <2>1. "idle" \in Labels /\ "idle" \in Thens /\ <<>> \in Seq(Nat)
    BY DEF Labels, Thens
  <2> QED
    BY <2>1 DEF Idle, Job
<1>2. /\ Idle.at = "idle" /\ Idle.name = None /\ Idle.op = None
  BY DEF Idle
<1>3. None \notin Names /\ None # "open"
  BY LakehouseAssumption DEF LakehouseAssumption, Ops
<1>4. Owned(Idle, O) /\ Healing(Idle, W)
  BY <1>2, <1>3 DEF Owned, Healing
<1> QED
  BY <1>1, <1>4 DEF JobInv

LEMMA StartKeeps ==
  ASSUME LakeInv, NEW r \in Requests, Start(r)
  PROVE  LakeInv'
<1> DEFINE busy == {q \in Requests : q # r /\ (request[q].op \in Engines \/ request[q].hurt)}
<1>1. PICK op \in Ops, n \in Names :
        request' = [q \in Requests |->
          IF q = r THEN [Idle EXCEPT !.op = op, !.name = n, !.at = First[op],
                           !.then = After[op], !.alone = op \in Engines /\ busy = {}]
          ELSE IF op \in Engines /\ request[q].op \in Engines THEN [request[q] EXCEPT !.alone = FALSE] ELSE request[q]]
  BY Zenon DEF Start
<1> HIDE DEF busy
<1>3. Unseen
  BY DEF Start, services, Unseen
<1> DEFINE new == [Idle EXCEPT !.op = op, !.name = n, !.at = First[op],
                     !.then = After[op], !.alone = op \in Engines /\ busy = {}]
           Apart(q) == [request[q] EXCEPT !.alone = FALSE]
<1>4. /\ First[op] \in Labels \ {"idle", "legacy", "write", "create", "drop-again"}
      /\ After[op] \in Thens
      /\ op = "open" => First[op] = "cached" /\ After[op] = "list"
  BY DEF Ops, First, After, Labels, Thens
<1>5. JobInv(new, warehouse, owners)
  <2>1. Idle \in Job /\ Idle.id = 0 /\ Idle.made = 0 /\ Idle.candidates = <<>>
        /\ Idle.recovered = FALSE /\ Idle.hurt = FALSE
    BY IdleKeeps DEF JobInv, Idle
  <2>2. /\ new \in Job /\ new.op = op /\ new.name = n /\ new.at = First[op]
        /\ new.then = After[op] /\ new.id = 0 /\ new.made = 0 /\ new.candidates = <<>>
        /\ new.recovered = FALSE /\ new.hurt = FALSE
    BY <1>4, <2>1 DEF Job
  <2> HIDE DEF new
  <2>3. Owned(new, owners)
    BY <1>4, <2>2 DEF Owned, Good
  <2>4. Healing(new, warehouse)
    BY <1>4, <2>2 DEF Healing, Resolving
  <2> QED
    BY <2>2, <2>3, <2>4 DEF JobInv
<1>6. ASSUME NEW q \in Requests PROVE JobInv(Apart(q), warehouse, owners)
  <2> DEFINE j == request[q]
             k == [j EXCEPT !.alone = FALSE]
  <2>1. JobInv(j, warehouse, owners) /\ j \in Job
    BY On
  <2> HIDE DEF j
  <2>2. /\ k \in Job /\ k.at = j.at /\ k.op = j.op /\ k.name = j.name /\ k.id = j.id
        /\ k.made = j.made /\ k.then = j.then /\ k.candidates = j.candidates
        /\ k.recovered = j.recovered /\ k.hurt = j.hurt
    BY <2>1 DEF Job
  <2> HIDE DEF k
  <2>3. JobInv(k, warehouse, owners)
    BY <2>1, <2>2 DEF JobInv, Owned, Healing
  <2> QED
    BY <2>3 DEF k, j
<1>7. request' = [q \in Requests |-> IF q = r THEN new
                ELSE IF op \in Engines /\ request[q].op \in Engines THEN Apart(q) ELSE request[q]]
  BY <1>1, Zenon
<1> HIDE DEF new, Apart
<1>8. \A q \in Requests : request'[q] \in {new, Apart(q), request[q]}
  BY <1>7
<1>9. Jobs(request', warehouse, owners)
  <2>1. \A q \in Requests : JobInv(request'[q], warehouse, owners)
    BY <1>5, <1>6, <1>8, On
  <2>2. request' = [q \in Requests |-> request'[q]]
    BY <1>7
  <2> QED
    BY <2>1, <2>2 DEF Jobs
<1> QED
  BY <1>3, <1>9, QuietJobs

LEMMA RestartsKeep ==
  ASSUME LakeInv, DatabaseDropped \/ ConsoleRestarts \/ TrinoRestarts
  PROVE  LakeInv'
<1>1. CASE DatabaseDropped
  <2>1. UNCHANGED <<owners, key, vault, trino, file>> /\ Emptied /\ request' = AllHurt
    BY <1>1 DEF DatabaseDropped
  <2>2. Lakekeeper(warehouse', owners) /\ Jobs(request', warehouse', owners)
    BY <2>1, EmptiedKeeps DEF Emptied
  <2> QED
    BY <2>1, <2>2 DEF LakeInv
<1>2. CASE ConsoleRestarts
  <2>1. Unseen /\ request' = [r \in Requests |-> Idle]
    BY <1>2 DEF ConsoleRestarts, Keeps, services, Unseen
  <2>2. Jobs(request', warehouse, owners)
    BY <2>1, IdleKeeps DEF Jobs
  <2> QED
    BY <2>1, <2>2, QuietJobs
<1>3. CASE TrinoRestarts
  <2>1. UNCHANGED <<warehouse, owners, key, vault, file>> /\ trino' = file /\ request' = AllHurt
    BY <1>3 DEF TrinoRestarts, Keeps
  <2>2. \A q \in Requests : JobInv(Hurt(request[q]), warehouse, owners)
    BY On, HurtKeeps, LakehouseAssumption
  <2>3. Jobs(request', warehouse, owners)
    BY <2>1, <2>2 DEF Jobs, AllHurt
  <2> QED
    BY <2>1, <2>3 DEF LakeInv
<1> QED
  BY <1>1, <1>2, <1>3

LEMMA LeaveKeeps ==
  ASSUME LakeInv, NEW r \in Requests, Leave(r)
  PROVE  LakeInv'
<1>1. Unseen /\ To(r, Idle)
  BY DEF Leave, Keeps, services, Unseen
<1>2. Jobs(request', warehouse, owners)
  BY <1>1, IdleKeeps, Goes
<1> QED
  BY <1>1, <1>2, QuietJobs

-----------------------------------------------------------------------------
LEMMA LakeStart == LakeInit => LakeInv
<1> SUFFICES ASSUME LakeInit PROVE LakeInv
  OBVIOUS
<1>1. Lakekeeper(warehouse, owners) /\ key \in BOOLEAN
  <2>1. <<>> \in Seq(Names) /\ 0 \in Nat
    OBVIOUS
  <2> QED
    BY <2>1 DEF LakeInit, Lakekeeper, Good
<1>2. Vault(vault, owners)
  BY DEF LakeInit, Vault, Good, Askable, MayReach
<1>3. Holds(trino, owners) /\ Holds(file, owners)
  BY DEF LakeInit, Holds, Askable, MayReach
<1>4. Jobs(request, warehouse, owners)
  BY IdleKeeps DEF LakeInit, Jobs
<1> QED
  BY <1>1, <1>2, <1>3, <1>4 DEF LakeInv

LEMMA LakeStep == LakeInv /\ [LakeNext]_lakeVars => LakeInv'
<1> SUFFICES ASSUME LakeInv, [LakeNext]_lakeVars PROVE LakeInv'
  OBVIOUS
<1>1. CASE UNCHANGED lakeVars
  BY <1>1 DEF lakeVars, LakeInv
<1>2. ASSUME NEW r \in Requests, Start(r) PROVE LakeInv'
  BY <1>2, StartKeeps
<1>3. ASSUME NEW r \in Requests, Step(r) PROVE LakeInv'
  <2>1. CASE Cached(r) \/ Legacy(r) \/ Discover(r) \/ ListAll(r) \/ Remember(r) \/ RememberDefault(r)
    BY <2>1, CachedKeeps, LegacyKeeps, DiscoverKeeps, ListAllKeeps, RememberKeeps, RememberDefaultKeeps
  <2>2. CASE List(r) \/ Browse(r) \/ Change(r) \/ Credentials(r) \/ Post(r) \/ LookUp(r)
    BY <2>2, PagesKeep, CredentialsKeeps, PostKeeps, LookUpKeeps
  <2>3. CASE Keep(r) \/ Name(r) \/ Share(r) \/ Drop(r) \/ Write(r) \/ Create(r) \/ Cache(r)
    BY <2>3, KeepKeeps, NameKeeps, ShareKeeps, DropKeeps, WriteKeeps, CreateKeeps, CacheKeeps
  <2>4. CASE \/ Configure(r) \/ ReadCatalogs(r) \/ WriteCatalogs(r) \/ Key(r) \/ Bucket(r)
             \/ Store(r) \/ Wipe(r) \/ Forget(r) \/ Leave(r)
    BY <2>4, ConfigureKeeps, ReadCatalogsKeeps, WritesKeep, KeyKeeps, BucketKeeps, WipeKeeps, LeaveKeeps
  <2> QED
    BY <1>3, <2>1, <2>2, <2>3, <2>4 DEF Step
<1> QED
  BY <1>1, <1>2, <1>3, RestartsKeep DEF LakeNext

LEMMA LakeAlways == LakeSpec => []LakeInv
<1> QED
  BY LakeStart, LakeStep, PTL DEF LakeSpec

(* For any names and any number of requests, calls, failures, restarts and *)
(* wipes: but for the default name, no page and no cached identifier is    *)
(* ever of another warehouse, and no catalog of an engine of one that it   *)
(* is not named for.                                                       *)
THEOREM NeverMixed == LakeSpec => []OthersAreNeverMixed
<1>1. LakeInv => OthersAreNeverMixed
  <2> SUFFICES ASSUME LakeInv PROVE OthersAreNeverMixed
    OBVIOUS
  <2>1. ASSUME NEW n \in Names \ {Default}
        PROVE  /\ vault.id_of[n] = 0 \/ owners[vault.id_of[n]] = n
               /\ \A r \in Requests : request[r].name = n /\ At(r, "shown") =>
                    request[r].id = 0 \/ owners[request[r].id] = n
    BY <2>1, On DEF LakeInv, Vault, Good, Owned
  <2>2. DOMAIN owners = 1..Len(owners)
    BY DEF LakeInv, Lakekeeper
  <2>3. \A c \in Catalogs \ {Catalog(Default)} :
          MayReach(c, trino[c], owners) /\ MayReach(c, file[c], owners) /\ MayReach(c, vault.sail[c], owners)
    BY DEF LakeInv, Holds, Vault
  <2> QED
    BY <2>1, <2>2, <2>3, Zenon DEF OthersAreNeverMixed, MayReach
<1> QED
  BY <1>1, LakeAlways, PTL

(* For any names and any number of requests: the page of a warehouse that  *)
(* nothing hurt never fails, whatever stale identifier it began with.      *)
THEOREM PagesAlwaysHeal == LakeSpec => []PagesHealThemselves
<1>1. LakeInv => PagesHealThemselves
  BY On DEF PagesHealThemselves, Healing, Resolving, At
<1> QED
  BY <1>1, LakeAlways, PTL

-----------------------------------------------------------------------------
(* A bootstrap from the form, once it is alone.                            *)

(* The labels of a request to the engines.                                 *)
Loud == {"candidates", "wiring", "caching", "sail", "configure", "cache", "drop", "drop-again",
         "write", "create", "read-catalogs", "write-catalogs",
         "wipe", "forget-id", "forget-name", "forget-catalogs"}

(* Only a request to the engines is at them; only pages and Garage's own   *)
(* bootstrap make a warehouse besides.                                     *)
Tame(j) ==
  /\ j.at # "idle" => j.op \in Ops
  /\ j.op \notin Engines =>
       /\ j.at \notin Loud /\ j.then \notin Loud
       /\ j.at \in {"list", "again"} \/ j.then \in {"list", "again"} => j.op = "open"
       /\ j.at \in {"credentials", "post", "look-up"} => j.op \in {"open", "auto"}

(* What is about to be cached is what Lakekeeper has.                      *)
Fresh(j, W) == j.at = "remember" => j.id # 0 /\ W[j.name] = j.id

Booting(j) == j.op = "submit" /\ ~j.hurt /\ j.alone

(* How far a bootstrap has come, label by label.                           *)
Boot(j, E, W, v, t, f) ==
  LET n == j.name  w == W[n] IN
  /\ j.at \in {"post", "look-up", "keep", "name", "share", "wiring", "cached", "legacy",
               "candidates", "config", "remember", "remember-default", "drop", "write", "create",
               "caching", "cache", "sail", "configure", "read-catalogs", "write-catalogs", "ok"}
  /\ j.at # "post" => w # 0
  /\ j.at \notin {"post", "look-up"} => j.made = w
  /\ j.at \in {"keep", "name", "share", "remember", "remember-default", "caching", "cache", "configure"}
       => j.id = w
  /\ j.at \in {"post", "look-up", "keep", "name"} => j.then = "wiring"
  /\ j.at = "share" => j.then \in {"wiring", "cache"}
  /\ j.at \in {"cached", "legacy"} => j.then = "candidates"
  /\ j.at \in {"config", "remember", "remember-default"} => j.then \in {"candidates", "drop", "caching"}
  /\ j.at \in {"config", "remember", "remember-default"} /\ j.then = "drop"
       => j.candidates # <<>> /\ Head(j.candidates) = 0
  /\ j.at \in {"drop", "write", "create"}
       => j.then = "drop" /\ j.candidates # <<>> /\ Head(j.candidates) = 0
  /\ j.at \in {"write", "create"} => t[Catalog(n)] = None
  /\ j.at = "create" => f[Catalog(n)] = n
  /\ j.at \in {"caching", "cache"} => j.then \in {"caching", "cache"}
  /\ j.then \in {"caching", "cache"} => t[Catalog(n)] = n /\ f[Catalog(n)] = n
  /\ "trino" \in E /\ j.at \in {"sail", "configure", "read-catalogs", "write-catalogs", "ok"}
       => j.then \in {"caching", "cache"} /\ v.id_of[n] = w
  /\ "sail" \in E /\ j.at \in {"read-catalogs", "write-catalogs", "ok"} => v.sail[Catalog(n)] = w
  /\ "sail" \in E /\ j.at = "ok" => Catalog(n) \in v.catalogs

(* One request is alone at the engines; what the others write to the cache *)
(* is what Lakekeeper has; and a bootstrap that nothing hurt is on its way.*)
BootInv ==
  /\ \A r \in Requests : Tame(request[r])
  /\ \A r, q \in Requests : r # q /\ request[r].op \in Engines /\ request[r].alone => request[q].op \notin Engines
  /\ \A q \in Requests : ~request[q].hurt \/ (\E r \in Requests : Booting(request[r])) => Fresh(request[q], warehouse)
  /\ \A r \in Requests :
       Booting(request[r]) => Boot(request[r], engines, warehouse, vault, trino, file)

LEMMA OnBoot ==
  ASSUME LakeInv, BootInv, NEW r \in Requests
  PROVE  /\ request[r] \in Job /\ Tame(request[r]) /\ (request[r].at # "idle" => request[r].name \in Names)
         /\ Booting(request[r]) => Boot(request[r], engines, warehouse, vault, trino, file)
  BY On DEF BootInv, Owned

(* What a request leaves to the others.                                    *)
Gentle(r) ==
  /\ \A n \in Names : warehouse[n] # 0 => warehouse'[n] = warehouse[n]
  /\ request[r].op \notin Engines =>
       /\ trino' = trino /\ file' = file
       /\ vault'.sail = vault.sail /\ vault'.catalogs = vault.catalogs
       /\ Fresh(request[r], warehouse) =>
            \A n \in Names : warehouse[n] # 0 /\ vault.id_of[n] = warehouse[n]
                               => vault'.id_of[n] = warehouse[n]

Leads(j, k) == k.op = j.op /\ k.name = j.name /\ k.alone = j.alone /\ (j.hurt => k.hurt)

LEMMA BootStays ==
  ASSUME NEW j, NEW W, NEW v, NEW t, NEW f, Boot(j, engines, W, v, t, f),
         NEW W2, NEW v2, W[j.name] # 0 => W2[j.name] = W[j.name],
         v2.sail = v.sail, v2.catalogs = v.catalogs,
         W[j.name] # 0 /\ v.id_of[j.name] = W[j.name] => v2.id_of[j.name] = W[j.name]
  PROVE  Boot(j, engines, W2, v2, t, f)
<1> DEFINE n == j.name
<1>1. CASE W[n] = 0
  <2>1. j.at = "post"
    BY <1>1 DEF Boot
  <2> QED
    BY <2>1 DEF Boot
<1>2. CASE W[n] # 0
  BY <1>2 DEF Boot
<1> QED
  BY <1>1, <1>2

LEMMA BootMoves ==
  ASSUME LakeInv, BootInv, NEW r \in Requests, NEW k, To(r, k), UNCHANGED engines,
         k.op = None \/ Leads(request[r], k), Tame(k), Fresh(k, warehouse'),
         Booting(k) => Boot(k, engines, warehouse', vault', trino', file'),
         Gentle(r)
  PROVE  BootInv'
<1>1. \A q \in Requests : request'[q] = IF q = r THEN k ELSE request[q]
  BY DEF To, LakeInv, Jobs
<1>2. None \notin Engines /\ "submit" \in Engines /\ None # "submit"
  BY LakehouseAssumption DEF LakehouseAssumption, Engines, Ops
<1>3. Booting(k) => Booting(request[r])
  BY <1>2 DEF Booting, Leads
<1>4. \A q \in Requests : Tame(request'[q])
  BY <1>1 DEF BootInv
<1>5. \A p, q \in Requests : p # q /\ request'[p].op \in Engines /\ request'[p].alone => request'[q].op \notin Engines
  BY <1>1, <1>2 DEF BootInv, Leads
<1>6. \A q \in Requests : ~request'[q].hurt \/ (\E p \in Requests : Booting(request'[p]))
        => Fresh(request'[q], warehouse')
  <2> SUFFICES ASSUME NEW q \in Requests, q # r,
                      ~request[q].hurt \/ (\E p \in Requests : Booting(request'[p]))
               PROVE  Fresh(request[q], warehouse')
    BY <1>1
  <2>1. ~request[q].hurt \/ \E p \in Requests : Booting(request[p])
    BY <1>1, <1>3
  <2>2. Fresh(request[q], warehouse)
    BY <2>1 DEF BootInv
  <2>3. request[q].at = "remember" => request[q].name \in Names
    BY OnBoot
  <2> QED
    BY <2>2, <2>3 DEF Fresh, Gentle
<1>7. ASSUME NEW q \in Requests, Booting(request'[q])
      PROVE  Boot(request'[q], engines, warehouse', vault', trino', file')
  <2>1. CASE q = r
    BY <1>1, <1>7, <2>1
  <2>2. CASE q # r
    <3>1. request'[q] = request[q]
      BY <1>1, <2>2
    <3>2. Boot(request[q], engines, warehouse, vault, trino, file) /\ request[q].op \in Engines /\ request[q].alone
      BY <1>2, <1>7, <3>1 DEF BootInv, Booting
    <3>3. request[r].op \notin Engines /\ Fresh(request[r], warehouse)
      BY <1>7, <2>2, <3>1, <3>2 DEF BootInv
    <3>4. request[q].name \in Names
      <4>1. request[q].at # "idle"
        BY <3>2 DEF Boot
      <4> QED
        BY <4>1, OnBoot
    <3>5. /\ trino' = trino /\ file' = file /\ vault'.sail = vault.sail /\ vault'.catalogs = vault.catalogs
          /\ warehouse[request[q].name] # 0 => warehouse'[request[q].name] = warehouse[request[q].name]
          /\ warehouse[request[q].name] # 0 /\ vault.id_of[request[q].name] = warehouse[request[q].name]
               => vault'.id_of[request[q].name] = warehouse[request[q].name]
      BY <3>3, <3>4 DEF Gentle
    <3> QED
      BY <3>1, <3>2, <3>5, BootStays
  <2> QED
    BY <2>1, <2>2
<1> QED
  BY <1>4, <1>5, <1>6, <1>7 DEF BootInv

(* A request turns to Sail: it is done if there is none.                   *)
LEMMA Skipped ==
  ASSUME NEW j,
         \/ j.at = "wiring" /\ "trino" \notin engines
         \/ j.at = "again" /\ j.op # "open" /\ ~(j.op = "wire" /\ j.id # 0)
         \/ j.at = "caching" /\ j.id = 0
         \/ j.at = "sail"
  PROVE  Arrive(j) = ToSail(j)
<1>1. CASE j.at = "wiring" /\ "trino" \notin engines
  BY <1>1, Zenon DEF Arrive, Resolves
<1>2. CASE j.at = "again" /\ j.op # "open" /\ ~(j.op = "wire" /\ j.id # 0)
  BY <1>2, Zenon DEF Arrive, Resolves
<1>3. CASE j.at = "caching" /\ j.id = 0
  BY <1>3, Zenon DEF Arrive, Resolves
<1>4. CASE j.at = "sail"
  BY <1>4, Zenon DEF Arrive, Resolves
<1> QED
  BY <1>1, <1>2, <1>3, <1>4

LEMMA TurnedToSail ==
  ASSUME NEW j \in Job, Tame(j), j.op \in Engines, NEW W, NEW v, NEW t, NEW f,
         Booting(j) =>
           /\ W[j.name] # 0 /\ j.made = W[j.name]
           /\ "trino" \in engines => j.then \in {"caching", "cache"} /\ v.id_of[j.name] = W[j.name]
           /\ j.then \in {"caching", "cache"} =>
                t[Catalog(j.name)] = j.name /\ f[Catalog(j.name)] = j.name
  PROVE  LET k == ToSail(j) IN
         /\ Leads(j, k) /\ Tame(k) /\ k.at # "remember"
         /\ Booting(k) => Boot(k, engines, W, v, t, f)
<1> DEFINE Fits(k) == /\ Leads(j, k) /\ Tame(k) /\ k.at # "remember"
                      /\ Booting(k) => Boot(k, engines, W, v, t, f)
<1>0. "ok" \in Labels
  BY DEF Labels, Ends
<1>1. CASE "sail" \notin engines
  <2> DEFINE k == [j EXCEPT !.at = "ok"]
  <2>1. /\ k.at = "ok" /\ k.op = j.op /\ k.name = j.name /\ k.hurt = j.hurt /\ k.alone = j.alone
        /\ k.made = j.made /\ k.then = j.then
    BY <1>0, Turned
  <2>2. ToSail(j) = k
    BY <1>1, Zenon DEF ToSail, Resolves
  <2> HIDE DEF k
  <2>3. Fits(k)
    BY <1>1, <2>1 DEF Leads, Tame, Boot, Booting, Engines, Ops
  <2> QED
    BY <2>2, <2>3
<1>2. CASE "sail" \in engines /\ j.op = "submit" /\ j.made # 0
  <2> DEFINE k == [j EXCEPT !.id = j.made, !.at = "configure"]
  <2>1. /\ k.at = "configure" /\ k.op = j.op /\ k.name = j.name /\ k.id = j.made
        /\ k.made = j.made /\ k.then = j.then /\ k.hurt = j.hurt /\ k.alone = j.alone
    BY DEF Job
  <2>2. ToSail(j) = k
    BY <1>2, Zenon DEF ToSail, Resolves
  <2> HIDE DEF k
  <2>3. Fits(k)
    BY <2>1 DEF Leads, Tame, Boot, Booting, Engines, Ops
  <2> QED
    BY <2>2, <2>3
<1>3. CASE "sail" \in engines /\ ~(j.op = "submit" /\ j.made # 0)
  <2> DEFINE k == [j EXCEPT !.at = "cached", !.then = "configure"]
  <2>1. /\ k.at = "cached" /\ k.op = j.op /\ k.name = j.name /\ k.hurt = j.hurt
        /\ k.alone = j.alone
    BY DEF Job
  <2>2. ToSail(j) = k
    BY <1>3, Zenon DEF ToSail, Resolves
  <2> HIDE DEF k
  <2>3. Fits(k)
    BY <1>3, <2>1 DEF Leads, Tame, Booting, Engines, Ops
  <2> QED
    BY <2>2, <2>3
<1> QED
  BY <1>1, <1>2, <1>3

(* The turns without a call keep it.                                       *)
LEMMA ArriveBoots ==
  ASSUME NEW j \in Job, Tame(j), j.at # "remember",
         NEW W, NEW v, NEW t, NEW f,
         Booting(j) => Boot(j, engines, W, v, t, f)
  PROVE  LET k == Arrive(j) IN
         /\ Leads(j, k) /\ Tame(k) /\ k.at # "remember"
         /\ Booting(k) => Boot(k, engines, W, v, t, f)
<1> DEFINE Fits(k) == /\ Leads(j, k) /\ Tame(k) /\ k.at # "remember"
                      /\ Booting(k) => Boot(k, engines, W, v, t, f)
<1> SUFFICES Fits(Arrive(j))
  OBVIOUS
<1>0. /\ "ok" \in Labels /\ "config" \in Labels /\ "cached" \in Labels /\ "share" \in Labels
      /\ "configure" \in Labels /\ "failed" \in Labels /\ "list" \in Labels
      /\ "candidates" \in Thens /\ "configure" \in Thens /\ "cache" \in Thens /\ "drop" \in Thens
  BY DEF Labels, Thens, Ends
<1>1. CASE j.at \notin Turns
  <2>1. Arrive(j) = j
    BY <1>1 DEF Arrive, Resolves, ToSail, Turns
  <2> QED
    BY <2>1 DEF Leads
<1>2. CASE j.at = "candidates"
  <2> DEFINE cs == IF j.id = 0 THEN <<0>> ELSE <<0, j.id>>
             k == [j EXCEPT !.candidates = cs, !.at = "config", !.then = "drop"]
  <2>1. Arrive(j) = k
    BY <1>2, Zenon DEF Arrive, Resolves
  <2>2. cs # <<>> /\ Head(cs) = 0
    OBVIOUS
  <2> HIDE DEF cs
  <2>3. /\ k.at = "config" /\ k.op = j.op /\ k.name = j.name /\ k.id = j.id
        /\ k.made = j.made /\ k.then = "drop" /\ k.candidates = cs /\ k.hurt = j.hurt
        /\ k.alone = j.alone
    BY DEF Job
  <2> HIDE DEF k
  <2>4. j.op \in Engines
    BY <1>2 DEF Tame, Loud
  <2>5. Leads(j, k) /\ Tame(k) /\ k.at # "remember"
    BY <1>2, <2>3, <2>4 DEF Leads, Tame
  <2>6. Booting(k) => Boot(k, engines, W, v, t, f)
    BY <1>2, <2>2, <2>3 DEF Boot, Booting
  <2>7. Fits(k)
    BY <2>5, <2>6
  <2> QED
    BY <2>1, <2>7
<1>3. CASE j.at = "again" /\ j.op = "open"
  <2> DEFINE l == IF j.id = 0 THEN "failed" ELSE "list"
             k == [j EXCEPT !.at = l]
  <2>1. Arrive(j) = k
    <3>1. /\ j.at # "candidates" /\ j.op # "wire" /\ j.at # "wiring" /\ j.at # "caching"
          /\ j.at # "sail" /\ j.op # "submit"
      BY <1>3
    <3> QED
      BY <1>3, <3>1, Zenon DEF Arrive, Resolves
  <2>2. l \in Labels /\ l \in {"failed", "list"}
    BY <1>0
  <2> HIDE DEF l
  <2>3. /\ k.at = l /\ k.op = j.op /\ k.name = j.name /\ k.then = j.then /\ k.hurt = j.hurt
        /\ k.alone = j.alone
    BY <2>2, Turned
  <2> HIDE DEF k
  <2>4. Leads(j, k) /\ Tame(k) /\ k.at # "remember" /\ ~Booting(k)
    BY <1>3, <2>2, <2>3 DEF Leads, Tame, Loud, Booting
  <2>5. Fits(k)
    BY <2>4
  <2> QED
    BY <2>1, <2>5
<1>4. CASE j.at \in Turns \ {"candidates"} /\ ~(j.at = "again" /\ j.op = "open")
  <2>1. j.op \in Engines
    BY <1>4 DEF Tame, Loud, Turns
  <2>2. ASSUME NEW k, k.op = j.op, k.name = j.name, k.hurt = j.hurt, k.alone = j.alone,
               k.at \notin {"idle", "remember"}
        PROVE  Leads(j, k) /\ Tame(k) /\ k.at # "remember"
    BY <1>4, <2>1, <2>2 DEF Leads, Tame, Turns
  <2>3. CASE j.at = "wiring"
    <3>1. CASE "trino" \in engines
      <4> DEFINE k == [j EXCEPT !.at = "cached", !.then = "candidates"]
      <4>1. Arrive(j) = k
        BY <2>3, <3>1, Zenon DEF Arrive, Resolves
      <4>2. /\ k.at = "cached" /\ k.op = j.op /\ k.name = j.name /\ k.id = j.id
            /\ k.made = j.made /\ k.then = "candidates" /\ k.hurt = j.hurt /\ k.alone = j.alone
        BY DEF Job
      <4> HIDE DEF k
      <4>3. Booting(k) => Boot(k, engines, W, v, t, f)
        BY <2>3, <4>2 DEF Boot, Booting
      <4>4. Fits(k)
        BY <2>2, <4>2, <4>3
      <4> QED
        BY <4>1, <4>4
    <3>2. CASE "trino" \notin engines
      <4>1. Arrive(j) = ToSail(j)
        BY <2>3, <3>2, Skipped
      <4>2. Booting(j) =>
              /\ W[j.name] # 0 /\ j.made = W[j.name]
              /\ j.then \in {"caching", "cache"} =>
                   t[Catalog(j.name)] = j.name /\ f[Catalog(j.name)] = j.name
        BY <2>3 DEF Boot
      <4>3. Fits(ToSail(j))
        BY <2>1, <3>2, <4>2, TurnedToSail
      <4> QED
        BY <4>1, <4>3
    <3> QED
      BY <3>1, <3>2
  <2>4. CASE j.at = "again" /\ j.op = "wire" /\ j.id # 0
    <3> DEFINE k == [j EXCEPT !.at = "cached", !.then = "candidates"]
    <3>1. Arrive(j) = k
      BY <2>4, Zenon DEF Arrive, Resolves
    <3>2. k.at = "cached" /\ k.op = j.op /\ k.name = j.name /\ k.hurt = j.hurt /\ k.alone = j.alone
      BY DEF Job
    <3> HIDE DEF k
    <3>3. ~Booting(k)
      BY <2>4, <3>2 DEF Booting
    <3>4. Fits(k)
      BY <2>2, <3>2, <3>3
    <3> QED
      BY <3>1, <3>4
  <2>5. CASE j.at = "caching" /\ j.id # 0
    <3> DEFINE k == [j EXCEPT !.at = "share", !.then = "cache"]
    <3>1. Arrive(j) = k
      BY <2>5, Zenon DEF Arrive, Resolves
    <3>2. /\ k.at = "share" /\ k.op = j.op /\ k.name = j.name /\ k.id = j.id
          /\ k.made = j.made /\ k.then = "cache" /\ k.hurt = j.hurt /\ k.alone = j.alone
      BY DEF Job
    <3> HIDE DEF k
    <3>3. Booting(k) => Boot(k, engines, W, v, t, f)
      BY <2>5, <3>2 DEF Boot, Booting
    <3>4. Fits(k)
      BY <2>2, <3>2, <3>3
    <3> QED
      BY <3>1, <3>4
  <2>6. CASE \/ j.at = "again" /\ ~(j.op = "wire" /\ j.id # 0)
             \/ j.at = "caching" /\ j.id = 0
             \/ j.at = "sail"
    <3>1. Arrive(j) = ToSail(j)
      BY <1>4, <2>6, Skipped
    <3>2. Booting(j) => j.at = "sail"
      BY <2>6 DEF Boot
    <3>3. Booting(j) =>
            /\ W[j.name] # 0 /\ j.made = W[j.name]
            /\ "trino" \in engines => j.then \in {"caching", "cache"} /\ v.id_of[j.name] = W[j.name]
            /\ j.then \in {"caching", "cache"} =>
                 t[Catalog(j.name)] = j.name /\ f[Catalog(j.name)] = j.name
      BY <3>2 DEF Boot
    <3>4. Fits(ToSail(j))
      BY <2>1, <3>3, TurnedToSail
    <3> QED
      BY <3>1, <3>4
  <2> QED
    BY <1>4, <2>3, <2>4, <2>5, <2>6 DEF Turns
<1> QED
  BY <1>1, <1>2, <1>3, <1>4

LEMMA BootGoes ==
  ASSUME LakeInv, BootInv, NEW r \in Requests, NEW m \in Job, UNCHANGED engines,
         Leads(request[r], m), Tame(m), m.at # "remember", To(r, m) \/ To(r, Arrive(m)),
         Booting(m) => Boot(m, engines, warehouse', vault', trino', file'), Gentle(r)
  PROVE  BootInv'
<1> DEFINE k == Arrive(m)
<1>1. /\ Leads(m, k) /\ Tame(k) /\ k.at # "remember"
      /\ Booting(k) => Boot(k, engines, warehouse', vault', trino', file')
  BY ArriveBoots DEF BootInv
<1> HIDE DEF k
<1>2. Leads(request[r], k)
  BY <1>1 DEF Leads
<1>3. CASE To(r, m)
  BY <1>3, BootMoves DEF Fresh
<1>4. CASE To(r, k)
  BY <1>1, <1>2, <1>4, BootMoves DEF Fresh
<1> QED
  BY <1>3, <1>4 DEF k

LEMMA BootFails ==
  ASSUME LakeInv, BootInv, NEW r \in Requests, NEW m \in Job, UNCHANGED engines,
         Leads(request[r], m), Tame(m), m.at # "remember",
         To(r, Hurt(m)) \/ To(r, Arrive(Hurt(m))), Gentle(r)
  PROVE  BootInv'
<1> DEFINE k == Hurt(m)
<1>1. /\ k \in Job /\ k.at = m.at /\ k.op = m.op /\ k.name = m.name /\ k.then = m.then
      /\ k.alone = m.alone /\ k.hurt = (m.op # None)
  BY DEF Job, Hurt
<1> HIDE DEF k
<1>2. None # "submit"
  BY LakehouseAssumption DEF LakehouseAssumption, Ops
<1>3. Tame(k) /\ ~Booting(k) /\ (k.op = None \/ Leads(request[r], k))
  BY <1>1, <1>2 DEF Tame, Booting, Leads
<1>4. CASE k.op = None
  <2>1. k.at = "idle"
    BY <1>3, <1>4, LakehouseAssumption DEF Tame, LakehouseAssumption
  <2>2. Arrive(k) = k
    BY <2>1 DEF Arrive
  <2> QED
    BY <1>1, <1>3, <1>4, <2>2, BootMoves DEF k, Fresh
<1>5. CASE Leads(request[r], k)
  BY <1>1, <1>3, <1>5, BootGoes DEF k
<1> QED
  BY <1>3, <1>4, <1>5

-----------------------------------------------------------------------------
(* Every call keeps it.                                                    *)

Held == UNCHANGED <<engines, warehouse, vault, trino, file>>

LEMMA HeldIsGentle ==
  ASSUME NEW r \in Requests, Held
  PROVE  Gentle(r)
  BY DEF Held, Gentle

(* Where a request goes from here, and what it then has.                   *)
LEMMA BootHeld ==
  ASSUME LakeInv, BootInv, NEW r \in Requests, NEW m \in Job, Held,
         Leads(request[r], m), Tame(m), m.at # "remember",
         \/ /\ To(r, m) \/ To(r, Arrive(m))
            /\ Booting(m) => Boot(m, engines, warehouse, vault, trino, file)
         \/ To(r, Hurt(m)) \/ To(r, Arrive(Hurt(m)))
  PROVE  BootInv'
<1>1. Gentle(r) /\ UNCHANGED engines
  BY HeldIsGentle DEF Held
<1>2. CASE /\ To(r, m) \/ To(r, Arrive(m))
           /\ Booting(m) => Boot(m, engines, warehouse, vault, trino, file)
  <2>1. Booting(m) => Boot(m, engines, warehouse', vault', trino', file')
    BY <1>2 DEF Held
  <2> QED
    BY <1>1, <1>2, <2>1, BootGoes
<1>3. CASE To(r, Hurt(m)) \/ To(r, Arrive(Hurt(m)))
  BY <1>1, <1>3, BootFails
<1> QED
  BY <1>2, <1>3

LEMMA BootTakes ==
  ASSUME LakeInv, BootInv, NEW r \in Requests, request[r].at \in {"cached", "legacy"},
         NEW id \in Nat, Take(r, id), Held
  PROVE  BootInv'
<1> DEFINE j == request[r]
           l == IF id # 0 THEN j.then ELSE "config"
           k == [j EXCEPT !.id = id, !.at = l]
<1>1. /\ j \in Job /\ Tame(j) /\ j.at \in {"cached", "legacy"}
      /\ Booting(j) => Boot(j, engines, warehouse, vault, trino, file)
  BY OnBoot
<1>2. To(r, Arrive(k))
  BY DEF Take
<1> HIDE DEF j
<1>3. l \in Labels /\ l \in {"config", j.then} /\ l \in Thens \cup {"config"}
  BY <1>1 DEF Job, Labels
<1> HIDE DEF l
<1>4. /\ k \in Job /\ k.at = l /\ k.op = j.op /\ k.name = j.name /\ k.id = id
      /\ k.made = j.made /\ k.then = j.then /\ k.candidates = j.candidates
      /\ k.hurt = j.hurt /\ k.alone = j.alone
  BY <1>1, <1>3 DEF Job
<1> HIDE DEF k
<1>5. Leads(j, k) /\ Tame(k) /\ k.at # "remember"
  BY <1>1, <1>3, <1>4 DEF Leads, Tame, Thens, Loud
<1>6. Booting(k) => Boot(k, engines, warehouse, vault, trino, file)
  BY <1>1, <1>3, <1>4 DEF Boot, Booting
<1> QED
  BY <1>2, <1>4, <1>5, <1>6, BootHeld DEF j

LEMMA CachedBoots ==
  ASSUME LakeInv, BootInv, NEW r \in Requests, Cached(r)
  PROVE  BootInv'
<1> DEFINE j == request[r]
           k == [j EXCEPT !.at = "legacy"]
<1>1. Held /\ j.at = "cached"
  BY DEF Cached, Keeps, services, Held, At
<1>2. /\ j \in Job /\ Tame(j) /\ j.name \in Names
      /\ Booting(j) => Boot(j, engines, warehouse, vault, trino, file)
  BY <1>1, OnBoot
<1>3. CASE vault.id_of[j.name] = 0 /\ j.name = Default
  <2>1. To(r, Arrive(k))
    BY <1>3 DEF Cached, Go
  <2> HIDE DEF j
  <2>2. "legacy" \in Labels
    BY DEF Labels
  <2>3. /\ k \in Job /\ k.at = "legacy" /\ k.op = j.op /\ k.name = j.name /\ k.id = j.id
        /\ k.made = j.made /\ k.then = j.then /\ k.candidates = j.candidates
        /\ k.hurt = j.hurt /\ k.alone = j.alone
    BY <1>2, <2>2, Turned
  <2> HIDE DEF k
  <2>4. Leads(j, k) /\ Tame(k) /\ k.at # "remember"
    BY <1>1, <1>2, <2>3 DEF Leads, Tame, Loud
  <2>5. Booting(k) => Boot(k, engines, warehouse, vault, trino, file)
    BY <1>1, <1>2, <2>3 DEF Boot, Booting
  <2> QED
    BY <1>1, <2>1, <2>3, <2>4, <2>5, BootHeld DEF j
<1>4. CASE ~(vault.id_of[j.name] = 0 /\ j.name = Default)
  <2>1. Take(r, vault.id_of[j.name]) /\ vault.id_of[j.name] \in Nat
    BY <1>2, <1>4 DEF Cached, LakeInv, Vault
  <2> QED
    BY <1>1, <2>1, BootTakes
<1> QED
  BY <1>3, <1>4

LEMMA LegacyBoots ==
  ASSUME LakeInv, BootInv, NEW r \in Requests, Legacy(r)
  PROVE  BootInv'
<1>1. Held /\ request[r].at = "legacy" /\ Take(r, vault.shared) /\ vault.shared \in Nat
  BY DEF Legacy, Keeps, services, Held, At, LakeInv, Vault
<1> QED
  BY <1>1, BootTakes

LEMMA FindsBoots ==
  ASSUME LakeInv, BootInv, NEW r \in Requests, request[r].at \in {"config", "list-all"},
         NEW l, Finds(r, l), l \in {request[r].then, "list-all"}
  PROVE  BootInv'
<1> DEFINE j == request[r]
           id == warehouse[j.name]
           k == [j EXCEPT !.id = id, !.at = "remember"]
           m == [j EXCEPT !.id = 0, !.at = l]
<1>1. Held
  BY DEF Finds, Keeps, services, Held
<1>2. \/ id # 0 /\ To(r, k)
      \/ id = 0 /\ To(r, Arrive(m))
      \/ To(r, Arrive(Hurt(m)))
  BY Zenon DEF Finds
<1>3. /\ j \in Job /\ Tame(j) /\ j.at \in {"config", "list-all"} /\ j.name \in Names
      /\ l \in {j.then, "list-all"}
      /\ Booting(j) => Boot(j, engines, warehouse, vault, trino, file)
  BY OnBoot
<1>4. id \in Nat
  BY <1>3 DEF LakeInv, Lakekeeper
<1> HIDE DEF j
<1>5. l \in Labels /\ "remember" \in Labels /\ l \in Thens \cup {"list-all"}
  BY <1>3 DEF Labels, Job
<1>6. /\ m \in Job /\ m.at = l /\ m.op = j.op /\ m.name = j.name
      /\ m.then = j.then /\ m.hurt = j.hurt /\ m.alone = j.alone
  BY <1>3, <1>5 DEF Job
<1>7. /\ k.at = "remember" /\ k.op = j.op /\ k.name = j.name /\ k.id = id
      /\ k.made = j.made /\ k.then = j.then /\ k.candidates = j.candidates
      /\ k.hurt = j.hurt /\ k.alone = j.alone
  BY <1>3, <1>4, <1>5 DEF Job
<1> HIDE DEF k, m
<1>8. Leads(j, m) /\ Tame(m) /\ m.at # "remember"
  BY <1>3, <1>5, <1>6 DEF Leads, Tame, Loud, Thens
<1>9. CASE To(r, Arrive(Hurt(m)))
  BY <1>1, <1>6, <1>8, <1>9, BootHeld DEF j
<1>10. CASE id = 0 /\ To(r, Arrive(m))
  <2>1. ~Booting(m)
    BY <1>3, <1>6, <1>10 DEF Boot, Booting
  <2> QED
    BY <1>1, <1>6, <1>8, <1>10, <2>1, BootHeld DEF j
<1>11. CASE id # 0 /\ To(r, k)
  <2>1. Leads(j, k) /\ Tame(k) /\ Fresh(k, warehouse')
    BY <1>1, <1>3, <1>7, <1>11 DEF Leads, Tame, Loud, Fresh, Held
  <2>2. Booting(k) => Boot(k, engines, warehouse, vault, trino, file)
    BY <1>3, <1>7 DEF Boot, Booting
  <2>3. Booting(k) => Boot(k, engines, warehouse', vault', trino', file')
    BY <1>1, <2>2 DEF Held
  <2>4. Gentle(r) /\ UNCHANGED engines
    BY <1>1, HeldIsGentle DEF Held
  <2> QED
    BY <1>11, <2>1, <2>3, <2>4, BootMoves DEF j
<1> QED
  BY <1>2, <1>9, <1>10, <1>11

LEMMA DiscoverBoots ==
  ASSUME LakeInv, BootInv, NEW r \in Requests, Discover(r) \/ ListAll(r)
  PROVE  BootInv'
<1>1. CASE Discover(r)
  <2>1. request[r].at = "config" /\ Finds(r, Asks(request[r])) /\ Asks(request[r]) \in {request[r].then, "list-all"}
    BY <1>1 DEF Discover, At, Asks
  <2> QED
    BY <2>1, FindsBoots
<1>2. CASE ListAll(r)
  <2>1. request[r].at = "list-all" /\ Finds(r, request[r].then)
    BY <1>2 DEF ListAll, At
  <2> QED
    BY <2>1, FindsBoots
<1> QED
  BY <1>1, <1>2

(* A write to the vault: it is made, or its failure ignored.               *)
LEMMA BootPuts ==
  ASSUME LakeInv, BootInv, NEW r \in Requests, NEW label \in Labels \ {"remember"}, NEW new,
         Put(r, new, label), UNCHANGED services, request[r].at # "idle",
         Tame([request[r] EXCEPT !.at = label]),
         Booting(request[r]) =>
           Boot([request[r] EXCEPT !.at = label], engines, warehouse, new, trino, file),
         request[r].op \notin Engines =>
           /\ new.sail = vault.sail /\ new.catalogs = vault.catalogs
           /\ Fresh(request[r], warehouse) =>
                \A n \in Names : warehouse[n] # 0 /\ vault.id_of[n] = warehouse[n]
                                   => new.id_of[n] = warehouse[n]
  PROVE  BootInv'
<1> DEFINE j == request[r]
           k == [j EXCEPT !.at = label]
<1>1. \/ vault' = new /\ To(r, Arrive(k))
      \/ vault' = vault /\ To(r, Arrive(Hurt(k)))
  BY Zenon DEF Put, Go
<1>2. j \in Job
  BY OnBoot
<1>3. /\ Tame(k)
      /\ Booting(j) => Boot(k, engines, warehouse, new, trino, file)
  OBVIOUS
<1>4. UNCHANGED <<engines, warehouse, trino, file>>
  BY DEF services
<1>5. Gentle(r)
  BY <1>1, <1>4, Zenon DEF Gentle
<1> HIDE DEF j
<1>6. /\ k \in Job /\ k.at = label /\ k.op = j.op /\ k.name = j.name
      /\ k.hurt = j.hurt /\ k.alone = j.alone
  BY <1>2, Turned
<1> HIDE DEF k
<1>7. Leads(j, k) /\ k.at # "remember" /\ (Booting(k) => Booting(j))
  BY <1>6 DEF Leads, Booting
<1>8. CASE vault' = new /\ To(r, Arrive(k))
  <2>1. Booting(k) => Boot(k, engines, warehouse', vault', trino', file')
    BY <1>3, <1>4, <1>7, <1>8
  <2> QED
    BY <1>3, <1>4, <1>5, <1>6, <1>7, <1>8, <2>1, BootGoes DEF j
<1>9. CASE To(r, Arrive(Hurt(k)))
  BY <1>3, <1>4, <1>5, <1>6, <1>7, <1>9, BootFails DEF j
<1> QED
  BY <1>1, <1>8, <1>9

LEMMA RememberBoots ==
  ASSUME LakeInv, BootInv, NEW r \in Requests, Remember(r)
  PROVE  BootInv'
<1> DEFINE j == request[r]
           l == IF j.name = Default THEN "remember-default" ELSE j.then
           k == [j EXCEPT !.at = l]
           new == [vault EXCEPT !.id_of[j.name] = j.id]
<1>1. j.at = "remember" /\ Put(r, new, l) /\ UNCHANGED services
  BY DEF Remember, At, Keeps
<1>2. /\ j \in Job /\ Tame(j) /\ j.name \in Names
      /\ Booting(j) => Boot(j, engines, warehouse, vault, trino, file)
  BY <1>1, OnBoot
<1>3. /\ new.sail = vault.sail /\ new.catalogs = vault.catalogs
      /\ \A n \in Names : new.id_of[n] = IF n = j.name THEN j.id ELSE vault.id_of[n]
  BY <1>2 DEF LakeInv, Vault
<1> HIDE DEF new
<1>4. Fresh(j, warehouse) => \A n \in Names : warehouse[n] # 0 /\ vault.id_of[n] = warehouse[n]
                                  => new.id_of[n] = warehouse[n]
  BY <1>1, <1>2, <1>3 DEF Fresh
<1>5. l \in Labels \ {"remember"} /\ l \in {"remember-default", j.then}
      /\ l \in Thens \cup {"remember-default"}
  BY <1>2 DEF Job, Labels, Thens
<1>6. Tame(k) /\ (Booting(j) => Boot(k, engines, warehouse, new, trino, file))
  <2> HIDE DEF j, l
  <2>1. /\ k.at = l /\ k.op = j.op /\ k.name = j.name /\ k.id = j.id /\ k.made = j.made
        /\ k.then = j.then /\ k.candidates = j.candidates
    BY <1>2, <1>5, Turned
  <2> HIDE DEF k
  <2>2. Tame(k)
    BY <1>1, <1>2, <1>5, <2>1 DEF Tame, Loud, Thens
  <2>3. Booting(j) => Boot(k, engines, warehouse, new, trino, file)
    BY <1>1, <1>2, <1>3, <1>5, <2>1 DEF Boot
  <2> QED
    BY <2>2, <2>3
<1> QED
  BY <1>1, <1>3, <1>4, <1>5, <1>6, BootPuts

LEMMA RememberDefaultBoots ==
  ASSUME LakeInv, BootInv, NEW r \in Requests, RememberDefault(r)
  PROVE  BootInv'
<1> DEFINE j == request[r]
           k == [j EXCEPT !.at = j.then]
           new == [vault EXCEPT !.shared = j.id]
<1>1. j.at = "remember-default" /\ Put(r, new, j.then) /\ UNCHANGED services
  BY DEF RememberDefault, At, Keeps
<1>2. /\ j \in Job /\ Tame(j) /\ j.name \in Names
      /\ Booting(j) => Boot(j, engines, warehouse, vault, trino, file)
  BY <1>1, OnBoot
<1>3. new.sail = vault.sail /\ new.catalogs = vault.catalogs /\ new.id_of = vault.id_of
  BY DEF LakeInv, Vault
<1> HIDE DEF new
<1>5. j.then \in Labels \ {"remember"}
  BY <1>2 DEF Job, Labels, Thens
<1>6. Tame(k) /\ (Booting(j) => Boot(k, engines, warehouse, new, trino, file))
  <2> HIDE DEF j
  <2>1. /\ k.at = j.then /\ k.op = j.op /\ k.name = j.name /\ k.id = j.id /\ k.made = j.made
        /\ k.then = j.then /\ k.candidates = j.candidates
    BY <1>2, <1>5, Turned
  <2> HIDE DEF k
  <2>2. Tame(k)
    BY <1>1, <1>2, <1>5, <2>1 DEF Tame, Loud, Job, Thens
  <2>3. Booting(j) => Boot(k, engines, warehouse, new, trino, file)
    BY <1>1, <1>2, <1>3, <2>1 DEF Boot
  <2> QED
    BY <2>2, <2>3
<1> QED
  BY <1>1, <1>3, <1>5, <1>6, BootPuts

LEMMA PagesBoot ==
  ASSUME LakeInv, BootInv, NEW r \in Requests, List(r) \/ Browse(r) \/ Change(r) \/ Credentials(r)
  PROVE  BootInv'
<1> DEFINE j == request[r]
           K(l) == [j EXCEPT !.at = l]
<1>1. Held /\ j.at \in {"list", "read", "write-to", "credentials"}
  BY DEF List, Browse, Change, Asked, Credentials, Keeps, services, Held, At
<1>2. /\ j \in Job /\ Tame(j)
      /\ Booting(j) => Boot(j, engines, warehouse, vault, trino, file)
  BY OnBoot
<1>3. PICK l \in {"shown", "failed", "credentials", "post", "sail"} :
        /\ To(r, Arrive(K(l))) \/ To(r, Arrive(Hurt(K(l)))) \/ To(r, Hurt(K(l)))
        /\ l = "credentials" => j.at = "list"
        /\ l = "post" => j.at = "credentials"
        /\ l = "sail" => j.op = "wire"
  <2>1. CASE List(r)
    BY <2>1 DEF List, Asked, Go, At
  <2>2. CASE Browse(r)
    BY <2>2 DEF Browse, Asked, Go, At
  <2>3. CASE Change(r)
    BY <2>3 DEF Change, Asked, Go, At
  <2>4. CASE Credentials(r)
    BY <2>4 DEF Credentials, Go, At, Unrecovered
  <2> QED
    BY <2>1, <2>2, <2>3, <2>4
<1> DEFINE k == K(l)
<1>4. To(r, Arrive(k)) \/ To(r, Arrive(Hurt(k))) \/ To(r, Hurt(k))
  BY <1>3
<1> HIDE DEF j, K
<1>5. /\ k \in Job /\ k.at = l /\ k.op = j.op /\ k.name = j.name /\ k.then = j.then
      /\ k.hurt = j.hurt /\ k.alone = j.alone
  <2>1. l \in Labels
    BY DEF Labels, Thens, Ends, Turns
  <2> QED
    BY <1>2, <2>1, Turned DEF K
<1> HIDE DEF k
<1>6. Leads(j, k) /\ Tame(k) /\ k.at # "remember"
  BY <1>1, <1>2, <1>3, <1>5 DEF Leads, Tame, Loud, Engines
<1>7. ~Booting(k)
  BY <1>1, <1>2, <1>5 DEF Boot, Booting
<1> QED
  BY <1>1, <1>4, <1>5, <1>6, <1>7, BootHeld DEF j

LEMMA MadeBoots ==
  ASSUME NEW j \in Job, Tame(j), j.at \in {"post", "look-up"}, NEW id \in Nat
  PROVE  LET k == Made(j, id) IN
         /\ k \in Job /\ Leads(j, k) /\ Tame(k) /\ k.at # "remember"
         /\ j.op = "submit" => k.at = "keep" /\ k.id = id /\ k.made = id /\ k.then = j.then
<1> DEFINE k == Made(j, id)
           l == CASE j.op = "submit" -> "keep" [] j.op = "auto" -> "name"
                  [] OTHER -> IF id # 0 THEN "share" ELSE "config"
<1>1. /\ k \in Job /\ k.op = j.op /\ k.name = j.name /\ k.at = l /\ k.id = id /\ k.made = id
      /\ k.hurt = j.hurt /\ k.alone = j.alone
      /\ k.then = IF j.op \in {"submit", "auto"} THEN j.then ELSE "again"
  <2>1. "keep" \in Labels /\ "name" \in Labels /\ "share" \in Labels /\ "config" \in Labels
        /\ "again" \in Thens
    BY DEF Labels, Thens
  <2>2. CASE j.op = "submit"
    BY <2>1, <2>2 DEF Made, Job
  <2>3. CASE j.op = "auto"
    BY <2>1, <2>3 DEF Made, Job
  <2>4. CASE j.op \notin {"submit", "auto"} /\ id # 0
    BY <2>1, <2>4 DEF Made, Job
  <2>5. CASE j.op \notin {"submit", "auto"} /\ id = 0
    BY <2>1, <2>5 DEF Made, Job
  <2> QED
    BY <2>2, <2>3, <2>4, <2>5
<1>2. l \in {"keep", "name", "share", "config"} /\ (j.op = "submit" => l = "keep")
  OBVIOUS
<1> HIDE DEF k, l
<1>3. Tame(k)
  BY <1>1, <1>2 DEF Tame, Loud, Engines
<1>4. /\ k \in Job /\ Leads(j, k) /\ Tame(k) /\ k.at # "remember"
      /\ j.op = "submit" => k.at = "keep" /\ k.id = id /\ k.made = id /\ k.then = j.then
  BY <1>1, <1>2, <1>3 DEF Leads
<1> QED
  BY <1>4 DEF k

LEMMA PostBoots ==
  ASSUME LakeInv, BootInv, NEW r \in Requests, Post(r)
  PROVE  BootInv'
<1> DEFINE j == request[r]
           n == j.name
           id == Len(owners) + 1
           k == [j EXCEPT !.at = "look-up"]
           f == [j EXCEPT !.at = Unrecovered(j)]
           m == Made(j, id)
           makes == warehouse[n] = 0 /\ warehouse' = [warehouse EXCEPT ![n] = id]
<1>1. j.at = "post" /\ UNCHANGED <<engines, key, vault, trino, file>>
  BY DEF Post, At, Keeps
<1>2. \/ makes /\ To(r, m)
      \/ warehouse[n] # 0 /\ To(r, Arrive(k)) /\ warehouse' = warehouse
      \/ makes /\ To(r, Arrive(Hurt(f)))
      \/ To(r, Arrive(Hurt(f))) /\ warehouse' = warehouse
  BY Zenon DEF Post, Go
<1>3. /\ j \in Job /\ Tame(j) /\ j.name \in Names
      /\ Booting(j) => Boot(j, engines, warehouse, vault, trino, file)
  BY <1>1, OnBoot
<1>4. id \in Nat /\ id # 0 /\ warehouse \in [Names -> Nat]
  BY DEF LakeInv, Lakekeeper
<1>5. \A p \in Names : warehouse[p] # 0 => warehouse'[p] = warehouse[p]
  BY <1>2, <1>4
<1>6. Gentle(r)
  BY <1>1, <1>5 DEF Gentle
<1>7. makes => warehouse'[n] = id
  BY <1>3, <1>4
<1> HIDE DEF j, id
<1>8. /\ k \in Job /\ k.at = "look-up" /\ k.op = j.op /\ k.name = j.name /\ k.then = j.then
      /\ k.hurt = j.hurt /\ k.alone = j.alone
  <2>1. "look-up" \in Labels
    BY DEF Labels
  <2> QED
    BY <1>3, <2>1, Turned
<1>9. /\ f \in Job /\ f.at = Unrecovered(j) /\ f.op = j.op /\ f.name = j.name /\ f.then = j.then
      /\ f.hurt = j.hurt /\ f.alone = j.alone
  <2>1. Unrecovered(j) \in Labels
    BY DEF Labels, Unrecovered, Ends, Turns
  <2> QED
    BY <1>3, <2>1, Turned
<1>10. /\ m \in Job /\ Leads(j, m) /\ Tame(m) /\ m.at # "remember"
       /\ j.op = "submit" => m.at = "keep" /\ m.id = id /\ m.made = id /\ m.then = j.then
  BY <1>1, <1>3, <1>4, MadeBoots
<1> HIDE DEF k, f, m
<1>11. Leads(j, k) /\ Tame(k) /\ k.at # "remember"
  BY <1>1, <1>3, <1>8 DEF Leads, Tame, Loud
<1>12. Leads(j, f) /\ Tame(f) /\ f.at # "remember"
  BY <1>1, <1>3, <1>9 DEF Leads, Tame, Loud, Unrecovered, Engines
<1>13. CASE To(r, Arrive(Hurt(f)))
  BY <1>1, <1>6, <1>9, <1>12, <1>13, BootFails DEF j
<1>14. CASE makes /\ To(r, m)
  <2>1. Booting(m) => Booting(j) /\ j.op = "submit"
    BY <1>10 DEF Booting, Leads
  <2>2. Booting(m) => Boot(m, engines, warehouse', vault', trino', file')
    <3> SUFFICES ASSUME Booting(m) PROVE Boot(m, engines, warehouse', vault', trino', file')
      OBVIOUS
    <3>1. m.at = "keep" /\ m.id = id /\ m.made = id /\ m.then = "wiring" /\ m.name = n
      BY <1>1, <1>3, <1>10, <2>1 DEF Boot, Leads
    <3> QED
      BY <1>4, <1>7, <1>14, <3>1 DEF Boot
  <2> QED
    BY <1>1, <1>6, <1>10, <1>14, <2>2, BootGoes DEF j
<1>15. CASE warehouse[n] # 0 /\ To(r, Arrive(k)) /\ warehouse' = warehouse
  <2>1. Booting(k) => Boot(k, engines, warehouse', vault', trino', file')
    BY <1>1, <1>3, <1>8, <1>15 DEF Boot, Booting
  <2> QED
    BY <1>1, <1>6, <1>8, <1>11, <1>15, <2>1, BootGoes DEF j
<1> QED
  BY <1>2, <1>13, <1>14, <1>15

LEMMA LookUpBoots ==
  ASSUME LakeInv, BootInv, NEW r \in Requests, LookUp(r)
  PROVE  BootInv'
<1> DEFINE j == request[r]
           id == warehouse[j.name]
           k == Made(j, id)
           f == Made(j, 0)
<1>1. Held /\ j.at = "look-up"
  BY DEF LookUp, Keeps, services, Held, At
<1>2. To(r, k) \/ To(r, Hurt(f))
  BY Zenon DEF LookUp
<1>3. /\ j \in Job /\ Tame(j) /\ j.name \in Names
      /\ Booting(j) => Boot(j, engines, warehouse, vault, trino, file)
  BY <1>1, OnBoot
<1>4. id \in Nat
  BY <1>3 DEF LakeInv, Lakekeeper
<1>5. /\ k \in Job /\ Leads(j, k) /\ Tame(k) /\ k.at # "remember"
      /\ j.op = "submit" => k.at = "keep" /\ k.id = id /\ k.made = id /\ k.then = j.then
  BY <1>1, <1>3, <1>4, MadeBoots
<1>6. f \in Job /\ Leads(j, f) /\ Tame(f) /\ f.at # "remember"
  BY <1>1, <1>3, MadeBoots
<1> HIDE DEF j, k, f
<1>7. Booting(k) => Boot(k, engines, warehouse, vault, trino, file)
  <2> SUFFICES ASSUME Booting(k) PROVE Boot(k, engines, warehouse, vault, trino, file)
    OBVIOUS
  <2>1. Booting(j)
    BY <1>5 DEF Booting, Leads
  <2>2. k.at = "keep" /\ k.id = id /\ k.made = id /\ k.then = "wiring" /\ k.name = j.name /\ id # 0
    BY <1>1, <1>3, <1>5, <2>1 DEF Boot, Leads, Booting
  <2> QED
    BY <2>2 DEF Boot
<1> QED
  BY <1>1, <1>2, <1>5, <1>6, <1>7, BootHeld DEF j

LEMMA KeepBoots ==
  ASSUME LakeInv, BootInv, NEW r \in Requests, Keep(r)
  PROVE  BootInv'
<1> DEFINE j == request[r]
           k == [j EXCEPT !.at = "name"]
           new == [vault EXCEPT !.key_id = TRUE, !.secret = TRUE]
           half == [vault EXCEPT !.key_id = TRUE]
<1>1. j.at = "keep" /\ UNCHANGED services
  BY DEF Keep, At, Keeps
<1>2. Put(r, new, "name") \/ (vault' = half /\ To(r, Hurt(k)))
  BY Zenon DEF Keep
<1>3. /\ j \in Job /\ Tame(j) /\ j.name \in Names
      /\ Booting(j) => Boot(j, engines, warehouse, vault, trino, file)
  BY <1>1, OnBoot
<1>4. /\ new.sail = vault.sail /\ new.catalogs = vault.catalogs /\ new.id_of = vault.id_of
      /\ half.sail = vault.sail /\ half.catalogs = vault.catalogs /\ half.id_of = vault.id_of
  BY DEF LakeInv, Vault
<1> HIDE DEF new, half
<1>5. "name" \in Labels \ {"remember"}
  BY DEF Labels
<1>6. /\ k \in Job /\ Leads(j, k) /\ k.at = "name" /\ Tame(k)
      /\ Booting(j) => Boot(k, engines, warehouse, new, trino, file)
  <2> HIDE DEF j
  <2>1. /\ k \in Job /\ k.at = "name" /\ k.op = j.op /\ k.name = j.name /\ k.id = j.id /\ k.made = j.made
        /\ k.then = j.then /\ k.candidates = j.candidates /\ k.alone = j.alone /\ k.hurt = j.hurt
    BY <1>3, <1>5, Turned
  <2> HIDE DEF k
  <2>2. Tame(k)
    BY <1>1, <1>3, <2>1 DEF Tame, Loud
  <2>3. Booting(j) => Boot(k, engines, warehouse, new, trino, file)
    BY <1>1, <1>3, <1>4, <2>1 DEF Boot
  <2> QED
    BY <2>1, <2>2, <2>3 DEF Leads
<1>7. CASE Put(r, new, "name")
  BY <1>1, <1>4, <1>5, <1>6, <1>7, BootPuts
<1>8. CASE vault' = half /\ To(r, Hurt(k))
  <2>1. Gentle(r) /\ UNCHANGED engines
    BY <1>1, <1>4, <1>8 DEF Gentle, services
  <2> HIDE DEF k
  <2> QED
    BY <1>6, <1>8, <2>1, BootFails
<1> QED
  BY <1>2, <1>7, <1>8

(* A write to the vault that leaves the engines' catalogs alone.           *)
LEMMA NameBoots ==
  ASSUME LakeInv, BootInv, NEW r \in Requests, Name(r)
  PROVE  BootInv'
<1> DEFINE j == request[r]
           l == IF j.id # 0 THEN "share" ELSE j.then
           k == [j EXCEPT !.at = l]
           new == [vault EXCEPT !.known = j.name]
<1>1. j.at = "name" /\ Put(r, new, l) /\ UNCHANGED services
  BY DEF Name, At, Keeps
<1>2. /\ j \in Job /\ Tame(j) /\ j.name \in Names
      /\ Booting(j) => Boot(j, engines, warehouse, vault, trino, file)
  BY <1>1, OnBoot
<1>3. new.sail = vault.sail /\ new.catalogs = vault.catalogs /\ new.id_of = vault.id_of
  BY DEF LakeInv, Vault
<1> HIDE DEF new
<1>5. l \in Labels \ {"remember"} /\ l \in {"share", j.then} /\ l \in Thens \cup {"share"}
  BY <1>2 DEF Job, Labels, Thens
<1>6. Tame(k) /\ (Booting(j) => Boot(k, engines, warehouse, new, trino, file))
  <2>0. j.id # 0 => l = "share"
    OBVIOUS
  <2> HIDE DEF j, l
  <2>1. /\ k.at = l /\ k.op = j.op /\ k.name = j.name /\ k.id = j.id /\ k.made = j.made
        /\ k.then = j.then /\ k.candidates = j.candidates
    BY <1>2, <1>5, Turned
  <2> HIDE DEF k
  <2>2. Tame(k)
    BY <1>1, <1>2, <1>5, <2>1 DEF Tame, Loud, Thens
  <2>3. Booting(j) => Boot(k, engines, warehouse, new, trino, file)
    BY <1>1, <1>2, <1>3, <2>0, <2>1 DEF Boot
  <2> QED
    BY <2>2, <2>3
<1> QED
  BY <1>1, <1>3, <1>5, <1>6, BootPuts

LEMMA ShareBoots ==
  ASSUME LakeInv, BootInv, NEW r \in Requests, Share(r)
  PROVE  BootInv'
<1> DEFINE j == request[r]
           k == [j EXCEPT !.at = j.then]
           new == [vault EXCEPT !.shared = j.id]
<1>1. j.at = "share" /\ Put(r, new, j.then) /\ UNCHANGED services
  BY DEF Share, At, Keeps
<1>2. /\ j \in Job /\ Tame(j) /\ j.name \in Names
      /\ Booting(j) => Boot(j, engines, warehouse, vault, trino, file)
  BY <1>1, OnBoot
<1>3. new.sail = vault.sail /\ new.catalogs = vault.catalogs /\ new.id_of = vault.id_of
  BY DEF LakeInv, Vault
<1> HIDE DEF new
<1>5. j.then \in Labels \ {"remember"}
  BY <1>2 DEF Job, Labels, Thens
<1>6. Tame(k) /\ (Booting(j) => Boot(k, engines, warehouse, new, trino, file))
  <2> HIDE DEF j
  <2>1. /\ k.at = j.then /\ k.op = j.op /\ k.name = j.name /\ k.id = j.id /\ k.made = j.made
        /\ k.then = j.then /\ k.candidates = j.candidates
    BY <1>2, <1>5, Turned
  <2> HIDE DEF k
  <2>2. Tame(k)
    BY <1>1, <1>2, <1>5, <2>1 DEF Tame, Loud, Job, Thens
  <2>3. Booting(j) => Boot(k, engines, warehouse, new, trino, file)
    BY <1>1, <1>2, <1>3, <2>1 DEF Boot
  <2> QED
    BY <2>2, <2>3
<1> QED
  BY <1>1, <1>3, <1>5, <1>6, BootPuts

(* At the engines a request has nothing to leave to the others.            *)
LEMMA LoudIsGentle ==
  ASSUME LakeInv, BootInv, NEW r \in Requests, request[r].at \in Loud, UNCHANGED warehouse
  PROVE  Gentle(r) /\ request[r].op \in Engines
  BY OnBoot DEF Tame, Gentle

LEMMA DropBoots ==
  ASSUME LakeInv, BootInv, NEW r \in Requests, Drop(r)
  PROVE  BootInv'
<1> DEFINE j == request[r]
           cs == IF j.at = "drop" /\ j.id \notin {0} \cup {j.candidates[i] : i \in DOMAIN j.candidates}
                 THEN Append(j.candidates, j.id) ELSE j.candidates
           rest == IF j.at = "drop" THEN cs ELSE Tail(cs)
           next == CASE rest # <<>> -> "write"
                     [] rest = <<>> /\ j.op = "wire" /\ j.gone /\ ~j.recovered -> "credentials"
                     [] OTHER -> "sail"
           k == [j EXCEPT !.candidates = rest, !.at = next]
<1>1. j.at \in {"drop", "drop-again"} /\ UNCHANGED <<engines, warehouse, owners, key, vault, file>>
  BY DEF Drop, Keeps, elsewhere
<1>2. \/ trino' = [trino EXCEPT ![Catalog(j.name)] = None] /\ To(r, Arrive(k))
      \/ trino' = trino /\ To(r, Arrive(Hurt(k)))
  BY Zenon DEF Drop
<1>3. /\ j \in Job /\ Owned(j, owners) /\ j.name \in Names /\ j.op \in Engines
      /\ Booting(j) => Boot(j, engines, warehouse, vault, trino, file)
  BY <1>1, On, OnBoot, LoudIsGentle DEF Loud
<1>4. Gentle(r)
  BY <1>1, LoudIsGentle DEF Loud
<1> HIDE DEF j
<1>5. /\ cs \in Seq(Nat) /\ (j.at = "drop-again" => cs # <<>>)
      /\ j.at = "drop" /\ j.candidates # <<>> => cs # <<>> /\ Head(cs) = Head(j.candidates)
  <2>1. j.candidates \in Seq(Nat) /\ j.id \in Nat
    BY <1>3, JobFields
  <2>2. /\ Append(j.candidates, j.id) \in Seq(Nat) /\ Append(j.candidates, j.id) # <<>>
        /\ j.candidates # <<>> => Head(Append(j.candidates, j.id)) = Head(j.candidates)
    BY <2>1
  <2>3. j.at = "drop-again" => j.candidates # <<>>
    BY <1>3 DEF Owned
  <2> QED
    BY <2>1, <2>2, <2>3
<1> HIDE DEF cs
<1>6. /\ rest \in Seq(Nat)
      /\ j.at = "drop" /\ j.candidates # <<>> => rest # <<>> /\ Head(rest) = Head(j.candidates)
  <2>1. CASE j.at = "drop"
    BY <1>5, <2>1
  <2>2. CASE j.at = "drop-again"
    BY <1>5, <2>2
  <2> QED
    BY <1>1, <2>1, <2>2
<1>7. /\ next \in {"write", "credentials", "sail"} /\ (rest # <<>> => next = "write")
  OBVIOUS
<1> HIDE DEF rest, next
<1>8. "write" \in Labels /\ "credentials" \in Labels /\ "sail" \in Labels
  BY DEF Labels, Turns
<1>9. /\ k \in Job /\ k.at = next /\ k.op = j.op /\ k.name = j.name /\ k.id = j.id
      /\ k.made = j.made /\ k.then = j.then /\ k.candidates = rest
      /\ k.hurt = j.hurt /\ k.alone = j.alone
  BY <1>3, <1>6, <1>7, <1>8 DEF Job
<1> HIDE DEF k
<1>10. Leads(j, k) /\ Tame(k) /\ k.at # "remember"
  BY <1>3, <1>7, <1>9 DEF Leads, Tame, Engines, Ops
<1>11. CASE To(r, Arrive(Hurt(k)))
  BY <1>1, <1>4, <1>9, <1>10, <1>11, BootFails DEF j
<1>12. CASE trino' = [trino EXCEPT ![Catalog(j.name)] = None] /\ To(r, Arrive(k))
  <2>1. trino'[Catalog(j.name)] = None
    BY <1>3, <1>12 DEF LakeInv, Holds, Catalogs
  <2>2. Booting(k) => Boot(k, engines, warehouse', vault', trino', file')
    <3> SUFFICES ASSUME Booting(k) PROVE Boot(k, engines, warehouse, vault, trino', file)
      BY <1>1
    <3>1. Booting(j) /\ Boot(j, engines, warehouse, vault, trino, file)
      BY <1>3, <1>9 DEF Booting
    <3>2. j.at = "drop" /\ k.at = "write" /\ k.candidates # <<>> /\ Head(k.candidates) = 0
      BY <1>1, <1>6, <1>7, <1>9, <3>1 DEF Boot
    <3>3. k.then \notin {"caching", "cache"}
      BY <1>9, <3>1, <3>2 DEF Boot
    <3> QED
      BY <1>9, <2>1, <3>1, <3>2, <3>3 DEF Boot
  <2> QED
    BY <1>1, <1>4, <1>9, <1>10, <1>12, <2>2, BootGoes DEF j
<1> QED
  BY <1>2, <1>11, <1>12

LEMMA WriteBoots ==
  ASSUME LakeInv, BootInv, NEW r \in Requests, Write(r)
  PROVE  BootInv'
<1> DEFINE j == request[r]
           c == Head(j.candidates)
           k == [j EXCEPT !.at = "create"]
<1>1. j.at = "write" /\ UNCHANGED <<engines, warehouse, owners, key, vault, trino>>
  BY DEF Write, At, Keeps
<1>2. \/ file' = [file EXCEPT ![Catalog(j.name)] = Ask(j.name, c)] /\ To(r, Arrive(k))
      \/ file' = file /\ To(r, Hurt(k))
  BY Zenon DEF Write, Go
<1>3. /\ j \in Job /\ j.name \in Names /\ j.op \in Engines
      /\ Booting(j) => Boot(j, engines, warehouse, vault, trino, file)
  BY <1>1, OnBoot, LoudIsGentle DEF Loud
<1>4. Gentle(r)
  BY <1>1, LoudIsGentle DEF Loud
<1> HIDE DEF j
<1>5. "create" \in Labels
  BY DEF Labels
<1>6. /\ k \in Job /\ k.at = "create" /\ k.op = j.op /\ k.name = j.name /\ k.id = j.id
      /\ k.made = j.made /\ k.then = j.then /\ k.candidates = j.candidates
      /\ k.hurt = j.hurt /\ k.alone = j.alone
  BY <1>3, <1>5, Turned
<1> HIDE DEF k
<1>7. Leads(j, k) /\ Tame(k) /\ k.at # "remember"
  BY <1>3, <1>6 DEF Leads, Tame, Engines, Ops
<1>8. CASE To(r, Hurt(k))
  BY <1>1, <1>4, <1>6, <1>7, <1>8, BootFails DEF j
<1>9. CASE file' = [file EXCEPT ![Catalog(j.name)] = Ask(j.name, c)] /\ To(r, Arrive(k))
  <2>1. file'[Catalog(j.name)] = Ask(j.name, c)
    BY <1>3, <1>9 DEF LakeInv, Holds, Catalogs
  <2>2. Booting(k) => Boot(k, engines, warehouse', vault', trino', file')
    BY <1>1, <1>3, <1>6, <2>1 DEF Boot, Booting, Ask
  <2> QED
    BY <1>1, <1>4, <1>6, <1>7, <1>9, <2>2, BootGoes DEF j
<1> QED
  BY <1>2, <1>8, <1>9

LEMMA CreateBoots ==
  ASSUME LakeInv, BootInv, NEW r \in Requests, Create(r)
  PROVE  BootInv'
<1> DEFINE j == request[r]
           c == Head(j.candidates)
           there == trino[Catalog(j.name)] # None
           accepted == ~there /\ Reaches(j.name, c)
           asks == [j EXCEPT !.at = "config", !.then = "caching"]
           takes == [j EXCEPT !.at = "caching", !.id = c]
           refused == [j EXCEPT !.at = "drop-again"]
           gone == [refused EXCEPT !.gone = @ \/ ~there]
<1>1. j.at = "create" /\ UNCHANGED <<engines, warehouse, owners, key, vault, file>>
  BY DEF Create, At, Keeps, elsewhere
<1>2. \/ /\ accepted /\ trino' = [trino EXCEPT ![Catalog(j.name)] = Ask(j.name, c)]
         /\ To(r, IF c = 0 THEN asks ELSE Arrive(takes))
      \/ ~accepted /\ To(r, gone)
      \/ To(r, Hurt(refused))
  BY Zenon DEF Create
<1>3. /\ j \in Job /\ j.name \in Names /\ j.op \in Engines
      /\ Booting(j) => Boot(j, engines, warehouse, vault, trino, file)
  BY <1>1, OnBoot, LoudIsGentle DEF Loud
<1>4. Gentle(r) /\ UNCHANGED engines
  BY <1>1, LoudIsGentle DEF Loud
<1>5. c \in Nat
  BY <1>1, On, HeadOwned
<1>6. Booting(j) => c = 0 /\ accepted
  BY <1>1, <1>3 DEF Boot, Reaches
<1>7. c = 0 => asks \in Job /\ asks.at = "config" /\ asks.then = "caching" /\ asks.op = j.op
             /\ asks.name = j.name /\ asks.made = j.made /\ asks.hurt = j.hurt /\ asks.alone = j.alone
  <2> HIDE DEF j
  <2>1. "config" \in Labels /\ "caching" \in Thens
    BY DEF Labels, Thens
  <2> QED
    BY <1>3, <2>1 DEF Job
<1>8. takes \in Job /\ takes.at = "caching" /\ takes.op = j.op /\ takes.name = j.name
      /\ takes.hurt = j.hurt /\ takes.alone = j.alone
  <2> HIDE DEF j, c
  <2>1. "caching" \in Labels
    BY DEF Labels, Turns
  <2> QED
    BY <1>3, <1>5, <2>1 DEF Job
<1>9. refused \in Job /\ refused.at = "drop-again" /\ refused.op = j.op /\ refused.name = j.name
      /\ refused.hurt = j.hurt /\ refused.alone = j.alone
  <2> HIDE DEF j
  <2>1. "drop-again" \in Labels
    BY DEF Labels
  <2> QED
    BY <1>3, <2>1 DEF Job
<1>10. gone \in Job /\ gone.at = "drop-again" /\ gone.op = j.op /\ gone.name = j.name
       /\ gone.hurt = j.hurt /\ gone.alone = j.alone
  <2>1. (refused.gone \/ ~there) \in BOOLEAN
    OBVIOUS
  <2> HIDE DEF refused, there, j
  <2> QED
    BY <1>9, <2>1 DEF Job
<1>11. \A k \in Job : /\ k.op = j.op /\ k.name = j.name /\ k.hurt = j.hurt /\ k.alone = j.alone
                      /\ k.at \in {"config", "caching", "drop-again"}
                    => Leads(j, k) /\ Tame(k) /\ k.at # "remember"
  BY <1>3 DEF Leads, Tame, Engines, Ops
<1>12. CASE To(r, Hurt(refused))
  <2> HIDE DEF refused
  <2> QED
    BY <1>4, <1>9, <1>11, <1>12, BootFails
<1>13. CASE ~accepted /\ To(r, gone)
  <2>1. ~Booting(gone)
    BY <1>6, <1>10, <1>13 DEF Booting
  <2> HIDE DEF gone
  <2> QED
    BY <1>4, <1>10, <1>11, <1>13, <2>1, BootGoes
<1>14. CASE c # 0 /\ To(r, Arrive(takes))
  <2>1. ~Booting(takes)
    BY <1>6, <1>8, <1>14 DEF Booting
  <2> HIDE DEF takes
  <2> QED
    BY <1>4, <1>8, <1>11, <1>14, <2>1, BootGoes
<1>15. CASE c = 0 /\ trino' = [trino EXCEPT ![Catalog(j.name)] = Ask(j.name, c)] /\ To(r, asks)
  <2>1. trino'[Catalog(j.name)] = j.name
    BY <1>3, <1>15 DEF LakeInv, Holds, Catalogs, Ask
  <2> HIDE DEF asks
  <2>2. Booting(asks) => Boot(asks, engines, warehouse', vault', trino', file')
    BY <1>1, <1>3, <1>7, <1>15, <2>1 DEF Boot, Booting
  <2> QED
    BY <1>4, <1>7, <1>11, <1>15, <2>2, BootGoes
<1> QED
  BY <1>2, <1>12, <1>13, <1>14, <1>15

LEMMA CacheBoots ==
  ASSUME LakeInv, BootInv, NEW r \in Requests, Cache(r)
  PROVE  BootInv'
<1> DEFINE j == request[r]
           k == [j EXCEPT !.at = "sail"]
           new == [vault EXCEPT !.id_of[j.name] = j.id]
<1>1. j.at = "cache" /\ Put(r, new, "sail") /\ UNCHANGED services
  BY DEF Cache, At, Keeps
<1>2. /\ j \in Job /\ j.name \in Names /\ j.op \in Engines
      /\ Booting(j) => Boot(j, engines, warehouse, vault, trino, file)
  BY <1>1, OnBoot, LoudIsGentle DEF Loud, services
<1>3. new.id_of[j.name] = j.id
  BY <1>2 DEF LakeInv, Vault
<1> HIDE DEF new
<1>5. "sail" \in Labels \ {"remember"}
  BY DEF Labels, Turns
<1>6. Tame(k) /\ (Booting(j) => Boot(k, engines, warehouse, new, trino, file))
  <2> HIDE DEF j
  <2>1. /\ k.at = "sail" /\ k.op = j.op /\ k.name = j.name /\ k.id = j.id /\ k.made = j.made
        /\ k.then = j.then /\ k.candidates = j.candidates
    BY <1>2, <1>5, Turned
  <2> HIDE DEF k
  <2>2. Tame(k)
    BY <1>2, <2>1 DEF Tame, Engines, Ops
  <2>3. Booting(j) => Boot(k, engines, warehouse, new, trino, file)
    BY <1>1, <1>2, <1>3, <2>1 DEF Boot
  <2> QED
    BY <2>2, <2>3
<1> QED
  BY <1>1, <1>2, <1>5, <1>6, BootPuts

LEMMA ConfigureBoots ==
  ASSUME LakeInv, BootInv, NEW r \in Requests, Configure(r)
  PROVE  BootInv'
<1> DEFINE j == request[r]
           new == [vault EXCEPT !.sail[Catalog(j.name)] = Ask(j.name, j.id)]
           k == [j EXCEPT !.at = "read-catalogs"]
           f == [j EXCEPT !.at = "ok"]
<1>1. j.at = "configure" /\ UNCHANGED services
  BY DEF Configure, At, Keeps
<1>2. (vault' = new /\ To(r, Arrive(k))) \/ To(r, Hurt(f))
  BY Zenon DEF Configure, Go
<1>3. /\ j \in Job /\ j.name \in Names /\ j.op \in Engines
      /\ Booting(j) => Boot(j, engines, warehouse, vault, trino, file)
  BY <1>1, OnBoot, LoudIsGentle DEF Loud, services
<1>4. Gentle(r) /\ UNCHANGED engines
  BY <1>1, LoudIsGentle DEF Loud, services
<1>5. new.sail[Catalog(j.name)] = Ask(j.name, j.id) /\ new.id_of = vault.id_of
  BY <1>3 DEF LakeInv, Vault, Catalogs
<1> HIDE DEF new
<1> HIDE DEF j
<1>6. "read-catalogs" \in Labels /\ "ok" \in Labels
  BY DEF Labels, Ends
<1>7. /\ k \in Job /\ k.at = "read-catalogs" /\ k.op = j.op /\ k.name = j.name /\ k.id = j.id
      /\ k.made = j.made /\ k.then = j.then /\ k.hurt = j.hurt /\ k.alone = j.alone
  BY <1>3, <1>6, Turned
<1>8. /\ f \in Job /\ f.at = "ok" /\ f.op = j.op /\ f.name = j.name
      /\ f.hurt = j.hurt /\ f.alone = j.alone
  BY <1>3, <1>6, Turned
<1> HIDE DEF k, f
<1>9. /\ Leads(j, k) /\ Tame(k) /\ k.at # "remember"
      /\ Leads(j, f) /\ Tame(f) /\ f.at # "remember"
  BY <1>3, <1>7, <1>8 DEF Leads, Tame, Engines, Ops
<1>10. CASE To(r, Hurt(f))
  BY <1>4, <1>8, <1>9, <1>10, BootFails DEF j
<1>11. CASE vault' = new /\ To(r, Arrive(k))
  <2>1. Booting(k) => Boot(k, engines, warehouse, new, trino, file)
    BY <1>1, <1>3, <1>5, <1>7 DEF Boot, Booting, Ask
  <2>2. Booting(k) => Boot(k, engines, warehouse', vault', trino', file')
    BY <1>1, <1>11, <2>1 DEF services
  <2> QED
    BY <1>4, <1>7, <1>9, <1>11, <2>2, BootGoes DEF j
<1> QED
  BY <1>2, <1>10, <1>11

LEMMA ReadCatalogsBoots ==
  ASSUME LakeInv, BootInv, NEW r \in Requests, ReadCatalogs(r)
  PROVE  BootInv'
<1> DEFINE j == request[r]
           Reads(seen) == [j EXCEPT !.seen = seen,
             !.at = IF Catalog(j.name) \in seen THEN "ok" ELSE "write-catalogs"]
<1>1. Held /\ j.at = "read-catalogs"
  BY DEF ReadCatalogs, Keeps, services, Held, At
<1>2. To(r, Reads(vault.catalogs)) \/ To(r, Hurt(Reads({})))
  BY Zenon DEF ReadCatalogs
<1>3. /\ j \in Job /\ j.name \in Names /\ j.op \in Engines
      /\ Booting(j) => Boot(j, engines, warehouse, vault, trino, file)
  BY <1>1, OnBoot, LoudIsGentle DEF Loud, Held
<1>4. vault.catalogs \in SUBSET Catalogs
  BY DEF LakeInv, Vault
<1> HIDE DEF j
<1>5. ASSUME NEW seen \in SUBSET Catalogs
      PROVE  LET k == Reads(seen) IN
             /\ k \in Job /\ Leads(j, k) /\ Tame(k) /\ k.at # "remember"
             /\ k.made = j.made /\ k.then = j.then
             /\ k.at = IF Catalog(j.name) \in seen THEN "ok" ELSE "write-catalogs"
  <2> DEFINE l == IF Catalog(j.name) \in seen THEN "ok" ELSE "write-catalogs"
             k == [j EXCEPT !.seen = seen, !.at = l]
  <2>1. l \in Labels /\ l \in {"ok", "write-catalogs"}
    BY DEF Labels, Ends
  <2> HIDE DEF l
  <2>2. /\ k \in Job /\ k.at = l /\ k.op = j.op /\ k.name = j.name
        /\ k.made = j.made /\ k.then = j.then /\ k.hurt = j.hurt /\ k.alone = j.alone
    BY <1>3, <2>1 DEF Job
  <2> HIDE DEF k
  <2>3. /\ k \in Job /\ Leads(j, k) /\ Tame(k) /\ k.at # "remember"
        /\ k.made = j.made /\ k.then = j.then /\ k.at = l
    BY <1>3, <2>1, <2>2 DEF Leads, Tame, Engines, Ops
  <2> QED
    BY <2>3 DEF k, l
<1> DEFINE k == Reads(vault.catalogs)
           f == Reads({})
<1>6. /\ k \in Job /\ Leads(j, k) /\ Tame(k) /\ k.at # "remember"
      /\ k.made = j.made /\ k.then = j.then
      /\ k.at = IF Catalog(j.name) \in vault.catalogs THEN "ok" ELSE "write-catalogs"
  BY <1>4, <1>5
<1>7. f \in Job /\ Leads(j, f) /\ Tame(f) /\ f.at # "remember"
  BY <1>5
<1>8. To(r, k) \/ To(r, Hurt(f))
  BY <1>2
<1> HIDE DEF k, f
<1>9. Booting(k) => Boot(k, engines, warehouse, vault, trino, file)
  BY <1>1, <1>3, <1>6 DEF Boot, Booting, Leads
<1> QED
  BY <1>1, <1>6, <1>7, <1>8, <1>9, BootHeld DEF j

LEMMA WriteCatalogsBoots ==
  ASSUME LakeInv, BootInv, NEW r \in Requests, WriteCatalogs(r)
  PROVE  BootInv'
<1> DEFINE j == request[r]
           k == [j EXCEPT !.at = "ok"]
           new == [vault EXCEPT !.catalogs = j.seen \cup {Catalog(j.name)}]
<1>1. j.at = "write-catalogs" /\ Put(r, new, "ok") /\ UNCHANGED services
  BY DEF WriteCatalogs, At, Keeps
<1>2. /\ j \in Job /\ j.name \in Names /\ j.op \in Engines
      /\ Booting(j) => Boot(j, engines, warehouse, vault, trino, file)
  BY <1>1, OnBoot, LoudIsGentle DEF Loud, services
<1>3. Catalog(j.name) \in new.catalogs /\ new.sail = vault.sail /\ new.id_of = vault.id_of
  BY <1>2 DEF LakeInv, Vault
<1> HIDE DEF new
<1>5. "ok" \in Labels \ {"remember"}
  BY DEF Labels, Ends
<1>6. Tame(k) /\ (Booting(j) => Boot(k, engines, warehouse, new, trino, file))
  <2> HIDE DEF j
  <2>1. /\ k.at = "ok" /\ k.op = j.op /\ k.name = j.name /\ k.id = j.id /\ k.made = j.made
        /\ k.then = j.then /\ k.candidates = j.candidates
    BY <1>2, <1>5, Turned
  <2> HIDE DEF k
  <2>2. Tame(k)
    BY <1>2, <2>1 DEF Tame, Engines, Ops
  <2>3. Booting(j) => Boot(k, engines, warehouse, new, trino, file)
    BY <1>1, <1>2, <1>3, <2>1 DEF Boot
  <2> QED
    BY <2>2, <2>3
<1> QED
  BY <1>1, <1>2, <1>5, <1>6, BootPuts

(* Garage's own bootstrap.                                                 *)
LEMMA GarageBoots ==
  ASSUME LakeInv, BootInv, NEW r \in Requests, Key(r) \/ Bucket(r)
  PROVE  BootInv'
<1> DEFINE j == request[r]
           i == [j EXCEPT !.at = "bucket"]
           g == [i EXCEPT !.secret = ~key]
           F(l) == [j EXCEPT !.at = l]
<1>1. Held /\ j.at \in {"key", "bucket"}
  BY DEF Key, Bucket, Keeps, services, Held, At
<1>2. /\ j \in Job /\ Tame(j)
      /\ Booting(j) => Boot(j, engines, warehouse, vault, trino, file)
  BY OnBoot
<1>3. ~Booting(j)
  BY <1>1, <1>2 DEF Boot
<1>4. To(r, g) \/ To(r, Arrive(F("store-id"))) \/ To(r, Hurt(F("failed"))) \/ To(r, Hurt([i EXCEPT !.at = "failed"]))
  <2>1. CASE Key(r)
    BY <2>1, Zenon DEF Key
  <2>2. CASE Bucket(r)
    BY <2>2, Zenon DEF Bucket, Go
  <2> QED
    BY <2>1, <2>2
<1> HIDE DEF j
<1>5. "bucket" \in Labels /\ "store-id" \in Labels /\ "failed" \in Labels
  BY DEF Labels, Ends
<1>6. /\ i \in Job /\ i.at = "bucket" /\ i.op = j.op /\ i.name = j.name /\ i.then = j.then
      /\ i.hurt = j.hurt /\ i.alone = j.alone
  BY <1>2, <1>5, Turned
<1>7. ASSUME NEW l \in {"store-id", "failed"}
      PROVE  LET k == F(l) IN
             /\ k \in Job /\ k.at = l /\ k.op = j.op /\ k.name = j.name /\ k.then = j.then
             /\ k.hurt = j.hurt /\ k.alone = j.alone
  BY <1>2, <1>5, Turned
<1> HIDE DEF i
<1> DEFINE h == [i EXCEPT !.at = "failed"]
<1>8. /\ g \in Job /\ g.at = "bucket" /\ g.op = j.op /\ g.name = j.name /\ g.then = j.then
      /\ g.hurt = j.hurt /\ g.alone = j.alone
  <2>1. (~key) \in BOOLEAN
    OBVIOUS
  <2> QED
    BY <1>6, <2>1 DEF Job
<1>9. /\ h \in Job /\ h.at = "failed" /\ h.op = j.op /\ h.name = j.name /\ h.then = j.then
      /\ h.hurt = j.hurt /\ h.alone = j.alone
  BY <1>5, <1>6, Turned
<1>10. \A k \in Job : /\ k.op = j.op /\ k.name = j.name /\ k.hurt = j.hurt /\ k.alone = j.alone
                      /\ k.then = j.then /\ k.at \in {"bucket", "store-id", "failed"}
                    => Leads(j, k) /\ Tame(k) /\ k.at # "remember" /\ (Booting(k) => Booting(j))
  BY <1>1, <1>2 DEF Leads, Tame, Loud, Booting
<1> DEFINE s == F("store-id")
           f == F("failed")
<1>11. /\ s \in Job /\ s.at = "store-id" /\ s.op = j.op /\ s.name = j.name /\ s.then = j.then
       /\ s.hurt = j.hurt /\ s.alone = j.alone
       /\ f \in Job /\ f.at = "failed" /\ f.op = j.op /\ f.name = j.name /\ f.then = j.then
       /\ f.hurt = j.hurt /\ f.alone = j.alone
  BY <1>7
<1>12. To(r, g) \/ To(r, Arrive(s)) \/ To(r, Hurt(f)) \/ To(r, Hurt(h))
  BY <1>4
<1> HIDE DEF g, h, s, f, F
<1>13. CASE To(r, g)
  BY <1>1, <1>3, <1>8, <1>10, <1>13, BootHeld DEF j
<1>14. CASE To(r, Arrive(s))
  BY <1>1, <1>3, <1>10, <1>11, <1>14, BootHeld DEF j
<1>15. CASE To(r, Hurt(f))
  BY <1>1, <1>10, <1>11, <1>15, BootHeld DEF j
<1>16. CASE To(r, Hurt(h))
  BY <1>1, <1>9, <1>10, <1>16, BootHeld DEF j
<1> QED
  BY <1>12, <1>13, <1>14, <1>15, <1>16

(* What is stored of Garage's key, and what a reset forgets.               *)
LEMMA WritesBoot ==
  ASSUME LakeInv, BootInv, NEW r \in Requests, Store(r) \/ Forget(r)
  PROVE  BootInv'
<1> DEFINE j == request[r]
           K(l) == [j EXCEPT !.at = l]
           kept == {[vault EXCEPT !.key_id = TRUE], [vault EXCEPT !.secret = TRUE]}
           forgotten == {[vault EXCEPT !.shared = 0], [vault EXCEPT !.known = None],
                         [vault EXCEPT !.catalogs = {}]}
           targets == {"store-secret", "ok", "forget-name", "forget-catalogs"}
<1>1. PICK l \in targets, new \in kept \cup forgotten :
        /\ Put(r, new, l) /\ UNCHANGED services
        /\ \/ j.at \in {"store-id", "store-secret"} /\ l \in {"store-secret", "ok"} /\ new \in kept
           \/ j.at \in {"forget-id", "forget-name", "forget-catalogs"}
  <2>1. CASE Store(r)
    <3>1. /\ \/ Put(r, [vault EXCEPT !.key_id = TRUE], "store-secret")
             \/ Put(r, [vault EXCEPT !.key_id = TRUE], "ok")
             \/ Put(r, [vault EXCEPT !.secret = TRUE], "ok")
          /\ UNCHANGED services /\ j.at \in {"store-id", "store-secret"}
      BY <2>1 DEF Store, Keeps
    <3> QED
      BY <3>1, Zenon
  <2>2. CASE Forget(r)
    <3>1. /\ \/ Put(r, [vault EXCEPT !.shared = 0], "forget-name")
             \/ Put(r, [vault EXCEPT !.known = None], "forget-catalogs")
             \/ Put(r, [vault EXCEPT !.catalogs = {}], "ok")
          /\ UNCHANGED services /\ j.at \in {"forget-id", "forget-name", "forget-catalogs"}
      BY <2>2, Zenon DEF Forget, Keeps, At
    <3> QED
      BY <3>1, Zenon
  <2> QED
    BY <2>1, <2>2
<1>2. /\ j \in Job /\ Tame(j)
      /\ Booting(j) => Boot(j, engines, warehouse, vault, trino, file)
  BY OnBoot
<1>3. ~Booting(j)
  BY <1>1, <1>2 DEF Boot
<1>4. l \in Labels \ {"remember"}
  BY DEF Labels, Ends
<1>5. new \in kept => new.sail = vault.sail /\ new.catalogs = vault.catalogs /\ new.id_of = vault.id_of
  BY DEF LakeInv, Vault
<1>6. j.op \notin Engines => new \in kept
  BY <1>1, <1>2 DEF Tame, Loud
<1>7. Tame(K(l))
  <2> DEFINE k == K(l)
  <2> HIDE DEF j
  <2>1. /\ k.at = l /\ k.op = j.op /\ k.then = j.then
    BY <1>2, <1>4, Turned
  <2> HIDE DEF k
  <2>2. Tame(k)
    BY <1>1, <1>2, <2>1 DEF Tame, Loud
  <2> QED
    BY <2>2 DEF k
<1>8. j.op \notin Engines =>
        /\ new.sail = vault.sail /\ new.catalogs = vault.catalogs
        /\ Fresh(j, warehouse) =>
             \A n \in Names : warehouse[n] # 0 /\ vault.id_of[n] = warehouse[n]
                                => new.id_of[n] = warehouse[n]
  BY <1>5, <1>6
<1>9. j.at # "idle" /\ Put(r, new, l) /\ UNCHANGED services
  BY <1>1
<1> QED
  BY <1>3, <1>4, <1>7, <1>8, <1>9, BootPuts

(* Everyone is hurt: nothing is promised any more.                         *)
LEMMA HurtFields ==
  ASSUME NEW j \in Job
  PROVE  LET k == Hurt(j) IN
         /\ k \in Job /\ k.at = j.at /\ k.op = j.op /\ k.name = j.name /\ k.then = j.then
         /\ k.alone = j.alone /\ k.hurt = (j.op # None)
  BY DEF Job, Hurt

LEMMA AllHurtBoots ==
  ASSUME LakeInv, BootInv, UNCHANGED engines,
         \A q \in Requests :
           /\ request'[q].op = request[q].op /\ request'[q].alone = request[q].alone
           /\ request'[q].hurt = (request[q].op # None)
           /\ \/ request'[q].at = request[q].at /\ request'[q].then = request[q].then
              \/ request'[q].op \in Engines
  PROVE  BootInv'
<1>1. None \notin Ops /\ Engines \subseteq Ops /\ "submit" # None
  BY LakehouseAssumption DEF LakehouseAssumption, Engines, Ops
<1>2. \A q \in Requests : Tame(request'[q])
  BY <1>1 DEF BootInv, Tame
<1>3. \A q \in Requests : ~Booting(request'[q])
  BY <1>1 DEF Booting
<1>4. \A q \in Requests : ~request'[q].hurt => Fresh(request'[q], warehouse')
  BY <1>1 DEF BootInv, Tame, Fresh
<1>5. \A p, q \in Requests : p # q /\ request'[p].op \in Engines /\ request'[p].alone => request'[q].op \notin Engines
  BY DEF BootInv
<1> QED
  BY <1>2, <1>3, <1>4, <1>5 DEF BootInv

LEMMA WipeBoots ==
  ASSUME LakeInv, BootInv, NEW r \in Requests, Wipe(r)
  PROVE  BootInv'
<1> DEFINE k == [request[r] EXCEPT !.at = "forget-id"]
<1>1. request[r].at = "wipe" /\ UNCHANGED <<engines, owners, key, vault, trino, file>>
  BY DEF Wipe, At, Keeps
<1>2. \/ request' = [AllHurt EXCEPT ![r].at = "forget-id"]
      \/ To(r, Hurt(k)) /\ UNCHANGED warehouse
  BY Zenon DEF Wipe
<1>3. request[r] \in Job /\ request[r].op \in Engines
  BY <1>1, OnBoot DEF Tame, Loud
<1>4. "forget-id" \in Labels
  BY DEF Labels
<1>5. CASE request' = [AllHurt EXCEPT ![r].at = "forget-id"]
  <2> DEFINE h == [Hurt(request[r]) EXCEPT !.at = "forget-id"]
  <2>1. \A q \in Requests : request'[q] = IF q = r THEN h ELSE Hurt(request[q])
    BY <1>5 DEF AllHurt
  <2>2. h.op = request[r].op /\ h.alone = request[r].alone /\ h.hurt = (request[r].op # None)
    <3> DEFINE i == Hurt(request[r])
    <3>1. i \in Job /\ i.op = request[r].op /\ i.alone = request[r].alone /\ i.hurt = (request[r].op # None)
      BY <1>3, HurtFields
    <3> HIDE DEF i
    <3> DEFINE m == [i EXCEPT !.at = "forget-id"]
    <3>2. m.op = i.op /\ m.alone = i.alone /\ m.hurt = i.hurt
      BY <1>4, <3>1, Turned
    <3> QED
      BY <3>1, <3>2 DEF i
  <2> HIDE DEF h
  <2>3. ASSUME NEW q \in Requests
        PROVE  /\ request'[q].op = request[q].op /\ request'[q].alone = request[q].alone
               /\ request'[q].hurt = (request[q].op # None)
               /\ \/ request'[q].at = request[q].at /\ request'[q].then = request[q].then
                  \/ request'[q].op \in Engines
    <3>1. CASE q = r
      BY <1>3, <2>1, <2>2, <3>1
    <3>2. CASE q # r
      BY <2>1, <3>2, HurtFields, OnBoot
    <3> QED
      BY <3>1, <3>2
  <2> QED
    BY <1>1, <2>3, AllHurtBoots
<1>6. CASE To(r, Hurt(k)) /\ UNCHANGED warehouse
  <2>1. /\ k \in Job /\ k.at = "forget-id" /\ k.op = request[r].op /\ k.name = request[r].name
        /\ k.hurt = request[r].hurt /\ k.alone = request[r].alone
    BY <1>3, <1>4, Turned
  <2>2. Gentle(r) /\ UNCHANGED engines
    BY <1>1, <1>6, LoudIsGentle DEF Loud
  <2> HIDE DEF k
  <2>3. Leads(request[r], k) /\ Tame(k) /\ k.at # "remember"
    BY <1>3, <2>1 DEF Leads, Tame, Engines, Ops
  <2> QED
    BY <1>6, <2>1, <2>2, <2>3, BootFails
<1> QED
  BY <1>2, <1>5, <1>6

LEMMA IdleIsTame == Tame(Idle) /\ Idle.at = "idle" /\ Idle.op = None /\ ~Booting(Idle)
                    /\ Idle.hurt = FALSE
<1>1. Idle.at = "idle" /\ Idle.then = "idle" /\ Idle.op = None /\ Idle.hurt = FALSE
  BY DEF Idle
<1>2. None # "submit"
  BY LakehouseAssumption DEF LakehouseAssumption, Ops
<1> QED
  BY <1>1, <1>2 DEF Tame, Loud, Booting

LEMMA LeaveBoots ==
  ASSUME LakeInv, BootInv, NEW r \in Requests, Leave(r)
  PROVE  BootInv'
<1>1. Held /\ To(r, Idle)
  BY DEF Leave, Keeps, services, Held
<1>2. Gentle(r) /\ UNCHANGED engines
  BY <1>1, HeldIsGentle DEF Held
<1>3. Fresh(Idle, warehouse')
  BY IdleIsTame DEF Fresh
<1> QED
  BY <1>1, <1>2, <1>3, IdleIsTame, BootMoves

LEMMA RestartsBoot ==
  ASSUME LakeInv, BootInv, DatabaseDropped \/ ConsoleRestarts \/ TrinoRestarts
  PROVE  BootInv'
<1>1. CASE ConsoleRestarts
  <2>1. UNCHANGED engines /\ request' = [r \in Requests |-> Idle]
    BY <1>1 DEF ConsoleRestarts, Keeps, services
  <2>2. \A q \in Requests : request'[q] = Idle
    BY <2>1
  <2>3. None \notin Engines
    BY LakehouseAssumption DEF LakehouseAssumption, Engines, Ops
  <2> QED
    BY <2>1, <2>2, <2>3, IdleIsTame DEF BootInv, Fresh
<1>2. CASE DatabaseDropped \/ TrinoRestarts
  <2>1. UNCHANGED engines /\ request' = AllHurt
    BY <1>2 DEF DatabaseDropped, TrinoRestarts, Keeps
  <2>2. \A q \in Requests : request'[q] = Hurt(request[q])
    BY <2>1 DEF AllHurt
  <2>3. \A q \in Requests :
           /\ request'[q].op = request[q].op /\ request'[q].alone = request[q].alone
           /\ request'[q].hurt = (request[q].op # None)
           /\ request'[q].at = request[q].at /\ request'[q].then = request[q].then
    BY <2>2, HurtFields, OnBoot
  <2> QED
    BY <2>1, <2>3, AllHurtBoots
<1> QED
  BY <1>1, <1>2

(* A request that comes while none is at the engines and none is hurt is   *)
(* alone; one that comes later takes that from it.                         *)
LEMMA StartBoots ==
  ASSUME LakeInv, BootInv, NEW r \in Requests, Start(r)
  PROVE  BootInv'
<1> DEFINE busy == {q \in Requests : q # r /\ (request[q].op \in Engines \/ request[q].hurt)}
<1>1. PICK op \in Ops, n \in Names :
        request' = [q \in Requests |->
          IF q = r THEN [Idle EXCEPT !.op = op, !.name = n, !.at = First[op],
                           !.then = After[op], !.alone = op \in Engines /\ busy = {}]
          ELSE IF op \in Engines /\ request[q].op \in Engines THEN [request[q] EXCEPT !.alone = FALSE] ELSE request[q]]
  BY Zenon DEF Start
<1>2. UNCHANGED <<engines, warehouse, vault, trino, file>> /\ request[r].at = "idle"
  BY DEF Start, services, At
<1> DEFINE new == [Idle EXCEPT !.op = op, !.name = n, !.at = First[op],
                     !.then = After[op], !.alone = op \in Engines /\ busy = {}]
           Apart(q) == [request[q] EXCEPT !.alone = FALSE]
<1>3. /\ new.op = op /\ new.at = First[op] /\ new.then = After[op] /\ new.name = n
      /\ new.alone = (op \in Engines /\ busy = {}) /\ new.hurt = FALSE
  BY DEF Idle
<1>4. /\ First[op] \notin {"remember", "idle"}
      /\ op \notin Engines =>
           /\ First[op] \notin Loud /\ After[op] \notin Loud
           /\ First[op] \in {"list", "again"} \/ After[op] \in {"list", "again"} => op = "open"
           /\ First[op] \in {"credentials", "post", "look-up"} => op \in {"open", "auto"}
      /\ op = "submit" => First[op] = "post" /\ After[op] = "wiring"
  BY DEF Ops, First, After, Loud, Engines
<1>5. \A q \in Requests :
        /\ q # r /\ op \in Engines /\ request[q].op \in Engines => request'[q] = Apart(q)
        /\ q # r /\ ~(op \in Engines /\ request[q].op \in Engines) => request'[q] = request[q]
        /\ q = r => request'[q] = new
  BY <1>1
<1>6. \A q \in Requests :
        /\ Apart(q).op = request[q].op /\ Apart(q).at = request[q].at /\ Apart(q).then = request[q].then
        /\ Apart(q).hurt = request[q].hurt /\ Apart(q).alone = FALSE
        /\ Apart(q).name = request[q].name /\ Apart(q).id = request[q].id
  BY OnBoot DEF Job
<1>7. busy = {} => \A q \in Requests : q # r => request[q].op \notin Engines /\ ~request[q].hurt
  OBVIOUS
<1> HIDE DEF new, Apart, busy
<1>8. \A q \in Requests : q # r =>
        /\ request'[q].op = request[q].op /\ request'[q].at = request[q].at /\ request'[q].then = request[q].then
        /\ request'[q].hurt = request[q].hurt /\ request'[q].name = request[q].name /\ request'[q].id = request[q].id
        /\ request'[q].alone => request[q].alone
        /\ op \in Engines /\ request[q].op \in Engines => ~request'[q].alone
  BY <1>5, <1>6
<1>9. \A q \in Requests : Tame(request'[q])
  <2>1. Tame(new)
    BY <1>3, <1>4 DEF Tame
  <2>2. \A q \in Requests : Tame(request[q])
    BY DEF BootInv
  <2> QED
    BY <1>5, <1>8, <2>1, <2>2 DEF Tame
<1>10. ASSUME NEW p \in Requests, NEW q \in Requests, p # q, request'[p].op \in Engines, request'[p].alone
       PROVE  request'[q].op \notin Engines
  <2>1. CASE p = r
    <3>1. busy = {}
      BY <1>3, <1>5, <1>10, <2>1
    <3> QED
      BY <1>7, <1>8, <1>10, <2>1, <3>1
  <2>2. CASE p # r
    <3>1. request[p].op \in Engines /\ request[p].alone /\ op \notin Engines
      BY <1>8, <1>10, <2>2
    <3>2. CASE q = r
      BY <1>3, <1>5, <3>1, <3>2
    <3>3. CASE q # r
      BY <1>8, <1>10, <3>1, <3>3 DEF BootInv
    <3> QED
      BY <3>2, <3>3
  <2> QED
    BY <2>1, <2>2
<1>11. ASSUME NEW q \in Requests, ~request'[q].hurt \/ \E p \in Requests : Booting(request'[p])
       PROVE  Fresh(request'[q], warehouse')
  <2>1. CASE q = r
    BY <1>3, <1>4, <1>5, <2>1 DEF Fresh
  <2>2. CASE q # r
    <3>1. ~request[q].hurt \/ \E p \in Requests : Booting(request[p])
      <4>1. CASE ~request'[q].hurt
        BY <1>8, <2>2, <4>1
      <4>2. CASE \E p \in Requests : Booting(request'[p])
        <5>1. PICK p \in Requests : Booting(request'[p])
          BY <4>2
        <5>2. CASE p = r
          BY <1>3, <1>5, <1>7, <2>2, <5>1, <5>2 DEF Booting
        <5>3. CASE p # r
          BY <1>8, <5>1, <5>3 DEF Booting
        <5> QED
          BY <5>2, <5>3
      <4> QED
        BY <1>11, <4>1, <4>2
    <3>2. Fresh(request[q], warehouse)
      BY <3>1 DEF BootInv
    <3> QED
      BY <1>2, <1>8, <2>2, <3>2 DEF Fresh
  <2> QED
    BY <2>1, <2>2
<1>12. ASSUME NEW q \in Requests, Booting(request'[q])
       PROVE  Boot(request'[q], engines, warehouse', vault', trino', file')
  <2>1. CASE q = r
    <3>1. new.at = "post" /\ new.then = "wiring"
      BY <1>3, <1>4, <1>5, <1>12, <2>1 DEF Booting
    <3> QED
      BY <1>5, <2>1, <3>1 DEF Boot
  <2>2. CASE q # r
    <3>1. "submit" \in Engines
      BY DEF Engines
    <3>2. request'[q] = request[q]
      BY <1>5, <1>8, <1>12, <2>2, <3>1 DEF Booting
    <3>3. Boot(request[q], engines, warehouse, vault, trino, file)
      BY <1>12, <3>2 DEF BootInv
    <3> QED
      BY <1>2, <3>2, <3>3
  <2> QED
    BY <2>1, <2>2
<1> QED
  BY <1>2, <1>9, <1>10, <1>11, <1>12 DEF BootInv

LEMMA BootStart == LakeInit => BootInv
<1> SUFFICES ASSUME LakeInit PROVE BootInv
  OBVIOUS
<1>1. \A q \in Requests : request[q] = Idle
  BY DEF LakeInit
<1>2. None \notin Engines
  BY LakehouseAssumption DEF LakehouseAssumption, Engines, Ops
<1> QED
  BY <1>1, <1>2, IdleIsTame DEF BootInv, Fresh

LEMMA BootStep == LakeInv /\ BootInv /\ [LakeNext]_lakeVars => BootInv'
<1> SUFFICES ASSUME LakeInv, BootInv, [LakeNext]_lakeVars PROVE BootInv'
  OBVIOUS
<1>1. CASE UNCHANGED lakeVars
  BY <1>1 DEF lakeVars, BootInv
<1>2. ASSUME NEW r \in Requests, Start(r) PROVE BootInv'
  BY <1>2, StartBoots
<1>3. ASSUME NEW r \in Requests, Step(r) PROVE BootInv'
  <2>1. CASE Cached(r) \/ Legacy(r) \/ Discover(r) \/ ListAll(r) \/ Remember(r) \/ RememberDefault(r)
    BY <2>1, CachedBoots, LegacyBoots, DiscoverBoots, RememberBoots, RememberDefaultBoots
  <2>2. CASE List(r) \/ Browse(r) \/ Change(r) \/ Credentials(r) \/ Post(r) \/ LookUp(r)
    BY <2>2, PagesBoot, PostBoots, LookUpBoots
  <2>3. CASE Keep(r) \/ Name(r) \/ Share(r) \/ Drop(r) \/ Write(r) \/ Create(r) \/ Cache(r)
    BY <2>3, KeepBoots, NameBoots, ShareBoots, DropBoots, WriteBoots, CreateBoots, CacheBoots
  <2>4. CASE \/ Configure(r) \/ ReadCatalogs(r) \/ WriteCatalogs(r) \/ Key(r) \/ Bucket(r)
             \/ Store(r) \/ Wipe(r) \/ Forget(r) \/ Leave(r)
    BY <2>4, ConfigureBoots, ReadCatalogsBoots, WriteCatalogsBoots, GarageBoots, WritesBoot,
       WipeBoots, LeaveBoots
  <2> QED
    BY <1>3, <2>1, <2>2, <2>3, <2>4 DEF Step
<1> QED
  BY <1>1, <1>2, <1>3, RestartsBoot DEF LakeNext

(* For any names, any number of requests, calls, failures, restarts and    *)
(* wipes: a bootstrap from the form that was alone at the engines and that *)
(* nothing hurt leaves its warehouse in Lakekeeper, in the engines there   *)
(* are and in the cache, under one identifier.                             *)
THEOREM BootstrapsAlwaysQueryable == LakeSpec => []BootstrappedIsQueryable
<1>1. LakeInit => LakeInv /\ BootInv
  BY LakeStart, BootStart
<1>2. LakeInv /\ BootInv /\ [LakeNext]_lakeVars => (LakeInv /\ BootInv)'
  BY LakeStep, BootStep
<1>3. BootInv => BootstrappedIsQueryable
  BY DEF BootInv, BootstrappedIsQueryable, Booting, Boot
<1> QED
  BY <1>1, <1>2, <1>3, PTL DEF LakeSpec
=============================================================================
