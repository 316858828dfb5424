------------------------------ MODULE Lakehouse ------------------------------
(***************************************************************************)
(* Warehouses.  Lakekeeper keeps one warehouse per name and answers by     *)
(* identifier; the vault caches the identifiers, one key per name and an   *)
(* older key shared by all of them; Trino and Sail hold a catalog per      *)
(* warehouse; Garage's access key lets all of them at the data, and tells  *)
(* its secret once.  Every request below is a sequence of calls to these   *)
(* services and the vault; any call may fail, and requests interleave.     *)
(***************************************************************************)
EXTENDS Integers, Sequences, FiniteSets

CONSTANTS
  Names,      \* warehouse names
  Default,    \* the name "default"
  Catalog(_), \* the name of a warehouse's catalog in the engines: what may not
              \* stand in an identifier becomes _, and names may share one
  Requests,   \* requests the console serves at once
  MaxStarts,  \* bound: requests made
  MaxFaults,  \* bound: calls that fail, and crashes of the console
  MaxWipes,   \* bound: times Lakekeeper's database is dropped
  None

Ops == {"open", "browse", "change", "wire", "submit", "auto", "garage", "reset"}

ASSUME LakehouseAssumption ==
  /\ Default \in Names /\ None \notin Names \cup Ops \cup Nat /\ Names \cap Nat = {}
  /\ MaxStarts \in Nat /\ MaxFaults \in Nat /\ MaxWipes \in Nat

VARIABLES
  engines,    \* which of Trino and Sail are installed
  warehouse,  \* Lakekeeper: name -> identifier, 0 for none
  owners,     \* identifier -> the name it was made for
  key,        \* Garage has the key "lakekeeper"
  vault,      \* key_id, secret: cached?  id_of: name -> identifier; shared:
              \* the identifier under lakekeeper/default-warehouse-id; known:
              \* lakekeeper/default-warehouse-name; sail: catalog -> what it asks
              \* Lakekeeper for; catalogs: sail/catalog-names
  trino,      \* catalog -> the warehouse it asks Lakekeeper for, by its name or
              \* an identifier; None for no catalog
  file,       \* catalog -> the same, in etc/catalog/<catalog>.properties
  request,    \* request -> where it is
  starts, faults, wipes

lakeVars == <<engines, warehouse, owners, key, vault, trino, file, request,
              starts, faults, wipes>>
services == <<engines, warehouse, owners, key, trino, file>>

\* An identifier of 0 is no identifier: a caller that holds it sends the name.
Live(id) == id # 0 /\ \E n \in Names : warehouse[n] = id
Reaches(n, candidate) == IF candidate = 0 THEN warehouse[n] # 0 ELSE Live(candidate)
Ask(n, candidate) == IF candidate = 0 THEN n ELSE candidate
Catalogs == {Catalog(n) : n \in Names}

Idle == [op |-> None, name |-> None, at |-> "idle", id |-> 0, made |-> 0,
         then |-> "idle", candidates |-> <<>>, gone |-> FALSE,
         recovered |-> FALSE, secret |-> FALSE, seen |-> {},
         hurt |-> FALSE, alone |-> TRUE]

LakeInit ==
  /\ engines \in SUBSET {"trino", "sail"}
  /\ warehouse = [n \in Names |-> 0] /\ owners = <<>> /\ key = FALSE
  /\ vault = [key_id |-> FALSE, secret |-> FALSE, id_of |-> [n \in Names |-> 0],
              shared |-> 0, known |-> None, sail |-> [c \in Catalogs |-> None],
              catalogs |-> {}]
  /\ trino = [c \in Catalogs |-> None] /\ file = [c \in Catalogs |-> None]
  /\ request = [r \in Requests |-> Idle]
  /\ starts = 0 /\ faults = 0 /\ wipes = 0

-----------------------------------------------------------------------------
(* The shape of a step.                                                    *)

At(r, label) == request[r].at = label
To(r, j) == request' = [request EXCEPT ![r] = j]

\* Where a request goes without a call: what it tries once a name is resolved,
\* a warehouse is recovered, or it turns to an engine.
Resolves(j, then) == [j EXCEPT !.at = "cached", !.then = then]
ToSail(j) ==
  CASE "sail" \notin engines -> [j EXCEPT !.at = "ok"]
    [] "sail" \in engines /\ j.op = "submit" /\ j.made # 0 ->
         [j EXCEPT !.id = j.made, !.at = "configure"]
    [] OTHER -> Resolves(j, "configure")
Arrive(j) ==
  CASE j.at = "candidates" ->
         [j EXCEPT !.candidates = IF j.id = 0 THEN <<0>> ELSE <<0, j.id>>,
                   !.at = "config", !.then = "drop"]
    [] j.at = "wiring" ->
         IF "trino" \in engines THEN Resolves(j, "candidates") ELSE ToSail(j)
    [] j.at = "again" /\ j.op = "open" -> [j EXCEPT !.at = IF j.id = 0 THEN "failed" ELSE "list"]
    [] j.at = "again" /\ j.op # "open" ->
         IF j.op = "wire" /\ j.id # 0 THEN Resolves(j, "candidates") ELSE ToSail(j)
    [] j.at = "caching" ->
         IF j.id # 0 THEN [j EXCEPT !.at = "share", !.then = "cache"] ELSE ToSail(j)
    [] j.at = "sail" -> ToSail(j)
    [] OTHER -> j
Go(r, label) == To(r, Arrive([request[r] EXCEPT !.at = label]))
Keeps(S) == UNCHANGED <<starts, wipes>> /\ UNCHANGED S

\* A call succeeds, or fails and the request is hurt; so is one that finds no
\* credentials, and one whose database is dropped.
Fine == UNCHANGED faults
Fault == faults < MaxFaults /\ faults' = faults + 1
Hurt(j) == [j EXCEPT !.hurt = j.op # None]
AllHurt == [q \in Requests |-> Hurt(request[q])]

\* A write to the vault whose failure is ignored.
Put(r, new, label) ==
  \/ Fine /\ vault' = new /\ Go(r, label)
  \/ Fault /\ UNCHANGED vault /\ To(r, Arrive(Hurt([request[r] EXCEPT !.at = label])))

-----------------------------------------------------------------------------
(* A request arrives.                                                      *)

First == [open |-> "cached", browse |-> "cached", change |-> "cached", wire |-> "cached",
          submit |-> "post", auto |-> "credentials", garage |-> "key",
          reset |-> "wipe"]
After == [open |-> "list", browse |-> "read", change |-> "write-to", wire |-> "candidates",
          submit |-> "wiring", auto |-> "ok", garage |-> "ok", reset |-> "ok"]
Engines == {"wire", "submit", "reset"}

Start(r) == \E op \in Ops, n \in Names :
  /\ At(r, "idle") /\ starts < MaxStarts
  /\ op \in {"auto", "garage", "reset"} => n = Default
  /\ op = "wire" => vault.key_id /\ vault.secret /\ "trino" \in engines
  /\ LET busy == {q \in Requests : q # r /\ (request[q].op \in Engines \/ request[q].hurt)} IN
     request' = [q \in Requests |->
       IF q = r THEN [Idle EXCEPT !.op = op, !.name = n, !.at = First[op],
                        !.then = After[op], !.alone = op \in Engines /\ busy = {}]
       ELSE IF op \in Engines /\ request[q].op \in Engines
            THEN [request[q] EXCEPT !.alone = FALSE] ELSE request[q]]
  /\ starts' = starts + 1
  /\ wipes' = IF op = "reset" THEN wipes + 1 ELSE wipes
  /\ op = "reset" => wipes < MaxWipes
  /\ UNCHANGED <<services, vault, faults>>

Leave(r) ==
  /\ request[r].at \in {"shown", "failed", "ok"}
  /\ To(r, Idle) /\ Fine /\ Keeps(<<services, vault>>)

-----------------------------------------------------------------------------
(* From a name to an identifier: the key of that name; for the default     *)
(* warehouse the shared one; Lakekeeper's catalog configuration; its       *)
(* management list.  What Lakekeeper says is cached.                       *)

Take(r, id) == To(r, Arrive([request[r] EXCEPT !.id = id,
                               !.at = IF id # 0 THEN request[r].then ELSE "config"]))

\* (A mistake: the shared key serves every name.)
CachedForAll(r) ==
  /\ At(r, "cached")
  /\ IF vault.id_of[request[r].name] = 0 THEN Go(r, "legacy")
     ELSE Take(r, vault.id_of[request[r].name])
  /\ Fine /\ Keeps(<<services, vault>>)

Cached(r) ==
  /\ At(r, "cached")
  /\ IF vault.id_of[request[r].name] = 0 /\ request[r].name = Default THEN Go(r, "legacy")
     ELSE Take(r, vault.id_of[request[r].name])
  /\ Fine /\ Keeps(<<services, vault>>)

Legacy(r) ==
  /\ At(r, "legacy") /\ Take(r, vault.shared)
  /\ Fine /\ Keeps(<<services, vault>>)

\* Three callers ask the configuration alone; a resolution goes on to the list.
Asks(j) == IF j.then \in {"drop", "caching", "again"} THEN j.then ELSE "list-all"

Finds(r, otherwise) ==
  LET id == warehouse[request[r].name] IN
  /\ \/ /\ Fine
        /\ To(r, IF id # 0 THEN [request[r] EXCEPT !.id = id, !.at = "remember"]
                 ELSE Arrive([request[r] EXCEPT !.id = 0, !.at = otherwise]))
     \/ Fault /\ To(r, Arrive(Hurt([request[r] EXCEPT !.id = 0, !.at = otherwise])))
  /\ Keeps(<<services, vault>>)

Discover(r) == At(r, "config") /\ Finds(r, Asks(request[r]))
ListAll(r) == At(r, "list-all") /\ Finds(r, request[r].then)

Remember(r) ==
  /\ At(r, "remember")
  /\ Put(r, [vault EXCEPT !.id_of[request[r].name] = request[r].id],
         IF request[r].name = Default THEN "remember-default" ELSE request[r].then)
  /\ Keeps(services)

RememberDefault(r) ==
  /\ At(r, "remember-default")
  /\ Put(r, [vault EXCEPT !.shared = request[r].id], request[r].then)
  /\ Keeps(services)

-----------------------------------------------------------------------------
(* The pages.  A warehouse's page that finds its warehouse gone makes it   *)
(* again, once, from the credentials in the vault; the pages below it, and *)
(* the creations and deletions they offer, do not.                         *)

Asked(r, there, missing) ==
  /\ \/ Fine /\ Go(r, IF Live(request[r].id) THEN there ELSE missing)
     \/ Fault /\ To(r, Hurt([request[r] EXCEPT !.at = "failed"]))
  /\ Keeps(<<services, vault>>)

List(r) ==
  At(r, "list") /\ Asked(r, "shown", IF request[r].recovered THEN "failed" ELSE "credentials")

\* The page of a namespace or of a table.
Browse(r) == At(r, "read") /\ Asked(r, "shown", "failed")

\* A namespace or a table is created or deleted in the warehouse.
Change(r) == At(r, "write-to") /\ Asked(r, "shown", "failed")

Unrecovered(j) == IF j.op = "wire" THEN "sail" ELSE "failed"

Credentials(r) ==
  LET without == Arrive(Hurt([request[r] EXCEPT !.at = Unrecovered(request[r])])) IN
  /\ At(r, "credentials")
  /\ \/ Fine /\ IF vault.key_id /\ vault.secret THEN Go(r, "post") ELSE To(r, without)
     \/ Fault /\ To(r, without)
  /\ Keeps(<<services, vault>>)

-----------------------------------------------------------------------------
(* The bootstrap of a warehouse: create it, or look up the one that exists.*)

\* (A mistake: after a recovery the name is resolved again.)
MadeResolving(j, id) ==
  LET k == [j EXCEPT !.id = id, !.made = id, !.recovered = TRUE] IN
  CASE j.op = "submit" -> [k EXCEPT !.at = "keep"]
    [] j.op = "auto" -> [k EXCEPT !.at = "name"]
    [] OTHER -> [k EXCEPT !.at = "cached"]

Made(j, id) ==
  LET k == [j EXCEPT !.id = id, !.made = id, !.recovered = TRUE] IN
  CASE j.op = "submit" -> [k EXCEPT !.at = "keep"]
    [] j.op = "auto" -> [k EXCEPT !.at = "name"]
    [] OTHER -> [k EXCEPT !.then = "again", !.at = IF id # 0 THEN "share" ELSE "config"]

Post(r) ==
  LET n == request[r].name
      id == Len(owners) + 1
      makes == /\ warehouse[n] = 0
               /\ warehouse' = [warehouse EXCEPT ![n] = id]
               /\ owners' = Append(owners, n)
      lost == To(r, Arrive(Hurt([request[r] EXCEPT !.at = Unrecovered(request[r])])))
  IN /\ At(r, "post")
     /\ \/ makes /\ Fine /\ To(r, Made(request[r], id))
        \/ warehouse[n] # 0 /\ Fine /\ Go(r, "look-up") /\ UNCHANGED <<warehouse, owners>>
        \/ makes /\ Fault /\ lost
        \/ Fault /\ lost /\ UNCHANGED <<warehouse, owners>>
     /\ Keeps(<<engines, key, vault, trino, file>>)

LookUp(r) ==
  /\ At(r, "look-up")
  /\ \/ Fine /\ To(r, Made(request[r], warehouse[request[r].name]))
     \/ Fault /\ To(r, Hurt(Made(request[r], 0)))
  /\ Keeps(<<services, vault>>)

\* The form's credentials; then the name and the identifier.
Keep(r) ==
  /\ At(r, "keep")
  /\ \/ Put(r, [vault EXCEPT !.key_id = TRUE, !.secret = TRUE], "name")
     \/ Fault /\ vault' = [vault EXCEPT !.key_id = TRUE] /\ To(r, Hurt([request[r] EXCEPT !.at = "name"]))
  /\ Keeps(services)

Name(r) ==
  /\ At(r, "name")
  /\ Put(r, [vault EXCEPT !.known = request[r].name],
         IF request[r].id # 0 THEN "share" ELSE request[r].then)
  /\ Keeps(services)

Share(r) ==
  /\ At(r, "share") /\ Put(r, [vault EXCEPT !.shared = request[r].id], request[r].then)
  /\ Keeps(services)

-----------------------------------------------------------------------------
(* Trino.  The catalog is dropped, then each candidate is written to the   *)
(* properties file and tried, until one is accepted.                       *)

elsewhere == <<engines, warehouse, owners, key, vault, file>>

\* (A mistake: the catalog is dropped between candidates only.)
DropBetween(r) ==
  LET j == request[r]
      cs == IF j.at = "drop" /\ j.id \notin {0} \cup {j.candidates[i] : i \in DOMAIN j.candidates}
            THEN Append(j.candidates, j.id) ELSE j.candidates
      rest == IF j.at = "drop" THEN cs ELSE Tail(cs)
      next == CASE rest # <<>> -> "write"
                [] rest = <<>> /\ j.op = "wire" /\ j.gone /\ ~j.recovered -> "credentials"
                [] OTHER -> "sail"
  IN /\ j.at \in {"drop", "drop-again"}
     /\ LET k == [j EXCEPT !.candidates = rest, !.at = next] IN
        \/ Fine /\ trino' = [trino EXCEPT ![Catalog(j.name)] = IF j.at = "drop" THEN @ ELSE None] /\ To(r, Arrive(k))
        \/ Fault /\ UNCHANGED trino /\ To(r, Arrive(Hurt(k)))
     /\ Keeps(elsewhere)

Drop(r) ==
  LET j == request[r]
      cs == IF j.at = "drop" /\ j.id \notin {0} \cup {j.candidates[i] : i \in DOMAIN j.candidates}
            THEN Append(j.candidates, j.id) ELSE j.candidates
      rest == IF j.at = "drop" THEN cs ELSE Tail(cs)
      next == CASE rest # <<>> -> "write"
                [] rest = <<>> /\ j.op = "wire" /\ j.gone /\ ~j.recovered -> "credentials"
                [] OTHER -> "sail"
  IN /\ j.at \in {"drop", "drop-again"}
     /\ LET k == [j EXCEPT !.candidates = rest, !.at = next] IN
        \/ Fine /\ trino' = [trino EXCEPT ![Catalog(j.name)] = None] /\ To(r, Arrive(k))
        \/ Fault /\ UNCHANGED trino /\ To(r, Arrive(Hurt(k)))
     /\ Keeps(elsewhere)

Write(r) ==
  /\ At(r, "write")
  /\ \/ /\ Fine /\ Go(r, "create")
        /\ file' = [file EXCEPT ![Catalog(request[r].name)] = Ask(request[r].name, Head(request[r].candidates))]
     \/ Fault /\ UNCHANGED file /\ To(r, Hurt([request[r] EXCEPT !.at = "create"]))
  /\ Keeps(<<engines, warehouse, owners, key, vault, trino>>)

Create(r) ==
  LET j == request[r]
      c == Head(j.candidates)
      there == trino[Catalog(j.name)] # None
      accepted == ~there /\ Reaches(j.name, c)
      made == [trino EXCEPT ![Catalog(j.name)] = Ask(j.name, c)]
      refused == [j EXCEPT !.at = "drop-again"]
  IN /\ At(r, "create")
     /\ \/ /\ accepted /\ Fine /\ trino' = made
           /\ To(r, IF c = 0 THEN [j EXCEPT !.at = "config", !.then = "caching"]
                    ELSE Arrive([j EXCEPT !.at = "caching", !.id = c]))
        \/ /\ ~accepted /\ Fine /\ UNCHANGED trino
           /\ To(r, [refused EXCEPT !.gone = @ \/ ~there])
        \/ accepted /\ Fault /\ trino' = made /\ To(r, Hurt(refused))
        \/ Fault /\ UNCHANGED trino /\ To(r, Hurt(refused))
     /\ Keeps(elsewhere)

\* The identifier behind an accepted catalog goes under both keys.
Cache(r) ==
  /\ At(r, "cache")
  /\ Put(r, [vault EXCEPT !.id_of[request[r].name] = request[r].id], "sail")
  /\ Keeps(services)

-----------------------------------------------------------------------------
(* Sail.  Its configuration is kept in the vault: the identifier first,    *)
(* then the keys, then the list of catalogs, read, extended, written back. *)

Configure(r) ==
  LET j == request[r]
      new == [vault EXCEPT !.sail[Catalog(j.name)] = Ask(j.name, j.id)]
  IN /\ At(r, "configure")
     /\ \/ Fine /\ vault' = new /\ Go(r, "read-catalogs")
        \/ Fault /\ vault' \in {vault, new} /\ To(r, Hurt([j EXCEPT !.at = "ok"]))
     /\ Keeps(services)

\* A list that cannot be read counts as empty.
ReadCatalogs(r) ==
  LET Reads(seen) == [request[r] EXCEPT !.seen = seen,
        !.at = IF Catalog(request[r].name) \in seen THEN "ok" ELSE "write-catalogs"]
  IN /\ At(r, "read-catalogs")
     /\ \/ Fine /\ To(r, Reads(vault.catalogs))
        \/ Fault /\ To(r, Hurt(Reads({})))
     /\ Keeps(<<services, vault>>)

WriteCatalogs(r) ==
  /\ At(r, "write-catalogs")
  /\ Put(r, [vault EXCEPT !.catalogs = request[r].seen \cup {Catalog(request[r].name)}], "ok")
  /\ Keeps(services)

-----------------------------------------------------------------------------
(* Garage's own bootstrap, after its install or by a retry.  Making the    *)
(* key tells the secret; what it told is stored after the bucket is ready, *)
(* and lost if the bucket fails.                                           *)

Key(r) ==
  LET j == [request[r] EXCEPT !.at = "bucket"] IN
  /\ At(r, "key")
  /\ \/ Fine /\ key' = TRUE /\ To(r, [j EXCEPT !.secret = ~key])
     \/ Fault /\ key' = TRUE /\ To(r, Hurt([j EXCEPT !.at = "failed"]))
     \/ Fault /\ UNCHANGED key /\ To(r, Hurt([j EXCEPT !.at = "failed"]))
  /\ Keeps(<<engines, warehouse, owners, vault, trino, file>>)

Bucket(r) ==
  /\ At(r, "bucket")
  /\ \/ Fine /\ Go(r, "store-id")
     \/ Fault /\ To(r, Hurt([request[r] EXCEPT !.at = "failed"]))
  /\ Keeps(<<services, vault>>)

Store(r) ==
  /\ request[r].at \in {"store-id", "store-secret"}
  /\ IF request[r].at = "store-id"
     THEN Put(r, [vault EXCEPT !.key_id = TRUE],
                 IF request[r].secret THEN "store-secret" ELSE "ok")
     ELSE Put(r, [vault EXCEPT !.secret = TRUE], "ok")
  /\ Keeps(services)

-----------------------------------------------------------------------------
(* A reset drops Lakekeeper's database and forgets the cached identifiers  *)
(* that it can name.  An uninstall drops the database too.                 *)

Emptied == warehouse' = [n \in Names |-> 0]

Wipe(r) ==
  /\ At(r, "wipe")
  /\ \/ Emptied /\ Fine /\ request' = [AllHurt EXCEPT ![r].at = "forget-id"]
     \/ Fault /\ To(r, Hurt([request[r] EXCEPT !.at = "forget-id"])) /\ UNCHANGED warehouse
  /\ Keeps(<<engines, owners, key, vault, trino, file>>)

Forget(r) ==
  /\ \/ At(r, "forget-id") /\ Put(r, [vault EXCEPT !.shared = 0], "forget-name")
     \/ At(r, "forget-name") /\ Put(r, [vault EXCEPT !.known = None], "forget-catalogs")
     \/ At(r, "forget-catalogs") /\ Put(r, [vault EXCEPT !.catalogs = {}], "ok")
  /\ Keeps(services)

DatabaseDropped ==
  /\ wipes < MaxWipes /\ wipes' = wipes + 1 /\ Emptied /\ request' = AllHurt
  /\ UNCHANGED <<engines, owners, key, vault, trino, file, starts, faults>>

\* The console dies and restarts; Trino reads its files when it restarts.
ConsoleRestarts ==
  /\ Fault /\ request' = [r \in Requests |-> Idle]
  /\ Keeps(<<services, vault>>)

TrinoRestarts ==
  /\ "trino" \in engines /\ trino # file /\ trino' = file
  /\ request' = AllHurt /\ Fault /\ Keeps(<<engines, warehouse, owners, key, vault, file>>)

-----------------------------------------------------------------------------
Step(r) ==
  \/ Cached(r) \/ Legacy(r) \/ Discover(r) \/ ListAll(r) \/ Remember(r)
  \/ RememberDefault(r) \/ List(r) \/ Browse(r) \/ Change(r) \/ Credentials(r) \/ Post(r) \/ LookUp(r)
  \/ Keep(r) \/ Name(r) \/ Share(r) \/ Drop(r) \/ Write(r) \/ Create(r) \/ Cache(r)
  \/ Configure(r) \/ ReadCatalogs(r) \/ WriteCatalogs(r)
  \/ Key(r) \/ Bucket(r) \/ Store(r) \/ Wipe(r) \/ Forget(r) \/ Leave(r)

LakeNext ==
  \/ \E r \in Requests : Start(r) \/ Step(r)
  \/ DatabaseDropped \/ ConsoleRestarts \/ TrinoRestarts

LakeSpec ==
  LakeInit /\ [][LakeNext]_lakeVars /\ \A r \in Requests : WF_lakeVars(Step(r))

-----------------------------------------------------------------------------
(* What is promised.                                                       *)

\* The page and the cached identifier of a name but "default" are never another
\* warehouse's.  A catalog but the default warehouse's, in Trino, in its file or
\* in Sail, leads only to warehouses it is named for: to that of the name alone,
\* where no other name shares the catalog.
OthersAreNeverMixed ==
  LET Own(n, id) == id = 0 \/ owners[id] = n
      Leads(c, asked) ==
        \/ asked = None
        \/ asked \in Names /\ Catalog(asked) = c
        \/ asked \in DOMAIN owners /\ Catalog(owners[asked]) = c
  IN /\ \A n \in Names \ {Default} :
          /\ Own(n, vault.id_of[n])
          /\ \A r \in Requests : request[r].name = n /\ At(r, "shown") => Own(n, request[r].id)
     /\ \A c \in Catalogs \ {Catalog(Default)} :
          Leads(c, trino[c]) /\ Leads(c, file[c]) /\ Leads(c, vault.sail[c])

\* A warehouse's page fails only if one of its own calls failed, the database
\* was dropped under it, or the vault lacks the credentials to make it again:
\* a stale identifier heals within the page that meets it.
PagesHealThemselves ==
  \A r \in Requests : request[r].op = "open" /\ At(r, "failed") => request[r].hurt

\* A bootstrap from the form that nothing hurt, and that overlapped neither
\* another request to the engines nor one that a wipe or a failure had already
\* hurt when it began (whose late write may bring back an old identifier),
\* leaves the warehouse reachable from the engines there are and, where Trino
\* confirmed it, from its page.
BootstrappedIsQueryable ==
  \A r \in Requests :
    LET j == request[r]  n == j.name  c == Catalog(n) IN
    j.op = "submit" /\ j.at = "ok" /\ ~j.hurt /\ j.alone =>
      /\ warehouse[n] # 0
      /\ "trino" \in engines =>
           trino[c] = n /\ file[c] = n /\ vault.id_of[n] = warehouse[n]
      /\ "sail" \in engines => vault.sail[c] = warehouse[n] /\ c \in vault.catalogs

\* garage.rs, of a key that exists: "a previous install already bootstrapped it
\* -- the secret is in the vault".
TheSecretIsInTheVault ==
  \A r \in Requests : At(r, "bucket") /\ ~request[r].secret => vault.secret

\* lib.rs, of the shared key: it is honoured for the name "default" alone,
\* "otherwise we'd hand back a different warehouse's UUID".
NoneIsMixed ==
  \A r \in Requests : At(r, "shown") => owners[request[r].id] = request[r].name
=============================================================================
