----------------------------- MODULE MCPlatform -----------------------------
\* Install jobs and the lakehouse they make room for, which share no state; a
\* behaviour exercises one of them.
\*
\* Jobs: postgres, which has a credential, and lakekeeper, which has a
\* bootstrap hook and shows credentials itself.
\*
\* Lakehouse: three warehouses, two of which share a catalog as "my-sales" and
\* "my_sales" do, and two requests at a time, from the states that undisturbed
\* bootstraps leave on a host with both engines, and from an empty one with
\* either, or none; visited says their pages were opened since, wiped that
\* Lakekeeper was uninstalled and installed again.
EXTENDS InstallJobs, Lakehouse, TLC
CONSTANTS default, sales, twin
VARIABLE part

MCOrder == <<"postgres", "lakekeeper">>
MCCredentialed == {"postgres"}
MCBootstrapped == {"lakekeeper"}

MCCatalog(n) == IF n = twin THEN sales ELSE n

Undisturbed(made, visited, wiped) ==
  LET last(S) == IF \E i \in DOMAIN made : made[i] \in S
                 THEN CHOOSE i \in DOMAIN made :
                        made[i] \in S /\ \A k \in DOMAIN made : made[k] \in S => k <= i
                 ELSE 0
      ids == [n \in Names |-> last({n})]
      catalog(e, c) == IF e \in engines THEN last({n \in Names : Catalog(n) = c}) ELSE 0
  IN /\ owners = made
     /\ warehouse = IF wiped THEN [n \in Names |-> 0] ELSE ids
     /\ vault = [key_id |-> made # <<>>, secret |-> made # <<>>,
                 id_of |-> IF visited \/ "trino" \in engines THEN ids ELSE [n \in Names |-> 0],
                 shared |-> Len(made),
                 known |-> IF made = <<>> THEN None ELSE made[Len(made)],
                 sail |-> [c \in Catalogs |->
                            IF catalog("sail", c) = 0 THEN None ELSE catalog("sail", c)],
                 catalogs |-> {c \in Catalogs : catalog("sail", c) # 0}]
     /\ trino = [c \in Catalogs |->
                  IF catalog("trino", c) = 0 THEN None ELSE made[catalog("trino", c)]]
     /\ file = trino

Histories == {<<>>, <<default, sales>>}

Empty == engines = {"trino", "sail"} /\ Undisturbed(<<>>, FALSE, FALSE) /\ wipes = 0
Furnished ==
  /\ engines \in SUBSET {"trino", "sail"}
  /\ \E made \in Histories, visited, wiped \in BOOLEAN :
       /\ Undisturbed(made, visited, wiped) /\ wipes = IF wiped THEN 1 ELSE 0
       /\ engines # {"trino", "sail"} => made = <<>>

MCInit ==
  /\ part \in {"jobs", "lake"}
  /\ Init
  /\ IF part = "lake" THEN Furnished ELSE Empty
  /\ key = FALSE /\ request = [r \in Requests |-> Idle]
  /\ starts = 0 /\ faults = 0

\* Calls fail, and Lakekeeper is uninstalled, under one request at most.
Mild == (faults' # faults \/ DatabaseDropped) =>
          Cardinality({r \in Requests : ~At(r, "idle")}) <= 1
\* Store and vault do not fail a removal: MCInstallJobsFair has that.
Calm == \A j \in Jobs : job'[j].noted = {}
MCNext ==
  \/ part = "jobs" /\ Next /\ Calm /\ UNCHANGED <<part, lakeVars>>
  \/ part = "lake" /\ LakeNext /\ Mild /\ UNCHANGED <<part, vars>>
MCSpec == MCInit /\ [][MCNext]_<<part, vars, lakeVars>>

Symmetry == Permutations(Requests) \cup Permutations(Jobs)
=============================================================================
