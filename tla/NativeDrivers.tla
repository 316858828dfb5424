--------------------------- MODULE NativeDrivers ---------------------------
(***************************************************************************)
(* The host one native driver works on: what is in the product's root      *)
(* directory, what systemd (launchd, the Windows service manager) knows    *)
(* and runs, and the install and uninstall jobs that take the steps of     *)
(* DriverRecipes.  A step may die half-way (an error, a crash of the       *)
(* process, a reboot); an install then stops, an uninstall goes on.        *)
(* Another program may take a port that the product needs.                 *)
(***************************************************************************)
EXTENDS DriverRecipes, FiniteSets, Integers, SequencesExt

CONSTANTS
  Products,    \* the drivers explored; a behaviour works on one of them
  Versions,    \* the versions an operator can ask for
  Workers,     \* jobs at work at once
  Retention,   \* 3 in the code: releases kept
  MaxFaults,   \* bound: steps that die, reboots and ports taken
  None

ASSUME DriversAssumption ==
  /\ Products \subseteq Known
  /\ Retention \in Nat \ {0} /\ MaxFaults \in Nat /\ None \notin Versions \cup {"torn", "k1", "k2"}
  /\ Cardinality(Workers) > 1 => Products \cap Released = {}

VARIABLES
  product,
  disk,     \* the product's files, see DiskType
  svc,      \* service -> its unit file, what the manager loaded, what runs
  job,      \* the job of each worker
  faults,
  installed,\* the version the last job installed, if it was an install
  result,   \* how the last job ended
  tainted   \* history: what went wrong outside the drivers' promises

vars == <<product, disk, svc, job, faults, installed, result, tainted>>

Idle == [kind |-> "idle", version |-> None, todo |-> <<>>, warned |-> FALSE]
Services == IF product = "databend" THEN {"main", "meta"} ELSE {"main"}
Plan(kind) == IF kind = "install" THEN Install(product) ELSE Uninstall(product)
Version(w) == job[w].version
Service(w) == Head(job[w].todo)[1]
At(w, step) == job[w].todo # <<>> /\ Head(job[w].todo)[2] = step

NoService == [unit |-> None, loaded |-> None, running |-> None, enabled |-> FALSE]
NoDisk == [
  cache |-> [v \in Versions |-> "none"], sealed |-> {},
  source |-> [v \in Versions |-> "none"], built |-> None,
  releases |-> <<>>, current |-> 0,
  config |-> "none", keys |-> "none", runtime |-> "none", toolchain |-> "none",
  data |-> None, distro |-> None, credentials |-> None, database |-> None]

Init ==
  /\ product \in Products
  /\ \E host \in Versions \cup {None} :
       /\ host # None => product \in DistroFirst
       /\ product = "macPostgres" => host # None
       /\ disk = [NoDisk EXCEPT !.distro = host]
  /\ svc = [s \in Services |-> NoService]
  /\ job = [w \in Workers |-> Idle]
  /\ faults = 0 /\ installed = None /\ result = "none" /\ tainted = {}

-----------------------------------------------------------------------------
(* What a unit's command line starts.                                      *)

Broken(d) == \/ d.config = "torn" \/ d.keys = "certificate"
             \/ d.runtime = "part" \/ d.data = "torn"

\* The version that runs when the service is started with unit u; None if
\* nothing does.  A half-extracted tree may hold enough to run, or not.
Runs(d, u) ==
  IF u # None /\ product = "xtable" THEN {u}
  ELSE IF u = None \/ Broken(d) THEN {None}
  ELSE IF product \in Released THEN
    {IF d.current \in DOMAIN d.releases THEN d.releases[d.current].binary ELSE None}
  ELSE IF product = "sail" THEN
    LET there == {v \in Versions : d.cache[v] = "whole"}
    IN IF there = {} THEN {None} ELSE there
  ELSE IF product \in DistroFirst /\ d.data # u THEN {None}
  ELSE IF u = d.distro THEN {u}
  ELSE {IF d.cache[u] = "none" THEN None ELSE u}
       \cup {IF d.cache[u] = "whole" THEN u ELSE None}

\* And where another program holds the port, the daemon cannot bind it.
Comes(d, u, taint) == Runs(d, u) \cup (IF "foreign" \in taint THEN {None} ELSE {})

\* PostgreSQL drivers take the binaries they find before the version asked for.
Wanted(w) ==
  IF product \in DistroFirst /\ disk.distro # None THEN disk.distro ELSE Version(w)

-----------------------------------------------------------------------------
(* How a step ends.                                                        *)

Advance(w, steps) ==
  job' = [job EXCEPT ![w].todo = SubSeq(@, steps + 1, Len(@))]

Becomes(w, name, d) ==
  /\ At(w, name) /\ disk' = d /\ Advance(w, 1)
  /\ UNCHANGED <<product, svc, faults, installed, result, tainted>>

Manages(w, name, fields) ==
  /\ At(w, name) /\ svc' = [svc EXCEPT ![Service(w)] = fields] /\ Advance(w, 1)
  /\ UNCHANGED <<product, disk, faults, installed, result, tainted>>

\* A step that changes nothing, and that cannot succeed unless `able`.
Needs(w, name, able) ==
  /\ At(w, name)
  /\ IF able THEN Advance(w, 1) /\ UNCHANGED result
     ELSE job' = [job EXCEPT ![w] = Idle] /\ result' = "blocked"
  /\ UNCHANGED <<product, disk, svc, faults, installed, tainted>>

-----------------------------------------------------------------------------
(* Bundles: fetch_and_extract.                                             *)

\* (A mistake: the directory is taken for the sentinel.)
CheckDirectory(w) ==
  /\ At(w, "check")
  /\ Advance(w, IF disk.cache[Version(w)] # "none" THEN 3 ELSE 1)
  /\ UNCHANGED <<product, disk, svc, faults, installed, result, tainted>>

\* The sentinel of an earlier install skips download and extraction.
Check(w) ==
  /\ At(w, "check")
  /\ Advance(w, IF Version(w) \in disk.sealed THEN 3 ELSE 1)
  /\ UNCHANGED <<product, disk, svc, faults, installed, result, tainted>>

Extract(w) == Becomes(w, "extract", [disk EXCEPT !.cache[Version(w)] = "whole"])
Seal(w) == Becomes(w, "seal", [disk EXCEPT !.sealed = @ \cup {Version(w)}])

Locate(w) ==
  /\ At(w, "locate")
  /\ \E found \in CASE disk.cache[Version(w)] = "none" -> {FALSE}
                   [] disk.cache[Version(w)] = "part" -> BOOLEAN
                   [] OTHER -> {TRUE} :
       Needs(w, "locate", found)

\* PostgreSQL on Windows: detect_bin_dir, or else the bundle.
DistroOrBundle(w) ==
  /\ At(w, "distroOrBundle") /\ Advance(w, IF disk.distro # None THEN 5 ELSE 1)
  /\ UNCHANGED <<product, disk, svc, faults, installed, result, tainted>>
Distro(w) == Needs(w, "distro", disk.distro # None)
Package(w) ==
  Becomes(w, "package", [disk EXCEPT !.distro = IF @ = None THEN Version(w) ELSE @])

-----------------------------------------------------------------------------
(* Source builds and releases.                                             *)

\* One toolchain serves every driver.  A cargo that is there is used, also in
\* what an interrupted rustup-init left; if that left none, it is run again.
Toolchain(w) ==
  \/ Becomes(w, "toolchain", [disk EXCEPT !.toolchain = "whole"])
  \/ disk.toolchain = "part" /\ Needs(w, "toolchain", TRUE)

Source(w) ==
  Becomes(w, "source",
    [disk EXCEPT !.source[Version(w)] = IF @ = "none" THEN "whole" ELSE @])

\* garage: the first extracted tree found is used, whatever its version.
Extracted == {v \in Versions : disk.source[v] # "none"}
AnySource(w) ==
  Becomes(w, "anySource",
    IF Extracted # {} THEN disk ELSE [disk EXCEPT !.source[Version(w)] = "whole"])
SourceOf(w) == IF product = "garage" THEN Extracted ELSE {Version(w)}

Build(w) ==
  At(w, "build") /\ \E v \in SourceOf(w) :
    IF disk.source[v] = "whole" /\ disk.toolchain = "whole"
    THEN Becomes(w, "build", [disk EXCEPT !.built = v])
    ELSE Needs(w, "build", FALSE)

NewRelease(w) ==
  Becomes(w, "newRelease",
    [disk EXCEPT !.releases =
       Append(@, [label |-> None, binary |-> None, probed |-> FALSE])])
Newest == Len(disk.releases)
Copy(w) ==
  Becomes(w, "copy", [disk EXCEPT !.releases[Newest].binary = disk.built])
Probe(w) == Becomes(w, "probe", [disk EXCEPT !.releases[Newest].probed = TRUE])
Manifest(w) ==
  Becomes(w, "manifest", [disk EXCEPT !.releases[Newest].label = Version(w)])
Swap(w) == Becomes(w, "swap", [disk EXCEPT !.current = Newest])

\* The oldest are removed, down to Retention, sparing the current one.
Pruned(d) ==
  LET excess == Len(d.releases) - Retention
      kept == {i \in DOMAIN d.releases : i > excess \/ i = d.current}
      place(i) == Cardinality({j \in kept : j <= i})
      at(n) == CHOOSE i \in kept : place(i) = n
  IN [d EXCEPT !.releases = [n \in 1..Cardinality(kept) |-> d.releases[at(n)]],
               !.current = IF @ = 0 THEN 0 ELSE place(@)]

Prune(w) == Becomes(w, "prune", Pruned(disk))

-----------------------------------------------------------------------------
(* What else an install leaves in the root directory.                      *)

Venv(w) ==
  Becomes(w, "venv", [disk EXCEPT
    !.cache = [v \in Versions |-> IF v = Version(w) THEN "whole" ELSE "none"]])

\* The jar of an earlier build is kept; a source tree that is there is built.
Jar(w) ==
  /\ At(w, "jar")
  /\ IF disk.cache[Version(w)] # "none" THEN Needs(w, "jar", TRUE)
     ELSE IF disk.source[Version(w)] = "part" THEN Needs(w, "jar", FALSE)
     ELSE Becomes(w, "jar", [disk EXCEPT !.source[Version(w)] = "whole",
                                         !.cache[Version(w)] = "whole"])

\* A half-extracted JRE that holds bin/java is taken for a whole one.
Runtime(w) ==
  \/ Becomes(w, "runtime", [disk EXCEPT !.runtime = "whole"])
  \/ disk.runtime = "part" /\ Needs(w, "runtime", TRUE)

Config(w) == Becomes(w, "config", [disk EXCEPT !.config = "ours"])
KeepConfig(w) ==
  Becomes(w, "keepConfig",
    [disk EXCEPT !.config = IF @ = "none" THEN "ours" ELSE @])

\* The certificate alone decides whether the pair is generated.
KeyPair(w) ==
  Becomes(w, "keypair", [disk EXCEPT !.keys = IF @ = "none" THEN "both" ELSE @])

\* PG_VERSION marks an initialised directory; initdb refuses one that is not
\* empty.
InitDb(w) ==
  \/ Becomes(w, "initdb", [disk EXCEPT !.data = IF @ = None THEN Wanted(w) ELSE @])
  \/ disk.data = "torn" /\ Needs(w, "initdb", FALSE)

FreshKey == IF disk.database = "k1" THEN "k2" ELSE "k1"

\* (A mistake: credentials are generated by every install.)
CredentialsAnew(w) ==
  Becomes(w, "credentials", [disk EXCEPT !.credentials = FreshKey])

Credentials(w) ==
  Becomes(w, "credentials",
    [disk EXCEPT !.credentials = IF @ \in {None, "torn"} THEN FreshKey ELSE @])

\* The role takes the password; a database that exists is kept, and what it
\* holds is encrypted under the key of the install that created it.
Provision(w) ==
  Becomes(w, "provision",
    [disk EXCEPT !.database = IF @ = None THEN disk.credentials ELSE @])

-----------------------------------------------------------------------------
(* systemd, launchd and the Windows service manager.                       *)

Now(w) == svc[Service(w)]

Unit(w) == Manages(w, "unit", [Now(w) EXCEPT !.unit = Wanted(w)])
Reload(w) ==
  /\ At(w, "reload") /\ Advance(w, 1)
  /\ svc' = [s \in Services |-> [svc[s] EXCEPT !.loaded = svc[s].unit]]
  /\ UNCHANGED <<product, disk, faults, installed, result, tainted>>
Stop(w) ==
  /\ At(w, "stop") /\ Advance(w, 1)
  /\ svc' = [svc EXCEPT ![Service(w)].running = None]
  /\ tainted' = IF \A s \in Services : svc'[s].running = None
                THEN tainted \ {"running"} ELSE tainted
  /\ UNCHANGED <<product, disk, faults, installed, result>>

\* `enable --now`: a unit that is active is left as it is.
Enable(w) ==
  /\ At(w, "enable")
  /\ IF Now(w).loaded = None THEN Needs(w, "enable", FALSE)
     ELSE \E r \in IF Now(w).running # None THEN {Now(w).running}
                  ELSE Comes(disk, Now(w).loaded, tainted) :
            Manages(w, "enable", [Now(w) EXCEPT !.enabled = TRUE, !.running = r])

\* wait_for_port: whoever accepts the connection.
Wait(w) ==
  At(w, "wait") /\ Needs(w, "wait", Now(w).running # None \/ "foreign" \in tainted)

\* launchctl bootstrap: a label already loaded keeps the plist it has.
Bootstrap(w) ==
  LET u == IF Now(w).loaded = None THEN Now(w).unit ELSE Now(w).loaded
  IN At(w, "bootstrap") /\ \E r \in IF Now(w).running # None THEN {Now(w).running}
                               ELSE Comes(disk, u, tainted) :
       Manages(w, "bootstrap",
         [Now(w) EXCEPT !.loaded = u, !.enabled = TRUE, !.running = r])
Kickstart(w) ==
  At(w, "kickstart") /\ \E r \in Comes(disk, Now(w).loaded, tainted) :
    Manages(w, "kickstart", [Now(w) EXCEPT !.running = r])
BootOut(w) ==
  Manages(w, "bootout", [Now(w) EXCEPT !.loaded = None, !.running = None])

Unregister(w) ==
  Manages(w, "unregister",
    [Now(w) EXCEPT !.unit = None, !.loaded = None, !.enabled = FALSE])
Register(w) ==
  Manages(w, "register",
    [Now(w) EXCEPT !.unit = Wanted(w), !.loaded = Wanted(w), !.enabled = TRUE])
StartService(w) ==
  At(w, "start") /\ \E r \in IF Now(w).running # None THEN {Now(w).running}
                            ELSE Comes(disk, Now(w).loaded, tainted) :
    Manages(w, "start", [Now(w) EXCEPT !.running = r])

-----------------------------------------------------------------------------
(* Uninstall.                                                              *)

Disable(w) == Manages(w, "disable", [Now(w) EXCEPT !.enabled = FALSE])
RemoveUnit(w) == Manages(w, "rmUnit", [Now(w) EXCEPT !.unit = None])
RemoveRoot(w) ==
  /\ At(w, "rmRoot") /\ Advance(w, 1)
  /\ disk' = [NoDisk EXCEPT !.distro = disk.distro, !.database = disk.database,
                            !.toolchain = disk.toolchain]
  /\ tainted' = tainted \ {"root"}
  /\ UNCHANGED <<product, svc, faults, installed, result>>
RemoveData(w) == Becomes(w, "rmData", [disk EXCEPT !.data = None])
DropDatabase(w) ==
  /\ At(w, "dropDatabase") /\ Advance(w, 1)
  /\ disk' = [disk EXCEPT !.database = None]
  /\ tainted' = tainted \ {"database"}
  /\ UNCHANGED <<product, svc, faults, installed, result>>

-----------------------------------------------------------------------------
(* Steps that die half-way.                                                *)

Part(trees) == [v \in Versions |-> IF trees[v] = "none" THEN "none" ELSE "part"]

\* What a directory removal that dies leaves behind.
HalfRemoved == {
  [disk EXCEPT !.cache = Part(@), !.source = Part(@)],
  [disk EXCEPT !.sealed = {}, !.credentials = None, !.config = "none"],
  [disk EXCEPT !.releases = <<>>, !.keys = IF @ = "both" THEN "certificate" ELSE @]}

HalfWritten(w) ==
  LET v == Version(w) IN
  CASE At(w, "extract") -> {[disk EXCEPT !.cache[v] = "part"]}
    [] At(w, "venv") ->
         {[disk EXCEPT !.cache = [x \in Versions |-> IF x = v THEN "part" ELSE "none"]]}
    [] At(w, "source") \/ At(w, "anySource") ->
         {[disk EXCEPT !.source[v] = IF @ = "none" THEN "part" ELSE @]}
    [] At(w, "jar") /\ disk.cache[v] = "none" ->
         {[disk EXCEPT !.source[v] = IF @ = "none" THEN "part" ELSE @],
          [disk EXCEPT !.cache[v] = "part"]}
    [] At(w, "copy") -> {disk}
    [] At(w, "toolchain") /\ disk.toolchain = "none" ->
         {[disk EXCEPT !.toolchain = "part"]}
    [] At(w, "runtime") /\ disk.runtime = "none" -> {[disk EXCEPT !.runtime = "part"]}
    [] At(w, "config") -> {[disk EXCEPT !.config = "torn"]}
    [] At(w, "keepConfig") /\ disk.config = "none" -> {[disk EXCEPT !.config = "torn"]}
    [] At(w, "keypair") /\ disk.keys = "none" -> {[disk EXCEPT !.keys = "certificate"]}
    [] At(w, "initdb") /\ disk.data = None -> {[disk EXCEPT !.data = "torn"]}
    [] At(w, "credentials") /\ disk.credentials \in {None, "torn"} ->
         {[disk EXCEPT !.credentials = "torn"]}
    [] At(w, "rmRoot") -> HalfRemoved
    [] At(w, "rmData") /\ disk.data # None -> {[disk EXCEPT !.data = "torn"]}
    [] OTHER -> {}
HalfManaged(w) ==
  IF At(w, "unit") THEN {[svc EXCEPT ![Service(w)].unit = None]} ELSE {}

Taint(w) == tainted \cup
  CASE At(w, "rmRoot") -> {"root"} [] At(w, "stop") -> {"running"}
    [] At(w, "dropDatabase") -> {"database"} [] OTHER -> {}

\* An install stops at a step that fails, except that it ignores `stop`; an
\* uninstall notes a warning and goes on.  DROP DATABASE is skipped without a
\* warning while PostgreSQL does not answer, and what goes wrong with databend's
\* meta service is not noted.
Fail(w) ==
  /\ job[w].todo # <<>> /\ faults < MaxFaults
  /\ faults' = faults + 1 /\ tainted' = Taint(w)
  /\ \/ disk' \in {disk} \cup HalfWritten(w) /\ svc' = svc
     \/ disk' = disk /\ svc' \in HalfManaged(w)
  /\ IF job[w].kind = "install" /\ ~At(w, "stop")
     THEN job' = [job EXCEPT ![w] = Idle] /\ result' = "failed"
     ELSE /\ \E warned \in CASE At(w, "dropDatabase") -> BOOLEAN
                            [] Service(w) = "meta" -> {FALSE} [] OTHER -> {TRUE} :
               job' = [job EXCEPT ![w].todo = Tail(@), ![w].warned = @ \/ warned]
          /\ UNCHANGED result
  /\ UNCHANGED <<product, installed>>

\* The host restarts: jobs die where they are, enabled units start.  A daemon
\* that outlived its stop may have hidden from an install that its service
\* does not start: `tainted` remembers it until a stop succeeds.
Reboot ==
  /\ faults < MaxFaults /\ faults' = faults + 1
  /\ \/ disk' = disk
     \/ \E w \in Workers : job[w].kind # "idle" /\ disk' \in HalfWritten(w)
  /\ tainted' = tainted \cup
       (IF \E w \in Workers : At(w, "rmRoot") THEN {"root"} ELSE {}) \cup
       (IF \E w \in Workers : At(w, "dropDatabase") THEN {"database"} ELSE {})
  /\ \E runs \in [Services -> Versions \cup {None}] :
       /\ \A s \in Services :
            runs[s] \in IF svc[s].enabled THEN Comes(disk', svc[s].unit, tainted) ELSE {None}
       /\ svc' = [s \in Services |->
            [svc[s] EXCEPT !.loaded = svc[s].unit, !.running = runs[s]]]
  /\ job' = [w \in Workers |-> Idle]
  /\ result' = IF \E w \in Workers : job[w].kind # "idle" THEN "failed" ELSE result
  /\ UNCHANGED <<product, installed>>

\* A daemon that dies is started again with what its unit names now.
Respawn(s) ==
  /\ svc[s].running # None
  /\ \E r \in Comes(disk, svc[s].loaded, tainted) : svc' = [svc EXCEPT ![s].running = r]
  /\ UNCHANGED <<product, disk, job, faults, installed, result, tainted>>

\* Another program (another product with the same port, say) binds a port of a
\* service that is down, or whose daemon died, and keeps it.
PortTaken(s) ==
  /\ faults < MaxFaults /\ faults' = faults + 1
  /\ svc' = [svc EXCEPT ![s].running = None]
  /\ tainted' = tainted \cup {"foreign"}
  /\ UNCHANGED <<product, disk, job, installed, result>>

-----------------------------------------------------------------------------
(* Jobs and the operator.                                                  *)

Start(w, kind, v) ==
  /\ job[w].kind = "idle"
  /\ job' = [job EXCEPT ![w] =
       [kind |-> kind, version |-> v, todo |-> Plan(kind), warned |-> FALSE]]
  /\ installed' = None /\ result' = "none"
  /\ UNCHANGED <<product, disk, svc, faults, tainted>>

Finish(w) ==
  /\ job[w].kind # "idle" /\ job[w].todo = <<>>
  /\ job' = [job EXCEPT ![w] = Idle]
  /\ installed' = IF job[w].kind = "install" THEN Version(w) ELSE None
  /\ result' = IF job[w].kind = "install" THEN "installed"
               ELSE IF job[w].warned THEN "warned" ELSE "removed"
  /\ UNCHANGED <<product, disk, svc, faults, tainted>>

AllIdle == \A w \in Workers : job[w].kind = "idle"

EditConfig ==
  /\ AllIdle /\ disk.config \in {"ours", "torn"}
  /\ disk' = [disk EXCEPT !.config = "edited"]
  /\ UNCHANGED <<product, svc, job, faults, installed, result, tainted>>

\* The operator points current at an older release that ran, and restarts.
RollBack ==
  /\ AllIdle /\ \E i \in DOMAIN disk.releases :
       /\ i # disk.current /\ disk.releases[i].probed
       /\ disk' = [disk EXCEPT !.current = i]
  /\ svc["main"].loaded # None
  /\ \E r \in Comes(disk', svc["main"].loaded, tainted) :
       svc' = [svc EXCEPT !["main"].running = r]
  /\ installed' = None
  /\ UNCHANGED <<product, job, faults, result, tainted>>

Step(w) ==
  \/ Check(w) \/ Extract(w) \/ Seal(w) \/ Locate(w)
  \/ DistroOrBundle(w) \/ Distro(w) \/ Package(w)
  \/ Toolchain(w) \/ Source(w) \/ AnySource(w) \/ Build(w) \/ NewRelease(w) \/ Copy(w)
  \/ Probe(w) \/ Manifest(w) \/ Swap(w) \/ Prune(w)
  \/ Venv(w) \/ Jar(w) \/ Runtime(w) \/ Config(w) \/ KeepConfig(w)
  \/ KeyPair(w) \/ InitDb(w) \/ Credentials(w) \/ Provision(w)
  \/ Unit(w) \/ Reload(w) \/ Stop(w) \/ Enable(w) \/ Wait(w)
  \/ Bootstrap(w) \/ Kickstart(w) \/ BootOut(w)
  \/ Unregister(w) \/ Register(w) \/ StartService(w)
  \/ Disable(w) \/ RemoveUnit(w) \/ RemoveRoot(w) \/ RemoveData(w)
  \/ DropDatabase(w)

Next ==
  \/ \E w \in Workers :
       \/ Step(w) \/ Fail(w) \/ Finish(w)
       \/ \E kind \in {"install", "uninstall"}, v \in Versions : Start(w, kind, v)
  \/ Reboot \/ EditConfig \/ RollBack
  \/ \E s \in Services : Respawn(s) \/ PortTaken(s)

Spec == Init /\ [][Next]_vars

-----------------------------------------------------------------------------
(* Properties.                                                             *)

Tree == [Versions -> {"none", "part", "whole"}]
Key == {None, "torn", "k1", "k2"}
Some == Versions \cup {None}
Release == [label : Some, binary : Some, probed : BOOLEAN]
DiskType == [
  cache : Tree, sealed : SUBSET Versions, source : Tree, built : Some,
  releases : Seq(Release), current : Nat,
  config : {"none", "torn", "ours", "edited"}, keys : {"none", "certificate", "both"},
  runtime : {"none", "part", "whole"}, toolchain : {"none", "part", "whole"},
  data : Some \cup {"torn"}, distro : Some,
  credentials : Key, database : Key]
ServiceType == [unit : Some, loaded : Some, running : Some, enabled : BOOLEAN]

\* Type invariant of the host.
TypeOK ==
  /\ product \in Products
  /\ disk \in DiskType
  /\ svc \in [Services -> ServiceType]
  /\ faults \in 0..MaxFaults
  /\ installed \in Some
  /\ result \in {"none", "installed", "failed", "blocked", "removed", "warned"}
  /\ tainted \subseteq {"root", "running", "database", "foreign"}

\* fetch.rs: the sentinel says that the version is fully extracted.  When no
\* job is at work, a directory that carries one holds a whole tree, whatever
\* downloads and extractions died before (a removal that died excepted).
SealedTreesAreWhole ==
  AllIdle /\ "root" \notin tainted =>
    \A v \in disk.sealed : disk.cache[v] = "whole"

\* release.rs: current names a release that is there and whose binary ran its
\* probe, at every moment of every install, crash, pruning and roll-back.
CurrentIsProbed ==
  disk.current # 0 /\ "root" \notin tainted =>
    /\ disk.current \in DOMAIN disk.releases
    /\ disk.releases[disk.current].probed
    /\ disk.releases[disk.current].binary # None

\* The drivers that honour the version asked for, on every path.
Honours == Products \ ({"garage", "xtable", "macKanidm"} \cup DistroFirst)

\* service.rs: an install that reports success for a version leaves that
\* version running, over an older one, after respawns and after a reboot; it
\* does not if the service manager refused to stop the old daemon, or where
\* another program has its port and answers for it.
InstalledIsRunning ==
  AllIdle /\ installed # None /\ tainted = {} /\ product \in Honours =>
    \A s \in Services : svc[s].running = installed

\* The drivers whose installs resume after any interruption.
Resumable == {"grafana", "greptime", "openfga", "restate", "qdrant",
              "databend", "lakekeeper", "sail", "macKanidm"}

\* What an interrupted install or uninstall of these leaves never keeps a
\* later install from succeeding: every failure has its own fresh cause.
LeftoversAreHarmless ==
  result = "blocked" /\ "root" \notin tainted => product \notin Resumable

\* uninstall_service: an uninstall that ends without a warning leaves nothing
\* running, and nothing that a reboot would start, but for databend's meta
\* service, whose warnings are thrown away.
CleanUninstallIsGone ==
  AllIdle /\ result = "removed" =>
    \A s \in Services \ {"meta"} : svc[s].running = None /\ ~(svc[s].enabled /\ svc[s].unit # None)

\* lakekeeper: what the database holds was encrypted under the key the daemon
\* is configured with, unless an uninstall ended without dropping the database.
DatabaseKeepsItsKey ==
  product = "lakekeeper" /\ installed # None /\ "database" \notin tainted
    /\ "root" \notin tainted => disk.database = disk.credentials

\* release.rs, ReleaseManifest: the manifest names the version its release
\* directory holds.
ReleasesHoldWhatTheyName ==
  \A i \in DOMAIN disk.releases :
    disk.releases[i].label # None => disk.releases[i].label = disk.releases[i].binary
=============================================================================
