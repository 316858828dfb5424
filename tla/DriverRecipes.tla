--------------------------- MODULE DriverRecipes ---------------------------
(***************************************************************************)
(* What each native driver does to the host, as the sequence of steps its  *)
(* install and uninstall functions take.  A step is a service and the name *)
(* of an action of NativeDrivers; most drivers run one service, databend   *)
(* runs two.                                                               *)
(***************************************************************************)
EXTENDS Sequences

On(service, steps) == [i \in DOMAIN steps |-> <<service, steps[i]>>]

\* (A mistake: the sentinel is written before the archive is extracted.)
BundleSealedFirst == <<"check", "seal", "extract", "locate">>

\* fetch_and_extract, then the search for the binary in what was extracted.
Bundle == <<"check", "extract", "seal", "locate">>

Started == <<"unit", "reload", "stop", "enable", "wait">>

\* (A mistake: `enable --now` does not replace a daemon that is running.)
InstallServiceNoStop == Bundle \o <<"unit", "reload", "enable", "wait">>

InstallService == Bundle \o Started

InstallConfigured == Bundle \o <<"config">> \o Started

Grafana == On("main", InstallService)
Greptime == On("main", InstallService)
OpenFga == On("main", InstallService)
Restate == On("main", InstallService)
Qdrant == On("main", InstallConfigured)
Databend == On("meta", InstallConfigured) \o On("main", InstallConfigured)
Lakekeeper == On("main", <<"credentials", "provision">> \o InstallService)

TrinoFetched == <<"runtime">> \o Bundle \o <<"config">>
Trino == On("main", TrinoFetched \o Started)

Sail == On("main", <<"venv", "locate">> \o Started)

\* The daemon is a no-op unit: it is neither stopped nor waited for.
XTable == On("main",
  <<"runtime", "jar", "keepConfig", "unit", "reload", "enable">>)

Compiled == <<"toolchain", "source", "build">>
Staged == <<"newRelease", "copy", "probe", "manifest">>
Promoted == <<"stop", "swap", "prune">>

\* (A mistake: the release is promoted before it is probed.)
PromotedThenProbed ==
  On("main",
     <<"toolchain", "source", "build", "newRelease", "copy", "stop", "swap",
       "probe", "manifest", "prune", "keypair", "config", "unit", "reload",
       "enable", "wait">>)

Kanidm == On("main",
  Compiled \o Staged \o Promoted \o
  <<"keypair", "config", "unit", "reload", "enable", "wait">>)

Garage == On("main",
  <<"toolchain", "anySource", "build">> \o Staged \o Promoted \o
  <<"keepConfig", "unit", "reload", "enable", "wait">>)

\* Linux: the distribution's binaries, installed by its package manager if
\* there are none; the unit is enabled but never stopped first.
Postgres == On("main",
  <<"package", "initdb", "unit", "reload", "enable", "wait">>)

MacService == On("main",
  Bundle \o <<"config", "unit", "bootstrap", "kickstart", "wait">>)

MacKanidm == MacService

MacPostgres == On("main",
  <<"distro", "initdb", "unit", "bootstrap", "kickstart", "wait">>)

\* Windows: the bundle is fetched only where no PostgreSQL is found.
WindowsPostgres == On("main",
  <<"distroOrBundle">> \o Bundle \o
  <<"initdb", "stop", "unregister", "register", "start", "wait">>)

Install(product) ==
  CASE product = "grafana" -> Grafana [] product = "greptime" -> Greptime
    [] product = "openfga" -> OpenFga [] product = "restate" -> Restate
    [] product = "qdrant" -> Qdrant [] product = "databend" -> Databend
    [] product = "lakekeeper" -> Lakekeeper [] product = "trino" -> Trino
    [] product = "sail" -> Sail [] product = "xtable" -> XTable
    [] product = "kanidm" -> Kanidm [] product = "garage" -> Garage
    [] product = "postgres" -> Postgres [] product = "macKanidm" -> MacKanidm
    [] product = "macPostgres" -> MacPostgres
    [] product = "windowsPostgres" -> WindowsPostgres

-----------------------------------------------------------------------------
\* (A mistake: the daemon is left to run.)
UninstallRunning == <<"disable", "rmUnit", "reload", "rmRoot">>

UninstallService ==
  <<"stop", "disable", "rmUnit", "reload", "rmRoot">>

UninstallDatabend == On("meta", UninstallService) \o On("main", UninstallService)
UninstallLakekeeper == On("main", UninstallService \o <<"dropDatabase">>)
UninstallPostgres ==
  On("main", <<"stop", "disable", "rmUnit", "reload", "rmData">>)
UninstallMac == On("main", <<"bootout", "rmUnit", "rmData">>)
UninstallWindows == On("main", <<"stop", "unregister", "rmData">>)

Uninstall(product) ==
  CASE product = "databend" -> UninstallDatabend
    [] product = "lakekeeper" -> UninstallLakekeeper
    [] product = "postgres" -> UninstallPostgres
    [] product \in {"macKanidm", "macPostgres"} -> UninstallMac
    [] product = "windowsPostgres" -> UninstallWindows
    [] OTHER -> On("main", UninstallService)

\* The drivers of computeza-driver-native: Linux, macOS and Windows.
Known == {"grafana", "greptime", "openfga", "restate", "qdrant", "databend", "lakekeeper",
          "trino", "sail", "xtable", "kanidm", "garage", "postgres",
          "macKanidm", "macPostgres", "windowsPostgres"}
Released == {"kanidm", "garage"}     \* promoted through releases/ and current
DistroFirst == {"postgres", "macPostgres", "windowsPostgres"}
=============================================================================
