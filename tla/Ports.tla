-------------------------------- MODULE Ports --------------------------------
(***************************************************************************)
(* Who listens where.  Every install form offers a port and a service name *)
(* and the metadata store keeps an endpoint for each product.  Some        *)
(* daemons are told the port, some are not, some read it from a file that  *)
(* an earlier install left; all an install asks of the host at the end is  *)
(* that something accepts connections on the port of the form.             *)
(***************************************************************************)
EXTENDS Integers

CONSTANTS
  Daemons,     \* the products explored; a behaviour has two of them
  Chosen,      \* ports an operator types into a form
  Names,       \* service names a form may carry
  DefaultName  \* the one of a blank field, computeza-<product>


VARIABLES
  cast,     \* the two products
  unit,     \* service -> the port its command line gives, 0 if there is no unit
  file,     \* product -> the port its configuration gives; 0: no root
  up,       \* service -> the port its daemon was started with, 0 if it is down
  waiting,  \* product -> the install that waits for its port
  row,      \* product -> the port of the endpoint in the metadata store, or 0
  saved,    \* product -> the service name in its install-config
  stale,    \* history: products whose last install did not end well
  misled    \* history: products whose last install took another listener for its own

portVars == <<cast, unit, file, up, waiting, row, saved, stale, misled>>

-----------------------------------------------------------------------------
(* The products.  A form's blank port is `blank`; `told` if the driver     *)
(* passes the port on, `filed` if through a file under the root, `kept` if *)
(* a file already there is left as it is; `stops` if the driver stops the  *)
(* unit before it starts it; the daemon also binds the ports `beside` it,  *)
(* and others that never move; `endpoint` is where the row points.         *)

Product(blank, beside, others) ==
  [blank |-> blank, told |-> TRUE, filed |-> FALSE, kept |-> FALSE,
   stops |-> TRUE, beside |-> beside, others |-> others, endpoint |-> 0]

(* u16 addition, in a release build.                                       *)
Offset(port, by) == (port + by) % 65536

PostgresPorts == [Product(5432, {0}, {}) EXCEPT !.stops = FALSE]
KanidmPorts == [Product(8443, {0}, {}) EXCEPT !.filed = TRUE]
GaragePorts ==
  [Product(3900, 0..3, {}) EXCEPT !.filed = TRUE, !.kept = TRUE, !.endpoint = 3]
OpenFgaPorts == Product(8080, 0..1, {})
QdrantPorts == [Product(6333, 0..1, {}) EXCEPT !.filed = TRUE]
GreptimePorts == Product(4000, {0}, {4001, 4002})
LakekeeperPorts == [Product(8181, {0}, {}) EXCEPT !.told = FALSE]
DatabendPorts == [Product(8000, 0..3, {9191, 9192, 9201}) EXCEPT !.filed = TRUE]
SailPorts == Product(50051, {0}, {})
TrinoPorts == [Product(8088, {0}, {}) EXCEPT !.filed = TRUE]
GrafanaPorts == [Product(3000, {0}, {}) EXCEPT !.told = FALSE]
RestatePorts == [Product(8080, {0}, {9070, 5122}) EXCEPT !.told = FALSE]

Of == [
  postgres |-> PostgresPorts, kanidm |-> KanidmPorts, garage |-> GaragePorts,
  openfga |-> OpenFgaPorts, qdrant |-> QdrantPorts, greptime |-> GreptimePorts,
  lakekeeper |-> LakekeeperPorts, databend |-> DatabendPorts,
  sail |-> SailPorts, trino |-> TrinoPorts, grafana |-> GrafanaPorts,
  restate |-> RestatePorts]

Port == 1..65535
ASSUME PortsAssumption ==
  /\ Daemons \subseteq DOMAIN Of /\ Chosen \subseteq Port /\ DefaultName \in Names

Binds(p, port) ==
  IF port = 0 THEN {}
  ELSE {Offset(port, by) : by \in Of[p].beside} \cup Of[p].others

(* The endpoint an install registers.                                      *)
Endpoint(p, port) == Offset(port, Of[p].endpoint)

(* Studio's S3 endpoint: Garage's row with ":3903" replaced by ":3900".    *)
GarageS3(admin) == IF admin = 3903 THEN 3900 ELSE admin

-----------------------------------------------------------------------------
Units == cast \X Names
NotWaiting == [port |-> 0, name |-> DefaultName]

(* The port a service's daemon binds if it is started.                     *)
Configured(s, units, files) ==
  IF units[s] = 0 \/ files[s[1]] = 0 THEN 0
  ELSE IF Of[s[1]].filed THEN files[s[1]] ELSE units[s]

Taken(s) == UNION {Binds(t[1], up[t]) : t \in Units \ {s}}
Listened == UNION {Binds(s[1], up[s]) : s \in Units}

PortsInit ==
  /\ cast \in {{p, q} : p, q \in Daemons}
  /\ unit = [s \in Units |-> 0] /\ up = [s \in Units |-> 0]
  /\ file = [p \in cast |-> 0] /\ row = [p \in cast |-> 0]
  /\ saved = [p \in cast |-> DefaultName]
  /\ waiting = [p \in cast |-> NotWaiting]
  /\ stale = {} /\ misled = {}

(* The form's field, and what of it the daemon is told.                    *)
Asked(p, field) == IF field = 0 THEN Of[p].blank ELSE field
Given(p, field) == IF Of[p].told THEN Asked(p, field) ELSE Of[p].blank

(* An install up to `enable --now`, which does not touch a unit that runs. *)
Launch(p, field, name) ==
  LET given == Given(p, field) IN
  /\ waiting[p] = NotWaiting
  /\ file' = [file EXCEPT ![p] = IF Of[p].kept /\ @ # 0 THEN @ ELSE given]
  /\ unit' = [unit EXCEPT ![<<p, name>>] = given]
  /\ up' = [up EXCEPT ![<<p, name>>] = IF Of[p].stops THEN 0 ELSE @]
  /\ waiting' =
       [waiting EXCEPT ![p] = [port |-> Asked(p, field), name |-> name]]
  /\ UNCHANGED <<cast, row, saved, stale, misled>>

(* systemd starts an enabled unit, and starts it again until its ports are *)
(* free.                                                                   *)
Bind(s) ==
  LET port == Configured(s, unit, file) IN
  /\ port # 0 /\ up[s] = 0 /\ Binds(s[1], port) \cap Taken(s) = {}
  /\ up' = [up EXCEPT ![s] = port]
  /\ UNCHANGED <<cast, unit, file, waiting, row, saved, stale, misled>>

(* (A mistake: `systemctl is-active` is enough.)                           *)
ActiveInstead(p) ==
  up[<<p, waiting[p].name>>] # 0

(* wait_for_port: a connection is accepted, whoever accepts it.            *)
Accepted(p) == waiting[p].port \in Listened

(* The listener is another service, or the daemon on a port beside its own.*)
Misled(p) ==
  LET s == <<p, waiting[p].name>> IN
  waiting[p].port \in Taken(s) \cup (Binds(p, up[s]) \ {up[s]})

(* The wait succeeds; the row and the install-config are written.          *)
WriteRow(p) ==
  /\ waiting[p] # NotWaiting /\ Accepted(p)
  /\ row' = [row EXCEPT ![p] = Endpoint(p, waiting[p].port)]
  /\ saved' = [saved EXCEPT ![p] = waiting[p].name]
  /\ waiting' = [waiting EXCEPT ![p] = NotWaiting]
  /\ stale' = stale \ {p}
  /\ misled' = IF Misled(p) THEN misled \cup {p} ELSE misled \ {p}
  /\ UNCHANGED <<cast, unit, file, up>>

(* Nobody listens when the time is up; row and install-config stay.        *)
GiveUp(p) ==
  /\ waiting[p] # NotWaiting /\ ~Accepted(p)
  /\ waiting' = [waiting EXCEPT ![p] = NotWaiting]
  /\ stale' = stale \cup {p}
  /\ UNCHANGED <<cast, unit, file, up, row, saved, misled>>

(* The uninstall pages: the unit the install-config names, or else the     *)
(* default one, goes, the root with it, then row and install-config.       *)
UninstallProduct(p) ==
  LET s == <<p, saved[p]>> IN
  /\ waiting[p] = NotWaiting
  /\ unit' = [unit EXCEPT ![s] = 0] /\ up' = [up EXCEPT ![s] = 0]
  /\ file' = [file EXCEPT ![p] = 0]
  /\ row' = [row EXCEPT ![p] = 0] /\ saved' = [saved EXCEPT ![p] = DefaultName]
  /\ stale' = stale \ {p} /\ misled' = misled \ {p}
  /\ UNCHANGED <<cast, waiting>>

(* The host restarts, and the server with its jobs.                        *)
HostRestarts ==
  /\ up' = [s \in Units |-> 0]
  /\ stale' = stale \cup {p \in cast : waiting[p] # NotWaiting}
  /\ waiting' = [p \in cast |-> NotWaiting]
  /\ UNCHANGED <<cast, unit, file, row, saved, misled>>

PortsNext ==
  \/ \E p \in cast :
       \/ \E field \in Chosen \cup {0}, name \in Names : Launch(p, field, name)
       \/ WriteRow(p) \/ GiveUp(p) \/ UninstallProduct(p)
  \/ \E s \in Units : Bind(s)
  \/ HostRestarts

PortsSpec == PortsInit /\ [][PortsNext]_portVars

-----------------------------------------------------------------------------
(* A row sends its readers to its own product: the endpoint of a product   *)
(* whose last install ended well is one its daemon binds whenever it is    *)
(* started, and the unit an uninstall would remove is that daemon's.  The  *)
(* wait is what sees to it: a port the daemon was not told of, or that a   *)
(* file kept from it, is not answered, unless another listens there.  That *)
(* is set aside: the code does not keep two products from one port, and    *)
(* Restate and OpenFGA have the same default.                              *)
RowsReachTheirDaemons ==
  \A p \in cast :
    LET s == <<p, saved[p]>> IN
    row[p] # 0 /\ p \notin stale \cup misled /\ waiting[p] = NotWaiting =>
      /\ row[p] \in Binds(p, Configured(s, unit, file))
      /\ up[s] # 0 => row[p] = Endpoint(p, up[s])

(* What the code does not keep: a product with neither row nor install in  *)
(* flight has no daemon; it has one when a second service name took the    *)
(* place of the first.                                                     *)
RemovedIsSilent ==
  \A s \in Units :
    row[s[1]] = 0 /\ s[1] \notin stale /\ waiting[s[1]] = NotWaiting =>
      up[s] = 0

(* Nor this: Studio finds Garage's S3 port; it does not where an operator  *)
(* chose the port.                                                         *)
StudioFindsS3 ==
  "garage" \in cast /\ row["garage"] # 0 /\ "garage" \notin stale =>
    Endpoint("garage", GarageS3(row["garage"])) = row["garage"]
=============================================================================
