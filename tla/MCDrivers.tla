------------------------------ MODULE MCDrivers ------------------------------
\* Every driver with one job at a time, and two products on the ports of one
\* host; a behaviour exercises one of the two.
EXTENDS NativeDrivers, Ports
CONSTANTS w1, v1, v2
VARIABLE part

\* Versions are only compared for equality.
Symmetry == Permutations(Versions)

\* Products that can meet on a port: the typed one, or their default; and one
\* whose driver does not stop its daemon beside one that is not told its port.
Pairs == {{"garage", "openfga"}, {"openfga", "restate"}, {"postgres", "lakekeeper"}}

MCInit ==
  /\ Init /\ PortsInit /\ part \in {"host", "ports"}
  /\ (part = "host" => cast = {"garage"})
  /\ (part = "ports" => product = "garage" /\ cast \in Pairs)
MCNext ==
  \/ part = "host" /\ Next /\ UNCHANGED <<part, portVars>>
  \/ part = "ports" /\ PortsNext /\ UNCHANGED <<part, vars>>
MCSpec == MCInit /\ [][MCNext]_<<vars, portVars, part>>
=============================================================================
