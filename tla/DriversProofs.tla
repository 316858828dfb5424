------------------------------ MODULE DriversProofs ----------------------------
(***************************************************************************)
(* Proofs about the native drivers.  Ports, for any products: the endpoint *)
(* recorded for a product reaches its own daemon.  NativeDrivers, for any  *)
(* of its drivers, any versions and any number of faults, with one job at  *)
(* a time: its types, and each of its safety properties.  The recipes come *)
(* first, then what a step, a fault and a job do to the host, then one     *)
(* invariant after the other, each with the theorem it is for.             *)
(***************************************************************************)
EXTENDS NativeDrivers, Ports, SequenceTheorems, FiniteSetTheorems, TLAPS

-----------------------------------------------------------------------------
(* Ports: what the service of an install that waits is configured with,    *)
(* and that the row of an install that was not misled follows it.          *)
PortsTyped ==
  /\ cast \subseteq Daemons
  /\ unit \in [Units -> Nat] /\ up \in [Units -> Nat]
  /\ file \in [cast -> Nat] /\ row \in [cast -> Nat]
  /\ saved \in [cast -> Names]
  /\ waiting \in [cast -> [port : Nat, name : Names]]
  /\ \A p \in cast : waiting[p] # NotWaiting => waiting[p].port \in Port

(* The service a form named, while its install waits, and the service a    *)
(* row stands for afterwards.                                              *)
Installing(p) == <<p, waiting[p].name>>
Recorded(p) == <<p, saved[p]>>
Gives(s) == Configured(s, unit, file)

(* A daemon that was stopped stays down, or binds what it is configured with;  *)
(* one that was not stopped is configured with the port of the form.       *)
WaitsForItsOwn ==
  \A p \in cast : waiting[p] # NotWaiting =>
    /\ Gives(Installing(p)) # 0
    /\ IF Of[p].stops THEN up[Installing(p)] \in {0, Gives(Installing(p))}
       ELSE Gives(Installing(p)) = waiting[p].port

RowsFollow ==
  \A p \in cast : row[p] # 0 /\ p \notin stale \cup misled /\ waiting[p] = NotWaiting =>
    /\ Gives(Recorded(p)) # 0
    /\ row[p] = Endpoint(p, Gives(Recorded(p)))
    /\ up[Recorded(p)] # 0 => row[p] = Endpoint(p, up[Recorded(p)])

PortsInv == PortsTyped /\ WaitsForItsOwn /\ RowsFollow

LEMMA PortIs ==
  ASSUME NEW port \in Port
  PROVE  port \in Nat /\ port # 0 /\ Offset(port, 0) = port
<1>1. port \in Nat /\ port # 0 /\ port <= 65535
  BY SMTT(30) DEF Port
<1>2. port % 65536 = port
  <2>1. port = 65536 * 0 + port /\ 0 <= port /\ port < 65536
    BY <1>1
  <2> QED BY SMT, <1>1, <2>1
<1>3. port + 0 = port
  BY <1>1
<1> QED
  BY <1>1, <1>2, <1>3, SMTT(30) DEF Offset

(* The table of products.                                                  *)
WellFormed(p) ==
  /\ p.blank \in Port
  /\ p.beside \subseteq 0..3 /\ 0 \in p.beside
  /\ p.endpoint \in p.beside
  /\ ~p.stops => p.told /\ ~p.filed /\ ~p.kept
  /\ p.stops \in BOOLEAN /\ p.told \in BOOLEAN
  /\ p.filed \in BOOLEAN /\ p.kept \in BOOLEAN

LEMMA ProductsAre == ASSUME NEW p \in DOMAIN Of PROVE WellFormed(Of[p])
<1>1. \E q \in {PostgresPorts, KanidmPorts, GaragePorts, OpenFgaPorts, QdrantPorts, GreptimePorts,
                 LakekeeperPorts, DatabendPorts, SailPorts, TrinoPorts, GrafanaPorts, RestatePorts} : Of[p] = q
  BY DEF Of
<1>2. WellFormed(PostgresPorts)
  BY SMT DEF WellFormed, PostgresPorts, Product, Port
<1>3. WellFormed(KanidmPorts)
  BY SMT DEF WellFormed, KanidmPorts, Product, Port
<1>4. WellFormed(GaragePorts)
  BY SMT DEF WellFormed, GaragePorts, Product, Port
<1>5. WellFormed(OpenFgaPorts)
  BY SMT DEF WellFormed, OpenFgaPorts, Product, Port
<1>6. WellFormed(QdrantPorts)
  BY SMT DEF WellFormed, QdrantPorts, Product, Port
<1>7. WellFormed(GreptimePorts)
  BY SMT DEF WellFormed, GreptimePorts, Product, Port
<1>8. WellFormed(LakekeeperPorts)
  BY SMT DEF WellFormed, LakekeeperPorts, Product, Port
<1>9. WellFormed(DatabendPorts)
  BY SMT DEF WellFormed, DatabendPorts, Product, Port
<1>10. WellFormed(SailPorts)
  BY SMT DEF WellFormed, SailPorts, Product, Port
<1>11. WellFormed(TrinoPorts)
  BY SMT DEF WellFormed, TrinoPorts, Product, Port
<1>12. WellFormed(GrafanaPorts)
  BY SMT DEF WellFormed, GrafanaPorts, Product, Port
<1>13. WellFormed(RestatePorts)
  BY SMT DEF WellFormed, RestatePorts, Product, Port
<1> QED
  BY <1>1, <1>2, <1>3, <1>4, <1>5, <1>6, <1>7, <1>8, <1>9, <1>10, <1>11, <1>12, <1>13

(* A daemon binds the port it was started with, if that is one, and the    *)
(* one its endpoint is at.                                                 *)
LEMMA OwnPorts ==
  ASSUME NEW p \in DOMAIN Of, NEW port \in Nat, port # 0
  PROVE  /\ Endpoint(p, port) \in Binds(p, port)
         /\ port \in Port => port \in Binds(p, port)
<1>1. Of[p].endpoint \in Of[p].beside /\ 0 \in Of[p].beside
  BY ProductsAre DEF WellFormed
<1>2. Endpoint(p, port) \in Binds(p, port)
  BY <1>1 DEF Endpoint, Binds
<1>3. Offset(port, 0) \in Binds(p, port)
  BY <1>1 DEF Binds
<1> QED
  BY <1>2, <1>3, PortIs

LEMMA CastIs ==
  ASSUME PortsTyped, NEW p \in cast
  PROVE  /\ p \in DOMAIN Of
         /\ \A n \in Names : <<p, n>> \in Units /\ up[<<p, n>>] \in Nat /\ unit[<<p, n>>] \in Nat
                /\ Gives(<<p, n>>) \in Nat
         /\ Recorded(p) \in Units /\ Installing(p) \in Units /\ saved[p] \in Names
         /\ waiting[p].name \in Names /\ waiting[p].port \in Nat
         /\ file[p] \in Nat /\ row[p] \in Nat
<1>1. p \in DOMAIN Of
  BY PortsAssumption DEF PortsTyped
<1>2. \A n \in Names : <<p, n>> \in Units
  BY DEF Units
<1>3. file[p] \in Nat /\ row[p] \in Nat /\ saved[p] \in Names
      /\ waiting[p].name \in Names /\ waiting[p].port \in Nat
  BY DEF PortsTyped
<1>4. \A n \in Names : up[<<p, n>>] \in Nat /\ unit[<<p, n>>] \in Nat
  BY <1>2 DEF PortsTyped
<1>5. \A n \in Names : Gives(<<p, n>>) \in Nat
  BY <1>3, <1>4 DEF Gives, Configured
<1> QED
  BY <1>1, <1>2, <1>3, <1>4, <1>5 DEF Recorded, Installing

LEMMA NotWaitingIs == NotWaiting \in [port : Nat, name : Names] /\ NotWaiting.port = 0
BY PortsAssumption DEF NotWaiting

(* A port is waited for when an install waits.                             *)
LEMMA WaitingIs ==
  ASSUME PortsTyped, NEW p \in cast
  PROVE  waiting[p] = NotWaiting <=> waiting[p].port = 0
BY NotWaitingIs, PortIs DEF PortsTyped

LEMMA PortsStart == ASSUME PortsInit PROVE PortsInv
<1>1. cast \subseteq Daemons
  BY DEF PortsInit
<1>2. /\ unit = [s \in Units |-> 0] /\ up = [s \in Units |-> 0]
      /\ file = [p \in cast |-> 0] /\ row = [p \in cast |-> 0]
      /\ saved = [p \in cast |-> DefaultName]
      /\ waiting = [p \in cast |-> NotWaiting]
  BY DEF PortsInit
<1>3. PortsTyped
  BY <1>1, <1>2, NotWaitingIs, PortsAssumption DEF PortsTyped
<1> QED
  BY <1>2, <1>3 DEF PortsInv, WaitsForItsOwn, RowsFollow

LEMMA LaunchKeeps ==
  ASSUME PortsInv, NEW p \in cast, NEW field \in Chosen \cup {0}, NEW n \in Names,
         Launch(p, field, n)
  PROVE  PortsInv'
<1> DEFINE given == Given(p, field)
           asked == Asked(p, field)
<1> USE DEF PortsInv
<1>1. p \in DOMAIN Of
  BY CastIs
<1>2. given \in Port /\ asked \in Port /\ given \in Nat /\ given # 0 /\ asked \in Nat
  <2>1. Chosen \subseteq Port
    BY PortsAssumption
  <2>3. Of[p].blank \in Port
    BY <1>1, ProductsAre DEF WellFormed
  <2>2. given \in Port /\ asked \in Port
    BY <2>1, <2>3 DEF Given, Asked
  <2> QED
    BY <2>2, PortIs
<1>3. /\ cast' = cast /\ row' = row /\ saved' = saved /\ stale' = stale /\ misled' = misled /\ Units' = Units
      /\ file' = [file EXCEPT ![p] = IF Of[p].kept /\ @ # 0 THEN @ ELSE given]
      /\ unit' = [unit EXCEPT ![<<p, n>>] = given]
      /\ up' = [up EXCEPT ![<<p, n>>] = IF Of[p].stops THEN 0 ELSE @]
      /\ waiting' = [waiting EXCEPT ![p] = [port |-> asked, name |-> n]]
  BY DEF Launch, Units
<1> HIDE DEF given, asked
<1>4. <<p, n>> \in Units /\ up[<<p, n>>] \in Nat /\ file[p] \in Nat
  BY CastIs
<1>5. /\ file'[p] \in Nat /\ file'[p] # 0
      /\ ~Of[p].kept => file'[p] = given
      /\ \A q \in cast \ {p} : file'[q] = file[q]
  BY <1>2, <1>3, <1>4 DEF PortsTyped
<1>6. /\ unit'[<<p, n>>] = given
      /\ \A s \in Units : s # <<p, n>> => unit'[s] = unit[s]
  BY <1>3, <1>4 DEF PortsTyped
<1>7. /\ Of[p].stops => up'[<<p, n>>] = 0
      /\ ~Of[p].stops => up'[<<p, n>>] = up[<<p, n>>]
      /\ \A s \in Units : s # <<p, n>> => up'[s] = up[s]
  BY <1>3, <1>4 DEF PortsTyped
<1>8. /\ waiting'[p] = [port |-> asked, name |-> n]
      /\ \A q \in cast \ {p} : waiting'[q] = waiting[q]
  BY <1>3 DEF PortsTyped
<1>9. PortsTyped'
  <2>1. unit' \in [Units -> Nat] /\ up' \in [Units -> Nat] /\ file' \in [cast -> Nat]
    BY <1>2, <1>3, <1>4, <1>5 DEF PortsTyped
  <2>2. waiting' \in [cast -> [port : Nat, name : Names]]
    BY <1>2, <1>3 DEF PortsTyped
  <2>3. \A q \in cast : waiting'[q] # NotWaiting => waiting'[q].port \in Port
    BY <1>2, <1>8 DEF PortsTyped
  <2> QED
    BY <1>3, <2>1, <2>2, <2>3 DEF PortsTyped
<1>10. ASSUME NEW q \in cast \ {p}, NEW m \in Names
       PROVE  /\ Gives(<<q, m>>)' = Gives(<<q, m>>)
              /\ up'[<<q, m>>] = up[<<q, m>>]
  <2>1. <<q, m>> \in Units /\ <<q, m>> # <<p, n>> /\ <<q, m>>[1] = q
    BY DEF Units
  <2> QED
    BY <1>5, <1>6, <1>7, <2>1 DEF Gives, Configured
<1>11. WaitsForItsOwn'
  <2> SUFFICES ASSUME NEW q \in cast, waiting'[q] # NotWaiting
               PROVE  /\ Gives(Installing(q))' # 0
                      /\ IF Of[q].stops THEN up'[Installing(q)'] \in {0, Gives(Installing(q))'}
                         ELSE Gives(Installing(q))' = waiting'[q].port
    BY <1>3 DEF WaitsForItsOwn
  <2>1. CASE q = p
    <3>1. Installing(p)' = <<p, n>> /\ <<p, n>>[1] = p
      BY <1>8 DEF Installing
    <3>2. Gives(<<p, n>>)' = IF Of[p].filed THEN file'[p] ELSE given
      BY <1>2, <1>5, <1>6 DEF Gives, Configured
    <3>3. Gives(<<p, n>>)' # 0
      BY <1>2, <1>5, <3>2
    <3>4. ~Of[p].stops => Gives(<<p, n>>)' = waiting'[p].port
      BY <1>1, <1>8, <3>2, ProductsAre DEF given, asked, Given, WellFormed
    <3> QED
      BY <1>1, <1>3, <1>7, <2>1, <3>1, <3>3, <3>4, ProductsAre DEF WellFormed
  <2>2. CASE q # p
    <3>1. PICK m \in Names : m = waiting[q].name
      BY CastIs
    <3>2. waiting'[q] = waiting[q] /\ Installing(q)' = <<q, m>> /\ Installing(q) = <<q, m>>
      BY <1>8, <2>2, <3>1 DEF Installing
    <3>3. Gives(<<q, m>>)' = Gives(<<q, m>>) /\ up'[<<q, m>>] = up[<<q, m>>]
      BY <1>10, <2>2
    <3> QED
      BY <3>2, <3>3 DEF WaitsForItsOwn, Gives, Installing
  <2> QED
    BY <2>1, <2>2
<1>12. RowsFollow'
  <2> SUFFICES ASSUME NEW q \in cast, row[q] # 0, q \notin stale \cup misled, waiting'[q] = NotWaiting
               PROVE  /\ Gives(Recorded(q))' # 0
                      /\ row[q] = Endpoint(q, Gives(Recorded(q))')
                      /\ up'[Recorded(q)'] # 0 => row[q] = Endpoint(q, up'[Recorded(q)'])
    BY <1>3 DEF RowsFollow, Endpoint
  <2>1. q # p
    BY <1>2, <1>8, NotWaitingIs, PortIs
  <2>2. PICK m \in Names : m = saved[q]
    BY CastIs
  <2>3. waiting'[q] = waiting[q] /\ Recorded(q)' = <<q, m>> /\ Recorded(q) = <<q, m>>
    BY <1>3, <1>8, <2>1, <2>2 DEF Recorded
  <2>4. Gives(<<q, m>>)' = Gives(<<q, m>>) /\ up'[<<q, m>>] = up[<<q, m>>]
    BY <1>10, <2>1
  <2> QED
    BY <2>3, <2>4 DEF RowsFollow, Gives, Recorded
<1> QED
  BY <1>3, <1>9, <1>11, <1>12

LEMMA BindKeeps == ASSUME PortsInv, NEW s \in Units, Bind(s) PROVE PortsInv'
<1> USE DEF PortsInv
<1>1. /\ UNCHANGED <<cast, unit, file, waiting, row, saved, stale, misled>> /\ Units' = Units
      /\ Gives(s) # 0 /\ up[s] = 0
      /\ up' = [up EXCEPT ![s] = Gives(s)]
  BY DEF Bind, Units, Gives
<1>2. PICK p \in cast, n \in Names : s = <<p, n>>
  BY DEF Units
<1>3. Gives(s) \in Nat /\ s[1] = p
  BY <1>2, CastIs
<1>4. up'[s] = Gives(s) /\ \A t \in Units : t # s => up'[t] = up[t]
  BY <1>1 DEF PortsTyped
<1>5. PortsTyped'
  BY <1>1, <1>3 DEF PortsTyped
<1>6. \A t : Gives(t)' = Gives(t)
  BY <1>1 DEF Gives
<1>8. \A q \in cast : Installing(q)' = Installing(q) /\ Recorded(q)' = Recorded(q)
        /\ Installing(q) \in Units /\ Recorded(q) \in Units
  BY <1>1, CastIs DEF Installing, Recorded
<1>9. WaitsForItsOwn'
  <2> SUFFICES ASSUME NEW q \in cast, waiting[q] # NotWaiting
               PROVE  /\ Gives(Installing(q))' # 0
                      /\ IF Of[q].stops THEN up'[Installing(q)'] \in {0, Gives(Installing(q))'}
                         ELSE Gives(Installing(q))' = waiting[q].port
    BY <1>1 DEF WaitsForItsOwn
  <2>1. PICK t \in Units : t = Installing(q)
    BY <1>8
  <2>2. Gives(Installing(q))' = Gives(t) /\ Installing(q)' = t
    BY <1>6, <1>8, <2>1
  <2>3. up'[t] \in {up[t], Gives(t)}
    BY <1>4
  <2> QED
    BY <2>1, <2>2, <2>3 DEF WaitsForItsOwn
<1>10. RowsFollow'
  <2> SUFFICES ASSUME NEW q \in cast, row[q] # 0, q \notin stale \cup misled, waiting[q] = NotWaiting
               PROVE  /\ Gives(Recorded(q))' # 0
                      /\ row[q] = Endpoint(q, Gives(Recorded(q))')
                      /\ up'[Recorded(q)'] # 0 => row[q] = Endpoint(q, up'[Recorded(q)'])
    BY <1>1 DEF RowsFollow, Endpoint
  <2>1. PICK t \in Units : t = Recorded(q)
    BY <1>8
  <2>2. Gives(Recorded(q))' = Gives(t) /\ Recorded(q)' = t
    BY <1>6, <1>8, <2>1
  <2>3. up'[t] \in {up[t], Gives(t)}
    BY <1>4
  <2> QED
    BY <2>1, <2>2, <2>3 DEF RowsFollow
<1> QED
  BY <1>5, <1>9, <1>10

(* The install that is answered and not misled is answered by its own      *)
(* daemon, at the port it was started with.                                *)
LEMMA Answered ==
  ASSUME PortsInv, NEW p \in cast, waiting[p] # NotWaiting, Accepted(p), ~Misled(p)
  PROVE  /\ up[Installing(p)] = waiting[p].port
         /\ Gives(Installing(p)) = waiting[p].port
<1> USE DEF PortsInv
<1> DEFINE s == Installing(p)
<1>1. s \in Units /\ s[1] = p /\ s = <<p, waiting[p].name>>
  BY CastIs DEF Installing
<1>2. waiting[p].port \in Port /\ waiting[p].port # 0
  BY PortIs DEF PortsTyped
<1>3. PICK t \in Units : waiting[p].port \in Binds(t[1], up[t])
  BY DEF Accepted, Listened
<1>4. t = s
  BY <1>1, <1>3 DEF Misled, Taken, Installing
<1>5. waiting[p].port = up[s]
  BY <1>1, <1>3, <1>4 DEF Misled, Installing
<1>6. Gives(s) = waiting[p].port
  BY <1>2, <1>5 DEF WaitsForItsOwn
<1> QED
  BY <1>5, <1>6

LEMMA WriteRowKeeps == ASSUME PortsInv, NEW p \in cast, WriteRow(p) PROVE PortsInv'
<1> USE DEF PortsInv
<1>0. PICK w \in Nat, n \in Names : w = waiting[p].port /\ n = waiting[p].name
  BY CastIs
<1>1. /\ UNCHANGED <<cast, unit, file, up>> /\ Units' = Units
      /\ waiting[p] # NotWaiting /\ Accepted(p)
      /\ row' = [row EXCEPT ![p] = Endpoint(p, w)]
      /\ saved' = [saved EXCEPT ![p] = n]
      /\ waiting' = [waiting EXCEPT ![p] = NotWaiting]
      /\ stale' = stale \ {p}
      /\ misled' = IF Misled(p) THEN misled \cup {p} ELSE misled \ {p}
  BY <1>0 DEF WriteRow, Units
<1>2. /\ p \in DOMAIN Of /\ w \in Port /\ w # 0
      /\ <<p, n>> \in Units /\ Installing(p) = <<p, n>>
      /\ p \notin misled' => up[<<p, n>>] = w /\ Gives(<<p, n>>) = w
  <2>1. p \in DOMAIN Of /\ w \in Port /\ <<p, n>> \in Units /\ Installing(p) = <<p, n>>
    BY <1>0, <1>1, CastIs DEF PortsTyped, Installing
  <2>2. w # 0
    BY <2>1, PortIs
  <2> QED
    BY <1>0, <1>1, <2>1, <2>2, Answered
<1>3. /\ row'[p] = Endpoint(p, w) /\ saved'[p] = n /\ waiting'[p] = NotWaiting
      /\ \A q \in cast \ {p} : row'[q] = row[q] /\ saved'[q] = saved[q] /\ waiting'[q] = waiting[q]
  BY <1>1 DEF PortsTyped
<1>4. Endpoint(p, w) \in Nat
  <2>1. Of[p].endpoint \in 0..3
    BY <1>2, ProductsAre DEF WellFormed
  <2> QED
    BY <1>2, <2>1 DEF Endpoint, Offset
<1>5. PortsTyped'
  BY <1>1, <1>3, <1>4, NotWaitingIs DEF PortsTyped
<1>6. \A t : Gives(t)' = Gives(t)
  BY <1>1 DEF Gives
<1>7. \A q \in cast \ {p} : q \notin stale' \cup misled' => q \notin stale \cup misled
  BY <1>1
<1>8. WaitsForItsOwn'
  <2> SUFFICES ASSUME NEW q \in cast, waiting'[q] # NotWaiting
               PROVE  /\ Gives(Installing(q))' # 0
                      /\ IF Of[q].stops THEN up'[Installing(q)'] \in {0, Gives(Installing(q))'}
                         ELSE Gives(Installing(q))' = waiting'[q].port
    BY <1>1 DEF WaitsForItsOwn
  <2>1. q # p /\ waiting'[q] = waiting[q]
    BY <1>3
  <2>2. Installing(q)' = Installing(q) /\ up' = up
    BY <1>1, <2>1 DEF Installing
  <2>3. Gives(Installing(q))' = Gives(Installing(q))
    BY <1>1, <2>2 DEF Gives
  <2> QED
    BY <2>1, <2>2, <2>3 DEF WaitsForItsOwn
<1>9. RowsFollow'
  <2> SUFFICES ASSUME NEW q \in cast, row'[q] # 0, q \notin stale' \cup misled', waiting'[q] = NotWaiting
               PROVE  /\ Gives(Recorded(q))' # 0
                      /\ row'[q] = Endpoint(q, Gives(Recorded(q))')
                      /\ up'[Recorded(q)'] # 0 => row'[q] = Endpoint(q, up'[Recorded(q)'])
    BY <1>1 DEF RowsFollow, Endpoint
  <2>1. CASE q = p
    <3>1. Recorded(p)' = <<p, n>>
      BY <1>3 DEF Recorded
    <3>2. Gives(Recorded(p))' = w
      BY <1>1, <1>2, <2>1, <3>1 DEF Gives
    <3> QED
      BY <1>1, <1>2, <1>3, <2>1, <3>1, <3>2
  <2>2. CASE q # p
    <3>1. waiting[q] = NotWaiting /\ q \notin stale \cup misled /\ row'[q] = row[q] /\ Recorded(q)' = Recorded(q)
      BY <1>1, <1>3, <1>7, <2>2 DEF Recorded
    <3>2. Gives(Recorded(q))' = Gives(Recorded(q))
      BY <1>1, <3>1 DEF Gives
    <3> QED
      BY <1>1, <3>1, <3>2 DEF RowsFollow
  <2> QED
    BY <2>1, <2>2
<1> QED
  BY <1>5, <1>8, <1>9

LEMMA GiveUpKeeps == ASSUME PortsInv, NEW p \in cast, GiveUp(p) PROVE PortsInv'
<1> USE DEF PortsInv
<1>1. /\ UNCHANGED <<cast, unit, file, up, row, saved, misled>> /\ Units' = Units
      /\ waiting' = [waiting EXCEPT ![p] = NotWaiting]
      /\ stale' = stale \cup {p}
  BY DEF GiveUp, Units
<1>2. /\ waiting'[p] = NotWaiting
      /\ \A q \in cast \ {p} : waiting'[q] = waiting[q]
  BY <1>1 DEF PortsTyped
<1>3. PortsTyped'
  BY <1>1, <1>2, NotWaitingIs DEF PortsTyped
<1>4. \A t : Gives(t)' = Gives(t)
  BY <1>1 DEF Gives
<1>6. WaitsForItsOwn'
  <2> SUFFICES ASSUME NEW q \in cast, waiting'[q] # NotWaiting
               PROVE  /\ Gives(Installing(q))' # 0
                      /\ IF Of[q].stops THEN up'[Installing(q)'] \in {0, Gives(Installing(q))'}
                         ELSE Gives(Installing(q))' = waiting'[q].port
    BY <1>1 DEF WaitsForItsOwn
  <2>1. q # p /\ waiting'[q] = waiting[q]
    BY <1>2
  <2>2. Installing(q)' = Installing(q) /\ up' = up
    BY <1>1, <2>1 DEF Installing
  <2>3. Gives(Installing(q))' = Gives(Installing(q))
    BY <1>1, <2>2 DEF Gives
  <2> QED
    BY <2>1, <2>2, <2>3 DEF WaitsForItsOwn
<1>7. RowsFollow'
  <2> SUFFICES ASSUME NEW q \in cast, row[q] # 0, q \notin stale' \cup misled', waiting'[q] = NotWaiting
               PROVE  /\ Gives(Recorded(q))' # 0
                      /\ row[q] = Endpoint(q, Gives(Recorded(q))')
                      /\ up'[Recorded(q)'] # 0 => row[q] = Endpoint(q, up'[Recorded(q)'])
    BY <1>1 DEF RowsFollow, Endpoint
  <2>1. waiting[q] = NotWaiting /\ q \notin stale \cup misled /\ Recorded(q)' = Recorded(q)
    BY <1>1, <1>2 DEF Recorded
  <2>2. Gives(Recorded(q))' = Gives(Recorded(q))
    BY <1>1, <2>1 DEF Gives
  <2> QED
    BY <1>1, <2>1, <2>2 DEF RowsFollow
<1> QED
  BY <1>3, <1>6, <1>7

LEMMA UninstallKeeps == ASSUME PortsInv, NEW p \in cast, UninstallProduct(p) PROVE PortsInv'
<1> USE DEF PortsInv
<1>0. PICK n \in Names : n = saved[p]
  BY CastIs
<1>1. /\ cast' = cast /\ waiting' = waiting /\ misled' = misled \ {p} /\ Units' = Units
      /\ waiting[p] = NotWaiting
      /\ unit' = [unit EXCEPT ![<<p, n>>] = 0] /\ up' = [up EXCEPT ![<<p, n>>] = 0]
      /\ file' = [file EXCEPT ![p] = 0]
      /\ row' = [row EXCEPT ![p] = 0] /\ saved' = [saved EXCEPT ![p] = DefaultName]
      /\ stale' = stale \ {p}
  BY <1>0 DEF UninstallProduct, Units
<1>2. /\ \A s \in Units : s # <<p, n>> => unit'[s] = unit[s] /\ up'[s] = up[s]
      /\ <<p, n>> \in Units /\ up'[<<p, n>>] = 0
  BY <1>1, CastIs DEF PortsTyped
<1>3. /\ file'[p] = 0 /\ row'[p] = 0
      /\ \A q \in cast \ {p} : file'[q] = file[q] /\ row'[q] = row[q] /\ saved'[q] = saved[q]
  BY <1>1 DEF PortsTyped
<1>4. PortsTyped'
  <2>1. DefaultName \in Names
    BY PortsAssumption
  <2> QED
    BY <1>1, <2>1 DEF PortsTyped
<1>5. ASSUME NEW q \in cast \ {p}, NEW m \in Names
      PROVE  /\ Gives(<<q, m>>)' = Gives(<<q, m>>)
             /\ up'[<<q, m>>] = up[<<q, m>>]
  <2>1. <<q, m>> \in Units /\ <<q, m>> # <<p, n>> /\ <<q, m>>[1] = q
    BY DEF Units
  <2> QED
    BY <1>2, <1>3, <2>1 DEF Gives, Configured
<1>7. WaitsForItsOwn'
  <2> SUFFICES ASSUME NEW q \in cast, waiting[q] # NotWaiting
               PROVE  /\ Gives(Installing(q))' # 0
                      /\ IF Of[q].stops THEN up'[Installing(q)'] \in {0, Gives(Installing(q))'}
                         ELSE Gives(Installing(q))' = waiting[q].port
    BY <1>1 DEF WaitsForItsOwn
  <2>1. PICK m \in Names : m = waiting[q].name
    BY CastIs
  <2>2. q # p /\ Installing(q)' = <<q, m>> /\ Installing(q) = <<q, m>>
    BY <1>1, <2>1 DEF Installing
  <2>3. Gives(<<q, m>>)' = Gives(<<q, m>>) /\ up'[<<q, m>>] = up[<<q, m>>]
    BY <1>5, <2>2
  <2> QED
    BY <2>2, <2>3 DEF WaitsForItsOwn, Gives, Installing
<1>8. RowsFollow'
  <2> SUFFICES ASSUME NEW q \in cast, row'[q] # 0, q \notin stale' \cup misled', waiting[q] = NotWaiting
               PROVE  /\ Gives(Recorded(q))' # 0
                      /\ row'[q] = Endpoint(q, Gives(Recorded(q))')
                      /\ up'[Recorded(q)'] # 0 => row'[q] = Endpoint(q, up'[Recorded(q)'])
    BY <1>1 DEF RowsFollow, Endpoint
  <2>1. q # p /\ q \notin stale \cup misled /\ row'[q] = row[q]
    BY <1>1, <1>3
  <2>2. PICK m \in Names : m = saved[q]
    BY CastIs
  <2>3. Recorded(q)' = <<q, m>> /\ Recorded(q) = <<q, m>>
    BY <1>3, <2>1, <2>2 DEF Recorded
  <2>4. Gives(<<q, m>>)' = Gives(<<q, m>>) /\ up'[<<q, m>>] = up[<<q, m>>]
    BY <1>5, <2>1
  <2> QED
    BY <2>1, <2>3, <2>4 DEF RowsFollow, Gives, Recorded
<1> QED
  BY <1>4, <1>7, <1>8

LEMMA RestartsKeep == ASSUME PortsInv, HostRestarts PROVE PortsInv'
<1> USE DEF PortsInv
<1>1. /\ UNCHANGED <<cast, unit, file, row, saved, misled>> /\ Units' = Units
      /\ up' = [s \in Units |-> 0]
      /\ stale' = stale \cup {p \in cast : waiting[p] # NotWaiting}
      /\ waiting' = [p \in cast |-> NotWaiting]
  BY DEF HostRestarts, Units
<1>2. PortsTyped'
  BY <1>1, NotWaitingIs DEF PortsTyped
<1>4. WaitsForItsOwn'
  BY <1>1 DEF WaitsForItsOwn
<1>5. RowsFollow'
  <2> SUFFICES ASSUME NEW q \in cast, row[q] # 0, q \notin stale' \cup misled'
               PROVE  /\ Gives(Recorded(q))' # 0
                      /\ row[q] = Endpoint(q, Gives(Recorded(q))')
                      /\ up'[Recorded(q)'] # 0 => row[q] = Endpoint(q, up'[Recorded(q)'])
    BY <1>1 DEF RowsFollow, Endpoint
  <2>1. waiting[q] = NotWaiting /\ q \notin stale \cup misled /\ Recorded(q)' = Recorded(q)
        /\ Recorded(q) \in Units
    BY <1>1, CastIs DEF Recorded
  <2>2. Gives(Recorded(q))' = Gives(Recorded(q))
    BY <1>1, <2>1 DEF Gives
  <2>3. up'[Recorded(q)] = 0
    BY <1>1, <2>1
  <2> QED
    BY <2>1, <2>2, <2>3 DEF RowsFollow
<1> QED
  BY <1>2, <1>4, <1>5

LEMMA PortsStep == ASSUME PortsInv, [PortsNext]_portVars PROVE PortsInv'
<1>1. ASSUME NEW p \in cast, NEW field \in Chosen \cup {0}, NEW n \in Names, Launch(p, field, n)
      PROVE  PortsInv'
  BY <1>1, LaunchKeeps
<1>2. ASSUME NEW p \in cast, WriteRow(p) PROVE PortsInv'
  BY <1>2, WriteRowKeeps
<1>3. ASSUME NEW p \in cast, GiveUp(p) PROVE PortsInv'
  BY <1>3, GiveUpKeeps
<1>4. ASSUME NEW p \in cast, UninstallProduct(p) PROVE PortsInv'
  BY <1>4, UninstallKeeps
<1>5. ASSUME NEW s \in Units, Bind(s) PROVE PortsInv'
  BY <1>5, BindKeeps
<1>6. CASE HostRestarts
  BY <1>6, RestartsKeep
<1>7. CASE UNCHANGED portVars
  <2>1. /\ UNCHANGED <<cast, unit, file, up, waiting, row, saved, stale, misled>> /\ Units' = Units
    BY <1>7 DEF portVars, Units
  <2>2. PortsTyped'
    BY <2>1 DEF PortsInv, PortsTyped
  <2>5. WaitsForItsOwn' /\ RowsFollow'
    BY <2>1 DEF PortsInv, WaitsForItsOwn, RowsFollow, Gives, Installing, Recorded
  <2> QED
    BY <2>2, <2>5 DEF PortsInv
<1> QED
  BY <1>1, <1>2, <1>3, <1>4, <1>5, <1>6, <1>7 DEF PortsNext

LEMMA PortsAlways == PortsSpec => []PortsInv
<1>1. PortsInit => PortsInv
  BY PortsStart
<1>2. PortsInv /\ [PortsNext]_portVars => PortsInv'
  BY PortsStep
<1> QED
  BY <1>1, <1>2, PTL DEF PortsSpec

(* For any products of the table, also where two ask for the same port,    *)
(* any ports and service names: the endpoint of a product whose last       *)
(* install ended well, and was not answered by another listener, is one    *)
(* that its own daemon binds whenever it is started, and the unit an       *)
(* uninstall would remove is that daemon's.                                *)
THEOREM RowsAlwaysReach == PortsSpec => []RowsReachTheirDaemons
<1>1. PortsInv => RowsReachTheirDaemons
  <2> SUFFICES ASSUME PortsInv, NEW p \in cast, row[p] # 0, p \notin stale \cup misled, waiting[p] = NotWaiting
               PROVE  /\ row[p] \in Binds(p, Gives(Recorded(p)))
                      /\ up[Recorded(p)] # 0 => row[p] = Endpoint(p, up[Recorded(p)])
    BY DEF RowsReachTheirDaemons, Gives, Recorded
  <2>. DEFINE g == Gives(Recorded(p))
  <2>1. p \in DOMAIN Of /\ g \in Nat
    BY CastIs DEF PortsInv, Recorded
  <2>2. /\ g # 0 /\ row[p] = Endpoint(p, g)
        /\ up[Recorded(p)] # 0 => row[p] = Endpoint(p, up[Recorded(p)])
    BY DEF PortsInv, RowsFollow
  <2>. HIDE DEF g
  <2>3. Endpoint(p, g) \in Binds(p, g)
    BY <2>1, <2>2, OwnPorts, SMTT(30)
  <2> QED BY <2>2, <2>3 DEF g
<1> QED
  BY <1>1, PortsAlways, PTL

-----------------------------------------------------------------------------
(* The recipes: which steps there are, and which follows which.            *)

Removals == {"stop", "disable", "rmUnit", "reload", "rmRoot", "dropDatabase", "rmData",
             "bootout", "unregister"}

Installs == {"check", "extract", "seal", "locate", "distroOrBundle", "distro", "package",
             "toolchain", "source", "anySource", "build", "newRelease", "copy", "probe",
             "manifest", "swap", "prune", "venv", "jar", "runtime", "config", "keepConfig",
             "keypair", "initdb", "credentials", "provision", "unit", "reload", "stop",
             "enable", "wait", "bootstrap", "kickstart", "unregister", "register", "start"}

Mac == {"macKanidm", "macPostgres"}
\* The drivers that run from the bundle, and those that write a config.
Bundled == {"grafana", "greptime", "openfga", "restate", "qdrant", "databend", "lakekeeper",
            "trino"}
WithConfig == {"qdrant", "databend", "trino", "kanidm", "macKanidm"}
\* The drivers that put up a systemd service as service.rs does.
Systemd == Bundled \cup {"sail"}

Proper(kind, x, a) ==
  /\ a \in IF kind = "install" THEN Installs ELSE Removals
  /\ a = "venv" => x = "sail"
  /\ a \in {"check", "extract", "seal"} => x # "sail" /\ x \notin Released
  /\ a \in {"newRelease", "copy", "probe", "manifest", "swap", "prune", "build"} => x \in Released
  /\ a = "keypair" => x = "kanidm"
  /\ a = "source" => x = "kanidm"
  /\ a = "anySource" => x = "garage"
  /\ a \in {"credentials", "provision", "dropDatabase"} => x = "lakekeeper"
  /\ a = "jar" => x = "xtable"
  /\ a = "runtime" => x \in {"trino", "xtable"}
  /\ a = "keepConfig" => x \in {"garage", "xtable"}
  /\ a = "config" => x \in WithConfig
  /\ a \in {"initdb", "distro", "package"} => x \in DistroFirst
  /\ a \in {"bootstrap", "kickstart", "bootout"} => x \in Mac
  /\ a \in {"register", "start", "unregister", "distroOrBundle"} => x = "windowsPostgres"
  /\ a = "rmRoot" => x \notin DistroFirst \cup Mac
  /\ a = "rmData" => x \in DistroFirst \cup Mac
  /\ a \in {"stop", "reload", "enable"} => x \notin Mac

InstallLink(x, a, b) ==
  /\ b \notin {"credentials", "venv", "distro", "package", "distroOrBundle"}
  /\ a = "check" <=> b = "extract"
  /\ a = "extract" <=> b = "seal"
  /\ a = "seal" => b = "locate"
  /\ b = "locate" => a \in {"seal", "venv"}
  /\ a = "credentials" <=> b = "provision"
  /\ a = "distroOrBundle" => b = "check"
  /\ x = "windowsPostgres" /\ a = "locate" => b = "initdb"
  /\ b = "check" => a \in {"provision", "runtime", "distroOrBundle", "wait"}
  /\ a = "wait" => b = "check" /\ x = "databend"
  /\ b = "build" => a \in {"source", "anySource"}
  /\ b = "newRelease" => a = "build"
  /\ b = "copy" => a = "newRelease"
  /\ b = "probe" => a = "copy"
  /\ b = "manifest" => a = "probe"
  /\ b = "stop" /\ x \in Released => a = "manifest"
  /\ b = "swap" => a = "stop"
  /\ b = "prune" => a = "swap"
  /\ b = "keypair" => a = "prune"
  /\ b = "config" => a = IF x = "kanidm" THEN "keypair" ELSE "locate"
  /\ b = "unit" => a = (IF x \in WithConfig THEN "config"
                        ELSE IF x \in Systemd THEN "locate" ELSE a)
  /\ b = "reload" => a = "unit"
  /\ b = "stop" /\ x \in Systemd => a = "reload"
  /\ b = "enable" => a = IF x \in Systemd THEN "stop" ELSE "reload"
  /\ b = "bootstrap" => a = "unit"
  /\ b = "kickstart" => a = "bootstrap"
  /\ b = "wait" => a = IF x \in Mac THEN "kickstart" ELSE IF x = "windowsPostgres" THEN "start" ELSE "enable"

UninstallLink(x, a, b) ==
  /\ b = "disable" => a = "stop"
  /\ b = "rmUnit" => a = IF x \in Mac THEN "bootout" ELSE "disable"
  /\ b = "reload" => a = "rmUnit"
  /\ b = "rmRoot" => a = "reload"
  /\ b = "rmData" => a = IF x \in Mac THEN "rmUnit" ELSE IF x = "windowsPostgres" THEN "unregister" ELSE "reload"
  /\ b = "unregister" => a = "stop"
  /\ b = "dropDatabase" <=> a = "rmRoot" /\ x = "lakekeeper"
  /\ b = "stop" => a = "rmRoot" /\ x = "databend"
  /\ a = "rmRoot" => x \in {"databend", "lakekeeper"}
  /\ b # "bootout"

Link(kind, x, a, b) == IF kind = "install" THEN InstallLink(x, a, b) ELSE UninstallLink(x, a, b)

First(kind, x, a) ==
  IF kind = "uninstall" THEN a = IF x \in Mac THEN "bootout" ELSE "stop"
  ELSE /\ a \in {"check", "credentials", "venv", "runtime", "toolchain", "package", "distro",
                 "distroOrBundle"}
       /\ x = "lakekeeper" => a = "credentials"
       /\ x = "sail" => a = "venv"

Closes(kind, x, a) ==
  IF kind = "install" THEN a = IF x = "xtable" THEN "enable" ELSE "wait"
  ELSE a = IF x = "lakekeeper" THEN "dropDatabase"
           ELSE IF x \in DistroFirst \cup Mac THEN "rmData" ELSE "rmRoot"

\* databend's second service follows the first.
Seam(a, b) == a = "wait" \/ (a = "rmRoot" /\ b = "stop")

Fits(kind, x, steps) ==
  /\ steps \in Seq(Installs \cup Removals) /\ Len(steps) > 0
  /\ First(kind, x, steps[1]) /\ Closes(kind, x, steps[Len(steps)])
  /\ \A n \in 1..Len(steps) : Proper(kind, x, steps[n])
  /\ \A n \in 1..(Len(steps) - 1) :
       Link(kind, x, steps[n], steps[n + 1]) /\ ~Seam(steps[n], steps[n + 1])

LEMMA BundledFit ==
  /\ \A x \in {"grafana", "greptime", "openfga", "restate"} : Fits("install", x, InstallService)
  /\ \A x \in {"qdrant", "databend"} : Fits("install", x, InstallConfigured)
  /\ Fits("install", "lakekeeper", <<"credentials", "provision">> \o InstallService)
  /\ Fits("install", "trino", TrinoFetched \o Started)
<1>. USE DEF Fits, Seam, First, Closes, Proper, Link, InstallLink, Released, Installs, Removals,
             DistroFirst, Mac, WithConfig, Bundled, Systemd, Bundle, Started
<1>1. \A x \in {"grafana", "greptime", "openfga", "restate"} : Fits("install", x, InstallService)
  BY DEF InstallService
<1>2. \A x \in {"qdrant", "databend"} : Fits("install", x, InstallConfigured)
  BY DEF InstallConfigured
<1>3. Fits("install", "lakekeeper", <<"credentials", "provision">> \o InstallService)
  BY DEF InstallService
<1>4. Fits("install", "trino", TrinoFetched \o Started)
  BY SMTT(60) DEF TrinoFetched
<1> QED BY <1>1, <1>2, <1>3, <1>4

LEMMA OthersFit ==
  /\ Fits("install", "sail", <<"venv", "locate">> \o Started)
  /\ Fits("install", "xtable", <<"runtime", "jar", "keepConfig", "unit", "reload", "enable">>)
  /\ Fits("install", "kanidm", Compiled \o Staged \o Promoted \o
          <<"keypair", "config", "unit", "reload", "enable", "wait">>)
  /\ Fits("install", "garage", <<"toolchain", "anySource", "build">> \o Staged \o Promoted \o
          <<"keepConfig", "unit", "reload", "enable", "wait">>)
  /\ Fits("install", "postgres", <<"package", "initdb", "unit", "reload", "enable", "wait">>)
  /\ Fits("install", "macKanidm", Bundle \o <<"config", "unit", "bootstrap", "kickstart", "wait">>)
  /\ Fits("install", "macPostgres",
          <<"distro", "initdb", "unit", "bootstrap", "kickstart", "wait">>)
  /\ Fits("install", "windowsPostgres", <<"distroOrBundle">> \o Bundle \o
          <<"initdb", "stop", "unregister", "register", "start", "wait">>)
<1>. USE DEF Fits, Seam, First, Closes, Proper, Link, InstallLink, Released, Installs, Removals,
             DistroFirst, Mac, WithConfig, Bundled, Systemd, Bundle, Started
<1>1. Fits("install", "sail", <<"venv", "locate">> \o Started)
  OBVIOUS
<1>2. Fits("install", "xtable", <<"runtime", "jar", "keepConfig", "unit", "reload", "enable">>)
  OBVIOUS
<1>3. Fits("install", "kanidm", Compiled \o Staged \o Promoted \o
           <<"keypair", "config", "unit", "reload", "enable", "wait">>)
  BY DEF Compiled, Staged, Promoted
<1>4. Fits("install", "garage", <<"toolchain", "anySource", "build">> \o Staged \o Promoted \o
           <<"keepConfig", "unit", "reload", "enable", "wait">>)
  BY DEF Staged, Promoted
<1>5. Fits("install", "postgres", <<"package", "initdb", "unit", "reload", "enable", "wait">>)
  OBVIOUS
<1>6. Fits("install", "macKanidm", Bundle \o <<"config", "unit", "bootstrap", "kickstart", "wait">>)
  OBVIOUS
<1>7. Fits("install", "macPostgres",
           <<"distro", "initdb", "unit", "bootstrap", "kickstart", "wait">>)
  OBVIOUS
<1>8. Fits("install", "windowsPostgres", <<"distroOrBundle">> \o Bundle \o
           <<"initdb", "stop", "unregister", "register", "start", "wait">>)
  OBVIOUS
<1> QED BY <1>1, <1>2, <1>3, <1>4, <1>5, <1>6, <1>7, <1>8

LEMMA UninstallsFit ==
  /\ \A x \in Known \ (DistroFirst \cup Mac \cup {"lakekeeper"}) : Fits("uninstall", x, UninstallService)
  /\ Fits("uninstall", "lakekeeper", UninstallService \o <<"dropDatabase">>)
  /\ Fits("uninstall", "postgres", <<"stop", "disable", "rmUnit", "reload", "rmData">>)
  /\ \A x \in Mac : Fits("uninstall", x, <<"bootout", "rmUnit", "rmData">>)
  /\ Fits("uninstall", "windowsPostgres", <<"stop", "unregister", "rmData">>)
<1>. USE DEF Fits, Seam, First, Closes, Proper, Link, UninstallLink, Released, Installs, Removals,
             DistroFirst, Mac, Known, UninstallService
<1>1. \A x \in Known \ (DistroFirst \cup Mac \cup {"lakekeeper"}) : Fits("uninstall", x, UninstallService)
  OBVIOUS
<1>2. Fits("uninstall", "lakekeeper", UninstallService \o <<"dropDatabase">>)
  OBVIOUS
<1>3. Fits("uninstall", "postgres", <<"stop", "disable", "rmUnit", "reload", "rmData">>)
  OBVIOUS
<1>4. \A x \in Mac : Fits("uninstall", x, <<"bootout", "rmUnit", "rmData">>)
  OBVIOUS
<1>5. Fits("uninstall", "windowsPostgres", <<"stop", "unregister", "rmData">>)
  OBVIOUS
<1> QED BY <1>1, <1>2, <1>3, <1>4, <1>5

-----------------------------------------------------------------------------
(* What is left of a recipe.                                               *)

StepType == {"main", "meta"} \X (Installs \cup Removals)

Linked(kind, x, s, t) ==
  /\ Link(kind, x, s[2], t[2])
  /\ IF Seam(s[2], t[2]) THEN s[1] = "meta" /\ t[1] = "main" ELSE s[1] = t[1]

Flows(kind, x, todo) ==
  /\ todo \in Seq(StepType)
  /\ \A n \in 1..Len(todo) : Proper(kind, x, todo[n][2]) /\ (todo[n][1] = "meta" => x = "databend")
  /\ \A n \in 1..(Len(todo) - 1) : Linked(kind, x, todo[n], todo[n + 1])
  /\ Len(todo) > 0 => Closes(kind, x, todo[Len(todo)][2]) /\ todo[Len(todo)][1] = "main"

Begins(kind, x, todo) ==
  todo # <<>> /\ First(kind, x, todo[1][2]) /\ (x = "databend" => todo[1][1] = "meta")

LEMMA OneService ==
  ASSUME NEW kind, NEW x, x # "databend", NEW steps, Fits(kind, x, steps)
  PROVE  Flows(kind, x, On("main", steps)) /\ Begins(kind, x, On("main", steps))
<1>. DEFINE P == On("main", steps)
            L == Len(steps)
<1>1. steps \in Seq(Installs \cup Removals) /\ L \in Nat /\ L > 0 /\ DOMAIN steps = 1..L
  BY DEF Fits
<1>2. P = [n \in 1..L |-> <<"main", steps[n]>>]
  BY <1>1 DEF On
<1>3. \A n \in 1..L : P[n] \in StepType /\ P[n][1] = "main" /\ P[n][2] = steps[n]
  BY <1>1, <1>2 DEF StepType
<1>4. P \in Seq(StepType) /\ Len(P) = L
  BY <1>1, <1>2, <1>3
<1>. HIDE DEF P, L
<1>5. \A n \in 1..L : Proper(kind, x, P[n][2]) /\ P[n][1] # "meta"
  BY <1>3 DEF Fits, L
<1>6. \A n \in 1..(L - 1) : Linked(kind, x, P[n], P[n + 1])
  <2>. SUFFICES ASSUME NEW n \in 1..(L - 1) PROVE Linked(kind, x, P[n], P[n + 1])
    OBVIOUS
  <2>1. n \in 1..L /\ n + 1 \in 1..L
    BY <1>1 DEF L
  <2>2. Link(kind, x, steps[n], steps[n + 1]) /\ ~Seam(steps[n], steps[n + 1])
    BY DEF Fits, L
  <2> QED BY <1>3, <2>1, <2>2 DEF Linked
<1>7. Closes(kind, x, P[L][2]) /\ P[L][1] = "main" /\ First(kind, x, P[1][2]) /\ P # <<>>
  <2>1. 1 \in 1..L /\ L \in 1..L
    BY <1>1 DEF L
  <2> QED BY <1>3, <1>4, <2>1, <1>1 DEF Fits, L
<1> QED BY <1>4, <1>5, <1>6, <1>7 DEF Flows, Begins, P

LEMMA TwoServices ==
  ASSUME NEW kind \in {"install", "uninstall"}, NEW steps, Fits(kind, "databend", steps),
         Link(kind, "databend", steps[Len(steps)], steps[1]), Seam(steps[Len(steps)], steps[1])
  PROVE  LET P == On("meta", steps) \o On("main", steps) IN
         Flows(kind, "databend", P) /\ Begins(kind, "databend", P)
<1>. DEFINE P == On("meta", steps) \o On("main", steps)
            L == Len(steps)
<1>1. steps \in Seq(Installs \cup Removals) /\ L \in Nat /\ L > 0 /\ DOMAIN steps = 1..L
  BY DEF Fits
<1>2. /\ On("meta", steps) = [n \in 1..L |-> <<"meta", steps[n]>>]
      /\ On("main", steps) = [n \in 1..L |-> <<"main", steps[n]>>]
  BY <1>1 DEF On
<1>3. /\ \A n \in 1..L : <<"meta", steps[n]>> \in StepType /\ <<"main", steps[n]>> \in StepType
  BY <1>1 DEF StepType
<1>4. /\ On("meta", steps) \in Seq(StepType) /\ On("main", steps) \in Seq(StepType)
      /\ Len(On("meta", steps)) = L /\ Len(On("main", steps)) = L
  <2>. DEFINE f == On("meta", steps)
              g == On("main", steps)
  <2>1. f = [n \in 1..L |-> <<"meta", steps[n]>>] /\ g = [n \in 1..L |-> <<"main", steps[n]>>]
    BY <1>2
  <2>. HIDE DEF f, g, L
  <2>2. f \in [1..L -> StepType] /\ g \in [1..L -> StepType]
    BY <1>3, <2>1
  <2>3. f \in Seq(StepType) /\ g \in Seq(StepType) /\ Len(f) = L /\ Len(g) = L
    BY <1>1, <2>2 DEF L
  <2> QED BY <2>3 DEF f, g
<1>5. /\ P \in Seq(StepType) /\ Len(P) = L + L
      /\ \A n \in 1..L : P[n] = <<"meta", steps[n]>> /\ P[L + n] = <<"main", steps[n]>>
  <2>. DEFINE f == On("meta", steps)
              g == On("main", steps)
  <2>1. f \in Seq(StepType) /\ g \in Seq(StepType) /\ Len(f) = L /\ Len(g) = L /\ L \in Nat
    BY <1>1, <1>4
  <2>2. \A n \in 1..L : f[n] = <<"meta", steps[n]>> /\ g[n] = <<"main", steps[n]>>
    BY <1>2
  <2>. HIDE DEF f, g, L
  <2>3. f \o g \in Seq(StepType) /\ Len(f \o g) = L + L
    BY <2>1
  <2>4. \A n \in 1..L : (f \o g)[n] = f[n] /\ (f \o g)[L + n] = g[n]
    BY <2>1
  <2> QED BY <2>2, <2>3, <2>4 DEF f, g
<1>. HIDE DEF P, L
<1>6. \A n \in 1..(L + L) : n \in 1..L \/ \E m \in 1..L : n = L + m
  <2>. SUFFICES ASSUME NEW n \in 1..(L + L), n \notin 1..L PROVE \E m \in 1..L : n = L + m
    OBVIOUS
  <2>1. n - L \in 1..L /\ n = L + (n - L)
    BY <1>1 DEF L
  <2> QED BY <2>1
<1>7. \A n \in 1..(L + L) : Proper(kind, "databend", P[n][2])
  BY <1>5, <1>6 DEF Fits, L
<1>8. \A n \in 1..(L + L - 1) : Linked(kind, "databend", P[n], P[n + 1])
  <2>. SUFFICES ASSUME NEW n \in 1..(L + L - 1) PROVE Linked(kind, "databend", P[n], P[n + 1])
    OBVIOUS
  <2>1. \A m \in 1..(L - 1) : Link(kind, "databend", steps[m], steps[m + 1]) /\ ~Seam(steps[m], steps[m + 1])
    BY DEF Fits, L
  <2>2. CASE n \in 1..(L - 1)
    <3>1. n \in 1..L /\ n + 1 \in 1..L
      BY <1>1, <2>2 DEF L
    <3> QED BY <1>5, <2>1, <2>2, <3>1 DEF Linked
  <2>3. CASE n = L
    <3>1. L \in 1..L /\ 1 \in 1..L
      BY <1>1 DEF L
    <3>2. P[n] = <<"meta", steps[L]>> /\ P[n + 1] = <<"main", steps[1]>>
      BY <1>5, <2>3, <3>1
    <3> QED BY <3>2 DEF Linked, L
  <2>4. CASE n > L
    <3>. DEFINE m == n - L
    <3>1. m \in 1..(L - 1) /\ m \in 1..L /\ m + 1 \in 1..L /\ n = L + m /\ n + 1 = L + (m + 1)
      BY <1>1, <2>4 DEF L
    <3>. HIDE DEF m
    <3>2. P[n] = <<"main", steps[m]>> /\ P[n + 1] = <<"main", steps[m + 1]>>
      BY <1>5, <3>1
    <3> QED BY <2>1, <3>1, <3>2 DEF Linked
  <2>5. n \in Int /\ L \in Int /\ n >= 1
    BY <1>1 DEF L
  <2> QED BY <2>2, <2>3, <2>4, <2>5
<1>9. /\ Closes(kind, "databend", P[L + L][2]) /\ P[L + L][1] = "main"
      /\ First(kind, "databend", P[1][2]) /\ P[1][1] = "meta" /\ P # <<>>
  <2>1. 1 \in 1..L /\ L \in 1..L
    BY <1>1 DEF L
  <2>2. P[1] = <<"meta", steps[1]>> /\ P[L + L] = <<"main", steps[L]>>
    BY <1>5, <2>1
  <2>3. First(kind, "databend", steps[1]) /\ Closes(kind, "databend", steps[L])
    BY DEF Fits, L
  <2>4. P # <<>>
    BY <1>1, <1>5 DEF L
  <2> QED BY <2>2, <2>3, <2>4
<1>10. Flows(kind, "databend", P)
  <2>1. Len(P) = L + L /\ P \in Seq(StepType)
    BY <1>5
  <2>2. \A n \in 1..Len(P) : Proper(kind, "databend", P[n][2]) /\ (P[n][1] = "meta" => "databend" = "databend")
    BY <2>1, <1>7
  <2>3. \A n \in 1..(Len(P) - 1) : Linked(kind, "databend", P[n], P[n + 1])
    <3>1. Len(P) - 1 = L + L - 1
      BY <1>1, <2>1 DEF L
    <3> QED BY <3>1, <1>8, Zenon
  <2>4. Len(P) > 0 => Closes(kind, "databend", P[Len(P)][2]) /\ P[Len(P)][1] = "main"
    BY <2>1, <1>9
  <2> QED BY <2>1, <2>2, <2>3, <2>4 DEF Flows
<1>11. Begins(kind, "databend", P)
  BY <1>9 DEF Begins
<1> QED BY <1>10, <1>11 DEF P

LEMMA PlansFlow ==
  ASSUME NEW kind \in {"install", "uninstall"}, NEW x \in Known
  PROVE  LET P == IF kind = "install" THEN Install(x) ELSE Uninstall(x) IN
         Flows(kind, x, P) /\ Begins(kind, x, P)
<1>. DEFINE Good(P) == Flows(kind, x, P) /\ Begins(kind, x, P)
<1>1. CASE kind = "install"
  <2>1. CASE x \in {"grafana", "greptime", "openfga", "restate"}
    <3>1. Install(x) = On("main", InstallService)
      BY <2>1 DEF Install, Grafana, Greptime, OpenFga, Restate
    <3>2. Fits(kind, x, InstallService)
      BY <1>1, <2>1, BundledFit
    <3> QED BY <1>1, <2>1, <3>1, <3>2, OneService
  <2>2. CASE x = "databend"
    <3>1. Install(x) = On("meta", InstallConfigured) \o On("main", InstallConfigured)
      BY <2>2 DEF Install, Databend
    <3>2. Fits(kind, x, InstallConfigured)
      BY <1>1, <2>2, BundledFit
    <3>3. /\ Link(kind, "databend", InstallConfigured[Len(InstallConfigured)], InstallConfigured[1])
          /\ Seam(InstallConfigured[Len(InstallConfigured)], InstallConfigured[1])
      <4>0. InstallConfigured = <<"check", "extract", "seal", "locate", "config">>
                                 \o <<"unit", "reload", "stop", "enable", "wait">>
        BY DEF InstallConfigured, Bundle, Started
      <4>1. Len(InstallConfigured) = 10
        BY <4>0
      <4>2. InstallConfigured[10] = "wait" /\ InstallConfigured[1] = "check"
        BY <4>0
      <4> QED BY <1>1, <4>1, <4>2 DEF Link, InstallLink, Seam
    <3> QED BY <1>1, <2>2, <3>1, <3>2, <3>3, TwoServices
  <2>3. CASE x \in {"qdrant", "lakekeeper", "trino"}
    <3>1. /\ Install("qdrant") = On("main", InstallConfigured)
          /\ Install("lakekeeper") = On("main", <<"credentials", "provision">> \o InstallService)
          /\ Install("trino") = On("main", TrinoFetched \o Started)
      BY DEF Install, Qdrant, Lakekeeper, Trino
    <3> QED BY <1>1, <2>3, <3>1, BundledFit, OneService
  <2>4. CASE x \in {"sail", "xtable", "kanidm", "garage"}
    <3>1. /\ Install("sail") = On("main", <<"venv", "locate">> \o Started)
          /\ Install("xtable") = On("main", <<"runtime", "jar", "keepConfig", "unit", "reload", "enable">>)
          /\ Install("kanidm") = On("main", Compiled \o Staged \o Promoted \o
                                    <<"keypair", "config", "unit", "reload", "enable", "wait">>)
          /\ Install("garage") = On("main", <<"toolchain", "anySource", "build">> \o Staged \o Promoted \o
                                    <<"keepConfig", "unit", "reload", "enable", "wait">>)
      BY DEF Install, Sail, XTable, Kanidm, Garage
    <3> QED BY <1>1, <2>4, <3>1, OthersFit, OneService
  <2>5. CASE x \in DistroFirst \cup Mac
    <3>1. /\ Install("postgres") = On("main", <<"package", "initdb", "unit", "reload", "enable", "wait">>)
          /\ Install("macKanidm") = On("main", Bundle \o <<"config", "unit", "bootstrap", "kickstart", "wait">>)
          /\ Install("macPostgres") = On("main", <<"distro", "initdb", "unit", "bootstrap", "kickstart", "wait">>)
          /\ Install("windowsPostgres") = On("main", <<"distroOrBundle">> \o Bundle \o
                                    <<"initdb", "stop", "unregister", "register", "start", "wait">>)
      BY DEF Install, Postgres, MacKanidm, MacService, MacPostgres, WindowsPostgres
    <3> QED BY <1>1, <2>5, <3>1, OthersFit, OneService DEF DistroFirst, Mac
  <2> QED BY <2>1, <2>2, <2>3, <2>4, <2>5 DEF Known, DistroFirst, Mac
<1>2. CASE kind = "uninstall"
  <2>1. CASE x = "databend"
    <3>1. Uninstall(x) = On("meta", UninstallService) \o On("main", UninstallService)
      BY <2>1 DEF Uninstall, UninstallDatabend
    <3>2. Fits(kind, x, UninstallService)
      BY <1>2, <2>1, UninstallsFit DEF Known, DistroFirst, Mac
    <3>3. /\ Link(kind, "databend", UninstallService[Len(UninstallService)], UninstallService[1])
          /\ Seam(UninstallService[Len(UninstallService)], UninstallService[1])
      BY <1>2 DEF Link, UninstallLink, Seam, UninstallService, Mac
    <3> QED BY <1>2, <2>1, <3>1, <3>2, <3>3, TwoServices
  <2>2. CASE x \in {"lakekeeper", "postgres", "windowsPostgres"}
    <3>1. /\ Uninstall("lakekeeper") = On("main", UninstallService \o <<"dropDatabase">>)
          /\ Uninstall("postgres") = On("main", <<"stop", "disable", "rmUnit", "reload", "rmData">>)
          /\ Uninstall("windowsPostgres") = On("main", <<"stop", "unregister", "rmData">>)
      BY DEF Uninstall, UninstallLakekeeper, UninstallPostgres, UninstallWindows
    <3> QED BY <1>2, <2>2, <3>1, UninstallsFit, OneService
  <2>3. CASE x \in Mac
    <3>1. Uninstall(x) = On("main", <<"bootout", "rmUnit", "rmData">>)
      BY <2>3 DEF Uninstall, UninstallMac, Mac
    <3>2. x # "databend"
      BY <2>3 DEF Mac
    <3> QED BY <1>2, <2>3, <3>1, <3>2, UninstallsFit, OneService
  <2>4. CASE x \in Known \ (DistroFirst \cup Mac \cup {"lakekeeper", "databend"})
    <3>1. Uninstall(x) = On("main", UninstallService)
      BY <2>4 DEF Uninstall, DistroFirst, Mac
    <3>2. Fits(kind, x, UninstallService)
      BY <1>2, <2>4, UninstallsFit
    <3> QED BY <1>2, <2>4, <3>1, <3>2, OneService
  <2> QED BY <2>1, <2>2, <2>3, <2>4 DEF Known, DistroFirst, Mac
<1> QED BY <1>1, <1>2

-----------------------------------------------------------------------------
(* What a job does next.                                                   *)

Following(todo) == IF todo = <<>> THEN "end" ELSE todo[1][2]
PC(w) == Following(job[w].todo)
Serving(w) == job[w].todo[1][1]

(* A job takes its first step, or goes on with the one that follows. *)
Follows(kind, x, todo, rest) ==
  IF rest = <<>> THEN Closes(kind, x, todo[1][2]) /\ todo[1][1] = "main"
  ELSE Linked(kind, x, todo[1], rest[1])

LEMMA Advances ==
  ASSUME NEW kind, NEW x, NEW todo, Flows(kind, x, todo), todo # <<>>
  PROVE  /\ Proper(kind, x, todo[1][2]) /\ todo[1] \in StepType
         /\ (todo[1][1] = "meta" => x = "databend")
         /\ Flows(kind, x, SubSeq(todo, 2, Len(todo)))
         /\ Follows(kind, x, todo, SubSeq(todo, 2, Len(todo)))
         /\ Len(SubSeq(todo, 2, Len(todo))) = Len(todo) - 1 /\ Len(todo) > 0
<1>. DEFINE L == Len(todo)
            r == SubSeq(todo, 2, Len(todo))
<1>1. todo \in Seq(StepType) /\ L \in Nat /\ L > 0
  BY DEF Flows
<1>2. 1 \in 1..L /\ todo[1] \in StepType
  BY <1>1
<1>3. Proper(kind, x, todo[1][2]) /\ (todo[1][1] = "meta" => x = "databend")
  BY <1>2 DEF Flows
<1>4. r \in Seq(StepType) /\ Len(r) = L - 1 /\ \A n \in 1..(L - 1) : r[n] = todo[n + 1]
  BY <1>1
<1>. HIDE DEF r, L
<1>5. \A n \in 1..(L - 1) : Proper(kind, x, r[n][2]) /\ (r[n][1] = "meta" => x = "databend")
  <2>. SUFFICES ASSUME NEW n \in 1..(L - 1)
                PROVE  Proper(kind, x, r[n][2]) /\ (r[n][1] = "meta" => x = "databend")
    OBVIOUS
  <2>1. n + 1 \in 1..L
    BY <1>1
  <2> QED BY <1>4, <2>1 DEF Flows, L
<1>6. \A n \in 1..(L - 1 - 1) : Linked(kind, x, r[n], r[n + 1])
  <2>. SUFFICES ASSUME NEW n \in 1..(L - 1 - 1) PROVE Linked(kind, x, r[n], r[n + 1])
    OBVIOUS
  <2>1. n \in 1..(L - 1) /\ n + 1 \in 1..(L - 1)
    BY <1>1
  <2>2. Linked(kind, x, todo[n + 1], todo[(n + 1) + 1])
    BY <2>1 DEF Flows, L
  <2> QED BY <1>4, <2>1, <2>2
<1>7. L - 1 > 0 => /\ Closes(kind, x, r[L - 1][2]) /\ r[L - 1][1] = "main"
                   /\ Linked(kind, x, todo[1], r[1])
  <2>. SUFFICES ASSUME L - 1 > 0
                PROVE  /\ Closes(kind, x, r[L - 1][2]) /\ r[L - 1][1] = "main"
                       /\ Linked(kind, x, todo[1], r[1])
    OBVIOUS
  <2>1. L - 1 \in 1..(L - 1) /\ 1 \in 1..(L - 1) /\ (L - 1) + 1 = L
    BY <1>1
  <2>2. r[L - 1] = todo[L] /\ r[1] = todo[1 + 1]
    BY <1>4, <2>1
  <2>3. Closes(kind, x, todo[L][2]) /\ todo[L][1] = "main"
    BY <1>1 DEF Flows, L
  <2>4. Linked(kind, x, todo[1], todo[1 + 1])
    BY <2>1 DEF Flows, L
  <2> QED BY <2>2, <2>3, <2>4
<1>8. Flows(kind, x, r)
  <2>1. Len(r) = L - 1 /\ Len(r) - 1 = L - 1 - 1
    BY <1>1, <1>4
  <2> QED BY <1>4, <1>5, <1>6, <1>7, <2>1 DEF Flows
<1>9. Follows(kind, x, todo, r)
  <2>1. CASE r = <<>>
    <3>1. L = 1
      BY <1>1, <1>4, <2>1
    <3>2. Closes(kind, x, todo[1][2]) /\ todo[1][1] = "main"
      BY <1>1, <3>1 DEF Flows, L
    <3> QED BY <2>1, <3>2 DEF Follows
  <2>2. CASE r # <<>>
    <3>1. L - 1 > 0
      BY <1>1, <1>4, <2>2
    <3> QED BY <1>7, <2>2, <3>1 DEF Follows
  <2> QED BY <2>1, <2>2
<1> QED BY <1>1, <1>2, <1>3, <1>4, <1>8, <1>9 DEF r, L

(* Skipping ahead, one step at a time. *)
LEMMA Skips ==
  ASSUME NEW todo \in Seq(StepType), NEW n \in Nat, n > 0, n <= Len(todo)
  PROVE  LET r == SubSeq(todo, n + 1, Len(todo)) IN
         r \in Seq(StepType) /\ SubSeq(r, 2, Len(r)) = SubSeq(todo, (n + 1) + 1, Len(todo))
<1>. DEFINE r == SubSeq(todo, n + 1, Len(todo))
            p == SubSeq(r, 2, Len(r))
            q == SubSeq(todo, (n + 1) + 1, Len(todo))
            L == Len(todo)
<1>1. L \in Nat /\ r \in Seq(StepType) /\ Len(r) = L - n /\ \A k \in 1..(L - n) : r[k] = todo[n + k]
  BY SMTT(30)
<1>2. CASE n = L
  <2>1. r = <<>> /\ q = <<>>
    BY <1>1, <1>2
  <2> QED BY <1>1, <2>1
<1>3. CASE n < L
  <2>1. p \in Seq(StepType) /\ Len(p) = L - n - 1 /\ \A k \in 1..(L - n - 1) : p[k] = r[k + 1]
    <3>1. Len(r) \in Nat /\ Len(r) >= 1 /\ Len(r) = L - n
      BY <1>1, <1>3
    <3>. HIDE DEF r, L
    <3> QED BY <1>1, <3>1, SMTT(30)
  <2>2. q \in Seq(StepType) /\ Len(q) = L - n - 1 /\ \A k \in 1..(L - n - 1) : q[k] = todo[n + 1 + k]
    BY <1>1, <1>3, SMTT(30)
  <2>. HIDE DEF p, q, r, L
  <2>3. \A k \in 1..(L - n - 1) : p[k] = q[k]
    <3>. SUFFICES ASSUME NEW k \in 1..(L - n - 1) PROVE p[k] = q[k]
      OBVIOUS
    <3>1. k + 1 \in 1..(L - n) /\ n + (k + 1) = n + 1 + k
      BY <1>1
    <3> QED BY <1>1, <2>1, <2>2, <3>1
  <2>4. p = q
    BY <1>1, <2>1, <2>2, <2>3
  <2> QED BY <1>1, <2>4 DEF p, q, r
<1> QED BY <1>1, <1>2, <1>3

LEMMA Sealed ==
  ASSUME NEW x, NEW todo, Flows("install", x, todo), todo # <<>>, todo[1][2] = "check"
  PROVE  LET r == SubSeq(todo, 4, Len(todo)) IN
         Flows("install", x, r) /\ r # <<>> /\ r[1] = <<todo[1][1], "locate">> /\ Len(todo) > 3
<1>. DEFINE r1 == SubSeq(todo, 2, Len(todo))
            r2 == SubSeq(r1, 2, Len(r1))
            r3 == SubSeq(r2, 2, Len(r2))
<1>1. Flows("install", x, r1) /\ r1 # <<>> /\ r1[1][1] = todo[1][1] /\ r1[1][2] = "extract"
  <2>1. Flows("install", x, r1) /\ Follows("install", x, todo, r1)
    BY Advances
  <2>. HIDE DEF r1
  <2> QED BY <2>1 DEF Follows, Closes, Linked, Link, InstallLink, Seam
<1>2. Flows("install", x, r2) /\ r2 # <<>> /\ r2[1][1] = todo[1][1] /\ r2[1][2] = "seal"
  <2>. HIDE DEF r1
  <2> QED BY <1>1, Advances DEF Follows, Closes, Linked, Link, InstallLink, Seam
<1>3. Flows("install", x, r3) /\ r3 # <<>> /\ r3[1][1] = todo[1][1] /\ r3[1][2] = "locate"
      /\ r3[1] \in StepType
  <2>. HIDE DEF r2
  <2>1. Flows("install", x, r3) /\ r3 # <<>> /\ r3[1][1] = todo[1][1] /\ r3[1][2] = "locate"
    BY <1>2, Advances DEF Follows, Closes, Linked, Link, InstallLink, Seam
  <2>. HIDE DEF r3
  <2>2. r3[1] \in StepType
    BY <2>1, Advances
  <2> QED BY <2>1, <2>2
<1>4. todo \in Seq(StepType) /\ r1 \in Seq(StepType) /\ r2 \in Seq(StepType)
  <2>. HIDE DEF r1, r2
  <2> QED BY <1>1, <1>2 DEF Flows
<1>5. Len(todo) > 3 /\ r2 = SubSeq(todo, 3, Len(todo))
  <2>1. Len(todo) >= 1 /\ Len(r1) = Len(todo) - 1
    <3>1. Len(todo) > 0 /\ Len(r1) = Len(todo) - 1
      BY Advances
    <3> QED BY <1>4, <3>1
  <2>2. Len(r1) >= 1
    BY <1>1, <1>4
  <2>3. r2 = SubSeq(todo, (1 + 1) + 1, Len(todo))
    BY <1>4, <2>1, <2>2, Skips
  <2>4. Len(r2) = Len(r1) - 1 /\ Len(r3) = Len(r2) - 1
    <3>. HIDE DEF r1
    <3>1. Len(r2) = Len(r1) - 1
      BY <1>1, <1>4, Advances
    <3>. HIDE DEF r2
    <3> QED BY <1>4, <3>1, <1>2, Advances
  <2>5. Len(r3) >= 1
    <3>. HIDE DEF r3
    <3>1. r3 \in Seq(StepType) /\ r3 # <<>>
      BY <1>3 DEF Flows
    <3> QED BY <3>1
  <2>. HIDE DEF r1, r2, r3
  <2>6. Len(todo) \in Nat /\ Len(r1) \in Nat /\ Len(r2) \in Nat /\ Len(r3) \in Int
    BY <1>4, <2>4
  <2> QED BY <2>1, <2>3, <2>4, <2>5, <2>6
<1>6. r3 = SubSeq(todo, (2 + 1) + 1, Len(todo))
  <2>. HIDE DEF r1, r2
  <2> QED BY <1>4, <1>5, Skips
<1>7. r3 = SubSeq(todo, 4, Len(todo))
  BY <1>6
<1>. HIDE DEF r3
<1>8. r3[1] = <<todo[1][1], "locate">>
  BY <1>3 DEF StepType
<1> QED BY <1>3, <1>5, <1>7, <1>8

(* PostgreSQL on Windows goes from the search of a PostgreSQL to initdb. *)
LEMMA FoundOnHost ==
  ASSUME NEW x, NEW todo, Flows("install", x, todo), todo # <<>>, todo[1][2] = "distroOrBundle"
  PROVE  LET r == SubSeq(todo, 6, Len(todo)) IN
         /\ Flows("install", x, r) /\ r # <<>> /\ r[1] = <<todo[1][1], "initdb">>
         /\ Len(todo) > 5
<1>. DEFINE r1 == SubSeq(todo, 2, Len(todo))
            r4 == SubSeq(r1, 4, Len(r1))
            r5 == SubSeq(r4, 2, Len(r4))
<1>0. x = "windowsPostgres"
  BY Advances DEF Proper
<1>1. Flows("install", x, r1) /\ r1 # <<>> /\ r1[1][1] = todo[1][1] /\ r1[1][2] = "check"
  BY <1>0, Advances DEF Follows, Closes, Linked, Link, InstallLink, Seam, Mac, DistroFirst
<1>2. Flows("install", x, r4) /\ r4 # <<>> /\ r4[1] = <<todo[1][1], "locate">> /\ Len(r1) > 3
  <2>. HIDE DEF r1
  <2> QED BY <1>1, Sealed
<1>3. Flows("install", x, r5) /\ r5 # <<>> /\ r5[1][1] = todo[1][1] /\ r5[1][2] = "initdb"
      /\ r5[1] \in StepType
  <2>. HIDE DEF r4
  <2>1. r4[1][1] = todo[1][1] /\ r4[1][2] = "locate"
    BY <1>2
  <2>2. Flows("install", x, r5) /\ r5 # <<>> /\ r5[1][1] = todo[1][1] /\ r5[1][2] = "initdb"
    BY <1>0, <1>2, <2>1, Advances DEF Follows, Closes, Linked, Link, InstallLink, Seam, Mac, DistroFirst
  <2>. HIDE DEF r5
  <2>3. r5[1] \in StepType
    BY <2>2, Advances
  <2> QED BY <2>2, <2>3
<1>4. todo \in Seq(StepType) /\ r1 \in Seq(StepType) /\ r4 \in Seq(StepType) /\ r5 \in Seq(StepType)
  <2>. HIDE DEF r1, r4, r5
  <2> QED BY <1>1, <1>2, <1>3 DEF Flows
<1>5. Len(todo) \in Nat /\ Len(todo) > 0 /\ Len(r1) = Len(todo) - 1
  <2>1. Len(todo) > 0 /\ Len(r1) = Len(todo) - 1
    BY Advances
  <2> QED BY <1>4, <2>1
<1>6. Len(r4) = Len(r1) - 3 /\ Len(r5) = Len(r4) - 1 /\ Len(r5) > 0
  <2>. HIDE DEF r1
  <2>1. Len(r4) = Len(r1) - 3
    BY <1>2, <1>4
  <2>. HIDE DEF r4
  <2>2. Len(r5) = Len(r4) - 1
    BY <1>2, <1>4, Advances
  <2>. HIDE DEF r5
  <2> QED BY <1>3, <1>4, <2>1, <2>2
<1>7. Len(todo) > 5
  <2>. HIDE DEF r1, r4, r5
  <2> QED BY <1>4, <1>5, <1>6
<1>8. r4 = SubSeq(todo, 5, Len(todo))
  <2>1. SubSeq(r1, 2, Len(r1)) = SubSeq(todo, 3, Len(todo))
    <3>1. SubSeq(r1, 2, Len(r1)) = SubSeq(todo, (1 + 1) + 1, Len(todo))
      BY <1>4, <1>7, Skips
    <3> QED BY <3>1
  <2>. DEFINE t3 == SubSeq(todo, 3, Len(todo))
              t4 == SubSeq(todo, 4, Len(todo))
  <2>2. SubSeq(t3, 2, Len(t3)) = SubSeq(todo, (2 + 1) + 1, Len(todo))
    BY <1>4, <1>7, Skips
  <2>3. SubSeq(t4, 2, Len(t4)) = SubSeq(todo, (3 + 1) + 1, Len(todo))
    BY <1>4, <1>7, Skips
  <2>. DEFINE q2 == SubSeq(r1, 2, Len(r1))
              q3 == SubSeq(r1, 3, Len(r1))
  <2>4. SubSeq(q2, 2, Len(q2)) = SubSeq(r1, (1 + 1) + 1, Len(r1))
    <3>. HIDE DEF r1
    <3> QED BY <1>2, <1>4, Skips
  <2>5. SubSeq(q3, 2, Len(q3)) = SubSeq(r1, (2 + 1) + 1, Len(r1))
    <3>. HIDE DEF r1
    <3> QED BY <1>2, <1>4, Skips
  <2>6. q2 = t3
    BY <2>1
  <2>. HIDE DEF q2, t3
  <2>7. q3 = t4
    BY <2>2, <2>4, <2>6 DEF q3, t4
  <2>. HIDE DEF q3, t4, r1
  <2> QED BY <2>3, <2>5, <2>7
<1>9. r5 = SubSeq(todo, (5 + 1), Len(todo))
  <2>. DEFINE t5 == SubSeq(todo, 5, Len(todo))
  <2>1. SubSeq(t5, 2, Len(t5)) = SubSeq(todo, (4 + 1) + 1, Len(todo))
    BY <1>4, <1>7, Skips
  <2>2. r4 = t5
    BY <1>8
  <2>. HIDE DEF r4, t5
  <2> QED BY <2>1, <2>2
<1>. HIDE DEF r5
<1>10. r5[1] = <<todo[1][1], "initdb">>
  BY <1>3 DEF StepType
<1> QED BY <1>3, <1>7, <1>9, <1>10

-----------------------------------------------------------------------------
(* The types of the host, and of the jobs at work.                         *)
Trees == {"none", "part", "whole"}

(* Writing one field keeps the disk a disk. *)
LEMMA Writes ==
  ASSUME NEW d \in DiskType
  PROVE  /\ \A x \in Tree : [d EXCEPT !.cache = x] \in DiskType
         /\ \A x \in SUBSET Versions : [d EXCEPT !.sealed = x] \in DiskType
         /\ \A x \in Tree : [d EXCEPT !.source = x] \in DiskType
         /\ \A x \in Some : [d EXCEPT !.built = x] \in DiskType
         /\ \A x \in Seq(Release) : [d EXCEPT !.releases = x] \in DiskType
         /\ \A x \in Nat : [d EXCEPT !.current = x] \in DiskType
         /\ \A x \in {"none", "torn", "ours", "edited"} : [d EXCEPT !.config = x] \in DiskType
         /\ \A x \in {"none", "certificate", "both"} : [d EXCEPT !.keys = x] \in DiskType
         /\ \A x \in Trees : [d EXCEPT !.runtime = x] \in DiskType
         /\ \A x \in Trees : [d EXCEPT !.toolchain = x] \in DiskType
         /\ \A x \in Some \cup {"torn"} : [d EXCEPT !.data = x] \in DiskType
         /\ \A x \in Some : [d EXCEPT !.distro = x] \in DiskType
         /\ \A x \in Key : [d EXCEPT !.credentials = x] \in DiskType
         /\ \A x \in Key : [d EXCEPT !.database = x] \in DiskType
<1>1. \A x \in Tree : [d EXCEPT !.cache = x] \in DiskType
  BY DEF DiskType
<1>2. \A x \in SUBSET Versions : [d EXCEPT !.sealed = x] \in DiskType
  BY DEF DiskType
<1>3. \A x \in Tree : [d EXCEPT !.source = x] \in DiskType
  BY DEF DiskType
<1>4. \A x \in Some : [d EXCEPT !.built = x] \in DiskType
  BY DEF DiskType
<1>5. \A x \in Seq(Release) : [d EXCEPT !.releases = x] \in DiskType
  BY DEF DiskType
<1>6. \A x \in Nat : [d EXCEPT !.current = x] \in DiskType
  BY DEF DiskType
<1>7. \A x \in {"none", "torn", "ours", "edited"} : [d EXCEPT !.config = x] \in DiskType
  BY DEF DiskType
<1>8. \A x \in {"none", "certificate", "both"} : [d EXCEPT !.keys = x] \in DiskType
  BY DEF DiskType
<1>9. \A x \in Trees : [d EXCEPT !.runtime = x] \in DiskType
  BY DEF DiskType, Trees
<1>10. \A x \in Trees : [d EXCEPT !.toolchain = x] \in DiskType
  BY DEF DiskType, Trees
<1>11. \A x \in Some \cup {"torn"} : [d EXCEPT !.data = x] \in DiskType
  BY DEF DiskType
<1>12. \A x \in Some : [d EXCEPT !.distro = x] \in DiskType
  BY DEF DiskType
<1>13. \A x \in Key : [d EXCEPT !.credentials = x] \in DiskType
  BY DEF DiskType
<1>14. \A x \in Key : [d EXCEPT !.database = x] \in DiskType
  BY DEF DiskType
<1> QED BY <1>1, <1>2, <1>3, <1>4, <1>5, <1>6, <1>7, <1>8, <1>9, <1>10, <1>11, <1>12, <1>13, <1>14

JobType == [kind : {"idle", "install", "uninstall"}, version : Some, todo : Seq(StepType),
            warned : BOOLEAN]

(* A job at work is on its way through the recipe of its product. *)
JobsFlow ==
  /\ job \in [Workers -> JobType]
  /\ \A w \in Workers :
       IF job[w].kind = "idle" THEN job[w].todo = <<>>
       ELSE job[w].version \in Versions /\ Flows(job[w].kind, product, job[w].todo)

Typed == TypeOK /\ JobsFlow

(* The step a job is at. *)
LEMMA Here ==
  ASSUME Typed, NEW w \in Workers, job[w].todo # <<>>
  PROVE  /\ job[w].kind \in {"install", "uninstall"} /\ job[w].version \in Versions
         /\ Proper(job[w].kind, product, PC(w))
         /\ Service(w) = Serving(w) /\ Service(w) \in Services
         /\ \A a : At(w, a) <=> PC(w) = a
<1>1. /\ job[w].kind \in {"install", "uninstall"} /\ job[w].version \in Versions
      /\ Flows(job[w].kind, product, job[w].todo)
  BY DEF Typed, JobsFlow, JobType
<1>2. /\ Proper(job[w].kind, product, job[w].todo[1][2]) /\ job[w].todo[1] \in StepType
      /\ (job[w].todo[1][1] = "meta" => product = "databend")
  BY <1>1, Advances
<1>3. Head(job[w].todo) = job[w].todo[1]
  OBVIOUS
<1>4. Serving(w) \in {"main", "meta"}
  BY <1>2 DEF Serving, StepType
<1>5. Service(w) = Serving(w) /\ Service(w) \in Services
  BY <1>2, <1>3, <1>4 DEF Service, Serving, Services
<1>6. \A a : At(w, a) <=> PC(w) = a
  BY <1>3 DEF At, PC, Following
<1>7. Proper(job[w].kind, product, PC(w))
  BY <1>2 DEF PC, Following
<1> QED BY <1>1, <1>5, <1>6, <1>7

-----------------------------------------------------------------------------
(* What the steps write.                                                   *)
Blocks(w) ==
  /\ job' = [job EXCEPT ![w] = Idle] /\ result' = "blocked"
  /\ UNCHANGED <<disk, svc, tainted>>

(* How a step leaves its job. *)
Moves(w) ==
  \/ /\ Advance(w, 1) /\ result' = result
     /\ At(w, "check") => Version(w) \notin disk.sealed
  \/ /\ Check(w) /\ Version(w) \in disk.sealed /\ Advance(w, 3)
     /\ UNCHANGED <<disk, svc, tainted, result>>
  \/ DistroOrBundle(w) /\ Advance(w, 5) /\ UNCHANGED <<disk, svc, tainted, result>>
  \/ Blocks(w)

(* Which steps write what. *)
Writers(w) ==
  /\ disk'.cache = disk.cache \/ Extract(w) \/ Venv(w) \/ Jar(w) \/ RemoveRoot(w)
  /\ disk'.sealed = disk.sealed \/ Seal(w) \/ RemoveRoot(w)
  /\ disk'.source = disk.source \/ Source(w) \/ AnySource(w) \/ Jar(w) \/ RemoveRoot(w)
  /\ disk'.built = disk.built \/ Build(w) \/ RemoveRoot(w)
  /\ disk'.releases = disk.releases \/ NewRelease(w) \/ Copy(w) \/ Probe(w) \/ Manifest(w) \/ Prune(w) \/ RemoveRoot(w)
  /\ disk'.current = disk.current \/ Swap(w) \/ Prune(w) \/ RemoveRoot(w)
  /\ disk'.config = disk.config \/ Config(w) \/ KeepConfig(w) \/ RemoveRoot(w)
  /\ disk'.keys = disk.keys \/ KeyPair(w) \/ RemoveRoot(w)
  /\ disk'.runtime = disk.runtime \/ Runtime(w) \/ RemoveRoot(w)
  /\ disk'.toolchain = disk.toolchain \/ Toolchain(w)
  /\ disk'.data = disk.data \/ InitDb(w) \/ RemoveData(w) \/ RemoveRoot(w)
  /\ disk'.distro = disk.distro \/ Package(w)
  /\ disk'.credentials = disk.credentials \/ Credentials(w) \/ RemoveRoot(w)
  /\ disk'.database = disk.database \/ Provision(w) \/ DropDatabase(w)
  /\ svc' = svc \/ Unit(w) \/ Reload(w) \/ Stop(w) \/ Enable(w) \/ Bootstrap(w) \/ Kickstart(w)
       \/ BootOut(w) \/ Unregister(w) \/ Register(w) \/ StartService(w) \/ Disable(w) \/ RemoveUnit(w)
  /\ tainted' = tainted \/ Stop(w) \/ RemoveRoot(w) \/ DropDatabase(w)

Effects(w) ==
  /\ job[w].todo # <<>> /\ UNCHANGED <<product, faults, installed>>
  /\ Moves(w) /\ Writers(w)

LEMMA StepEffects ==
  ASSUME Typed, NEW w \in Workers, Step(w)
  PROVE  Effects(w)
<1>. disk \in DiskType
  BY DEF Typed, TypeOK
<1>. USE DEF Effects, Moves, Writers, Advance, At, Blocks
<1>1. CASE Check(w)
  BY <1>1 DEF Check, DiskType
<1>2. CASE Extract(w)
  BY <1>2 DEF Extract, Becomes, DiskType
<1>3. CASE Seal(w)
  BY <1>3 DEF Seal, Becomes, DiskType
<1>4. CASE Locate(w)
  BY <1>4 DEF Locate, Needs, DiskType
<1>5. CASE DistroOrBundle(w)
  BY <1>5 DEF DistroOrBundle, DiskType
<1>6. CASE Distro(w)
  BY <1>6 DEF Distro, Needs, DiskType
<1>7. CASE Package(w)
  BY <1>7 DEF Package, Becomes, DiskType
<1>8. CASE Toolchain(w)
  BY <1>8 DEF Toolchain, Becomes, Needs, DiskType
<1>9. CASE Source(w)
  BY <1>9 DEF Source, Becomes, DiskType
<1>10. CASE AnySource(w)
  BY <1>10 DEF AnySource, Becomes, DiskType
<1>11. CASE Build(w)
  BY <1>11 DEF Build, Becomes, Needs, DiskType
<1>12. CASE NewRelease(w)
  BY <1>12 DEF NewRelease, Becomes, DiskType
<1>13. CASE Copy(w)
  BY <1>13 DEF Copy, Becomes, DiskType
<1>14. CASE Probe(w)
  BY <1>14 DEF Probe, Becomes, DiskType
<1>15. CASE Manifest(w)
  BY <1>15 DEF Manifest, Becomes, DiskType
<1>16. CASE Swap(w)
  BY <1>16 DEF Swap, Becomes, DiskType
<1>17. CASE Prune(w)
  BY <1>17 DEF Prune, Becomes, Pruned, DiskType
<1>18. CASE Venv(w)
  BY <1>18 DEF Venv, Becomes, DiskType
<1>19. CASE Jar(w)
  BY <1>19 DEF Jar, Becomes, Needs, DiskType
<1>20. CASE Runtime(w)
  BY <1>20 DEF Runtime, Becomes, Needs, DiskType
<1>21. CASE Config(w)
  BY <1>21 DEF Config, Becomes, DiskType
<1>22. CASE KeepConfig(w)
  BY <1>22 DEF KeepConfig, Becomes, DiskType
<1>23. CASE KeyPair(w)
  BY <1>23 DEF KeyPair, Becomes, DiskType
<1>24. CASE InitDb(w)
  BY <1>24 DEF InitDb, Becomes, Needs, DiskType
<1>25. CASE Credentials(w)
  BY <1>25 DEF Credentials, Becomes, DiskType
<1>26. CASE Provision(w)
  BY <1>26 DEF Provision, Becomes, DiskType
<1>27. CASE Unit(w)
  BY <1>27 DEF Unit, Manages, DiskType
<1>28. CASE Reload(w)
  BY <1>28 DEF Reload, DiskType
<1>29. CASE Stop(w)
  BY <1>29, SMTT(60) DEF Stop, DiskType
<1>30. CASE Enable(w)
  BY <1>30 DEF Enable, Manages, Needs, DiskType
<1>31. CASE Wait(w)
  BY <1>31 DEF Wait, Needs, DiskType
<1>32. CASE Bootstrap(w)
  BY <1>32 DEF Bootstrap, Manages, DiskType
<1>33. CASE Kickstart(w)
  BY <1>33 DEF Kickstart, Manages, DiskType
<1>34. CASE BootOut(w)
  BY <1>34 DEF BootOut, Manages, DiskType
<1>35. CASE Unregister(w)
  BY <1>35 DEF Unregister, Manages, DiskType
<1>36. CASE Register(w)
  BY <1>36 DEF Register, Manages, DiskType
<1>37. CASE StartService(w)
  BY <1>37 DEF StartService, Manages, DiskType
<1>38. CASE Disable(w)
  BY <1>38 DEF Disable, Manages, DiskType
<1>39. CASE RemoveUnit(w)
  BY <1>39 DEF RemoveUnit, Manages, DiskType
<1>40. CASE RemoveRoot(w)
  BY <1>40 DEF RemoveRoot, DiskType
<1>41. CASE RemoveData(w)
  BY <1>41 DEF RemoveData, Becomes, DiskType
<1>42. CASE DropDatabase(w)
  BY <1>42 DEF DropDatabase, DiskType
<1>. HIDE DEF Effects, Moves, Writers, Advance, At, Blocks
<1> QED
  BY <1>1, <1>2, <1>3, <1>4, <1>5, <1>6, <1>7, <1>8, <1>9, <1>10, <1>11, <1>12, <1>13, <1>14, <1>15, <1>16, <1>17, <1>18, <1>19, <1>20, <1>21, <1>22, <1>23, <1>24, <1>25, <1>26, <1>27, <1>28, <1>29, <1>30, <1>31, <1>32, <1>33, <1>34, <1>35, <1>36, <1>37, <1>38, <1>39, <1>40, <1>41, <1>42 DEF Step

(* A job at a step takes that step. *)
LEMMA StepIs ==
  ASSUME NEW w, Step(w)
  PROVE  /\ At(w, "check") => Check(w)
         /\ At(w, "extract") => Extract(w)
         /\ At(w, "seal") => Seal(w)
         /\ At(w, "locate") => Locate(w)
         /\ At(w, "distroOrBundle") => DistroOrBundle(w)
         /\ At(w, "distro") => Distro(w)
         /\ At(w, "package") => Package(w)
         /\ At(w, "toolchain") => Toolchain(w)
         /\ At(w, "source") => Source(w)
         /\ At(w, "anySource") => AnySource(w)
         /\ At(w, "build") => Build(w)
         /\ At(w, "newRelease") => NewRelease(w)
         /\ At(w, "copy") => Copy(w)
         /\ At(w, "probe") => Probe(w)
         /\ At(w, "manifest") => Manifest(w)
         /\ At(w, "swap") => Swap(w)
         /\ At(w, "prune") => Prune(w)
         /\ At(w, "venv") => Venv(w)
         /\ At(w, "jar") => Jar(w)
         /\ At(w, "runtime") => Runtime(w)
         /\ At(w, "config") => Config(w)
         /\ At(w, "keepConfig") => KeepConfig(w)
         /\ At(w, "keypair") => KeyPair(w)
         /\ At(w, "initdb") => InitDb(w)
         /\ At(w, "credentials") => Credentials(w)
         /\ At(w, "provision") => Provision(w)
         /\ At(w, "unit") => Unit(w)
         /\ At(w, "reload") => Reload(w)
         /\ At(w, "stop") => Stop(w)
         /\ At(w, "enable") => Enable(w)
         /\ At(w, "wait") => Wait(w)
         /\ At(w, "bootstrap") => Bootstrap(w)
         /\ At(w, "kickstart") => Kickstart(w)
         /\ At(w, "bootout") => BootOut(w)
         /\ At(w, "unregister") => Unregister(w)
         /\ At(w, "register") => Register(w)
         /\ At(w, "start") => StartService(w)
         /\ At(w, "disable") => Disable(w)
         /\ At(w, "rmUnit") => RemoveUnit(w)
         /\ At(w, "rmRoot") => RemoveRoot(w)
         /\ At(w, "rmData") => RemoveData(w)
         /\ At(w, "dropDatabase") => DropDatabase(w)
<1>1. \A a, b : At(w, a) /\ At(w, b) => a = b
  BY DEF At
<1>2. Check(w) => At(w, "check")
  BY DEF Check
<1>3. Extract(w) => At(w, "extract")
  BY DEF Extract, Becomes
<1>4. Seal(w) => At(w, "seal")
  BY DEF Seal, Becomes
<1>5. Locate(w) => At(w, "locate")
  BY DEF Locate, Needs
<1>6. DistroOrBundle(w) => At(w, "distroOrBundle")
  BY DEF DistroOrBundle
<1>7. Distro(w) => At(w, "distro")
  BY DEF Distro, Needs
<1>8. Package(w) => At(w, "package")
  BY DEF Package, Becomes
<1>9. Toolchain(w) => At(w, "toolchain")
  BY DEF Toolchain, Becomes, Needs
<1>10. Source(w) => At(w, "source")
  BY DEF Source, Becomes
<1>11. AnySource(w) => At(w, "anySource")
  BY DEF AnySource, Becomes
<1>12. Build(w) => At(w, "build")
  BY DEF Build
<1>13. NewRelease(w) => At(w, "newRelease")
  BY DEF NewRelease, Becomes
<1>14. Copy(w) => At(w, "copy")
  BY DEF Copy, Becomes
<1>15. Probe(w) => At(w, "probe")
  BY DEF Probe, Becomes
<1>16. Manifest(w) => At(w, "manifest")
  BY DEF Manifest, Becomes
<1>17. Swap(w) => At(w, "swap")
  BY DEF Swap, Becomes
<1>18. Prune(w) => At(w, "prune")
  BY DEF Prune, Becomes
<1>19. Venv(w) => At(w, "venv")
  BY DEF Venv, Becomes
<1>20. Jar(w) => At(w, "jar")
  BY DEF Jar, Becomes, Needs
<1>21. Runtime(w) => At(w, "runtime")
  BY DEF Runtime, Becomes, Needs
<1>22. Config(w) => At(w, "config")
  BY DEF Config, Becomes
<1>23. KeepConfig(w) => At(w, "keepConfig")
  BY DEF KeepConfig, Becomes
<1>24. KeyPair(w) => At(w, "keypair")
  BY DEF KeyPair, Becomes
<1>25. InitDb(w) => At(w, "initdb")
  BY DEF InitDb, Becomes, Needs
<1>26. Credentials(w) => At(w, "credentials")
  BY DEF Credentials, Becomes
<1>27. Provision(w) => At(w, "provision")
  BY DEF Provision, Becomes
<1>28. Unit(w) => At(w, "unit")
  BY DEF Unit, Manages
<1>29. Reload(w) => At(w, "reload")
  BY DEF Reload
<1>30. Stop(w) => At(w, "stop")
  BY DEF Stop
<1>31. Enable(w) => At(w, "enable")
  BY DEF Enable, Manages, Needs
<1>32. Wait(w) => At(w, "wait")
  BY DEF Wait, Needs
<1>33. Bootstrap(w) => At(w, "bootstrap")
  BY DEF Bootstrap, Manages
<1>34. Kickstart(w) => At(w, "kickstart")
  BY DEF Kickstart, Manages
<1>35. BootOut(w) => At(w, "bootout")
  BY DEF BootOut, Manages
<1>36. Unregister(w) => At(w, "unregister")
  BY DEF Unregister, Manages
<1>37. Register(w) => At(w, "register")
  BY DEF Register, Manages
<1>38. StartService(w) => At(w, "start")
  BY DEF StartService, Manages
<1>39. Disable(w) => At(w, "disable")
  BY DEF Disable, Manages
<1>40. RemoveUnit(w) => At(w, "rmUnit")
  BY DEF RemoveUnit, Manages
<1>41. RemoveRoot(w) => At(w, "rmRoot")
  BY DEF RemoveRoot
<1>42. RemoveData(w) => At(w, "rmData")
  BY DEF RemoveData, Becomes
<1>43. DropDatabase(w) => At(w, "dropDatabase")
  BY DEF DropDatabase
<1>100. Step(w)
  OBVIOUS
<1> QED
  BY <1>1, <1>2, <1>3, <1>4, <1>5, <1>6, <1>7, <1>8, <1>9, <1>10, <1>11, <1>12, <1>13, <1>14, <1>15, <1>16, <1>17, <1>18, <1>19, <1>20, <1>21, <1>22, <1>23, <1>24, <1>25, <1>26, <1>27, <1>28, <1>29, <1>30, <1>31, <1>32, <1>33, <1>34, <1>35, <1>36, <1>37, <1>38, <1>39, <1>40, <1>41, <1>42, <1>43, <1>100 DEF Step

-----------------------------------------------------------------------------
(* A job goes from a step to one that follows it in the recipe.            *)

SameJob(w) ==
  /\ job[w].kind \in {"install", "uninstall"}
  /\ job'[w].kind = job[w].kind /\ job'[w].version = job[w].version

OnService(w) ==
  IF Seam(PC(w), PC(w)') THEN Serving(w) = "meta" /\ Serving(w)' = "main" ELSE Serving(w)' = Serving(w)

Onward(w) ==
  /\ SameJob(w)
  /\ IF job'[w].todo = <<>>
     THEN PC(w)' = "end" /\ Closes(job[w].kind, product, PC(w)) /\ Serving(w) = "main"
     ELSE /\ Link(job[w].kind, product, PC(w), PC(w)') /\ OnService(w)
          /\ Proper(job[w].kind, product, PC(w)')

Dies(w) == job'[w] = Idle /\ PC(w)' = "end"

(* The three ways a job takes a step, and the one in which it stops. *)
Proceeds(w) ==
  \/ /\ Onward(w) /\ result' = result /\ job'[w].warned = job[w].warned
     /\ PC(w) = "check" => Version(w) \notin disk.sealed
  \/ /\ SameJob(w) /\ job[w].kind = "install" /\ job'[w].todo # <<>>
     /\ PC(w) = "check" /\ PC(w)' = "locate" /\ Serving(w)' = Serving(w)
     /\ Version(w) \in disk.sealed
     /\ UNCHANGED <<disk, svc, tainted, result>>
  \/ /\ SameJob(w) /\ job[w].kind = "install" /\ job'[w].todo # <<>>
     /\ PC(w) = "distroOrBundle" /\ PC(w)' = "initdb" /\ Serving(w)' = Serving(w)
     /\ UNCHANGED <<disk, svc, tainted, result>>
  \/ Dies(w) /\ result' = "blocked" /\ UNCHANGED <<disk, svc, tainted>>

LEMMA TailIs ==
  ASSUME NEW kind, NEW x, NEW todo, Flows(kind, x, todo), todo # <<>>
  PROVE  Tail(todo) = SubSeq(todo, 2, Len(todo))
<1>1. todo \in Seq(StepType)
  BY DEF Flows
<1>2. Len(todo) \in Nat /\ Len(todo) > 0
  BY <1>1
<1>. DEFINE r == SubSeq(todo, 2, Len(todo))
            t == Tail(todo)
<1>3. r \in Seq(StepType) /\ Len(r) = Len(todo) - 1 /\ \A n \in 1..(Len(todo) - 1) : r[n] = todo[n + 1]
  BY <1>1, <1>2
<1>4. t \in Seq(StepType) /\ Len(t) = Len(todo) - 1 /\ \A n \in 1..(Len(todo) - 1) : t[n] = todo[n + 1]
  BY <1>1, <1>2
<1>. HIDE DEF r, t
<1>5. t = r
  BY <1>3, <1>4
<1> QED BY <1>5 DEF r, t

(* The job goes on with what follows. *)
LEMMA GoesOn ==
  ASSUME Typed, NEW w \in Workers, job[w].todo # <<>>,
         NEW warned \in BOOLEAN,
         job' = [job EXCEPT ![w] = [@ EXCEPT !.todo = SubSeq(job[w].todo, 2, Len(job[w].todo)), !.warned = warned]],
         product' = product
  PROVE  JobsFlow' /\ Onward(w) /\ job'[w].warned = warned
<1>. DEFINE t == job[w].todo
            r == SubSeq(t, 2, Len(t))
            k == job[w].kind
            j == job[w]
            n == [j EXCEPT !.todo = r, !.warned = warned]
<1>1. /\ j \in JobType /\ j.kind \in {"install", "uninstall"} /\ j.version \in Versions
      /\ Flows(j.kind, product, j.todo)
  BY DEF Typed, JobsFlow, JobType
<1>2. /\ Flows(k, product, r) /\ Follows(k, product, t, r)
      /\ t[1] \in StepType
  BY <1>1, Advances
<1>3. r \in Seq(StepType)
  <2>. HIDE DEF r
  <2> QED BY <1>2 DEF Flows
<1>4. job'[w] = n /\ job \in [Workers -> JobType]
  BY DEF Typed, JobsFlow
<1>. HIDE DEF r
<1>5. n \in JobType /\ n.kind = j.kind /\ n.version = j.version /\ n.todo = r /\ n.warned = warned
  BY <1>1, <1>3 DEF JobType
<1>. HIDE DEF n
<1>6. job' \in [Workers -> JobType] /\ \A v \in Workers : v # w => job'[v] = job[v]
  BY <1>4, <1>5 DEF n, r
<1>7. JobsFlow'
  <2>1. \A v \in Workers : IF job'[v].kind = "idle" THEN job'[v].todo = <<>>
                           ELSE job'[v].version \in Versions /\ Flows(job'[v].kind, product, job'[v].todo)
    BY <1>1, <1>2, <1>4, <1>5, <1>6 DEF Typed, JobsFlow
  <2> QED BY <1>6, <2>1 DEF JobsFlow
<1>8. PC(w) = t[1][2] /\ Serving(w) = t[1][1] /\ job'[w].todo = r
  BY <1>4, <1>5 DEF PC, Following, Serving
<1>9. Onward(w)
  <2>1. SameJob(w)
    BY <1>1, <1>4, <1>5 DEF SameJob
  <2>2. CASE r = <<>>
    BY <1>2, <1>8, <2>1, <2>2 DEF Onward, Follows, PC, Following
  <2>3. CASE r # <<>>
    <3>1. PC(w)' = r[1][2] /\ Serving(w)' = r[1][1]
      BY <1>8, <2>3 DEF PC, Following, Serving
    <3>2. Proper(k, product, r[1][2])
      BY <1>2, <2>3, Advances
    <3>3. Link(k, product, PC(w), PC(w)') /\ OnService(w)
      BY <1>2, <1>8, <2>3, <3>1 DEF Follows, Linked, OnService
    <3> QED BY <1>8, <2>1, <2>3, <3>1, <3>2, <3>3 DEF Onward
  <2> QED BY <2>2, <2>3
<1> QED BY <1>4, <1>5, <1>7, <1>9

(* The job skips steps, to a given one. *)
LEMMA SkipsOn ==
  ASSUME Typed, NEW w \in Workers, job[w].todo # <<>>, job[w].kind = "install",
         NEW r, Flows("install", product, r), r # <<>>, NEW a, r[1] = <<Serving(w), a>>,
         job' = [job EXCEPT ![w].todo = r], product' = product
  PROVE  /\ JobsFlow' /\ SameJob(w) /\ job'[w].todo # <<>> /\ PC(w)' = a /\ Serving(w)' = Serving(w)
         /\ job'[w].warned = job[w].warned
<1>. DEFINE j == job[w]
            n == [j EXCEPT !.todo = r]
<1>1. j \in JobType /\ j.version \in Versions /\ job \in [Workers -> JobType]
  BY DEF Typed, JobsFlow
<1>2. r \in Seq(StepType)
  BY DEF Flows
<1>3. job'[w] = n
  BY <1>1
<1>4. n \in JobType /\ n.kind = j.kind /\ n.version = j.version /\ n.todo = r /\ n.warned = j.warned
  BY <1>1, <1>2 DEF JobType
<1>. HIDE DEF n
<1>5. job' \in [Workers -> JobType] /\ \A v \in Workers : v # w => job'[v] = job[v]
  BY <1>1, <1>4 DEF n
<1>6. JobsFlow'
  <2>1. \A v \in Workers : IF job'[v].kind = "idle" THEN job'[v].todo = <<>>
                           ELSE job'[v].version \in Versions /\ Flows(job'[v].kind, product, job'[v].todo)
    BY <1>1, <1>3, <1>4, <1>5 DEF Typed, JobsFlow
  <2> QED BY <1>5, <2>1 DEF JobsFlow
<1> QED BY <1>3, <1>4, <1>6 DEF SameJob, PC, Following, Serving

(* A job that is given up. *)
LEMMA GivenUp ==
  ASSUME Typed, NEW w \in Workers, job' = [job EXCEPT ![w] = Idle], product' = product
  PROVE  JobsFlow' /\ Dies(w)
<1>1. Idle \in JobType /\ Idle.kind = "idle" /\ Idle.todo = <<>>
  BY DEF Idle, JobType, Some
<1>2. job \in [Workers -> JobType]
  BY DEF Typed, JobsFlow
<1>3. job' \in [Workers -> JobType] /\ job'[w] = Idle /\ \A v \in Workers : v # w => job'[v] = job[v]
  BY <1>1, <1>2
<1>4. JobsFlow'
  <2>1. \A v \in Workers : IF job'[v].kind = "idle" THEN job'[v].todo = <<>>
                           ELSE job'[v].version \in Versions /\ Flows(job'[v].kind, product, job'[v].todo)
    BY <1>1, <1>3 DEF Typed, JobsFlow
  <2> QED BY <1>3, <2>1 DEF JobsFlow
<1> QED BY <1>1, <1>3, <1>4 DEF Dies, PC, Following

LEMMA StepMoves ==
  ASSUME Typed, NEW w \in Workers, Step(w)
  PROVE  JobsFlow' /\ Proceeds(w)
<1>1. job[w].todo # <<>> /\ product' = product /\ Moves(w)
  BY StepEffects DEF Effects
<1>2. /\ job[w].kind \in {"install", "uninstall"}
      /\ Proper(job[w].kind, product, PC(w))
      /\ \A a : At(w, a) <=> PC(w) = a
  BY <1>1, Here
<1>3. Flows(job[w].kind, product, job[w].todo) /\ job[w] \in JobType /\ job \in [Workers -> JobType]
  BY <1>2 DEF Typed, JobsFlow
<1>4. CASE /\ Advance(w, 1) /\ result' = result
           /\ At(w, "check") => Version(w) \notin disk.sealed
  <2>. DEFINE r == SubSeq(job[w].todo, 2, Len(job[w].todo))
              n == [job[w] EXCEPT !.todo = r]
              m == [job[w] EXCEPT !.todo = r, !.warned = job[w].warned]
  <2>1. job'[w] = n /\ job' = [job EXCEPT ![w] = n]
    BY <1>3, <1>4 DEF Advance
  <2>2. n = m
    <3>. HIDE DEF r
    <3> QED BY <1>3 DEF JobType
  <2>3. job' = [job EXCEPT ![w] = m]
    BY <2>1, <2>2
  <2>4. job[w].warned \in BOOLEAN
    BY <1>3 DEF JobType
  <2>5. JobsFlow' /\ Onward(w) /\ job'[w].warned = job[w].warned
    <3>. HIDE DEF n
    <3> QED BY <1>1, <2>3, <2>4, GoesOn
  <2> QED BY <1>2, <1>4, <2>5 DEF Proceeds
<1>5. CASE /\ Check(w) /\ Version(w) \in disk.sealed /\ Advance(w, 3)
           /\ UNCHANGED <<disk, svc, tainted, result>>
  <2>. DEFINE r == SubSeq(job[w].todo, 4, Len(job[w].todo))
  <2>1. PC(w) = "check"
    BY <1>2, <1>5 DEF Check
  <2>2. job[w].kind = "install" /\ job[w].todo[1][2] = "check"
    BY <1>1, <1>2, <2>1 DEF Proper, Removals, PC, Following
  <2>3. Flows("install", product, r) /\ r # <<>> /\ r[1] = <<Serving(w), "locate">>
    BY <1>1, <1>3, <2>2, Sealed DEF Serving
  <2>4. job' = [job EXCEPT ![w].todo = r]
    BY <1>5 DEF Advance
  <2>. HIDE DEF r
  <2>5. /\ JobsFlow' /\ SameJob(w) /\ job'[w].todo # <<>> /\ PC(w)' = "locate" /\ Serving(w)' = Serving(w)
    BY <1>1, <2>2, <2>3, <2>4, SkipsOn
  <2> QED BY <1>5, <2>1, <2>2, <2>5 DEF Proceeds
<1>6. CASE DistroOrBundle(w) /\ Advance(w, 5) /\ UNCHANGED <<disk, svc, tainted, result>>
  <2>. DEFINE r == SubSeq(job[w].todo, 6, Len(job[w].todo))
  <2>1. PC(w) = "distroOrBundle"
    BY <1>2, <1>6 DEF DistroOrBundle
  <2>2. job[w].kind = "install" /\ job[w].todo[1][2] = "distroOrBundle"
    BY <1>1, <1>2, <2>1 DEF Proper, Removals, PC, Following
  <2>3. Flows("install", product, r) /\ r # <<>> /\ r[1] = <<Serving(w), "initdb">>
    BY <1>1, <1>3, <2>2, FoundOnHost DEF Serving
  <2>4. job' = [job EXCEPT ![w].todo = r]
    BY <1>6 DEF Advance
  <2>. HIDE DEF r
  <2>5. /\ JobsFlow' /\ SameJob(w) /\ job'[w].todo # <<>> /\ PC(w)' = "initdb" /\ Serving(w)' = Serving(w)
    BY <1>1, <2>2, <2>3, <2>4, SkipsOn
  <2> QED BY <1>6, <2>1, <2>2, <2>5 DEF Proceeds
<1>7. CASE Blocks(w)
  BY <1>1, <1>7, GivenUp DEF Blocks, Proceeds
<1> QED BY <1>1, <1>4, <1>5, <1>6, <1>7 DEF Moves

-----------------------------------------------------------------------------
(* Pruning: the places of what is kept.                                    *)

Place(S, i) == Cardinality({j \in S : j <= i})

LEMMA Places ==
  ASSUME NEW n \in Nat, NEW S \in SUBSET (1..n)
  PROVE  /\ Cardinality(S) \in Nat
         /\ \A i \in Nat : Place(S, i) \in Nat
         /\ \A i \in S : Place(S, i) \in 1..Cardinality(S)
         /\ \A i, j \in S : Place(S, i) = Place(S, j) => i = j
         /\ \A m \in 1..Cardinality(S) : \E i \in S : Place(S, i) = m
<1>1. IsFiniteSet(S) /\ Cardinality(S) \in Nat
  <2>1. IsFiniteSet(1..n)
    BY FS_Interval
  <2>2. IsFiniteSet(S)
    BY <2>1, FS_Subset
  <2> QED BY <2>2, FS_CardinalityType
<1>2. \A i \in Nat : {j \in S : j <= i} \in SUBSET S
  OBVIOUS
<1>3. \A i \in Nat : /\ IsFiniteSet({j \in S : j <= i}) /\ Place(S, i) \in Nat
                     /\ Place(S, i) <= Cardinality(S)
  BY <1>1, <1>2, FS_Subset, FS_CardinalityType DEF Place
<1>4. \A i \in S : i \in Nat
  OBVIOUS
<1>5. \A i \in S : Place(S, i) \in 1..Cardinality(S)
  <2>. SUFFICES ASSUME NEW i \in S PROVE Place(S, i) \in 1..Cardinality(S)
    OBVIOUS
  <2>1. {j \in S : j <= i} # {}
    BY <1>4
  <2>2. Place(S, i) # 0
    BY <1>3, <1>4, <2>1, FS_EmptySet DEF Place
  <2>3. Place(S, i) \in Nat /\ Place(S, i) <= Cardinality(S)
    BY <1>3, <1>4
  <2> QED BY <1>1, <2>2, <2>3
<1>6. \A i, j \in S : i < j => Place(S, i) < Place(S, j)
  <2>. SUFFICES ASSUME NEW i \in S, NEW j \in S, i < j PROVE Place(S, i) < Place(S, j)
    OBVIOUS
  <2>. DEFINE A == {k \in S : k <= i}
              B == {k \in S : k <= j}
  <2>1. i \in Nat /\ j \in Nat
    BY <1>4
  <2>2. A \in SUBSET B /\ j \in B /\ j \notin A
    <3>1. \A k \in S : k <= i => k <= j
      BY <1>4, <2>1
    <3>2. j <= j /\ ~(j <= i)
      BY <2>1
    <3> QED BY <3>1, <3>2
  <2>3. IsFiniteSet(B) /\ Cardinality(A) \in Nat /\ Cardinality(B) \in Nat
    BY <1>3, <2>1 DEF Place
  <2>. HIDE DEF A, B
  <2>4. Cardinality(A) <= Cardinality(B) /\ Cardinality(A) # Cardinality(B)
    BY <2>2, <2>3, FS_Subset
  <2>5. Cardinality(A) < Cardinality(B)
    BY <2>3, <2>4
  <2> QED BY <2>5 DEF A, B, Place
<1>7. \A i, j \in S : Place(S, i) = Place(S, j) => i = j
  <2>. SUFFICES ASSUME NEW i \in S, NEW j \in S, Place(S, i) = Place(S, j), i # j PROVE FALSE
    OBVIOUS
  <2>1. i < j \/ j < i
    BY <1>4
  <2>2. Place(S, i) \in Nat /\ Place(S, j) \in Nat
    BY <1>3, <1>4
  <2> QED BY <1>6, <2>1, <2>2
<1>8. \A m \in 1..Cardinality(S) : \E i \in S : Place(S, i) = m
  <2>. DEFINE f == [i \in S |-> Place(S, i)]
              T == 1..Cardinality(S)
  <2>1. f \in [S -> T]
    BY <1>5
  <2>2. \A i, j \in S : f[i] = f[j] => i = j
    BY <1>7
  <2>3. IsFiniteSet(T) /\ Cardinality(T) = Cardinality(S)
    BY <1>1, FS_Interval
  <2>4. \A i \in S : f[i] = Place(S, i)
    OBVIOUS
  <2>. HIDE DEF f, T
  <2>5. f \in Injection(S, T)
    BY <2>1, <2>2 DEF Injection, IsInjective
  <2>6. f \in Surjection(S, T)
    BY <2>3, <2>5, FS_Injection
  <2>7. \A m \in T : \E i \in S : f[i] = m
    BY <2>6 DEF Surjection
  <2> QED BY <2>4, <2>7 DEF T
<1> QED BY <1>1, <1>3, <1>5, <1>7, <1>8

(* What pruning leaves: releases that were there, current still itself. *)
LEMMA PrunedFits ==
  ASSUME NEW d \in DiskType
  PROVE  /\ Pruned(d) \in DiskType
         /\ \A n \in DOMAIN Pruned(d).releases :
              \E i \in DOMAIN d.releases : Pruned(d).releases[n] = d.releases[i]
         /\ d.current = 0 => Pruned(d).current = 0
         /\ d.current \in DOMAIN d.releases =>
              /\ Pruned(d).current \in DOMAIN Pruned(d).releases
              /\ Pruned(d).releases[Pruned(d).current] = d.releases[d.current]
         /\ Len(Pruned(d).releases) \in Nat
         /\ d.releases = <<>> => Pruned(d).releases = <<>>
         /\ Pruned(d) = [d EXCEPT !.releases = Pruned(d).releases, !.current = Pruned(d).current]
<1>. DEFINE excess == Len(d.releases) - Retention
            kept == {i \in DOMAIN d.releases : i > excess \/ i = d.current}
            K == Cardinality(kept)
            at(n) == CHOOSE i \in kept : Place(kept, i) = n
            r == [n \in 1..K |-> d.releases[at(n)]]
            c == IF d.current = 0 THEN 0 ELSE Place(kept, d.current)
<1>1. d.releases \in Seq(Release) /\ d.current \in Nat
  BY DEF DiskType
<1>2. DOMAIN d.releases = 1..Len(d.releases) /\ Len(d.releases) \in Nat
  BY <1>1
<1>3. kept \in SUBSET (1..Len(d.releases)) /\ (d.current \in DOMAIN d.releases => d.current \in kept)
  BY <1>2
<1>4. Pruned(d) = [d EXCEPT !.releases = r, !.current = c]
  BY DEF Pruned, Place
<1>. HIDE DEF kept
<1>5. /\ K \in Nat
      /\ \A i \in Nat : Place(kept, i) \in Nat
      /\ \A i \in kept : Place(kept, i) \in 1..K
      /\ \A i, j \in kept : Place(kept, i) = Place(kept, j) => i = j
      /\ \A m \in 1..K : \E i \in kept : Place(kept, i) = m
  BY <1>2, <1>3, Places
<1>6. \A n \in 1..K : at(n) \in kept /\ Place(kept, at(n)) = n
  BY <1>5
<1>7. \A i \in kept : at(Place(kept, i)) = i
  BY <1>5, <1>6
<1>. HIDE DEF at, K
<1>8. \A n \in 1..K : r[n] = d.releases[at(n)] /\ at(n) \in DOMAIN d.releases
  BY <1>2, <1>3, <1>6
<1>9. r \in Seq(Release) /\ DOMAIN r = 1..K /\ Len(r) = K
  <2>1. \A n \in 1..K : d.releases[at(n)] \in Release
    BY <1>1, <1>8
  <2> QED BY <1>5, <2>1
<1>10. c \in Nat
  BY <1>1, <1>5
<1>11. d.current \in DOMAIN d.releases => c \in 1..K /\ r[c] = d.releases[d.current]
  <2>. HAVE d.current \in DOMAIN d.releases
  <2>1. d.current # 0 /\ d.current \in kept
    BY <1>2, <1>3
  <2>2. c = Place(kept, d.current) /\ c \in 1..K
    BY <1>5, <2>1
  <2>. HIDE DEF c
  <2> QED BY <1>7, <1>8, <2>1, <2>2
<1>12. d.current = 0 => c = 0
  OBVIOUS
<1>13. d.releases = <<>> => r = <<>>
  <2>. HAVE d.releases = <<>>
  <2>1. kept = {}
    BY DEF kept
  <2>2. K = 0
    BY <2>1, FS_EmptySet DEF K
  <2>. HIDE DEF r
  <2> QED BY <1>9, <2>2
<1>. HIDE DEF r, c
<1>14. Pruned(d).releases = r /\ Pruned(d).current = c /\ Pruned(d) \in DiskType
  <2>1. [d EXCEPT !.releases = r] \in DiskType
    BY <1>9, Writes
  <2>2. [[d EXCEPT !.releases = r] EXCEPT !.current = c] \in DiskType
    BY <1>10, <2>1, Writes
  <2>3. [[d EXCEPT !.releases = r] EXCEPT !.current = c] = [d EXCEPT !.releases = r, !.current = c]
    OBVIOUS
  <2> QED BY <1>4, <2>2, <2>3 DEF DiskType
<1>15. \A n \in DOMAIN Pruned(d).releases :
         \E i \in DOMAIN d.releases : Pruned(d).releases[n] = d.releases[i]
  BY <1>8, <1>9, <1>14
<1> QED BY <1>4, <1>5, <1>9, <1>11, <1>12, <1>13, <1>14, <1>15

-----------------------------------------------------------------------------
(* Steps that die half-way.                                                *)
(* What a step that dies half-way leaves on the disk. *)
HalfOf(w, d) ==
  LET v == Version(w) IN
  \/ At(w, "extract") /\ d = [disk EXCEPT !.cache[v] = "part"]
  \/ At(w, "venv") /\ d = [disk EXCEPT !.cache = [x \in Versions |-> IF x = v THEN "part" ELSE "none"]]
  \/ At(w, "source") /\ d = [disk EXCEPT !.source[v] = IF @ = "none" THEN "part" ELSE @]
  \/ At(w, "anySource") /\ d = [disk EXCEPT !.source[v] = IF @ = "none" THEN "part" ELSE @]
  \/ /\ At(w, "jar") /\ disk.cache[v] = "none"
     /\ \/ d = [disk EXCEPT !.source[v] = IF @ = "none" THEN "part" ELSE @]
        \/ d = [disk EXCEPT !.cache[v] = "part"]
  \/ At(w, "copy") /\ d = disk
  \/ At(w, "toolchain") /\ disk.toolchain = "none" /\ d = [disk EXCEPT !.toolchain = "part"]
  \/ At(w, "runtime") /\ disk.runtime = "none" /\ d = [disk EXCEPT !.runtime = "part"]
  \/ At(w, "config") /\ d = [disk EXCEPT !.config = "torn"]
  \/ At(w, "keepConfig") /\ disk.config = "none" /\ d = [disk EXCEPT !.config = "torn"]
  \/ At(w, "keypair") /\ disk.keys = "none" /\ d = [disk EXCEPT !.keys = "certificate"]
  \/ At(w, "initdb") /\ disk.data = None /\ d = [disk EXCEPT !.data = "torn"]
  \/ /\ At(w, "credentials") /\ disk.credentials \in {None, "torn"}
     /\ d = [disk EXCEPT !.credentials = "torn"]
  \/ At(w, "rmRoot") /\ d \in HalfRemoved
  \/ At(w, "rmData") /\ disk.data # None /\ d = [disk EXCEPT !.data = "torn"]

LEMMA Halves ==
  ASSUME NEW w, NEW d, d \in HalfWritten(w)
  PROVE  HalfOf(w, d)
<1>1. \A a, b : At(w, a) /\ At(w, b) => a = b
  BY DEF At
<1>. DEFINE A(a) == At(w, a)
<1>. SUFFICES HalfOf(w, d)
  OBVIOUS
<1>2. CASE A("extract")
  BY <1>1, <1>2 DEF HalfWritten, HalfOf
<1>3. CASE A("venv")
  BY <1>1, <1>3 DEF HalfWritten, HalfOf
<1>4. CASE A("source") \/ A("anySource")
  BY <1>1, <1>4 DEF HalfWritten, HalfOf
<1>5. CASE A("jar")
  BY <1>1, <1>5 DEF HalfWritten, HalfOf
<1>6. CASE A("copy")
  BY <1>1, <1>6 DEF HalfWritten, HalfOf
<1>7. CASE A("toolchain")
  BY <1>1, <1>7 DEF HalfWritten, HalfOf
<1>8. CASE A("runtime")
  BY <1>1, <1>8 DEF HalfWritten, HalfOf
<1>9. CASE A("config")
  BY <1>1, <1>9 DEF HalfWritten, HalfOf
<1>10. CASE A("keepConfig")
  BY <1>1, <1>10 DEF HalfWritten, HalfOf
<1>11. CASE A("keypair")
  BY <1>1, <1>11 DEF HalfWritten, HalfOf
<1>12. CASE A("initdb")
  BY <1>1, <1>12 DEF HalfWritten, HalfOf
<1>13. CASE A("credentials")
  BY <1>1, <1>13 DEF HalfWritten, HalfOf
<1>14. CASE A("rmRoot")
  BY <1>1, <1>14 DEF HalfWritten, HalfOf
<1>15. CASE A("rmData")
  BY <1>1, <1>15 DEF HalfWritten, HalfOf
<1>16. CASE ~\E a \in {"extract", "venv", "source", "anySource", "jar", "copy", "toolchain", "runtime",
                    "config", "keepConfig", "keypair", "initdb", "credentials", "rmRoot", "rmData"} : A(a)
  BY <1>16 DEF HalfWritten
<1> QED
  BY <1>2, <1>3, <1>4, <1>5, <1>6, <1>7, <1>8, <1>9, <1>10, <1>11, <1>12, <1>13, <1>14, <1>15, <1>16

-----------------------------------------------------------------------------
(* Types are kept.                                                         *)
LEMMA RunsTyped ==
  ASSUME NEW d, d \in DiskType, NEW u, u \in Some
  PROVE  Runs(d, u) \in SUBSET Some /\ \A t : Comes(d, u, t) \in SUBSET Some
<1>1. d.releases \in Seq(Release) /\ d.distro \in Some /\ None \in Some /\ Versions \in SUBSET Some
  BY DEF DiskType, Some
<1>2. \A i \in DOMAIN d.releases : d.releases[i].binary \in Some
  <2>1. \A i \in DOMAIN d.releases : d.releases[i] \in Release
    BY <1>1
  <2> QED BY <2>1 DEF Release
<1>3. Runs(d, u) \in SUBSET Some
  BY <1>1, <1>2 DEF Runs
<1> QED BY <1>1, <1>3 DEF Comes

(* A step leaves a host of the same type. *)
LEMMA StepsTyped ==
  ASSUME Typed, NEW w \in Workers, Step(w)
  PROVE  disk' \in DiskType /\ svc' \in [Services' -> ServiceType]
<1>1. job[w].todo # <<>> /\ product' = product /\ Services' = Services
  BY StepEffects DEF Effects, Services
<1>2. job[w].version \in Versions /\ Service(w) \in Services
  BY <1>1, Here
<1>3. disk \in DiskType /\ svc \in [Services -> ServiceType] /\ Services' = Services
  BY <1>1 DEF Typed, TypeOK
<1>4. \A s \in Services : svc[s] \in ServiceType
  BY <1>3
<1>5. \A s \in Services : /\ Comes(disk, svc[s].loaded, tainted) \in SUBSET Some
                          /\ Comes(disk, svc[s].unit, tainted) \in SUBSET Some
  <2>1. \A s \in Services : svc[s].loaded \in Some /\ svc[s].unit \in Some
    BY <1>4 DEF ServiceType
  <2> QED BY <1>3, <2>1, RunsTyped
<1>6. /\ disk.cache \in Tree /\ disk.sealed \in SUBSET Versions /\ disk.source \in Tree
      /\ disk.built \in Some /\ disk.releases \in Seq(Release) /\ disk.current \in Nat
      /\ disk.config \in {"none", "torn", "ours", "edited"}
      /\ disk.keys \in {"none", "certificate", "both"}
      /\ disk.runtime \in Trees /\ disk.toolchain \in Trees
      /\ disk.data \in Some \cup {"torn"} /\ disk.distro \in Some
      /\ disk.credentials \in Key /\ disk.database \in Key
  BY <1>3 DEF DiskType, Trees
<1>7. Version(w) \in Some /\ Wanted(w) \in Some /\ None \in Some
  BY <1>2, <1>6 DEF Wanted, Version, Some
<1>8. \A s \in Services : \A u \in Some : [svc[s] EXCEPT !.running = u] \in ServiceType
  BY <1>4 DEF ServiceType
<1>9. \A s \in Services : \A x \in ServiceType : [svc EXCEPT ![s] = x] \in [Services -> ServiceType]
  BY <1>3
<1>10. CASE Check(w)
  BY <1>3, <1>10 DEF Check
<1>11. CASE Extract(w)
  <2>. DEFINE x == [disk.cache EXCEPT ![job[w].version] = "whole"]
  <2>1. x \in Tree
    BY <1>2, <1>6 DEF Tree
  <2>2. disk' = [disk EXCEPT !.cache = x]
    BY <1>11 DEF Extract, Becomes, Version
  <2>. HIDE DEF x
  <2>3. disk' \in DiskType
    BY <1>3, <2>1, <2>2 DEF DiskType
  <2> QED BY <1>3, <1>11, <2>3 DEF Extract, Becomes, Version
<1>12. CASE Seal(w)
  <2>. DEFINE x == disk.sealed \cup {job[w].version}
  <2>1. x \in SUBSET Versions
    BY <1>2, <1>6
  <2>2. disk' = [disk EXCEPT !.sealed = x]
    BY <1>12 DEF Seal, Becomes, Version
  <2>. HIDE DEF x
  <2>3. disk' \in DiskType
    BY <1>3, <2>1, <2>2 DEF DiskType
  <2> QED BY <1>3, <1>12, <2>3 DEF Seal, Becomes, Version
<1>13. CASE Locate(w)
  BY <1>3, <1>13 DEF Locate, Needs
<1>14. CASE DistroOrBundle(w)
  BY <1>3, <1>14 DEF DistroOrBundle
<1>15. CASE Distro(w)
  BY <1>3, <1>15 DEF Distro, Needs
<1>16. CASE Package(w)
  <2>. DEFINE x == IF disk.distro = None THEN job[w].version ELSE disk.distro
  <2>1. x \in Some
    BY <1>2, <1>6 DEF Some
  <2>2. disk' = [disk EXCEPT !.distro = x]
    BY <1>16 DEF Package, Becomes, Version
  <2>. HIDE DEF x
  <2>3. disk' \in DiskType
    BY <1>3, <2>1, <2>2 DEF DiskType
  <2> QED BY <1>3, <1>16, <2>3 DEF Package, Becomes, Version
<1>17. CASE Toolchain(w)
  <2>1. [disk EXCEPT !.toolchain = "whole"] \in DiskType
    BY <1>3 DEF DiskType
  <2> QED BY <1>3, <2>1, <1>17 DEF Toolchain, Becomes, Needs
<1>18. CASE Source(w)
  <2>. DEFINE x == [disk.source EXCEPT ![job[w].version] = IF @ = "none" THEN "whole" ELSE @]
  <2>1. x \in Tree
    BY <1>2, <1>6 DEF Tree
  <2>2. disk' = [disk EXCEPT !.source = x]
    BY <1>18 DEF Source, Becomes, Version
  <2>. HIDE DEF x
  <2>3. disk' \in DiskType
    BY <1>3, <2>1, <2>2 DEF DiskType
  <2> QED BY <1>3, <1>18, <2>3 DEF Source, Becomes, Version
<1>19. CASE AnySource(w)
  <2>. DEFINE x == [disk.source EXCEPT ![job[w].version] = "whole"]
  <2>1. x \in Tree
    BY <1>2, <1>6 DEF Tree
  <2>2. disk' = disk \/ disk' = [disk EXCEPT !.source = x]
    BY <1>19 DEF AnySource, Becomes, Version
  <2>. HIDE DEF x
  <2>3. disk' \in DiskType
    BY <1>3, <2>1, <2>2 DEF DiskType
  <2> QED BY <1>3, <2>3, <1>19 DEF AnySource, Becomes
<1>20. CASE Build(w)
  <2>1. \A v \in SourceOf(w) : v \in Some
    BY <1>2 DEF SourceOf, Extracted, Version, Some
  <2>2. \A v \in Some : [disk EXCEPT !.built = v] \in DiskType
    BY <1>3 DEF DiskType
  <2> QED BY <1>3, <2>1, <2>2, <1>20 DEF Build, Becomes, Needs
<1>21. CASE NewRelease(w)
  <2>. DEFINE x == Append(disk.releases, [label |-> None, binary |-> None, probed |-> FALSE])
  <2>1. x \in Seq(Release)
    BY <1>2, <1>6 DEF Release, Some
  <2>2. disk' = [disk EXCEPT !.releases = x]
    BY <1>21 DEF NewRelease, Becomes
  <2>. HIDE DEF x
  <2>3. disk' \in DiskType
    BY <1>3, <2>1, <2>2 DEF DiskType
  <2> QED BY <1>3, <1>21, <2>3 DEF NewRelease, Becomes
<1>22. CASE Copy(w)
  <2>. DEFINE x == [disk.releases EXCEPT ![Newest].binary = disk.built]
  <2>1. x \in Seq(Release)
    <3>1. \A r \in Release : [r EXCEPT !.binary = disk.built] \in Release
      BY <1>2, <1>6 DEF Release, Some
    <3>2. disk.releases \in [1..Newest -> Release] /\ Newest \in Nat
      BY <1>6 DEF Newest
    <3>3. x \in [1..Newest -> Release]
      BY <3>1, <3>2
    <3>. HIDE DEF x
    <3> QED BY <3>2, <3>3
  <2>2. disk' = [disk EXCEPT !.releases = x]
    BY <1>22 DEF Copy, Becomes
  <2>. HIDE DEF x
  <2>3. disk' \in DiskType
    BY <1>3, <2>1, <2>2 DEF DiskType
  <2> QED BY <1>3, <1>22, <2>3 DEF Copy, Becomes
<1>23. CASE Probe(w)
  <2>. DEFINE x == [disk.releases EXCEPT ![Newest].probed = TRUE]
  <2>1. x \in Seq(Release)
    <3>1. \A r \in Release : [r EXCEPT !.probed = TRUE] \in Release
      BY <1>2, <1>6 DEF Release, Some
    <3>2. disk.releases \in [1..Newest -> Release] /\ Newest \in Nat
      BY <1>6 DEF Newest
    <3>3. x \in [1..Newest -> Release]
      BY <3>1, <3>2
    <3>. HIDE DEF x
    <3> QED BY <3>2, <3>3
  <2>2. disk' = [disk EXCEPT !.releases = x]
    BY <1>23 DEF Probe, Becomes
  <2>. HIDE DEF x
  <2>3. disk' \in DiskType
    BY <1>3, <2>1, <2>2 DEF DiskType
  <2> QED BY <1>3, <1>23, <2>3 DEF Probe, Becomes
<1>24. CASE Manifest(w)
  <2>. DEFINE x == [disk.releases EXCEPT ![Newest].label = job[w].version]
  <2>1. x \in Seq(Release)
    <3>1. \A r \in Release : [r EXCEPT !.label = job[w].version] \in Release
      BY <1>2, <1>6 DEF Release, Some
    <3>2. disk.releases \in [1..Newest -> Release] /\ Newest \in Nat
      BY <1>6 DEF Newest
    <3>3. x \in [1..Newest -> Release]
      BY <3>1, <3>2
    <3>. HIDE DEF x
    <3> QED BY <3>2, <3>3
  <2>2. disk' = [disk EXCEPT !.releases = x]
    BY <1>24 DEF Manifest, Becomes, Version
  <2>. HIDE DEF x
  <2>3. disk' \in DiskType
    BY <1>3, <2>1, <2>2 DEF DiskType
  <2> QED BY <1>3, <1>24, <2>3 DEF Manifest, Becomes, Version
<1>25. CASE Swap(w)
  <2>. DEFINE x == Newest
  <2>1. x \in Nat
    BY <1>2, <1>6 DEF Newest
  <2>2. disk' = [disk EXCEPT !.current = x]
    BY <1>25 DEF Swap, Becomes
  <2>. HIDE DEF x
  <2>3. disk' \in DiskType
    BY <1>3, <2>1, <2>2 DEF DiskType
  <2> QED BY <1>3, <1>25, <2>3 DEF Swap, Becomes
<1>26. CASE Prune(w)
  BY <1>3, <1>26, PrunedFits DEF Prune, Becomes
<1>27. CASE Venv(w)
  <2>. DEFINE x == [v \in Versions |-> IF v = job[w].version THEN "whole" ELSE "none"]
  <2>1. x \in Tree
    BY <1>2, <1>6 DEF Tree
  <2>2. disk' = [disk EXCEPT !.cache = x]
    BY <1>27 DEF Venv, Becomes, Version
  <2>. HIDE DEF x
  <2>3. disk' \in DiskType
    BY <1>3, <2>1, <2>2 DEF DiskType
  <2> QED BY <1>3, <1>27, <2>3 DEF Venv, Becomes, Version
<1>28. CASE Jar(w)
  <2>. DEFINE x == [disk.source EXCEPT ![job[w].version] = "whole"]
              y == [disk.cache EXCEPT ![job[w].version] = "whole"]
  <2>1. x \in Tree /\ y \in Tree
    BY <1>2, <1>6 DEF Tree
  <2>2. disk' = disk \/ disk' = [disk EXCEPT !.source = x, !.cache = y]
    BY <1>28 DEF Jar, Becomes, Needs, Version
  <2>. HIDE DEF x, y
  <2>3. disk' \in DiskType
    BY <1>3, <2>1, <2>2 DEF DiskType
  <2> QED BY <1>3, <2>3, <1>28 DEF Jar, Becomes, Needs
<1>29. CASE Runtime(w)
  <2>1. [disk EXCEPT !.runtime = "whole"] \in DiskType
    BY <1>3 DEF DiskType
  <2> QED BY <1>3, <2>1, <1>29 DEF Runtime, Becomes, Needs
<1>30. CASE Config(w)
  <2>. DEFINE x == "ours"
  <2>1. x \in {"none", "torn", "ours", "edited"}
    BY <1>2, <1>6
  <2>2. disk' = [disk EXCEPT !.config = x]
    BY <1>30 DEF Config, Becomes
  <2>. HIDE DEF x
  <2>3. disk' \in DiskType
    BY <1>3, <2>1, <2>2 DEF DiskType
  <2> QED BY <1>3, <1>30, <2>3 DEF Config, Becomes
<1>31. CASE KeepConfig(w)
  <2>. DEFINE x == IF disk.config = "none" THEN "ours" ELSE disk.config
  <2>1. x \in {"none", "torn", "ours", "edited"}
    BY <1>2, <1>6
  <2>2. disk' = [disk EXCEPT !.config = x]
    BY <1>31 DEF KeepConfig, Becomes
  <2>. HIDE DEF x
  <2>3. disk' \in DiskType
    BY <1>3, <2>1, <2>2 DEF DiskType
  <2> QED BY <1>3, <1>31, <2>3 DEF KeepConfig, Becomes
<1>32. CASE KeyPair(w)
  <2>. DEFINE x == IF disk.keys = "none" THEN "both" ELSE disk.keys
  <2>1. x \in {"none", "certificate", "both"}
    BY <1>2, <1>6
  <2>2. disk' = [disk EXCEPT !.keys = x]
    BY <1>32 DEF KeyPair, Becomes
  <2>. HIDE DEF x
  <2>3. disk' \in DiskType
    BY <1>3, <2>1, <2>2 DEF DiskType
  <2> QED BY <1>3, <1>32, <2>3 DEF KeyPair, Becomes
<1>33. CASE InitDb(w)
  <2>. DEFINE x == IF disk.data = None THEN Wanted(w) ELSE disk.data
  <2>1. x \in Some \cup {"torn"}
    BY <1>6, <1>7
  <2>2. disk' = disk \/ disk' = [disk EXCEPT !.data = x]
    BY <1>33 DEF InitDb, Becomes, Needs
  <2>. HIDE DEF x
  <2>3. disk' \in DiskType
    BY <1>3, <2>1, <2>2 DEF DiskType
  <2> QED BY <1>3, <2>3, <1>33 DEF InitDb, Becomes, Needs
<1>34. CASE Credentials(w)
  <2>. DEFINE x == IF disk.credentials \in {None, "torn"} THEN FreshKey ELSE disk.credentials
  <2>1. x \in Key
    BY <1>2, <1>6 DEF Key, FreshKey
  <2>2. disk' = [disk EXCEPT !.credentials = x]
    BY <1>34 DEF Credentials, Becomes
  <2>. HIDE DEF x
  <2>3. disk' \in DiskType
    BY <1>3, <2>1, <2>2 DEF DiskType
  <2> QED BY <1>3, <1>34, <2>3 DEF Credentials, Becomes
<1>35. CASE Provision(w)
  <2>. DEFINE x == IF disk.database = None THEN disk.credentials ELSE disk.database
  <2>2. x \in Key
    BY <1>6
  <2>3. disk' = [disk EXCEPT !.database = x]
    BY <1>35 DEF Provision, Becomes
  <2>. HIDE DEF x
  <2>4. disk' \in DiskType
    BY <1>3, <2>2, <2>3 DEF DiskType
  <2> QED BY <1>3, <2>4, <1>35 DEF Provision, Becomes
<1>36. CASE Unit(w)
  <2>. DEFINE x == [svc[Service(w)] EXCEPT !.unit = Wanted(w)]
  <2>1. x \in ServiceType
    BY <1>2, <1>4, <1>7 DEF ServiceType, Some
  <2>2. svc' = [svc EXCEPT ![Service(w)] = x] /\ disk' = disk
    BY <1>1, <1>3, <1>36 DEF Unit, Manages, Now
  <2>. HIDE DEF x
  <2> QED BY <1>2, <1>3, <2>1, <2>2
<1>37. CASE Reload(w)
  <2>1. \A s \in Services : [svc[s] EXCEPT !.loaded = svc[s].unit] \in ServiceType
    BY <1>4 DEF ServiceType
  <2> QED BY <1>3, <2>1, <1>37 DEF Reload
<1>38. CASE Stop(w)
  <2>. DEFINE x == [svc[Service(w)] EXCEPT !.running = None]
  <2>1. x \in ServiceType
    BY <1>2, <1>4, <1>7 DEF ServiceType, Some
  <2>2. svc' = [svc EXCEPT ![Service(w)] = x] /\ disk' = disk
    BY <1>1, <1>3, <1>38 DEF Stop
  <2>. HIDE DEF x
  <2> QED BY <1>2, <1>3, <2>1, <2>2
<1>39. CASE Enable(w)
  <2>1. \A u \in Some : [svc[Service(w)] EXCEPT !.enabled = TRUE, !.running = u] \in ServiceType
    BY <1>2, <1>4 DEF ServiceType
  <2>2. svc[Service(w)].running \in Some
    BY <1>2, <1>4 DEF ServiceType
  <2>3. disk' = disk /\ (svc' = svc \/ \E u \in Some :
          svc' = [svc EXCEPT ![Service(w)] = [svc[Service(w)] EXCEPT !.enabled = TRUE, !.running = u]])
    BY <1>2, <1>5, <2>2, <1>39 DEF Enable, Manages, Needs, Now
  <2> QED BY <1>2, <1>3, <1>9, <2>1, <2>3
<1>40. CASE Wait(w)
  BY <1>3, <1>40 DEF Wait, Needs
<1>41. CASE Bootstrap(w)
  <2>. DEFINE l == IF Now(w).loaded = None THEN Now(w).unit ELSE Now(w).loaded
  <2>1. \A u \in Some : [svc[Service(w)] EXCEPT !.loaded = l, !.enabled = TRUE, !.running = u] \in ServiceType
    BY <1>2, <1>4 DEF ServiceType, Now
  <2>2. svc[Service(w)].running \in Some
    BY <1>2, <1>4 DEF ServiceType
  <2>3. Comes(disk, l, tainted) \in SUBSET Some
    BY <1>2, <1>5 DEF Now
  <2>4. disk' = disk /\ \E u \in Some :
          svc' = [svc EXCEPT ![Service(w)] =
                   [svc[Service(w)] EXCEPT !.loaded = l, !.enabled = TRUE, !.running = u]]
    BY <1>2, <2>2, <2>3, <1>41 DEF Bootstrap, Manages, Now
  <2>. HIDE DEF l
  <2> QED BY <1>2, <1>3, <1>9, <2>1, <2>4
<1>42. CASE Kickstart(w)
  <2>1. disk' = disk /\ \E u \in Some :
          svc' = [svc EXCEPT ![Service(w)] = [svc[Service(w)] EXCEPT !.running = u]]
    BY <1>2, <1>5, <1>42 DEF Kickstart, Manages, Now
  <2> QED BY <1>2, <1>3, <1>8, <1>9, <2>1
<1>43. CASE BootOut(w)
  <2>. DEFINE x == [svc[Service(w)] EXCEPT !.loaded = None, !.running = None]
  <2>1. x \in ServiceType
    BY <1>2, <1>4, <1>7 DEF ServiceType, Some
  <2>2. svc' = [svc EXCEPT ![Service(w)] = x] /\ disk' = disk
    BY <1>1, <1>3, <1>43 DEF BootOut, Manages, Now
  <2>. HIDE DEF x
  <2> QED BY <1>2, <1>3, <2>1, <2>2
<1>44. CASE Unregister(w)
  <2>. DEFINE x == [svc[Service(w)] EXCEPT !.unit = None, !.loaded = None, !.enabled = FALSE]
  <2>1. x \in ServiceType
    BY <1>2, <1>4, <1>7 DEF ServiceType, Some
  <2>2. svc' = [svc EXCEPT ![Service(w)] = x] /\ disk' = disk
    BY <1>1, <1>3, <1>44 DEF Unregister, Manages, Now
  <2>. HIDE DEF x
  <2> QED BY <1>2, <1>3, <2>1, <2>2
<1>45. CASE Register(w)
  <2>. DEFINE x == [svc[Service(w)] EXCEPT !.unit = Wanted(w), !.loaded = Wanted(w), !.enabled = TRUE]
  <2>1. x \in ServiceType
    BY <1>2, <1>4, <1>7 DEF ServiceType, Some
  <2>2. svc' = [svc EXCEPT ![Service(w)] = x] /\ disk' = disk
    BY <1>1, <1>3, <1>45 DEF Register, Manages, Now
  <2>. HIDE DEF x
  <2> QED BY <1>2, <1>3, <2>1, <2>2
<1>46. CASE StartService(w)
  <2>1. svc[Service(w)].running \in Some
    BY <1>2, <1>4 DEF ServiceType
  <2>2. disk' = disk /\ \E u \in Some :
          svc' = [svc EXCEPT ![Service(w)] = [svc[Service(w)] EXCEPT !.running = u]]
    BY <1>2, <1>5, <2>1, <1>46 DEF StartService, Manages, Now
  <2> QED BY <1>2, <1>3, <1>8, <1>9, <2>2
<1>47. CASE Disable(w)
  <2>. DEFINE x == [svc[Service(w)] EXCEPT !.enabled = FALSE]
  <2>1. x \in ServiceType
    BY <1>2, <1>4, <1>7 DEF ServiceType, Some
  <2>2. svc' = [svc EXCEPT ![Service(w)] = x] /\ disk' = disk
    BY <1>1, <1>3, <1>47 DEF Disable, Manages, Now
  <2>. HIDE DEF x
  <2> QED BY <1>2, <1>3, <2>1, <2>2
<1>48. CASE RemoveUnit(w)
  <2>. DEFINE x == [svc[Service(w)] EXCEPT !.unit = None]
  <2>1. x \in ServiceType
    BY <1>2, <1>4, <1>7 DEF ServiceType, Some
  <2>2. svc' = [svc EXCEPT ![Service(w)] = x] /\ disk' = disk
    BY <1>1, <1>3, <1>48 DEF RemoveUnit, Manages, Now
  <2>. HIDE DEF x
  <2> QED BY <1>2, <1>3, <2>1, <2>2
<1>49. CASE RemoveRoot(w)
  <2>1. NoDisk \in DiskType
    BY DEF NoDisk, DiskType, Tree, Key, Some
  <2>2. disk' = [NoDisk EXCEPT !.distro = disk.distro, !.database = disk.database,
                               !.toolchain = disk.toolchain] /\ svc' = svc
    BY <1>49 DEF RemoveRoot
  <2>. HIDE DEF NoDisk
  <2>3. disk' \in DiskType
    BY <1>6, <2>1, <2>2 DEF DiskType, Trees
  <2> QED BY <1>3, <2>2, <2>3
<1>50. CASE RemoveData(w)
  <2>. DEFINE x == None
  <2>1. x \in Some \cup {"torn"}
    BY <1>2, <1>6 DEF Some
  <2>2. disk' = [disk EXCEPT !.data = x]
    BY <1>50 DEF RemoveData, Becomes
  <2>. HIDE DEF x
  <2>3. disk' \in DiskType
    BY <1>3, <2>1, <2>2 DEF DiskType
  <2> QED BY <1>3, <1>50, <2>3 DEF RemoveData, Becomes
<1>51. CASE DropDatabase(w)
  <2>. DEFINE x == None
  <2>1. x \in Key
    BY <1>2, <1>6 DEF Key
  <2>2. disk' = [disk EXCEPT !.database = x]
    BY <1>51 DEF DropDatabase
  <2>. HIDE DEF x
  <2>3. disk' \in DiskType
    BY <1>3, <2>1, <2>2 DEF DiskType
  <2> QED BY <1>3, <1>51, <2>3 DEF DropDatabase
<1> QED
  BY <1>10, <1>11, <1>12, <1>13, <1>14, <1>15, <1>16, <1>17, <1>18, <1>19, <1>20, <1>21, <1>22, <1>23, <1>24, <1>25, <1>26, <1>27, <1>28, <1>29, <1>30, <1>31, <1>32, <1>33, <1>34, <1>35, <1>36, <1>37, <1>38, <1>39, <1>40, <1>41, <1>42, <1>43, <1>44, <1>45, <1>46, <1>47, <1>48, <1>49, <1>50, <1>51 DEF Step

LEMMA HalvesTyped ==
  ASSUME Typed, NEW w \in Workers, NEW d, d \in HalfWritten(w)
  PROVE  d \in DiskType
<1>1. HalfOf(w, d) /\ disk \in DiskType
  BY Halves DEF Typed, TypeOK
<1>2. job[w].todo # <<>> => Version(w) \in Versions
  BY Here DEF Version
<1>3. disk.cache \in Tree /\ disk.source \in Tree
  BY <1>1 DEF DiskType
<1>4. \A x \in Tree : [disk EXCEPT !.cache = x] \in DiskType /\ [disk EXCEPT !.source = x] \in DiskType
  BY <1>1 DEF DiskType
<1>5. \A t \in Tree : [t EXCEPT ![Version(w)] = "part"] \in Tree
  BY DEF Tree
<1>6. [disk EXCEPT !.cache[Version(w)] = "part"] = [disk EXCEPT !.cache = [disk.cache EXCEPT ![Version(w)] = "part"]]
  OBVIOUS
<1>7. CASE d = [disk EXCEPT !.cache[Version(w)] = "part"]
  <2>. DEFINE x == [disk.cache EXCEPT ![Version(w)] = "part"]
  <2>1. d = [disk EXCEPT !.cache = x] /\ x \in Tree
    BY <1>3, <1>5, <1>7
  <2>. HIDE DEF x
  <2> QED BY <1>4, <2>1
<1>8. CASE d = [disk EXCEPT !.cache = [x \in Versions |-> IF x = Version(w) THEN "part" ELSE "none"]]
  <2>. DEFINE y == [x \in Versions |-> IF x = Version(w) THEN "part" ELSE "none"]
  <2>1. d = [disk EXCEPT !.cache = y] /\ y \in Tree
    BY <1>8 DEF Tree
  <2>. HIDE DEF y
  <2> QED BY <1>4, <2>1
<1>9. CASE d = [disk EXCEPT !.source[Version(w)] = IF @ = "none" THEN "part" ELSE @]
  <2>. DEFINE x == [disk.source EXCEPT ![Version(w)] = IF @ = "none" THEN "part" ELSE @]
  <2>1. d = [disk EXCEPT !.source = x] /\ x \in Tree
    BY <1>3, <1>9 DEF Tree
  <2>. HIDE DEF x
  <2> QED BY <1>4, <2>1
<1>10. CASE d \in HalfRemoved
  <2>. DEFINE x == Part(disk.cache)
              y == Part(disk.source)
              k == IF disk.keys = "both" THEN "certificate" ELSE disk.keys
  <2>1. x \in Tree /\ y \in Tree
    BY <1>3 DEF Part, Tree
  <2>2. k \in {"none", "certificate", "both"}
    BY <1>1 DEF DiskType
  <2>3. <<>> \in Seq(Release) /\ None \in Key /\ {} \in SUBSET Versions
    BY DEF Key
  <2>4. \/ d = [disk EXCEPT !.cache = x, !.source = y]
        \/ d = [disk EXCEPT !.sealed = {}, !.credentials = None, !.config = "none"]
        \/ d = [disk EXCEPT !.releases = <<>>, !.keys = k]
    BY <1>10 DEF HalfRemoved
  <2>. HIDE DEF x, y, k
  <2>5. CASE d = [disk EXCEPT !.cache = x, !.source = y]
    <3>1. [disk EXCEPT !.cache = x] \in DiskType
      BY <1>1, <2>1, Writes
    <3>2. [[disk EXCEPT !.cache = x] EXCEPT !.source = y] \in DiskType
      BY <2>1, <3>1, Writes
    <3> QED BY <2>5, <3>2
  <2>6. CASE d = [disk EXCEPT !.sealed = {}, !.credentials = None, !.config = "none"]
    <3>1. [disk EXCEPT !.sealed = {}] \in DiskType
      BY <1>1, <2>3, Writes
    <3>2. [[disk EXCEPT !.sealed = {}] EXCEPT !.credentials = None] \in DiskType
      BY <2>3, <3>1, Writes
    <3>3. [[[disk EXCEPT !.sealed = {}] EXCEPT !.credentials = None] EXCEPT !.config = "none"] \in DiskType
      BY <3>2, Writes
    <3> QED BY <2>6, <3>3
  <2>7. CASE d = [disk EXCEPT !.releases = <<>>, !.keys = k]
    <3>1. [disk EXCEPT !.releases = <<>>] \in DiskType
      BY <1>1, <2>3, Writes
    <3>2. [[disk EXCEPT !.releases = <<>>] EXCEPT !.keys = k] \in DiskType
      BY <2>2, <3>1, Writes
    <3> QED BY <2>7, <3>2
  <2> QED BY <2>4, <2>5, <2>6, <2>7
<1>11. CASE \/ d = disk
            \/ d = [disk EXCEPT !.toolchain = "part"]
            \/ d = [disk EXCEPT !.runtime = "part"]
            \/ d = [disk EXCEPT !.config = "torn"]
            \/ d = [disk EXCEPT !.keys = "certificate"]
            \/ d = [disk EXCEPT !.data = "torn"]
            \/ d = [disk EXCEPT !.credentials = "torn"]
  <2>1. "torn" \in Key
    BY DEF Key
  <2> QED BY <1>1, <1>11, <2>1 DEF DiskType
<1> QED BY <1>1, <1>7, <1>8, <1>9, <1>10, <1>11 DEF HalfOf

(* A step that fails stops its job, or the job goes on to the next one. *)
LEMMA FailMoves ==
  ASSUME Typed, NEW w \in Workers, Fail(w)
  PROVE  /\ Typed'
         /\ \/ /\ Dies(w) /\ result' = "failed"
               /\ job[w].kind = "install" /\ PC(w) # "stop"
            \/ /\ Onward(w) /\ result' = result
               /\ job[w].kind # "install" \/ PC(w) = "stop"
               /\ PC(w) = "dropDatabase" \/ Serving(w) = "meta" \/ job'[w].warned = TRUE
<1>1. job[w].todo # <<>> /\ product' = product /\ installed' = installed /\ Services' = Services
  BY DEF Fail, Services
<1>2. /\ job[w].kind \in {"install", "uninstall"} /\ Service(w) \in Services
      /\ \A a : At(w, a) <=> PC(w) = a
  BY <1>1, Here
<1>3. Flows(job[w].kind, product, job[w].todo) /\ job[w] \in JobType /\ job \in [Workers -> JobType]
  BY <1>2 DEF Typed, JobsFlow
<1>4. disk' \in DiskType
  BY HalvesTyped DEF Fail, Typed, TypeOK
<1>5. svc' \in [Services -> ServiceType]
  <2>1. svc \in [Services -> ServiceType] /\ svc[Service(w)] \in ServiceType
    BY <1>2 DEF Typed, TypeOK
  <2>2. [svc[Service(w)] EXCEPT !.unit = None] \in ServiceType
    BY <2>1 DEF ServiceType, Some
  <2>3. svc' = svc \/ svc' = [svc EXCEPT ![Service(w)].unit = None]
    BY DEF Fail, HalfManaged
  <2>. DEFINE x == [svc[Service(w)] EXCEPT !.unit = None]
  <2>4. svc' = svc \/ svc' = [svc EXCEPT ![Service(w)] = x]
    BY <2>3
  <2>. HIDE DEF x
  <2> QED BY <2>1, <2>2, <2>4 DEF x
<1>6. tainted' \subseteq {"root", "running", "database", "foreign"} /\ faults' \in 0..MaxFaults
  <2>1. Taint(w) \subseteq {"root", "running", "database", "foreign"}
    BY DEF Taint, Typed, TypeOK
  <2> QED BY <2>1, DriversAssumption DEF Fail, Typed, TypeOK
<1>7. CASE job[w].kind = "install" /\ ~At(w, "stop")
  <2>1. job' = [job EXCEPT ![w] = Idle] /\ result' = "failed"
    BY <1>7 DEF Fail
  <2>2. JobsFlow' /\ Dies(w)
    BY <1>1, <2>1, GivenUp
  <2>3. TypeOK'
    BY <1>1, <1>4, <1>5, <1>6, <2>1 DEF TypeOK, Typed
  <2> QED BY <1>2, <1>7, <2>1, <2>2, <2>3 DEF Typed
<1>8. CASE ~(job[w].kind = "install" /\ ~At(w, "stop"))
  <2>1. PICK warned \in CASE At(w, "dropDatabase") -> BOOLEAN
                          [] Service(w) = "meta" -> {FALSE} [] OTHER -> {TRUE} :
          job' = [job EXCEPT ![w].todo = Tail(@), ![w].warned = @ \/ warned]
    BY <1>8 DEF Fail
  <2>2. result' = result
    BY <1>8 DEF Fail
  <2>. DEFINE b == job[w].warned \/ warned
              n == [job[w] EXCEPT !.todo = SubSeq(job[w].todo, 2, Len(job[w].todo)), !.warned = b]
  <2>3. job' = [job EXCEPT ![w] = [job[w] EXCEPT !.todo = Tail(job[w].todo), !.warned = job[w].warned \/ warned]]
    BY <1>3, <2>1
  <2>4. Tail(job[w].todo) = SubSeq(job[w].todo, 2, Len(job[w].todo))
    BY <1>1, <1>3, TailIs
  <2>5. job' = [job EXCEPT ![w] = n]
    BY <2>3, <2>4
  <2>6. b \in BOOLEAN /\ (PC(w) = "dropDatabase" \/ Serving(w) = "meta" \/ b = TRUE)
    <3>1. job[w].warned \in BOOLEAN
      BY <1>3 DEF JobType
    <3>2. warned \in BOOLEAN /\ (PC(w) = "dropDatabase" \/ Serving(w) = "meta" \/ warned = TRUE)
      BY <1>1, <1>2, <2>1, Here
    <3> QED BY <3>1, <3>2
  <2>. HIDE DEF b
  <2>7. JobsFlow' /\ Onward(w) /\ job'[w].warned = b
    BY <1>1, <2>5, <2>6, GoesOn
  <2>8. TypeOK'
    BY <1>1, <1>4, <1>5, <1>6, <2>2 DEF TypeOK, Typed
  <2> QED BY <1>2, <1>8, <2>2, <2>6, <2>7, <2>8 DEF Typed
<1> QED BY <1>7, <1>8

(* A job starts at the first step of its recipe. *)
LEMMA StartMoves ==
  ASSUME Typed, NEW w \in Workers, NEW kind \in {"install", "uninstall"}, NEW v \in Versions,
         Start(w, kind, v)
  PROVE  /\ Typed' /\ job'[w].kind = kind /\ job'[w].version = v /\ job'[w].warned = FALSE
         /\ job'[w].todo # <<>>
         /\ First(kind, product, PC(w)') /\ Proper(kind, product, PC(w)')
         /\ product = "databend" => Serving(w)' = "meta"
         /\ Serving(w)' = "meta" => product = "databend"
         /\ Serving(w)' \in Services
<1>1. product \in Known /\ product' = product /\ Services' = Services
  BY DriversAssumption DEF Typed, TypeOK, Start, Services
<1>2. Flows(kind, product, Plan(kind)) /\ Begins(kind, product, Plan(kind))
  BY <1>1, PlansFlow DEF Plan
<1>. DEFINE n == [kind |-> kind, version |-> v, todo |-> Plan(kind), warned |-> FALSE]
<1>3. n \in JobType
  <2>1. Plan(kind) \in Seq(StepType)
    BY <1>2 DEF Flows
  <2> QED BY <2>1 DEF JobType, Some
<1>4. job' = [job EXCEPT ![w] = n] /\ job \in [Workers -> JobType]
  BY DEF Start, Typed, JobsFlow
<1>5. n.kind = kind /\ n.version = v /\ n.todo = Plan(kind) /\ n.warned = FALSE
  OBVIOUS
<1>. HIDE DEF n
<1>6. job' \in [Workers -> JobType] /\ job'[w] = n /\ \A u \in Workers : u # w => job'[u] = job[u]
  BY <1>3, <1>4
<1>7. JobsFlow'
  <2>1. \A u \in Workers : IF job'[u].kind = "idle" THEN job'[u].todo = <<>>
                           ELSE job'[u].version \in Versions /\ Flows(job'[u].kind, product, job'[u].todo)
    BY <1>2, <1>5, <1>6 DEF Typed, JobsFlow
  <2> QED BY <1>1, <1>6, <2>1 DEF JobsFlow
<1>8. TypeOK'
  <2>1. None \in Some
    BY DEF Some
  <2> QED BY <1>1, <2>1 DEF Start, Typed, TypeOK
<1>9. Plan(kind) # <<>> /\ First(kind, product, Plan(kind)[1][2])
      /\ (product = "databend" => Plan(kind)[1][1] = "meta")
  BY <1>2 DEF Begins
<1>10. PC(w)' = Plan(kind)[1][2] /\ Serving(w)' = Plan(kind)[1][1]
  BY <1>5, <1>6, <1>9 DEF PC, Following, Serving
<1>11. /\ Proper(kind, product, Plan(kind)[1][2]) /\ Plan(kind)[1] \in StepType
       /\ (Plan(kind)[1][1] = "meta" => product = "databend")
  BY <1>2, <1>9, Advances
<1>12. Serving(w)' \in Services
  BY <1>10, <1>11 DEF StepType, Services
<1> QED BY <1>5, <1>6, <1>7, <1>8, <1>9, <1>10, <1>11, <1>12 DEF Typed

LEMMA FinishMoves ==
  ASSUME Typed, NEW w \in Workers, Finish(w)
  PROVE  Typed' /\ Dies(w)
<1>1. product' = product /\ job' = [job EXCEPT ![w] = Idle] /\ Services' = Services
  BY DEF Finish, Services
<1>2. JobsFlow' /\ Dies(w)
  BY <1>1, GivenUp
<1>3. job[w].version \in Versions
  BY DEF Finish, Typed, JobsFlow
<1>4. TypeOK'
  BY <1>1, <1>3 DEF Finish, Typed, TypeOK, Version, Some
<1> QED BY <1>2, <1>4 DEF Typed

(* Whatever starts at boot is a version, or nothing. *)
LEMMA RebootMoves ==
  ASSUME Typed, Reboot
  PROVE  /\ Typed' /\ \A w \in Workers : Dies(w)
         /\ \/ disk' = disk
            \/ \E w \in Workers : job[w].kind # "idle" /\ HalfOf(w, disk')
<1>1. product' = product /\ Services' = Services /\ installed' = installed
  BY DEF Reboot, Services
<1>2. disk' \in DiskType
  BY HalvesTyped DEF Reboot, Typed, TypeOK
<1>3. svc' \in [Services -> ServiceType]
  <2>1. PICK runs \in [Services -> Versions \cup {None}] :
          svc' = [s \in Services |-> [svc[s] EXCEPT !.loaded = svc[s].unit, !.running = runs[s]]]
    BY DEF Reboot
  <2>2. \A s \in Services : svc[s] \in ServiceType
    BY DEF Typed, TypeOK
  <2>3. \A s \in Services : [svc[s] EXCEPT !.loaded = svc[s].unit, !.running = runs[s]] \in ServiceType
    BY <2>2 DEF ServiceType, Some
  <2> QED BY <2>1, <2>3
<1>4. TypeOK'
  <2>1. faults' \in 0..MaxFaults
    <3>1. faults \in 0..MaxFaults /\ faults < MaxFaults /\ faults' = faults + 1 /\ MaxFaults \in Nat
      BY DriversAssumption DEF Reboot, Typed, TypeOK
    <3> QED BY <3>1
  <2>2. tainted' \subseteq {"root", "running", "database", "foreign"}
    BY DEF Reboot, Typed, TypeOK
  <2>3. result' \in {"none", "installed", "failed", "blocked", "removed", "warned"}
    BY DEF Reboot, Typed, TypeOK
  <2> QED BY <1>1, <1>2, <1>3, <2>1, <2>2, <2>3 DEF Typed, TypeOK
<1>5. job' = [w \in Workers |-> Idle]
  BY DEF Reboot
<1>6. Idle \in JobType /\ Idle.kind = "idle" /\ Idle.todo = <<>>
  BY DEF Idle, JobType, Some
<1>7. JobsFlow' /\ \A w \in Workers : Dies(w)
  BY <1>5, <1>6 DEF JobsFlow, Dies, PC, Following
<1>8. \/ disk' = disk
      \/ \E w \in Workers : job[w].kind # "idle" /\ HalfOf(w, disk')
  BY Halves DEF Reboot
<1> QED BY <1>4, <1>7, <1>8 DEF Typed

LEMMA OperatorTyped ==
  ASSUME Typed, EditConfig \/ RollBack \/ \E s \in Services : Respawn(s) \/ PortTaken(s)
  PROVE  Typed' /\ job' = job /\ product' = product
<1>1. job' = job /\ product' = product /\ Services' = Services
  BY DEF EditConfig, RollBack, Respawn, PortTaken, Services
<1>2. JobsFlow'
  BY <1>1 DEF Typed, JobsFlow
<1>3. disk \in DiskType /\ svc \in [Services -> ServiceType]
  BY DEF Typed, TypeOK
<1>4. \A s \in Services : svc[s] \in ServiceType /\ svc[s].loaded \in Some
  BY <1>3 DEF ServiceType
<1>5. \A s \in Services : \A r \in Some : [svc EXCEPT ![s].running = r] \in [Services -> ServiceType]
  <2>. SUFFICES ASSUME NEW s \in Services, NEW r \in Some
                PROVE  [svc EXCEPT ![s].running = r] \in [Services -> ServiceType]
    OBVIOUS
  <2>. DEFINE x == [svc[s] EXCEPT !.running = r]
  <2>1. x \in ServiceType
    BY <1>4 DEF ServiceType
  <2>2. [svc EXCEPT ![s] = x] \in [Services -> ServiceType]
    <3>. HIDE DEF x
    <3> QED BY <1>3, <2>1
  <2> QED BY <2>2
<1>6. CASE EditConfig
  <2>1. disk' \in DiskType
    BY <1>3, <1>6 DEF EditConfig, DiskType
  <2> QED BY <1>1, <1>2, <1>6, <2>1 DEF EditConfig, Typed, TypeOK
<1>7. CASE RollBack
  <2>1. PICK i \in DOMAIN disk.releases : disk' = [disk EXCEPT !.current = i]
    BY <1>7 DEF RollBack
  <2>2. i \in Nat
    BY <1>3 DEF DiskType
  <2>3. disk' \in DiskType
    BY <1>3, <2>1, <2>2 DEF DiskType
  <2>4. "main" \in Services
    BY DEF Services
  <2>5. Comes(disk', svc["main"].loaded, tainted) \in SUBSET Some
    <3>1. \A d \in DiskType : \A u \in Some : \A t : Comes(d, u, t)' = Comes(d, u, t)
      BY <1>1 DEF Comes, Runs, Broken
    <3> QED BY <1>4, <2>3, <2>4, RunsTyped
  <2>6. svc' \in [Services -> ServiceType]
    BY <1>5, <1>7, <2>4, <2>5 DEF RollBack
  <2> QED BY <1>1, <1>2, <1>7, <2>3, <2>6 DEF RollBack, Typed, TypeOK, Some
<1>8. CASE \E s \in Services : Respawn(s)
  <2>1. PICK s \in Services : Respawn(s)
    BY <1>8
  <2>2. Comes(disk, svc[s].loaded, tainted) \in SUBSET Some
    BY <1>3, <1>4, RunsTyped
  <2>3. svc' \in [Services -> ServiceType]
    BY <1>5, <2>1, <2>2 DEF Respawn
  <2> QED BY <1>1, <1>2, <2>1, <2>3 DEF Respawn, Typed, TypeOK
<1>9. CASE \E s \in Services : PortTaken(s)
  <2>1. PICK s \in Services : PortTaken(s)
    BY <1>9
  <2>2. svc' \in [Services -> ServiceType]
    BY <1>5, <2>1 DEF PortTaken, Some
  <2>3. faults' \in 0..MaxFaults
    <3>1. faults \in 0..MaxFaults /\ faults < MaxFaults /\ faults' = faults + 1 /\ MaxFaults \in Nat
      BY <2>1, DriversAssumption DEF PortTaken, Typed, TypeOK
    <3> QED BY <3>1
  <2> QED BY <1>1, <1>2, <2>1, <2>2, <2>3 DEF PortTaken, Typed, TypeOK
<1> QED BY <1>6, <1>7, <1>8, <1>9

LEMMA TypedInit == Init => Typed
<1>. SUFFICES ASSUME Init PROVE Typed
  OBVIOUS
<1>1. NoDisk \in DiskType
  BY DEF NoDisk, DiskType, Tree, Key, Some
<1>2. disk \in DiskType
  <2>. HIDE DEF NoDisk
  <2>1. \A h \in Some : [NoDisk EXCEPT !.distro = h] \in DiskType
    BY <1>1, Writes
  <2> QED BY <2>1 DEF Init, Some
<1>3. NoService \in ServiceType /\ None \in Some
  BY DEF NoService, ServiceType, Some
<1>4. TypeOK
  BY <1>2, <1>3, DriversAssumption DEF Init, TypeOK
<1>5. Idle \in JobType /\ Idle.kind = "idle" /\ Idle.todo = <<>>
  BY DEF Idle, JobType, Some
<1>6. JobsFlow
  BY <1>5 DEF Init, JobsFlow
<1> QED BY <1>4, <1>6 DEF Typed

LEMMA TypedNext == Typed /\ [Next]_vars => Typed'
<1>. SUFFICES ASSUME Typed, [Next]_vars PROVE Typed'
  OBVIOUS
<1>1. ASSUME NEW w \in Workers, Step(w) PROVE Typed'
  <2>1. JobsFlow' /\ Proceeds(w) /\ Effects(w) /\ disk' \in DiskType /\ svc' \in [Services' -> ServiceType]
    BY <1>1, StepMoves, StepEffects, StepsTyped
  <2>2. tainted' \subseteq tainted
    BY <2>1 DEF Effects, Writers, Stop, RemoveRoot, DropDatabase
  <2>3. result' \in {result, "blocked"}
    BY <2>1 DEF Proceeds
  <2>4. TypeOK'
    BY <2>1, <2>2, <2>3 DEF Effects, Typed, TypeOK
  <2> QED BY <2>1, <2>4 DEF Typed
<1>2. CASE UNCHANGED vars
  BY <1>2 DEF vars, Typed, TypeOK, JobsFlow, Services
<1> QED BY <1>1, <1>2, FailMoves, StartMoves, FinishMoves, RebootMoves, OperatorTyped DEF Next

THEOREM HostTypeCorrect == Spec => []TypeOK
<1>1. Spec => []Typed
  BY TypedInit, TypedNext, PTL DEF Spec
<1>2. Typed => TypeOK
  BY DEF Typed
<1> QED BY <1>1, <1>2, PTL

(* Which fields a step that dies half-way may have written. *)
LEMMA HalfWriters ==
  ASSUME Typed, NEW w \in Workers, job[w].todo # <<>>, NEW d, HalfOf(w, d)
  PROVE  /\ d.built = disk.built /\ d.current = disk.current /\ d.distro = disk.distro
         /\ d.database = disk.database
         /\ PC(w) \notin {"extract", "venv", "jar", "rmRoot"} => d.cache = disk.cache
         /\ PC(w) \in {"extract", "jar"} => d.cache \in {disk.cache, [disk.cache EXCEPT ![Version(w)] = "part"]}
         /\ PC(w) = "jar" /\ d.cache # disk.cache => disk.cache[Version(w)] = "none"
         /\ PC(w) # "rmRoot" => d.sealed = disk.sealed /\ d.releases = disk.releases
         /\ PC(w) \notin {"source", "anySource", "jar", "rmRoot"} => d.source = disk.source
         /\ PC(w) \notin {"credentials", "rmRoot"} => d.credentials = disk.credentials
         /\ PC(w) \notin {"config", "keepConfig", "rmRoot"} => d.config = disk.config
         /\ PC(w) \notin {"keypair", "rmRoot"} => d.keys = disk.keys
         /\ PC(w) # "runtime" => d.runtime = disk.runtime
         /\ PC(w) # "toolchain" => d.toolchain = disk.toolchain
         /\ PC(w) \notin {"initdb", "rmData"} => d.data = disk.data
<1>1. \A a : At(w, a) <=> PC(w) = a
  BY Here
<1>2. disk \in DiskType
  BY DEF Typed, TypeOK
<1>. USE DEF DiskType
<1>3. CASE PC(w) \in {"extract", "venv", "jar"}
  BY <1>1, <1>2, <1>3 DEF HalfOf
<1>4. CASE PC(w) \in {"source", "anySource", "copy"}
  BY <1>1, <1>2, <1>4 DEF HalfOf
<1>5. CASE PC(w) \in {"toolchain", "runtime", "config", "keepConfig"}
  BY <1>1, <1>2, <1>5 DEF HalfOf
<1>6. CASE PC(w) \in {"keypair", "initdb", "credentials", "rmData"}
  BY <1>1, <1>2, <1>6 DEF HalfOf
<1>7. CASE PC(w) = "rmRoot"
  BY <1>1, <1>2, <1>7 DEF HalfOf, HalfRemoved
<1> QED BY <1>1, <1>3, <1>4, <1>5, <1>6, <1>7 DEF HalfOf

-----------------------------------------------------------------------------
(* The sentinel of a bundle.                                               *)

Sentinels(w) ==
  "root" \notin tainted =>
    /\ \A v \in disk.sealed : disk.cache[v] = "whole"
    /\ PC(w) = "extract" => Version(w) \notin disk.sealed
    /\ PC(w) = "seal" => disk.cache[Version(w)] = "whole"
    /\ product = "sail" => disk.sealed = {}

LEMMA StepKeepsSentinels ==
  ASSUME NEW w, w \in Workers, Typed, Sentinels(w), Step(w)
  PROVE  Sentinels(w)'
<1>1. Effects(w) /\ Proceeds(w) /\ job[w].todo # <<>> /\ product' = product
  BY StepEffects, StepMoves DEF Effects
<1>2. /\ job[w].kind \in {"install", "uninstall"} /\ job[w].version \in Versions
      /\ Proper(job[w].kind, product, PC(w))
      /\ \A a : At(w, a) <=> PC(w) = a
  BY <1>1, Here
<1>3. disk \in DiskType /\ disk.cache \in Tree /\ disk.sealed \in SUBSET Versions
  BY DEF Typed, TypeOK, DiskType
<1>4. \/ PC(w)' = "end"
      \/ Version(w)' = Version(w) /\ PC(w)' = "locate"
      \/ Version(w)' = Version(w) /\ PC(w)' = "initdb"
      \/ /\ Version(w)' = Version(w)
         /\ Link(job[w].kind, product, PC(w), PC(w)') /\ Proper(job[w].kind, product, PC(w)')
         /\ PC(w) = "check" => Version(w) \notin disk.sealed
  BY <1>1 DEF Proceeds, Onward, Dies, SameJob, Version
<1>5. /\ PC(w)' = "extract" => PC(w) = "check" /\ Version(w)' = Version(w)
                               /\ (PC(w) = "check" => Version(w) \notin disk.sealed)
      /\ PC(w)' = "seal" => PC(w) = "extract" /\ Version(w)' = Version(w)
  BY <1>4 DEF Link, InstallLink, Proper, Removals
<1>. SUFFICES ASSUME "root" \notin tainted'
              PROVE  /\ \A v \in disk'.sealed : disk'.cache[v] = "whole"
                     /\ PC(w)' = "extract" => Version(w)' \notin disk'.sealed
                     /\ PC(w)' = "seal" => disk'.cache[Version(w)'] = "whole"
                     /\ product = "sail" => disk'.sealed = {}
  BY <1>1 DEF Sentinels
<1>6. CASE RemoveRoot(w)
  <2>1. PC(w) = "rmRoot" /\ disk'.sealed = {}
    BY <1>2, <1>6 DEF RemoveRoot, NoDisk
  <2> QED BY <1>5, <2>1
<1>7. CASE ~RemoveRoot(w)
  <2>1. "root" \notin tainted
    BY <1>1, <1>7 DEF Effects, Writers, Stop, DropDatabase
  <2>2. /\ \A v \in disk.sealed : disk.cache[v] = "whole"
        /\ PC(w) = "extract" => Version(w) \notin disk.sealed
        /\ PC(w) = "seal" => disk.cache[Version(w)] = "whole"
        /\ product = "sail" => disk.sealed = {}
    BY <2>1 DEF Sentinels
  <2>3. CASE Extract(w)
    <3>1. PC(w) = "extract" /\ disk'.sealed = disk.sealed
          /\ disk'.cache = [disk.cache EXCEPT ![Version(w)] = "whole"]
      BY <1>2, <1>3, <2>3 DEF Extract, Becomes, DiskType
    <3>2. Version(w) \in Versions
      BY <1>2 DEF Version
    <3> QED BY <1>3, <1>5, <2>2, <3>1, <3>2 DEF Tree
  <2>4. CASE Seal(w)
    <3>1. /\ PC(w) = "seal" /\ disk'.sealed = disk.sealed \cup {Version(w)}
          /\ disk'.cache = disk.cache
      BY <1>2, <1>3, <2>4 DEF Seal, Becomes, DiskType
    <3>2. product # "sail"
      BY <1>2, <3>1 DEF Proper
    <3> QED BY <1>5, <2>2, <3>1, <3>2
  <2>5. CASE Venv(w)
    <3>1. PC(w) = "venv" /\ disk'.sealed = disk.sealed
      BY <1>2, <1>3, <2>5 DEF Venv, Becomes, DiskType
    <3>2. product = "sail"
      BY <1>2, <3>1 DEF Proper
    <3> QED BY <1>5, <2>2, <3>1, <3>2
  <2>6. CASE Jar(w)
    <3>1. PC(w) = "jar" /\ disk'.sealed = disk.sealed
      BY <1>2, <1>3, <2>6 DEF Jar, Becomes, Needs, DiskType
    <3>2. \/ disk'.cache = disk.cache
          \/ /\ disk.cache[Version(w)] = "none"
             /\ disk'.cache = [disk.cache EXCEPT ![Version(w)] = "whole"]
      BY <1>3, <2>6 DEF Jar, Becomes, Needs, DiskType
    <3> QED BY <1>3, <1>5, <2>2, <3>1, <3>2 DEF Tree
  <2>7. CASE ~(Extract(w) \/ Seal(w) \/ Venv(w) \/ Jar(w))
    <3>1. disk'.cache = disk.cache /\ disk'.sealed = disk.sealed
      BY <1>1, <1>7, <2>7 DEF Effects, Writers
    <3>2. PC(w) # "extract"
      BY <1>2, <2>7, StepIs
    <3> QED BY <1>5, <2>2, <3>1, <3>2
  <2> QED BY <2>3, <2>4, <2>5, <2>6, <2>7
<1> QED BY <1>6, <1>7

(* Nothing but a job's own steps matters to it when it is the only one. *)
Alone(w) == w \in Workers /\ Workers = {w}

(* The removal of a root that dies is remembered until one succeeds. *)
LEMMA Remembered ==
  ASSUME Typed, NEW w \in Workers
  PROVE  /\ Fail(w) => /\ "root" \notin tainted' => "root" \notin tainted /\ PC(w) # "rmRoot"
                       /\ "database" \notin tainted' => "database" \notin tainted /\ PC(w) # "dropDatabase"
                       /\ "running" \notin tainted' => "running" \notin tainted /\ PC(w) # "stop"
         /\ Reboot => /\ "root" \notin tainted' => "root" \notin tainted /\ PC(w) # "rmRoot"
                      /\ "database" \notin tainted' => "database" \notin tainted /\ PC(w) # "dropDatabase"
                      /\ "running" \notin tainted' => "running" \notin tainted
<1>1. \A a \in {"rmRoot", "dropDatabase", "stop"} : At(w, a) <=> PC(w) = a
  BY DEF At, PC, Following
<1>2. \A a, b : At(w, a) /\ At(w, b) => a = b
  BY DEF At
<1>3. Taint(w) = tainted \cup (IF PC(w) = "rmRoot" THEN {"root"} ELSE IF PC(w) = "stop" THEN {"running"}
                               ELSE IF PC(w) = "dropDatabase" THEN {"database"} ELSE {})
  <2>1. CASE PC(w) = "rmRoot"
    BY <1>1, <1>2, <2>1 DEF Taint
  <2>2. CASE PC(w) = "stop"
    BY <1>1, <1>2, <2>2 DEF Taint
  <2>3. CASE PC(w) = "dropDatabase"
    BY <1>1, <1>2, <2>3 DEF Taint
  <2>4. CASE PC(w) \notin {"rmRoot", "stop", "dropDatabase"}
    BY <1>1, <2>4 DEF Taint
  <2> QED BY <2>1, <2>2, <2>3, <2>4
<1>4. Fail(w) => tainted' = Taint(w)
  BY DEF Fail
<1>5. Reboot => /\ tainted \subseteq tainted'
                /\ PC(w) = "rmRoot" => "root" \in tainted'
                /\ PC(w) = "dropDatabase" => "database" \in tainted'
  BY <1>1 DEF Reboot
<1> QED BY <1>3, <1>4, <1>5

(* What happens to a disk that a step leaves half-written, or as it was. *)
LEMMA HalvesKeepSentinels ==
  ASSUME Typed, NEW w \in Workers, Sentinels(w), "root" \notin tainted,
         PC(w) # "rmRoot",
         disk' = disk \/ (job[w].kind # "idle" /\ HalfOf(w, disk'))
  PROVE  /\ \A v \in disk'.sealed : disk'.cache[v] = "whole"
         /\ product = "sail" => disk'.sealed = {}
<1>1. CASE disk' = disk
  BY <1>1 DEF Sentinels
<1>2. CASE job[w].todo # <<>> /\ HalfOf(w, disk')
  <2>1. disk'.sealed = disk.sealed
    BY <1>2, HalfWriters
  <2>2. CASE PC(w) \in {"extract", "jar"}
    <3>1. disk'.cache \in {disk.cache, [disk.cache EXCEPT ![Version(w)] = "part"]}
      BY <1>2, <2>2, HalfWriters
    <3>2. PC(w) = "jar" /\ disk'.cache # disk.cache => disk.cache[Version(w)] = "none"
      BY <1>2, <2>2, HalfWriters
    <3>3. disk'.cache = disk.cache \/ Version(w) \notin disk.sealed
      BY <2>2, <3>2 DEF Sentinels
    <3>4. disk.cache \in Tree /\ disk.sealed \in SUBSET Versions
      BY DEF Typed, TypeOK, DiskType
    <3>5. \A v \in disk.sealed : disk'.cache[v] = disk.cache[v]
      BY <3>1, <3>3, <3>4 DEF Tree
    <3> QED BY <2>1, <3>5 DEF Sentinels
  <2>3. CASE PC(w) = "venv"
    <3>1. product = "sail"
      BY <1>2, <2>3, Here DEF Proper
    <3> QED BY <2>1, <3>1 DEF Sentinels
  <2>4. CASE PC(w) \notin {"extract", "jar", "venv"}
    <3>1. disk'.cache = disk.cache
      BY <1>2, <2>4, HalfWriters
    <3> QED BY <2>1, <3>1 DEF Sentinels
  <2> QED BY <2>2, <2>3, <2>4
<1>3. HalfOf(w, disk') => job[w].todo # <<>>
  BY DEF HalfOf, At
<1> QED BY <1>1, <1>2, <1>3

LEMMA SentinelsNext ==
  ASSUME NEW w, Alone(w), Typed, Sentinels(w), [Next]_vars
  PROVE  Sentinels(w)'
<1>0. w \in Workers /\ \A u \in Workers : u = w
  BY DEF Alone
<1>1. CASE Step(w)
  BY <1>0, <1>1, StepKeepsSentinels
<1>2. CASE Fail(w)
  <2>1. /\ product' = product /\ (disk' = disk \/ HalfOf(w, disk')) /\ job[w].todo # <<>>
    BY <1>2, Halves DEF Fail
  <2>2. job[w].kind # "idle"
    BY <1>0, <2>1, Here
  <2>3. PC(w)' \notin {"extract", "seal"}
    <3>1. PC(w)' = "end" \/ (Link(job[w].kind, product, PC(w), PC(w)') /\ Proper(job[w].kind, product, PC(w)')
                             /\ (job[w].kind # "install" \/ PC(w) = "stop"))
      BY <1>0, <1>2, FailMoves DEF Dies, Onward
    <3>2. job[w].kind \in {"install", "uninstall"}
      BY <1>0, <2>1, Here
    <3> QED BY <3>1, <3>2 DEF Link, InstallLink, Proper, Removals
  <2>4. CASE "root" \notin tainted'
    <3>1. "root" \notin tainted /\ PC(w) # "rmRoot"
      BY <1>0, <1>2, <2>4, Remembered, SMTT(30)
    <3> QED BY <1>0, <2>1, <2>2, <2>3, <3>1, HalvesKeepSentinels DEF Sentinels
  <2> QED BY <2>4 DEF Sentinels
<1>3. CASE Reboot
  <2>1. product' = product /\ PC(w)' = "end"
    BY <1>0, <1>3, RebootMoves DEF Reboot, Dies
  <2>2. disk' = disk \/ (job[w].kind # "idle" /\ HalfOf(w, disk'))
    BY <1>0, <1>3, RebootMoves
  <2>3. CASE "root" \notin tainted'
    <3>1. "root" \notin tainted /\ PC(w) # "rmRoot"
      BY <1>0, <1>3, <2>3, Remembered
    <3> QED BY <1>0, <2>1, <2>2, <3>1, HalvesKeepSentinels DEF Sentinels
  <2> QED BY <2>3 DEF Sentinels
<1>4. ASSUME NEW kind \in {"install", "uninstall"}, NEW v \in Versions, Start(w, kind, v)
      PROVE  Sentinels(w)'
  <2>1. First(kind, product, PC(w)')
    BY <1>0, <1>4, StartMoves
  <2>2. PC(w)' \notin {"extract", "seal"}
    BY <2>1 DEF First
  <2> QED BY <1>4, <2>2 DEF Start, Sentinels
<1>5. CASE Finish(w)
  <2>1. PC(w)' = "end"
    BY <1>0, <1>5, FinishMoves DEF Dies
  <2> QED BY <1>5, <2>1 DEF Finish, Sentinels
<1>6. CASE EditConfig \/ RollBack \/ \E s \in Services : Respawn(s) \/ PortTaken(s)
  <2>1. job' = job /\ product' = product /\ ("root" \in tainted' <=> "root" \in tainted)
    BY <1>6 DEF EditConfig, RollBack, Respawn, PortTaken
  <2>2. disk'.sealed = disk.sealed /\ disk'.cache = disk.cache
    BY <1>6 DEF EditConfig, RollBack, Respawn, PortTaken, Typed, TypeOK, DiskType
  <2> QED BY <2>1, <2>2 DEF Sentinels, PC, Following, Version
<1>7. CASE UNCHANGED vars
  BY <1>7 DEF vars, Sentinels, PC, Following, Version
<1> QED BY <1>0, <1>1, <1>2, <1>3, <1>4, <1>5, <1>6, <1>7 DEF Next

(* fetch.rs: with one job at a time, a directory that carries the sentinel *)
(* holds a whole tree once no job is at work, whatever downloads and       *)
(* extractions died before, for any versions and any number of faults.     *)
THEOREM SealedAlwaysWhole ==
  ASSUME NEW w, Alone(w)
  PROVE  Spec => []SealedTreesAreWhole
<1>1. Init => Typed /\ Sentinels(w)
  <2>1. Init => Sentinels(w)
    BY DEF Alone, Init, Sentinels, NoDisk, PC, Following, Idle
  <2> QED BY <2>1, TypedInit
<1>2. Typed /\ Sentinels(w) /\ [Next]_vars => (Typed /\ Sentinels(w))'
  BY TypedNext, SentinelsNext
<1>3. Typed /\ Sentinels(w) => SealedTreesAreWhole
  BY DEF Sentinels, SealedTreesAreWhole
<1> QED BY <1>1, <1>2, <1>3, PTL DEF Spec

-----------------------------------------------------------------------------
(* The key of lakekeeper's database.                                       *)

(* The database holds nothing, or what the credentials on disk encrypt; it *)
(* holds nothing as long as no install has written them.                   *)
Fitting ==
  /\ disk.database \in {None, disk.credentials}
  /\ disk.credentials \in {None, "torn"} => disk.database = None

Keys(w) ==
  /\ installed # None => job[w].kind = "idle"
  /\ product = "lakekeeper" /\ tainted \cap {"root", "database"} = {} =>
       /\ PC(w) # "dropDatabase" => Fitting
       /\ PC(w) = "provision" => disk.credentials \notin {None, "torn"}
       /\ (job[w].kind = "install" /\ PC(w) \notin {"credentials", "provision"}) \/ installed # None
            => disk.database = disk.credentials

LEMMA StepKeepsKeys ==
  ASSUME NEW w, w \in Workers, Typed, Keys(w), Step(w)
  PROVE  Keys(w)'
<1>1. /\ Effects(w) /\ Proceeds(w) /\ job[w].todo # <<>> /\ product' = product
      /\ installed' = installed
  BY StepEffects, StepMoves DEF Effects
<1>2. /\ job[w].kind \in {"install", "uninstall"}
      /\ Proper(job[w].kind, product, PC(w))
      /\ \A a : At(w, a) <=> PC(w) = a
  BY <1>1, Here
<1>3. disk \in DiskType
  BY DEF Typed, TypeOK
<1>4. installed' = None
  BY <1>1, <1>2 DEF Keys
<1>5. \/ PC(w)' = "end" /\ job'[w].kind = "idle"
      \/ PC(w)' = "end" /\ job'[w].kind = job[w].kind /\ Closes(job[w].kind, product, PC(w))
      \/ PC(w) = "check" /\ PC(w)' = "locate" /\ job'[w].kind = job[w].kind
      \/ PC(w) = "distroOrBundle" /\ PC(w)' = "initdb" /\ job'[w].kind = job[w].kind
      \/ /\ job'[w].kind = job[w].kind
         /\ Link(job[w].kind, product, PC(w), PC(w)') /\ Proper(job[w].kind, product, PC(w)')
  BY <1>1 DEF Proceeds, Onward, Dies, SameJob, Idle
<1>6. /\ PC(w)' = "dropDatabase" => PC(w) = "rmRoot"
      /\ PC(w)' = "provision" => PC(w) = "credentials"
      /\ PC(w) = "rmRoot" /\ product = "lakekeeper" /\ job'[w].kind # "idle" => PC(w)' = "dropDatabase"
      /\ PC(w) = "credentials" => PC(w)' = "provision" \/ job'[w].kind = "idle"
      /\ PC(w) \in {"rmRoot", "dropDatabase"} => job[w].kind = "uninstall"
      /\ PC(w) \in {"credentials", "provision"} => job[w].kind = "install"
      /\ job'[w].kind \in {"idle", job[w].kind}
  BY <1>2, <1>5 DEF Link, InstallLink, UninstallLink, Proper, Removals, Installs, Closes
<1>. SUFFICES ASSUME product = "lakekeeper", tainted' \cap {"root", "database"} = {}
              PROVE  /\ PC(w)' # "dropDatabase" => Fitting'
                     /\ PC(w)' = "provision" => disk'.credentials \notin {None, "torn"}
                     /\ job'[w].kind = "install" /\ PC(w)' \notin {"credentials", "provision"} =>
                          disk'.database = disk'.credentials
  BY <1>1, <1>4 DEF Keys
<1>7. CASE PC(w) = "rmRoot"
  <2>1. RemoveRoot(w)
    BY <1>2, <1>7, StepIs
  <2>2. job' = [job EXCEPT ![w].todo = SubSeq(@, 2, Len(@))]
    BY <2>1 DEF RemoveRoot, Advance
  <2>3. job'[w].kind = job[w].kind
    <3>1. job[w] \in JobType /\ job \in [Workers -> JobType]
      BY DEF Typed, JobsFlow
    <3> QED BY <2>2, <3>1 DEF JobType
  <2>4. PC(w)' = "dropDatabase" /\ job'[w].kind = "uninstall"
    BY <1>2, <1>6, <1>7, <2>3
  <2> QED BY <2>4
<1>8. CASE PC(w) = "dropDatabase"
  <2>1. DropDatabase(w)
    BY <1>2, <1>8, StepIs
  <2>2. disk'.database = None
    BY <1>3, <2>1 DEF DropDatabase, DiskType
  <2> QED BY <1>6, <1>8, <2>2 DEF Fitting
<1>9. CASE PC(w) \notin {"rmRoot", "dropDatabase"}
  <2>1. /\ PC(w) # "dropDatabase" => Fitting
        /\ PC(w) = "provision" => disk.credentials \notin {None, "torn"}
        /\ job[w].kind = "install" /\ PC(w) \notin {"credentials", "provision"} =>
             disk.database = disk.credentials
    <3>1. tainted' = tainted \/ Stop(w)
      BY <1>1, <1>2, <1>9 DEF Effects, Writers, RemoveRoot, DropDatabase
    <3>2. tainted \cap {"root", "database"} = {}
      BY <3>1 DEF Stop
    <3> QED BY <3>2 DEF Keys
  <2>2. CASE PC(w) = "credentials"
    <3>1. Credentials(w)
      BY <1>2, <2>2, StepIs
    <3>2. /\ disk'.credentials = IF disk.credentials \in {None, "torn"} THEN FreshKey ELSE disk.credentials
          /\ disk'.database = disk.database
      BY <1>3, <3>1 DEF Credentials, Becomes, DiskType
    <3>3. FreshKey \notin {None, "torn"}
      BY DriversAssumption DEF FreshKey
    <3>4. Fitting
      BY <2>1, <2>2
    <3> QED BY <1>6, <2>2, <3>2, <3>3, <3>4 DEF Fitting
  <2>3. CASE PC(w) = "provision"
    <3>1. Provision(w)
      BY <1>2, <2>3, StepIs
    <3>2. /\ disk'.database = IF disk.database = None THEN disk.credentials ELSE disk.database
          /\ disk'.credentials = disk.credentials
      BY <1>3, <3>1 DEF Provision, Becomes, DiskType
    <3>3. Fitting /\ disk.credentials \notin {None, "torn"}
      BY <2>1, <2>3
    <3> QED BY <1>6, <2>3, <3>2, <3>3 DEF Fitting
  <2>4. CASE PC(w) \notin {"credentials", "provision"}
    <3>1. disk'.credentials = disk.credentials /\ disk'.database = disk.database
      BY <1>1, <1>2, <1>9, <2>4 DEF Effects, Writers, Credentials, Provision, RemoveRoot, DropDatabase, Becomes
    <3> QED BY <1>6, <1>9, <2>1, <2>4, <3>1 DEF Fitting
  <2> QED BY <2>2, <2>3, <2>4
<1> QED BY <1>7, <1>8, <1>9

(* A step that dies writes no key but a torn one over none. *)
LEMMA HalvesKeepKeys ==
  ASSUME Typed, NEW w, w \in Workers, Keys(w), PC(w) \notin {"rmRoot", "dropDatabase"},
         product = "lakekeeper", tainted \cap {"root", "database"} = {},
         disk' = disk \/ HalfOf(w, disk')
  PROVE  /\ Fitting'
         /\ PC(w) # "credentials" => disk'.credentials = disk.credentials /\ disk'.database = disk.database
<1>1. Fitting
  BY DEF Keys
<1>2. CASE disk' = disk
  BY <1>1, <1>2 DEF Fitting
<1>3. CASE HalfOf(w, disk')
  <2>1. job[w].todo # <<>>
    BY <1>3 DEF HalfOf, At
  <2>2. disk'.database = disk.database /\ (PC(w) # "credentials" => disk'.credentials = disk.credentials)
    BY <1>3, <2>1, HalfWriters
  <2>3. CASE PC(w) = "credentials"
    <3>1. /\ \A a : At(w, a) <=> PC(w) = a
      BY <2>1, Here
    <3>2. disk.credentials \in {None, "torn"}
      BY <1>3, <2>3, <3>1 DEF HalfOf
    <3>3. disk'.database = None
      BY <1>1, <2>2, <3>2 DEF Fitting
    <3> QED BY <2>3, <3>3 DEF Fitting
  <2> QED BY <1>1, <2>2, <2>3 DEF Fitting
<1> QED BY <1>2, <1>3

LEMMA KeysNext ==
  ASSUME NEW w, Alone(w), Typed, Keys(w), [Next]_vars
  PROVE  Keys(w)'
<1>0. w \in Workers /\ \A u \in Workers : u = w
  BY DEF Alone
<1>1. CASE Step(w)
  BY <1>0, <1>1, StepKeepsKeys
<1>2. CASE Fail(w)
  <2>1. /\ product' = product /\ (disk' = disk \/ HalfOf(w, disk')) /\ job[w].todo # <<>>
        /\ installed' = installed
    BY <1>2, Halves DEF Fail
  <2>2. job[w].kind \in {"install", "uninstall"} /\ Proper(job[w].kind, product, PC(w))
    BY <1>0, <2>1, Here
  <2>3. installed' = None
    BY <2>1, <2>2 DEF Keys
  <2>4. \/ PC(w)' = "end" /\ job'[w].kind = "idle"
        \/ /\ job'[w].kind = job[w].kind /\ (job[w].kind # "install" \/ PC(w) = "stop")
           /\ \/ PC(w)' = "end"
              \/ Link(job[w].kind, product, PC(w), PC(w)') /\ Proper(job[w].kind, product, PC(w)')
    <3>1. \/ Dies(w)
          \/ Onward(w) /\ (job[w].kind # "install" \/ PC(w) = "stop")
      BY <1>0, <1>2, FailMoves
    <3>2. Dies(w) => PC(w)' = "end" /\ job'[w].kind = "idle"
      BY DEF Dies, Idle
    <3>3. Onward(w) => /\ job'[w].kind = job[w].kind
                       /\ \/ PC(w)' = "end"
                          \/ Link(job[w].kind, product, PC(w), PC(w)') /\ Proper(job[w].kind, product, PC(w)')
      BY DEF Onward, SameJob
    <3> QED BY <3>1, <3>2, <3>3
  <2>5. CASE product = "lakekeeper" /\ tainted' \cap {"root", "database"} = {}
    <3>1. tainted \cap {"root", "database"} = {} /\ PC(w) \notin {"rmRoot", "dropDatabase"}
      BY <1>0, <1>2, <2>5, Remembered
    <3>2. /\ Fitting'
          /\ PC(w) # "credentials" => disk'.credentials = disk.credentials /\ disk'.database = disk.database
      BY <1>0, <2>1, <2>5, <3>1, HalvesKeepKeys
    <3>3. PC(w)' \notin {"dropDatabase", "provision"}
      BY <2>2, <2>4, <3>1 DEF Link, InstallLink, UninstallLink, Proper, Removals, Installs
    <3>4. job'[w].kind = "install" => PC(w) = "stop" /\ job[w].kind = "install"
      BY <2>4
    <3>5. job'[w].kind = "install" => disk'.database = disk'.credentials
      BY <2>5, <3>1, <3>2, <3>4 DEF Keys
    <3> QED BY <2>3, <3>2, <3>3, <3>5 DEF Keys
  <2> QED BY <2>1, <2>3, <2>5 DEF Keys
<1>3. CASE Reboot
  <2>1. product' = product /\ PC(w)' = "end" /\ job'[w].kind = "idle" /\ installed' = installed
    BY <1>0, <1>3, RebootMoves DEF Reboot, Dies, Idle
  <2>2. disk' = disk \/ (job[w].kind # "idle" /\ HalfOf(w, disk'))
    BY <1>0, <1>3, RebootMoves
  <2>3. CASE product = "lakekeeper" /\ tainted' \cap {"root", "database"} = {}
    <3>1. tainted \cap {"root", "database"} = {} /\ PC(w) \notin {"rmRoot", "dropDatabase"}
      BY <1>0, <1>3, <2>3, Remembered
    <3>2. Fitting'
      BY <1>0, <2>2, <2>3, <3>1, HalvesKeepKeys
    <3>3. installed # None => disk' = disk /\ disk.database = disk.credentials
      BY <2>2, <2>3, <3>1 DEF Keys
    <3> QED BY <2>1, <3>2, <3>3 DEF Keys
  <2> QED BY <2>1, <2>3, SMTT(30) DEF Keys
<1>4. ASSUME NEW kind \in {"install", "uninstall"}, NEW v \in Versions, Start(w, kind, v)
      PROVE  Keys(w)'
  <2>1. First(kind, product, PC(w)') /\ job'[w].kind = kind
    BY <1>0, <1>4, StartMoves
  <2>2. PC(w) = "end"
    BY <1>0, <1>4 DEF Start, Typed, JobsFlow, PC, Following
  <2>3. installed' = None /\ product' = product /\ tainted' = tainted /\ disk' = disk
    BY <1>4 DEF Start
  <2>4. /\ PC(w)' \notin {"dropDatabase", "provision"}
        /\ product = "lakekeeper" /\ kind = "install" => PC(w)' = "credentials"
    BY <2>1 DEF First
  <2> QED BY <2>1, <2>2, <2>3, <2>4 DEF Keys, Fitting
<1>5. CASE Finish(w)
  <2>1. PC(w)' = "end" /\ job'[w].kind = "idle"
    BY <1>0, <1>5, FinishMoves DEF Dies, Idle
  <2>2. PC(w) = "end"
    BY <1>5 DEF Finish, PC, Following
  <2>3. product' = product /\ tainted' = tainted /\ disk' = disk /\ (installed' # None => job[w].kind = "install")
    BY <1>5 DEF Finish
  <2> QED BY <2>1, <2>2, <2>3 DEF Keys, Fitting
<1>6. CASE EditConfig \/ RollBack \/ \E s \in Services : Respawn(s) \/ PortTaken(s)
  <2>1. job' = job /\ product' = product /\ installed' \in {installed, None}
        /\ ("root" \in tainted' <=> "root" \in tainted)
        /\ ("database" \in tainted' <=> "database" \in tainted)
    BY <1>6 DEF EditConfig, RollBack, Respawn, PortTaken
  <2>2. disk'.database = disk.database /\ disk'.credentials = disk.credentials
    BY <1>6 DEF EditConfig, RollBack, Respawn, PortTaken, Typed, TypeOK, DiskType
  <2> QED BY <2>1, <2>2 DEF Keys, Fitting, PC, Following
<1>7. CASE UNCHANGED vars
  BY <1>7 DEF vars, Keys, Fitting, PC, Following
<1> QED BY <1>0, <1>1, <1>2, <1>3, <1>4, <1>5, <1>6, <1>7 DEF Next

(* lakekeeper: once an install has ended, its daemon is configured with    *)
(* the key the database was encrypted under, across failed installs, torn  *)
(* credentials, uninstalls and reboots, unless an uninstall ended without  *)
(* dropping the database or left a part of the root directory.             *)
THEOREM DatabaseAlwaysKeepsItsKey ==
  ASSUME NEW w, Alone(w)
  PROVE  Spec => []DatabaseKeepsItsKey
<1>1. Init => Typed /\ Keys(w)
  <2>1. Init => Keys(w)
    BY DEF Alone, Init, Keys, Fitting, NoDisk, PC, Following, Idle
  <2> QED BY <2>1, TypedInit
<1>2. Typed /\ Keys(w) /\ [Next]_vars => (Typed /\ Keys(w))'
  BY TypedNext, KeysNext
<1>3. Typed /\ Keys(w) => DatabaseKeepsItsKey
  BY DEF Keys, DatabaseKeepsItsKey
<1> QED BY <1>1, <1>2, <1>3, PTL DEF Spec

-----------------------------------------------------------------------------
(* What an uninstall leaves of a service.                                  *)

Gone(s) == svc[s].running = None /\ svc[s].unit = None /\ svc[s].loaded = None

(* How far an uninstall that met no failure is with the main service: first *)
(* nothing runs, then no unit is left, then none is loaded.  What went      *)
(* wrong with the service before it, databend's, nobody knows.              *)
Removing(a) ==
  /\ a \notin {"stop", "bootout"} => svc["main"].running = None
  /\ a \in {"reload", "rmRoot", "rmData", "dropDatabase"} => svc["main"].unit = None
  /\ a \in {"rmRoot", "rmData", "dropDatabase"} => svc["main"].loaded = None
  /\ product \in Mac /\ a # "bootout" => svc["main"].loaded = None

RemovalsFit(w) ==
  /\ job[w].kind = "uninstall" /\ ~job[w].warned =>
       IF job[w].todo = <<>> THEN Gone("main") ELSE Serving(w) = "main" => Removing(PC(w))
  /\ job[w].kind = "idle" /\ result = "removed" => Gone("main")

(* The main service of an uninstall that is done. *)
LEMMA LastRemoval ==
  ASSUME product \in Known, NEW a, Closes("uninstall", product, a), Removing(a)
  PROVE  Gone("main")
<1>1. a \in {"rmRoot", "rmData", "dropDatabase"}
  BY DEF Closes
<1> QED BY <1>1 DEF Removing, Gone

(* Going on to the main service, at its first step. *)
LEMMA MainIsNext ==
  ASSUME NEW w, job[w].kind = "uninstall", Onward(w), Serving(w) # "main",
         Proper("uninstall", product, PC(w))
  PROVE  /\ job'[w].todo # <<>>
         /\ Serving(w)' = "main" => PC(w)' = "stop" /\ product \notin Mac
<1>1. job'[w].todo # <<>>
  BY DEF Onward
<1>2. OnService(w) /\ Link("uninstall", product, PC(w), PC(w)')
  BY <1>1 DEF Onward
<1>3. Serving(w)' = "main" => Seam(PC(w), PC(w)')
  BY <1>2 DEF OnService
<1>4. PC(w)' = "stop" => product = "databend"
  BY <1>2 DEF Link, UninstallLink
<1>5. PC(w) # "wait"
  BY DEF Proper, Removals
<1> QED BY <1>1, <1>3, <1>4, <1>5 DEF Seam, Mac

LEMMA RemovalStep ==
  ASSUME Typed, NEW w, w \in Workers, job[w].kind = "uninstall", Serving(w) = "main",
         Removing(PC(w)), Step(w), job'[w].kind = "uninstall"
  PROVE  IF job'[w].todo = <<>> THEN Gone("main")' ELSE Removing(PC(w))'
<1>1. Effects(w) /\ Proceeds(w) /\ job[w].todo # <<>> /\ product' = product
  BY StepEffects, StepMoves DEF Effects
<1>2. /\ Proper("uninstall", product, PC(w))
      /\ Service(w) = "main" /\ "main" \in Services
      /\ \A a : At(w, a) <=> PC(w) = a
  BY <1>1, Here
<1>3. /\ svc \in [Services -> ServiceType] /\ svc["main"] \in ServiceType
      /\ product \in Known
  BY <1>2, DriversAssumption DEF Typed, TypeOK
<1>. DEFINE a == PC(w)
            b == PC(w)'
<1>4. a \in Removals
  BY <1>2 DEF Proper
<1>5. Onward(w)
  BY <1>1, <1>2 DEF Proceeds, Dies, Idle
<1>6. /\ job'[w].todo = <<>> => Closes("uninstall", product, a)
      /\ job'[w].todo # <<>> => UninstallLink(product, a, b) /\ Proper("uninstall", product, b)
                                /\ b \in Removals /\ ~Seam(a, b)
  BY <1>5 DEF Onward, Link, OnService, Proper
<1>7. CASE a \in {"rmRoot", "rmData", "dropDatabase"}
  <2>1. RemoveRoot(w) \/ RemoveData(w) \/ DropDatabase(w)
    BY <1>2, <1>7, StepIs
  <2>2. svc' = svc
    BY <2>1 DEF RemoveRoot, RemoveData, DropDatabase, Becomes
  <2>3. CASE job'[w].todo = <<>>
    <3>1. Gone("main")
      BY <1>3, <1>6, <2>3, LastRemoval
    <3> QED BY <2>2, <2>3, <3>1 DEF Gone
  <2>4. CASE job'[w].todo # <<>>
    <3>1. b = "dropDatabase"
      BY <1>6, <1>7, <2>4 DEF UninstallLink, Seam, Removals, Mac, DistroFirst
    <3> QED BY <1>1, <1>7, <2>2, <2>4, <3>1 DEF Removing
  <2> QED BY <2>3, <2>4
<1>8. CASE a \notin {"rmRoot", "rmData", "dropDatabase"}
  <2>1. job'[w].todo # <<>>
    BY <1>6, <1>8 DEF Closes
  <2>2. b \in Removals /\ UninstallLink(product, a, b) /\ Proper("uninstall", product, b)
    BY <1>6, <2>1
  <2>. SUFFICES /\ b \notin {"stop", "bootout"} => svc'["main"].running = None
                /\ b \in {"reload", "rmRoot", "rmData", "dropDatabase"} => svc'["main"].unit = None
                /\ b \in {"rmRoot", "rmData", "dropDatabase"} => svc'["main"].loaded = None
                /\ product \in Mac /\ b # "bootout" => svc'["main"].loaded = None
    BY <1>1, <2>1 DEF Removing
  <2>5. CASE a = "stop"
    <3>1. Stop(w)
      BY <1>2, <2>5, StepIs
    <3>2. svc' = [svc EXCEPT !["main"].running = None]
      BY <1>2, <3>1 DEF Stop
    <3>3. svc'["main"].running = None
      BY <1>2, <1>3, <3>2 DEF ServiceType
    <3>4. b \in {"disable", "unregister"} /\ product \notin Mac
      BY <1>2, <2>2, <2>5 DEF UninstallLink, Removals, Proper
    <3> QED BY <3>3, <3>4
  <2>6. CASE a = "disable"
    <3>1. Disable(w)
      BY <1>2, <2>6, StepIs
    <3>2. svc' = [svc EXCEPT !["main"] = [svc["main"] EXCEPT !.enabled = FALSE]]
      BY <1>2, <3>1 DEF Disable, Manages, Now
    <3>3. svc'["main"].running = svc["main"].running
      BY <1>2, <1>3, <3>2 DEF ServiceType
    <3>4. b = "rmUnit" /\ product \notin Mac
      BY <2>2, <2>6 DEF UninstallLink, Removals
    <3> QED BY <2>6, <3>3, <3>4 DEF Removing
  <2>7. CASE a = "rmUnit"
    <3>1. RemoveUnit(w)
      BY <1>2, <2>7, StepIs
    <3>2. svc' = [svc EXCEPT !["main"] = [svc["main"] EXCEPT !.unit = None]]
      BY <1>2, <3>1 DEF RemoveUnit, Manages, Now
    <3>3. /\ svc'["main"].running = svc["main"].running
          /\ svc'["main"].loaded = svc["main"].loaded /\ svc'["main"].unit = None
      BY <1>2, <1>3, <3>2 DEF ServiceType
    <3>4. b = "reload" \/ (b = "rmData" /\ product \in Mac)
      BY <2>2, <2>7 DEF UninstallLink, Removals
    <3> QED BY <2>7, <3>3, <3>4 DEF Removing
  <2>8. CASE a = "reload"
    <3>1. Reload(w)
      BY <1>2, <2>8, StepIs
    <3>2. svc' = [t \in Services |-> [svc[t] EXCEPT !.loaded = svc[t].unit]]
      BY <3>1 DEF Reload
    <3>3. /\ svc'["main"].running = svc["main"].running
          /\ svc'["main"].unit = svc["main"].unit /\ svc'["main"].loaded = svc["main"].unit
      BY <1>2, <1>3, <3>2 DEF ServiceType
    <3> QED BY <1>2, <2>8, <3>3 DEF Removing, Proper
  <2>9. CASE a = "bootout"
    <3>1. BootOut(w)
      BY <1>2, <2>9, StepIs
    <3>2. svc' = [svc EXCEPT !["main"] = [svc["main"] EXCEPT !.loaded = None, !.running = None]]
      BY <1>2, <3>1 DEF BootOut, Manages, Now
    <3>3. svc'["main"].running = None /\ svc'["main"].loaded = None
      BY <1>2, <1>3, <3>2 DEF ServiceType
    <3>4. b = "rmUnit"
      BY <2>2, <2>9 DEF UninstallLink, Removals
    <3> QED BY <3>3, <3>4
  <2>10. CASE a = "unregister"
    <3>1. Unregister(w)
      BY <1>2, <2>10, StepIs
    <3>2. svc' = [svc EXCEPT !["main"] =
                   [svc["main"] EXCEPT !.unit = None, !.loaded = None, !.enabled = FALSE]]
      BY <1>2, <3>1 DEF Unregister, Manages, Now
    <3>3. /\ svc'["main"].running = svc["main"].running
          /\ svc'["main"].unit = None /\ svc'["main"].loaded = None
      BY <1>2, <1>3, <3>2 DEF ServiceType
    <3> QED BY <2>10, <3>3 DEF Removing
  <2> QED BY <1>4, <1>8, <2>5, <2>6, <2>7, <2>8, <2>9, <2>10 DEF Removals
<1> QED BY <1>7, <1>8

LEMMA RemovalsNext ==
  ASSUME NEW w, Alone(w), Typed, RemovalsFit(w), [Next]_vars
  PROVE  RemovalsFit(w)'
<1>0. w \in Workers /\ (\A u \in Workers : u = w) /\ Workers = {w} /\ "main" \in Services
  BY DEF Alone, Services
<1>a. svc \in [Services -> ServiceType] /\ svc["main"] \in ServiceType /\ product \in Known
  BY <1>0, DriversAssumption DEF Typed, TypeOK
<1>1. CASE Step(w)
  <2>1. Effects(w) /\ Proceeds(w) /\ job[w].todo # <<>> /\ product' = product
    BY <1>0, <1>1, StepEffects, StepMoves DEF Effects
  <2>2. job'[w].kind = job[w].kind \/ (job'[w].kind = "idle" /\ result' = "blocked")
    BY <2>1 DEF Proceeds, Onward, SameJob, Dies, Idle
  <2>3. job[w].kind \in {"install", "uninstall"}
    BY <1>0, <2>1, Here
  <2>4. CASE job'[w].kind = "uninstall" /\ ~job'[w].warned
    <3>1. job[w].kind = "uninstall"
      BY <2>2, <2>4
    <3>2. Onward(w) /\ job'[w].warned = job[w].warned
      BY <2>1, <2>4, <3>1 DEF Proceeds, Dies, Idle
    <3>3. CASE Serving(w) = "main"
      <4>1. Removing(PC(w))
        BY <2>1, <2>4, <3>1, <3>2, <3>3 DEF RemovalsFit
      <4>2. IF job'[w].todo = <<>> THEN Gone("main")' ELSE Removing(PC(w))'
        BY <1>0, <1>1, <2>4, <3>1, <3>3, <4>1, RemovalStep
      <4> QED BY <2>4, <4>2 DEF RemovalsFit
    <3>4. CASE Serving(w) # "main"
      <4>1. job'[w].todo # <<>> /\ (Serving(w)' = "main" => PC(w)' = "stop" /\ product \notin Mac)
        BY <1>0, <2>1, <3>1, <3>2, <3>4, Here, MainIsNext
      <4> QED BY <2>1, <2>4, <4>1 DEF RemovalsFit, Removing
    <3> QED BY <3>3, <3>4
  <2> QED BY <2>2, <2>3, <2>4 DEF RemovalsFit
<1>2. CASE Fail(w)
  <2>1. job[w].todo # <<>> /\ product' = product
    BY <1>2 DEF Fail
  <2>2. \/ Dies(w) /\ result' = "failed"
        \/ /\ Onward(w)
           /\ PC(w) = "dropDatabase" \/ Serving(w) = "meta" \/ job'[w].warned = TRUE
    BY <1>0, <1>2, FailMoves
  <2>3. CASE Dies(w) /\ result' = "failed"
    BY <2>3 DEF Dies, Idle, RemovalsFit
  <2>a. /\ \A a : At(w, a) <=> PC(w) = a
        /\ Proper(job[w].kind, product, PC(w)) /\ job[w].kind \in {"install", "uninstall"}
        /\ Service(w) = Serving(w) /\ Serving(w) \in {"main", "meta"}
    BY <1>0, <2>1, Here DEF Services
  <2>4. CASE Onward(w) /\ job'[w].warned = TRUE
    <3>1. job'[w].kind = job[w].kind
      BY <2>4 DEF Onward, SameJob
    <3> QED BY <2>4, <2>a, <3>1 DEF RemovalsFit
  <2>5. CASE Onward(w) /\ PC(w) = "dropDatabase" /\ Serving(w) = "main"
    <3>2. job[w].kind = "uninstall" /\ job'[w].kind = "uninstall"
      BY <2>5, <2>a DEF Onward, SameJob, Proper, Installs
    <3>3. svc' = svc
      BY <1>2, <2>5, <2>a DEF Fail, HalfManaged
    <3>4. job'[w].todo = <<>>
      BY <2>5, <3>2 DEF Onward, Link, UninstallLink, Proper, Removals
    <3>5. Closes("uninstall", product, PC(w))
      BY <2>5, <3>2, <3>4 DEF Onward
    <3>6. ASSUME ~job'[w].warned PROVE Gone("main")
      <4>1. ~job[w].warned
        <5>1. PICK warned \in BOOLEAN :
                job' = [job EXCEPT ![w].todo = Tail(@), ![w].warned = @ \/ warned]
          BY <1>2, <2>5, <2>a, <3>2 DEF Fail
        <5>2. job \in [Workers -> JobType]
          BY DEF Typed, JobsFlow
        <5> QED BY <1>0, <3>6, <5>1, <5>2 DEF JobType
      <4>2. Removing(PC(w))
        BY <2>1, <2>5, <3>2, <4>1 DEF RemovalsFit
      <4> QED BY <1>a, <3>5, <4>2, LastRemoval
    <3> QED BY <3>2, <3>3, <3>4, <3>6 DEF RemovalsFit, Gone
  <2>6. CASE Onward(w) /\ Serving(w) = "meta"
    <3>1. job'[w].kind = job[w].kind
      BY <2>6 DEF Onward, SameJob
    <3>2. CASE job[w].kind = "uninstall"
      <4>1. job'[w].todo # <<>> /\ (Serving(w)' = "main" => PC(w)' = "stop" /\ product \notin Mac)
        BY <2>6, <2>a, <3>2, MainIsNext
      <4> QED BY <2>1, <3>1, <3>2, <4>1 DEF RemovalsFit, Removing
    <3> QED BY <2>a, <3>1, <3>2 DEF RemovalsFit
  <2> QED BY <2>2, <2>3, <2>4, <2>5, <2>6, <2>a
<1>3. CASE Reboot
  <2>1. job'[w].kind = "idle"
    BY <1>0, <1>3, RebootMoves DEF Dies, Idle
  <2>2. CASE result' = "removed"
    <3>1. job[w].kind = "idle" /\ result = "removed"
      BY <1>0, <1>3, <2>2 DEF Reboot
    <3>2. svc["main"].unit = None
      BY <3>1 DEF RemovalsFit, Gone
    <3>3. PICK runs \in [Services -> Versions \cup {None}] :
            /\ \A s \in Services : runs[s] \in
                 IF svc[s].enabled THEN Comes(disk', svc[s].unit, tainted) ELSE {None}
            /\ svc' = [s \in Services |->
                 [svc[s] EXCEPT !.loaded = svc[s].unit, !.running = runs[s]]]
      BY <1>3 DEF Reboot
    <3>4. runs["main"] = None
      <4>1. runs["main"] \in IF svc["main"].enabled THEN Comes(disk', None, tainted) ELSE {None}
        BY <1>0, <3>2, <3>3
      <4>2. Runs(disk', None) = {None}
        BY DEF Runs
      <4> QED BY <4>1, <4>2 DEF Comes
    <3>5. svc'["main"].running = None /\ svc'["main"].unit = None /\ svc'["main"].loaded = None
      BY <1>0, <1>a, <3>2, <3>3, <3>4 DEF ServiceType
    <3> QED BY <2>1, <3>5 DEF RemovalsFit, Gone
  <2> QED BY <2>1, <2>2 DEF RemovalsFit
<1>4. ASSUME NEW kind \in {"install", "uninstall"}, NEW v \in Versions, Start(w, kind, v)
      PROVE  RemovalsFit(w)'
  <2>1. job'[w].kind = kind /\ job'[w].todo # <<>> /\ First(kind, product, PC(w)')
    BY <1>0, <1>4, StartMoves
  <2>2. product' = product
    BY <1>4 DEF Start
  <2>3. kind = "uninstall" => PC(w)' \in {"stop", "bootout"} /\ (product \in Mac => PC(w)' = "bootout")
    BY <2>1 DEF First
  <2>4. kind = "uninstall" => Removing(PC(w))'
    BY <2>2, <2>3 DEF Removing
  <2> QED BY <2>1, <2>4 DEF RemovalsFit
<1>5. CASE Finish(w)
  <2>1. job'[w].kind = "idle"
    BY <1>0, <1>5, FinishMoves DEF Dies, Idle
  <2>2. /\ svc' = svc /\ job[w].todo = <<>>
        /\ result' = "removed" => job[w].kind # "install" /\ ~job[w].warned
        /\ job[w].kind # "idle"
    BY <1>5 DEF Finish
  <2>3. job[w].kind \in {"idle", "install", "uninstall"}
    BY <1>0 DEF Typed, JobsFlow, JobType
  <2>4. result' = "removed" => Gone("main")
    BY <2>2, <2>3 DEF RemovalsFit
  <2> QED BY <2>1, <2>2, <2>4 DEF RemovalsFit, Gone
<1>6. CASE EditConfig
  BY <1>6 DEF EditConfig, RemovalsFit, Removing, Gone, PC, Following, Serving
<1>7. CASE RollBack
  <2>1. job[w].kind = "idle" /\ job' = job /\ result' = result /\ svc["main"].loaded # None
    BY <1>0, <1>7 DEF RollBack, AllIdle
  <2>2. result # "removed"
    BY <2>1 DEF RemovalsFit, Gone
  <2> QED BY <2>1, <2>2 DEF RemovalsFit
<1>8. ASSUME NEW r \in Services, Respawn(r) \/ PortTaken(r)
      PROVE  RemovalsFit(w)'
  <2>1. /\ Respawn(r) => svc[r].running # None
        /\ job' = job /\ result' = result /\ product' = product
    BY <1>8 DEF Respawn, PortTaken
  <2>2. PICK x : svc' = [svc EXCEPT ![r].running = x] /\ (PortTaken(r) => x = None)
    BY <1>8 DEF Respawn, PortTaken
  <2>3. /\ svc'["main"].unit = svc["main"].unit /\ svc'["main"].loaded = svc["main"].loaded
        /\ svc["main"].running = None => svc'["main"].running = None
    BY <1>0, <1>8, <1>a, <2>1, <2>2 DEF ServiceType
  <2>4. Gone("main") => Gone("main")'
    BY <2>3 DEF Gone
  <2>5. Removing(PC(w)) => Removing(PC(w))'
    BY <2>1, <2>3 DEF Removing, PC, Following
  <2> QED BY <2>1, <2>4, <2>5 DEF RemovalsFit, Serving
<1>9. CASE UNCHANGED vars
  BY <1>9 DEF vars, RemovalsFit, Removing, Gone, PC, Following, Serving
<1> QED BY <1>0, <1>1, <1>2, <1>3, <1>4, <1>5, <1>6, <1>7, <1>8, <1>9 DEF Next

(* uninstall_service: an uninstall that ends without a warning leaves the  *)
(* product's service neither running, loaded nor registered, whatever its  *)
(* installs left behind, and reboots and respawns do not bring it back;    *)
(* of databend's second service, whose warnings are thrown away, it says   *)
(* nothing.                                                                *)
THEOREM CleanUninstallAlwaysGone ==
  ASSUME NEW w, Alone(w)
  PROVE  Spec => []CleanUninstallIsGone
<1>1. Init => Typed /\ RemovalsFit(w)
  <2>1. Init => RemovalsFit(w)
    BY DEF Alone, Init, RemovalsFit, Idle
  <2> QED BY <2>1, TypedInit
<1>2. Typed /\ RemovalsFit(w) /\ [Next]_vars => (Typed /\ RemovalsFit(w))'
  BY TypedNext, RemovalsNext
<1>3. Typed /\ RemovalsFit(w) => CleanUninstallIsGone
  BY DEF RemovalsFit, CleanUninstallIsGone, Gone, AllIdle, Alone, Services
<1> QED BY <1>1, <1>2, <1>3, PTL DEF Spec

-----------------------------------------------------------------------------
(* Releases and current.                                                   *)

(* What the releases directory always holds: a binary in each release that *)
(* ran its probe, and under current a release that did.                    *)
Sound(d) ==
  /\ \A i \in DOMAIN d.releases : d.releases[i].probed => d.releases[i].binary # None
  /\ d.current # 0 /\ "root" \notin tainted =>
       d.current \in DOMAIN d.releases /\ d.releases[d.current].probed

(* What an install knows of the release it stages, step by step. *)
Staging(a, d) ==
  /\ a \in {"newRelease", "copy"} => d.built # None
  /\ a \in {"copy", "probe", "manifest", "stop", "swap"} => d.releases # <<>>
  /\ a \in {"probe", "manifest", "stop", "swap"} => d.releases[Len(d.releases)].binary # None
  /\ a \in {"manifest", "stop", "swap"} => d.releases[Len(d.releases)].probed

ReleasesFit(w) ==
  /\ Sound(disk)
  /\ product \notin Released => disk.releases = <<>> /\ disk.current = 0
  /\ product \in Released /\ job[w].kind = "install" => Staging(PC(w), disk)

(* Writing the newest release. *)
LEMMA NewestWritten ==
  ASSUME NEW d \in DiskType, d.releases # <<>>, NEW r \in Release,
         NEW e, e = [d EXCEPT !.releases = [@ EXCEPT ![Len(d.releases)] = r]]
  PROVE  /\ e.current = d.current /\ DOMAIN e.releases = DOMAIN d.releases
         /\ Len(e.releases) = Len(d.releases) /\ e.releases # <<>>
         /\ Len(d.releases) \in DOMAIN d.releases
         /\ e.releases[Len(e.releases)] = r
         /\ \A i \in DOMAIN d.releases : i # Len(d.releases) => e.releases[i] = d.releases[i]
<1>. DEFINE q == d.releases
            p == [q EXCEPT ![Len(q)] = r]
<1>1. q \in Seq(Release) /\ Len(q) \in Nat /\ Len(q) > 0 /\ DOMAIN q = 1..Len(q)
  BY DEF DiskType
<1>2. e.releases = p /\ e.current = d.current
  BY DEF DiskType
<1>3. Len(q) \in DOMAIN q
  BY <1>1
<1>4. p \in Seq(Release) /\ Len(p) = Len(q) /\ DOMAIN p = DOMAIN q /\ p[Len(q)] = r
      /\ \A i \in DOMAIN q : i # Len(q) => p[i] = q[i]
  BY <1>1
<1>5. p # <<>>
  <2>. HIDE DEF p, q
  <2> QED BY <1>1, <1>4
<1> QED BY <1>2, <1>3, <1>4, <1>5

(* Each step of an install that stages or promotes a release. *)
LEMMA StagingKept ==
  ASSUME NEW w, w \in Workers, Typed, ReleasesFit(w), Step(w), product \in Released,
         job[w].kind = "install", job'[w].kind = "install"
  PROVE  Sound(disk)' /\ Staging(PC(w)', disk')
<1>1. /\ Effects(w) /\ Proceeds(w) /\ job[w].todo # <<>> /\ product' = product
  BY StepEffects, StepMoves DEF Effects
<1>2. /\ Proper("install", product, PC(w)) /\ job[w].version \in Versions
      /\ \A a : At(w, a) <=> PC(w) = a
  BY <1>1, Here
<1>3. disk \in DiskType /\ disk' \in DiskType
  BY StepsTyped DEF Typed, TypeOK
<1>4. PC(w)' = "end" \/ InstallLink(product, PC(w), PC(w)')
  <2>1. PC(w) # "check" /\ PC(w) # "distroOrBundle"
    BY <1>2 DEF Proper, Released
  <2>2. Onward(w)
    BY <1>1, <2>1 DEF Proceeds, Dies, Idle
  <2> QED BY <2>2 DEF Onward, Link
<1>. DEFINE a == PC(w)
            b == PC(w)'
<1>5. /\ b = "newRelease" => a = "build"
      /\ b = "copy" => a = "newRelease"
      /\ b = "probe" => a = "copy"
      /\ b = "manifest" => a = "probe"
      /\ b = "stop" => a = "manifest"
      /\ b = "swap" => a = "stop"
  BY <1>4 DEF InstallLink
<1>6. tainted' = tainted \/ (a = "stop" /\ tainted' \in {tainted, tainted \ {"running"}})
  BY <1>1, <1>2 DEF Effects, Writers, Stop, RemoveRoot, DropDatabase, Proper, Installs
<1>7. "root" \notin tainted' => "root" \notin tainted
  BY <1>6
<1>8. Sound(disk) /\ Staging(a, disk)
  BY DEF ReleasesFit
<1>. HIDE DEF b
<1>9. CASE a = "build"
  <2>1. Build(w)
    BY <1>2, <1>9, StepIs
  <2>2. PICK v \in SourceOf(w) : IF disk.source[v] = "whole" /\ disk.toolchain = "whole"
                                 THEN Becomes(w, "build", [disk EXCEPT !.built = v])
                                 ELSE Needs(w, "build", FALSE)
    BY <2>1 DEF Build
  <2>3. v # None
    BY <1>2, DriversAssumption DEF SourceOf, Extracted, Version
  <2>4. ~Needs(w, "build", FALSE)
    <3>1. job \in [Workers -> JobType]
      BY DEF Typed, JobsFlow
    <3> QED BY <3>1 DEF Needs, Idle
  <2>5. disk' = [disk EXCEPT !.built = v]
    BY <2>2, <2>4 DEF Becomes
  <2>6. disk'.built # None /\ disk'.releases = disk.releases /\ disk'.current = disk.current
    BY <1>3, <2>3, <2>5 DEF DiskType
  <2>7. b \notin {"copy", "probe", "manifest", "stop", "swap"}
    BY <1>5, <1>9 DEF b
  <2> QED BY <1>7, <1>8, <2>6, <2>7 DEF Sound, Staging, b
<1>10. CASE a = "newRelease"
  <2>1. NewRelease(w)
    BY <1>2, <1>10, StepIs
  <2>. DEFINE r == [label |-> None, binary |-> None, probed |-> FALSE]
              q == disk.releases
              p == Append(q, r)
  <2>2. disk'.releases = p /\ disk'.current = disk.current /\ disk'.built = disk.built
    BY <1>3, <2>1 DEF NewRelease, Becomes, DiskType
  <2>3. /\ p # <<>> /\ DOMAIN p = 1..(Len(q) + 1) /\ DOMAIN q = 1..Len(q) /\ Len(q) \in Nat
        /\ \A i \in DOMAIN q : p[i] = q[i]
        /\ p[Len(q) + 1] = r
    <3>1. q \in Seq(Release)
      BY <1>3 DEF DiskType
    <3>. HIDE DEF r, q
    <3> QED BY <3>1
  <2>4. b \notin {"newRelease", "probe", "manifest", "stop", "swap"}
    BY <1>5, <1>10 DEF b
  <2>5. disk.built # None
    BY <1>8, <1>10 DEF Staging
  <2>6. r.probed = FALSE
    OBVIOUS
  <2>. HIDE DEF p, r
  <2>7. \A i \in DOMAIN p : i \in DOMAIN q \/ i = Len(q) + 1
    BY <2>3
  <2>8. \A i \in DOMAIN q : i \in DOMAIN p
    BY <2>3
  <2>9. Sound(disk)'
    BY <1>7, <1>8, <2>2, <2>3, <2>6, <2>7, <2>8 DEF Sound
  <2> QED BY <2>2, <2>3, <2>4, <2>5, <2>9 DEF Staging, b
<1>11. CASE a \in {"copy", "probe", "manifest"}
  <2>. DEFINE n == Len(disk.releases)
              r == disk.releases[n]
  <2>1. disk.releases # <<>> /\ n \in DOMAIN disk.releases /\ r \in Release
    <3>1. disk.releases # <<>> /\ disk.releases \in Seq(Release)
      BY <1>3, <1>8, <1>11 DEF Staging, DiskType
    <3> QED BY <3>1
  <2>2. /\ a = "copy" => disk.built # None
        /\ a \in {"probe", "manifest"} => r.binary # None
        /\ a = "manifest" => r.probed
    BY <1>8, <1>11 DEF Staging
  <2>3. PICK s \in Release : /\ disk' = [disk EXCEPT !.releases = [@ EXCEPT ![n] = s]]
                             /\ s.binary # None
                             /\ a \in {"probe", "manifest"} => s.probed
                             /\ s.probed => r.probed \/ a = "probe"
    <3>1. CASE a = "copy"
      <4>1. Copy(w)
        BY <1>2, <3>1, StepIs
      <4>. DEFINE s == [r EXCEPT !.binary = disk.built]
      <4>2. disk' = [disk EXCEPT !.releases[Len(disk.releases)].binary = disk.built]
        BY <4>1 DEF Copy, Becomes, Newest
      <4>3. disk' = [disk EXCEPT !.releases = [@ EXCEPT ![n] = s]]
        BY <4>2
      <4>4. s \in Release /\ s.binary = disk.built /\ s.probed = r.probed
        BY <1>3, <2>1 DEF Release, DiskType
      <4>. HIDE DEF s, n, r
      <4> QED BY <2>2, <3>1, <4>3, <4>4
    <3>2. CASE a = "probe"
      <4>1. Probe(w)
        BY <1>2, <3>2, StepIs
      <4>. DEFINE s == [r EXCEPT !.probed = TRUE]
      <4>2. disk' = [disk EXCEPT !.releases[Len(disk.releases)].probed = TRUE]
        BY <4>1 DEF Probe, Becomes, Newest
      <4>3. disk' = [disk EXCEPT !.releases = [@ EXCEPT ![n] = s]]
        BY <4>2
      <4>4. s \in Release /\ s.binary = r.binary /\ s.probed = TRUE
        BY <2>1 DEF Release
      <4>. HIDE DEF s, n, r
      <4> QED BY <2>2, <3>2, <4>3, <4>4
    <3>3. CASE a = "manifest"
      <4>1. Manifest(w)
        BY <1>2, <3>3, StepIs
      <4>. DEFINE s == [r EXCEPT !.label = Version(w)]
      <4>2. disk' = [disk EXCEPT !.releases[Len(disk.releases)].label = Version(w)]
        BY <4>1 DEF Manifest, Becomes, Newest
      <4>3. disk' = [disk EXCEPT !.releases = [@ EXCEPT ![n] = s]]
        BY <4>2
      <4>4. s \in Release /\ s.binary = r.binary /\ s.probed = r.probed
        BY <1>2, <2>1 DEF Release, Some, Version
      <4>. HIDE DEF s, n, r
      <4> QED BY <2>2, <3>3, <4>3, <4>4
    <3> QED BY <1>11, <3>1, <3>2, <3>3
  <2>4. /\ disk'.current = disk.current /\ DOMAIN disk'.releases = DOMAIN disk.releases
        /\ Len(disk'.releases) = n /\ disk'.releases # <<>>
        /\ disk'.releases[Len(disk'.releases)] = s
        /\ \A i \in DOMAIN disk.releases : i # n => disk'.releases[i] = disk.releases[i]
    BY <1>3, <2>1, <2>3, NewestWritten
  <2>5. r.probed => s.probed
    <3>1. a = "copy" \/ a \in {"probe", "manifest"}
      BY <1>11
    <3>2. CASE a = "copy"
      <4>1. Copy(w)
        BY <1>2, <3>2, StepIs
      <4>2. disk' = [disk EXCEPT !.releases[n].binary = disk.built]
        BY <4>1 DEF Copy, Becomes, Newest
      <4>3. disk'.releases[n].probed = r.probed
        BY <1>3, <2>1, <4>2 DEF DiskType, Release
      <4> QED BY <2>4, <4>3
    <3> QED BY <2>3, <3>1, <3>2
  <2>6. b \notin {"newRelease", "copy", "swap"} /\ (b \in {"manifest", "stop"} => a \in {"probe", "manifest"})
    BY <1>5, <1>11 DEF b
  <2>. HIDE DEF n, r
  <2>7. Sound(disk)'
    BY <1>7, <1>8, <2>3, <2>4, <2>5 DEF Sound, n, r
  <2> QED BY <2>3, <2>4, <2>6, <2>7 DEF Staging, b
<1>12. CASE a = "swap"
  <2>1. Swap(w)
    BY <1>2, <1>12, StepIs
  <2>2. disk'.current = Len(disk.releases) /\ disk'.releases = disk.releases
    BY <1>3, <2>1 DEF Swap, Becomes, Newest, DiskType
  <2>3. disk.releases # <<>> /\ disk.releases[Len(disk.releases)].probed
    BY <1>8, <1>12 DEF Staging
  <2>4. Len(disk.releases) \in DOMAIN disk.releases
    BY <1>3, <2>3 DEF DiskType
  <2>5. b \notin {"newRelease", "copy", "probe", "manifest", "stop", "swap"}
    BY <1>5, <1>12 DEF b
  <2> QED BY <1>8, <2>2, <2>3, <2>4, <2>5 DEF Sound, Staging, b
<1>13. CASE a = "prune"
  <2>1. disk' = Pruned(disk)
    BY <1>2, <1>13, StepIs DEF Prune, Becomes
  <2>2. /\ \A k \in DOMAIN disk'.releases : \E i \in DOMAIN disk.releases : disk'.releases[k] = disk.releases[i]
        /\ disk.current = 0 => disk'.current = 0
        /\ disk.current \in DOMAIN disk.releases =>
             disk'.current \in DOMAIN disk'.releases /\ disk'.releases[disk'.current] = disk.releases[disk.current]
    <3>. DEFINE e == Pruned(disk)
    <3>1. /\ \A k \in DOMAIN e.releases : \E i \in DOMAIN disk.releases : e.releases[k] = disk.releases[i]
          /\ disk.current = 0 => e.current = 0
          /\ disk.current \in DOMAIN disk.releases =>
               e.current \in DOMAIN e.releases /\ e.releases[e.current] = disk.releases[disk.current]
      BY <1>3, PrunedFits
    <3>2. disk' = e
      BY <2>1
    <3>. HIDE DEF e
    <3> QED BY <3>1, <3>2
  <2>3. b \notin {"newRelease", "copy", "probe", "manifest", "stop", "swap"}
    BY <1>5, <1>13 DEF b
  <2>4. Sound(disk)'
    BY <1>7, <1>8, <2>2 DEF Sound
  <2> QED BY <2>3, <2>4 DEF Staging, b
<1>14. CASE a \notin {"build", "newRelease", "copy", "probe", "manifest", "swap", "prune"}
  <2>1. disk'.releases = disk.releases /\ disk'.current = disk.current /\ disk'.built = disk.built
    <3>1. a # "rmRoot"
      BY <1>2 DEF Proper, Installs
    <3> QED BY <1>1, <1>2, <1>14, <3>1
            DEF Effects, Writers, NewRelease, Copy, Probe, Manifest, Prune, RemoveRoot, Swap, Build, Becomes
  <2>2. b \in {"newRelease", "copy", "probe", "manifest", "stop", "swap"} => b = "swap" /\ a = "stop"
    BY <1>5, <1>14 DEF b
  <2>3. b = "swap" => Staging(b, disk)
    BY <1>8, <2>2 DEF Staging
  <2> QED BY <1>7, <1>8, <2>1, <2>2, <2>3 DEF Sound, Staging, b
<1> QED BY <1>9, <1>10, <1>11, <1>12, <1>13, <1>14

(* The releases of a disk that a step leaves half-written, or as it was. *)
LEMMA HalvesKeepReleases ==
  ASSUME Typed, NEW w \in Workers, job[w].todo # <<>>, disk' = disk \/ HalfOf(w, disk')
  PROVE  /\ disk'.built = disk.built /\ disk'.current = disk.current
         /\ PC(w) # "rmRoot" => disk'.releases = disk.releases
         /\ disk'.releases \in {disk.releases, <<>>}
<1>1. CASE disk' = disk
  BY <1>1
<1>2. CASE HalfOf(w, disk')
  <2>1. /\ disk'.built = disk.built /\ disk'.current = disk.current
        /\ PC(w) # "rmRoot" => disk'.releases = disk.releases
    BY <1>2, HalfWriters
  <2>2. PC(w) = "rmRoot" => disk'.releases \in {disk.releases, <<>>}
    <3>1. \A a : At(w, a) <=> PC(w) = a
      BY Here
    <3>2. disk \in DiskType
      BY DEF Typed, TypeOK
    <3> QED BY <1>2, <3>1, <3>2 DEF HalfOf, HalfRemoved, DiskType
  <2> QED BY <2>1, <2>2
<1> QED BY <1>1, <1>2

LEMMA ReleasesNext ==
  ASSUME NEW w, Alone(w), Typed, ReleasesFit(w), [Next]_vars
  PROVE  ReleasesFit(w)'
<1>0. w \in Workers /\ (\A u \in Workers : u = w) /\ Workers = {w}
  BY DEF Alone
<1>a. disk \in DiskType
  BY DEF Typed, TypeOK
<1>1. CASE Step(w)
  <2>1. /\ Effects(w) /\ Proceeds(w) /\ job[w].todo # <<>> /\ product' = product
    BY <1>0, <1>1, StepEffects, StepMoves DEF Effects
  <2>2. /\ Proper(job[w].kind, product, PC(w)) /\ job[w].kind \in {"install", "uninstall"}
        /\ \A a : At(w, a) <=> PC(w) = a
    BY <1>0, <2>1, Here
  <2>3. job'[w].kind = job[w].kind \/ (job'[w].kind = "idle" /\ UNCHANGED <<disk, tainted>>)
    BY <2>1 DEF Proceeds, Onward, SameJob, Dies, Idle
  <2>4. CASE job'[w].kind = "idle" /\ UNCHANGED <<disk, tainted>>
    BY <2>1, <2>4 DEF ReleasesFit, Sound
  <2>5. CASE job'[w].kind = "install" /\ job[w].kind = "install" /\ product \in Released
    BY <1>0, <1>1, <2>1, <2>5, StagingKept DEF ReleasesFit
  <2>6. CASE PC(w) = "rmRoot" /\ job'[w].kind = "uninstall"
    <3>1. RemoveRoot(w)
      BY <1>1, <2>2, <2>6, StepIs
    <3>2. disk'.releases = <<>> /\ disk'.current = 0
      BY <3>1 DEF RemoveRoot, NoDisk
    <3>3. DOMAIN disk'.releases = {}
      BY <3>2
    <3> QED BY <2>1, <2>6, <3>2, <3>3 DEF ReleasesFit, Sound
  <2>7. CASE PC(w) # "rmRoot" /\ (product \notin Released \/ job[w].kind = "uninstall")
             /\ job'[w].kind = job[w].kind
    <3>1. PC(w) \notin {"newRelease", "copy", "probe", "manifest", "swap", "prune"}
      BY <2>2, <2>7 DEF Proper, Removals
    <3>2. disk'.releases = disk.releases /\ disk'.current = disk.current
      BY <2>1, <2>2, <2>7, <3>1
         DEF Effects, Writers, NewRelease, Copy, Probe, Manifest, Prune, RemoveRoot, Swap, Becomes
    <3>3. "root" \notin tainted' => "root" \notin tainted
      BY <2>1, <2>2, <2>7 DEF Effects, Writers, Stop, RemoveRoot, DropDatabase
    <3> QED BY <2>1, <2>2, <2>7, <3>2, <3>3 DEF ReleasesFit, Sound
  <2>8. PC(w) = "rmRoot" => job[w].kind = "uninstall"
    BY <2>2 DEF Proper, Installs
  <2> QED BY <2>2, <2>3, <2>4, <2>5, <2>6, <2>7, <2>8
<1>2. CASE Fail(w)
  <2>1. product' = product /\ (disk' = disk \/ HalfOf(w, disk')) /\ job[w].todo # <<>>
    BY <1>2, Halves DEF Fail
  <2>2. /\ Proper(job[w].kind, product, PC(w)) /\ job[w].kind \in {"install", "uninstall"}
    BY <1>0, <2>1, Here
  <2>3. /\ disk'.built = disk.built /\ disk'.current = disk.current
        /\ PC(w) # "rmRoot" => disk'.releases = disk.releases
        /\ disk'.releases \in {disk.releases, <<>>}
    BY <1>0, <2>1, HalvesKeepReleases
  <2>4. Sound(disk)'
    <3>1. CASE PC(w) = "rmRoot"
      <4>1. "root" \in tainted'
        BY <1>0, <1>2, <3>1, Remembered
      <4>3. DOMAIN <<>> = {}
        OBVIOUS
      <4> QED BY <2>3, <4>1, <4>3 DEF ReleasesFit, Sound
    <3>2. CASE PC(w) # "rmRoot"
      BY <1>0, <1>2, <2>3, <3>2, Remembered DEF ReleasesFit, Sound
    <3> QED BY <3>1, <3>2
  <2>5. CASE product \in Released /\ job'[w].kind = "install"
    <3>1. Onward(w) /\ PC(w) = "stop" /\ job[w].kind = "install"
      <4>1. Dies(w) \/ (Onward(w) /\ (job[w].kind # "install" \/ PC(w) = "stop"))
        BY <1>0, <1>2, FailMoves
      <4> QED BY <2>5, <4>1 DEF Dies, Idle, Onward, SameJob
    <3>2. PC(w)' = "end" \/ InstallLink(product, PC(w), PC(w)')
      BY <3>1 DEF Onward, Link
    <3>3. PC(w)' \notin {"newRelease", "copy", "probe", "manifest", "stop"}
      BY <2>5, <3>1, <3>2 DEF InstallLink
    <3>4. Staging(PC(w)', disk')
      BY <2>3, <2>5, <3>1, <3>3 DEF ReleasesFit, Staging
    <3> QED BY <2>1, <2>4, <2>5, <3>4 DEF ReleasesFit
  <2>6. CASE ~(product \in Released /\ job'[w].kind = "install")
    BY <2>1, <2>3, <2>4, <2>6 DEF ReleasesFit
  <2> QED BY <2>5, <2>6
<1>3. CASE Reboot
  <2>1. product' = product /\ job'[w].kind = "idle"
    BY <1>0, <1>3, RebootMoves DEF Reboot, Dies, Idle
  <2>2. disk' = disk \/ HalfOf(w, disk')
    BY <1>0, <1>3, RebootMoves
  <2>3. job[w].todo = <<>> => disk' = disk
    BY <2>2 DEF HalfOf, At
  <2>4. /\ disk'.current = disk.current
        /\ PC(w) # "rmRoot" => disk'.releases = disk.releases
        /\ disk'.releases \in {disk.releases, <<>>}
    BY <1>0, <2>2, <2>3, HalvesKeepReleases
  <2>5. Sound(disk)'
    <3>1. CASE PC(w) = "rmRoot"
      <4>1. "root" \in tainted' /\ job[w].todo # <<>>
        BY <1>0, <1>3, <3>1, Remembered DEF PC, Following
      <4>3. DOMAIN <<>> = {}
        OBVIOUS
      <4> QED BY <2>4, <4>1, <4>3 DEF ReleasesFit, Sound
    <3>2. CASE PC(w) # "rmRoot"
      BY <1>0, <1>3, <2>4, <3>2, Remembered DEF ReleasesFit, Sound
    <3> QED BY <3>1, <3>2
  <2> QED BY <2>1, <2>4, <2>5, SMTT(30) DEF ReleasesFit
<1>4. ASSUME NEW kind \in {"install", "uninstall"}, NEW v \in Versions, Start(w, kind, v)
      PROVE  ReleasesFit(w)'
  <2>1. job'[w].kind = kind /\ First(kind, product, PC(w)')
    BY <1>0, <1>4, StartMoves
  <2>2. disk' = disk /\ product' = product /\ tainted' = tainted
    BY <1>4 DEF Start
  <2>3. kind = "install" => PC(w)' \notin {"newRelease", "copy", "probe", "manifest", "stop", "swap"}
    BY <2>1 DEF First
  <2> QED BY <2>1, <2>2, <2>3 DEF ReleasesFit, Sound, Staging
<1>5. CASE Finish(w)
  <2>1. job'[w].kind = "idle"
    BY <1>0, <1>5, FinishMoves DEF Dies, Idle
  <2> QED BY <1>5, <2>1 DEF Finish, ReleasesFit, Sound
<1>6. CASE RollBack
  <2>1. PICK i \in DOMAIN disk.releases :
          disk.releases[i].probed /\ disk' = [disk EXCEPT !.current = i]
    BY <1>6 DEF RollBack
  <2>2. disk'.current = i /\ disk'.releases = disk.releases
    BY <1>a, <2>1 DEF DiskType
  <2>3. product \in Released
    <3>1. disk.releases # <<>>
      BY <2>1
    <3> QED BY <3>1 DEF ReleasesFit
  <2>4. job[w].kind = "idle" /\ job' = job /\ product' = product /\ tainted' = tainted
    BY <1>0, <1>6 DEF RollBack, AllIdle
  <2> QED BY <2>1, <2>2, <2>3, <2>4 DEF ReleasesFit, Sound
<1>7. CASE EditConfig \/ \E s \in Services : Respawn(s) \/ PortTaken(s)
  <2>1. job' = job /\ product' = product /\ ("root" \in tainted' <=> "root" \in tainted)
    BY <1>7 DEF EditConfig, Respawn, PortTaken
  <2>2. disk'.releases = disk.releases /\ disk'.current = disk.current /\ disk'.built = disk.built
    BY <1>a, <1>7 DEF EditConfig, Respawn, PortTaken, DiskType
  <2> QED BY <2>1, <2>2 DEF ReleasesFit, Sound, Staging, PC, Following
<1>8. CASE UNCHANGED vars
  BY <1>8 DEF vars, ReleasesFit, Sound, Staging, PC, Following
<1> QED BY <1>0, <1>1, <1>2, <1>3, <1>4, <1>5, <1>6, <1>7, <1>8 DEF Next

(* release.rs: with one job at a time, current names a release that is     *)
(* there and whose binary ran its probe, at every moment of every install, *)
(* failure, pruning, roll-back and reboot, for any Retention.              *)
THEOREM CurrentAlwaysProbed ==
  ASSUME NEW w, Alone(w)
  PROVE  Spec => []CurrentIsProbed
<1>1. Init => Typed /\ ReleasesFit(w)
  <2>1. Init => ReleasesFit(w)
    <3>1. DOMAIN <<>> = {}
      OBVIOUS
    <3> QED BY <3>1 DEF Alone, Init, ReleasesFit, Sound, NoDisk, Idle
  <2> QED BY <2>1, TypedInit
<1>2. Typed /\ ReleasesFit(w) /\ [Next]_vars => (Typed /\ ReleasesFit(w))'
  BY TypedNext, ReleasesNext
<1>3. Typed /\ ReleasesFit(w) => CurrentIsProbed
  BY DEF ReleasesFit, Sound, CurrentIsProbed
<1> QED BY <1>1, <1>2, <1>3, PTL DEF Spec

-----------------------------------------------------------------------------
(* The installs of most drivers, step by step.                             *)

(* Only these steps can stop their job. *)
LEMMA Blockers ==
  ASSUME NEW w, Step(w)
  PROVE  \/ \E n \in {1, 3, 5} : Advance(w, n)
         \/ Locate(w) \/ Distro(w) \/ Build(w) \/ Jar(w) \/ InitDb(w) \/ Enable(w) \/ Wait(w)
<1>1. Check(w) => \E n \in {1, 3, 5} : Advance(w, n)
  BY DEF Check
<1>2. Extract(w) => \E n \in {1, 3, 5} : Advance(w, n)
  BY DEF Extract, Becomes
<1>3. Seal(w) => \E n \in {1, 3, 5} : Advance(w, n)
  BY DEF Seal, Becomes
<1>4. DistroOrBundle(w) => \E n \in {1, 3, 5} : Advance(w, n)
  BY DEF DistroOrBundle
<1>5. Package(w) => \E n \in {1, 3, 5} : Advance(w, n)
  BY DEF Package, Becomes
<1>6. Toolchain(w) => \E n \in {1, 3, 5} : Advance(w, n)
  BY DEF Toolchain, Becomes, Needs
<1>7. Source(w) => \E n \in {1, 3, 5} : Advance(w, n)
  BY DEF Source, Becomes
<1>8. AnySource(w) => \E n \in {1, 3, 5} : Advance(w, n)
  BY DEF AnySource, Becomes
<1>9. NewRelease(w) => \E n \in {1, 3, 5} : Advance(w, n)
  BY DEF NewRelease, Becomes
<1>10. Copy(w) => \E n \in {1, 3, 5} : Advance(w, n)
  BY DEF Copy, Becomes
<1>11. Probe(w) => \E n \in {1, 3, 5} : Advance(w, n)
  BY DEF Probe, Becomes
<1>12. Manifest(w) => \E n \in {1, 3, 5} : Advance(w, n)
  BY DEF Manifest, Becomes
<1>13. Swap(w) => \E n \in {1, 3, 5} : Advance(w, n)
  BY DEF Swap, Becomes
<1>14. Prune(w) => \E n \in {1, 3, 5} : Advance(w, n)
  BY DEF Prune, Becomes
<1>15. Venv(w) => \E n \in {1, 3, 5} : Advance(w, n)
  BY DEF Venv, Becomes
<1>16. Runtime(w) => \E n \in {1, 3, 5} : Advance(w, n)
  BY DEF Runtime, Becomes, Needs
<1>17. Config(w) => \E n \in {1, 3, 5} : Advance(w, n)
  BY DEF Config, Becomes
<1>18. KeepConfig(w) => \E n \in {1, 3, 5} : Advance(w, n)
  BY DEF KeepConfig, Becomes
<1>19. KeyPair(w) => \E n \in {1, 3, 5} : Advance(w, n)
  BY DEF KeyPair, Becomes
<1>20. Credentials(w) => \E n \in {1, 3, 5} : Advance(w, n)
  BY DEF Credentials, Becomes
<1>21. Provision(w) => \E n \in {1, 3, 5} : Advance(w, n)
  BY DEF Provision, Becomes
<1>22. Unit(w) => \E n \in {1, 3, 5} : Advance(w, n)
  BY DEF Unit, Manages
<1>23. Reload(w) => \E n \in {1, 3, 5} : Advance(w, n)
  BY DEF Reload
<1>24. Stop(w) => \E n \in {1, 3, 5} : Advance(w, n)
  BY DEF Stop
<1>25. Bootstrap(w) => \E n \in {1, 3, 5} : Advance(w, n)
  BY DEF Bootstrap, Manages
<1>26. Kickstart(w) => \E n \in {1, 3, 5} : Advance(w, n)
  BY DEF Kickstart, Manages
<1>27. BootOut(w) => \E n \in {1, 3, 5} : Advance(w, n)
  BY DEF BootOut, Manages
<1>28. Unregister(w) => \E n \in {1, 3, 5} : Advance(w, n)
  BY DEF Unregister, Manages
<1>29. Register(w) => \E n \in {1, 3, 5} : Advance(w, n)
  BY DEF Register, Manages
<1>30. StartService(w) => \E n \in {1, 3, 5} : Advance(w, n)
  BY DEF StartService, Manages
<1>31. Disable(w) => \E n \in {1, 3, 5} : Advance(w, n)
  BY DEF Disable, Manages
<1>32. RemoveUnit(w) => \E n \in {1, 3, 5} : Advance(w, n)
  BY DEF RemoveUnit, Manages
<1>33. RemoveRoot(w) => \E n \in {1, 3, 5} : Advance(w, n)
  BY DEF RemoveRoot
<1>34. RemoveData(w) => \E n \in {1, 3, 5} : Advance(w, n)
  BY DEF RemoveData, Becomes
<1>35. DropDatabase(w) => \E n \in {1, 3, 5} : Advance(w, n)
  BY DEF DropDatabase
<1> QED BY <1>1, <1>2, <1>3, <1>4, <1>5, <1>6, <1>7, <1>8, <1>9, <1>10, <1>11, <1>12, <1>13, <1>14, <1>15, <1>16, <1>17, <1>18, <1>19, <1>20, <1>21, <1>22, <1>23, <1>24, <1>25, <1>26, <1>27, <1>28, <1>29, <1>30, <1>31, <1>32, <1>33, <1>34, <1>35 DEF Step

LEMMA Blocking ==
  ASSUME Typed, NEW w \in Workers, Step(w), job'[w].kind = "idle"
  PROVE  /\ PC(w) \in {"locate", "distro", "build", "jar", "initdb", "enable", "wait"}
         /\ UNCHANGED <<disk, svc, tainted>> /\ result' = "blocked"
<1>1. Effects(w) /\ Proceeds(w) /\ job[w].todo # <<>>
  BY StepEffects, StepMoves DEF Effects
<1>2. job[w].kind # "idle" /\ \A a : At(w, a) <=> PC(w) = a
  BY <1>1, Here
<1>3. \A n \in {1, 3, 5} : ~Advance(w, n)
  <2>1. job[w] \in JobType /\ job \in [Workers -> JobType]
    BY DEF Typed, JobsFlow
  <2> QED BY <1>2, <2>1 DEF Advance, JobType
<1>4. Dies(w) /\ UNCHANGED <<disk, svc, tainted>> /\ result' = "blocked"
  BY <1>1, <1>2 DEF Proceeds, Onward, SameJob
<1>5. Locate(w) \/ Distro(w) \/ Build(w) \/ Jar(w) \/ InitDb(w) \/ Enable(w) \/ Wait(w)
  BY <1>3, Blockers
<1>6. PC(w) \in {"locate", "distro", "build", "jar", "initdb", "enable", "wait"}
  BY <1>2, <1>5 DEF Locate, Distro, Build, Jar, InitDb, Enable, Wait, Needs, Becomes
<1> QED BY <1>4, <1>6

\* The drivers whose files come from a bundle or a wheel.
Fetched == Systemd \cup {"macKanidm"}

(* How an install gets from one step to the next. *)
Leads(w, a, b) ==
  /\ b = "end" => a = "wait" /\ Serving(w) = "main"
  /\ b # "end" /\ a # "wait" => Serving(w)' = Serving(w)
  /\ b # "end" /\ a = "wait" => b = "check" /\ Serving(w) = "meta" /\ Serving(w)' = "main"
  /\ b = "extract" => a = "check" /\ Version(w) \notin disk.sealed
  /\ b = "seal" => a = "extract"
  /\ b = "locate" => a \in {"seal", "venv", "check"}
  /\ a = "check" /\ b = "locate" => Version(w) \in disk.sealed /\ disk' = disk
  /\ b = "newRelease" => a = "build"
  /\ b = "copy" => a = "newRelease"
  /\ b = "probe" => a = "copy"
  /\ b = "manifest" => a = "probe"
  /\ b = "stop" => a = IF product = "kanidm" THEN "manifest" ELSE "reload"
  /\ b = "swap" => a = "stop"
  /\ b = "prune" => a = "swap"
  /\ b = "keypair" => a = "prune"
  /\ b = "config" => a = IF product = "kanidm" THEN "keypair" ELSE "locate"
  /\ b = "unit" => a = IF product \in WithConfig THEN "config" ELSE "locate"
  /\ b = "reload" => a = "unit"
  /\ b = "enable" => a = IF product = "kanidm" THEN "reload" ELSE "stop"
  /\ b = "bootstrap" => a = "unit"
  /\ b = "kickstart" => a = "bootstrap"
  /\ b = "wait" => a = IF product = "macKanidm" THEN "kickstart" ELSE "enable"
  /\ b \notin {"venv", "credentials"}

LEMMA FollowingStep ==
  ASSUME NEW w \in Workers, NEW a, NEW b, product \in Fetched \cup {"kanidm"},
         Proper("install", product, a), Proper("install", product, b),
         InstallLink(product, a, b), b # "end",
         IF Seam(a, b) THEN Serving(w) = "meta" /\ Serving(w)' = "main" ELSE Serving(w)' = Serving(w),
         a = "check" => Version(w) \notin disk.sealed
  PROVE  Leads(w, a, b)
<1>1. /\ a \in Installs /\ b \in Installs /\ a # "rmRoot" /\ product \notin {"xtable", "garage"}
      /\ product \notin DistroFirst
  BY DEF Proper, Installs, Fetched, Systemd, Bundled, DistroFirst
<1>2. /\ product \in Mac => product = "macKanidm"
      /\ product \in Systemd \/ product \in {"kanidm", "macKanidm"}
      /\ product \in Released <=> product = "kanidm"
      /\ product \in Systemd => product \notin {"kanidm", "macKanidm"}
      /\ {"kanidm", "macKanidm"} \subseteq WithConfig
      /\ "macKanidm" \in Mac /\ "kanidm" \notin Mac
      /\ product \in Systemd => product \notin Mac
  BY DEF Fetched, Systemd, Bundled, Mac, Released, WithConfig
<1>3. /\ b = "extract" => a = "check"
      /\ b = "seal" => a = "extract"
      /\ b = "locate" => a \in {"seal", "venv"}
      /\ b = "newRelease" => a = "build"
      /\ b = "copy" => a = "newRelease"
      /\ b = "probe" => a = "copy"
      /\ b = "manifest" => a = "probe"
      /\ b = "swap" => a = "stop"
      /\ b = "prune" => a = "swap"
      /\ b = "keypair" => a = "prune"
      /\ b = "reload" => a = "unit"
      /\ b = "bootstrap" => a = "unit"
      /\ b = "kickstart" => a = "bootstrap"
      /\ a = "wait" => b = "check" /\ product = "databend"
      /\ b \notin {"venv", "credentials"}
  BY DEF InstallLink
<1>4. /\ b = "stop" => a = IF product = "kanidm" THEN "manifest" ELSE "reload"
      /\ b = "enable" => a = IF product = "kanidm" THEN "reload" ELSE "stop"
      /\ b \in {"stop", "enable"} => product # "macKanidm"
  BY <1>2 DEF InstallLink, Proper
<1>5. /\ b = "config" => a = IF product = "kanidm" THEN "keypair" ELSE "locate"
      /\ b = "unit" => a = IF product \in WithConfig THEN "config" ELSE "locate"
      /\ b = "wait" => a = IF product = "macKanidm" THEN "kickstart" ELSE "enable"
  BY <1>1, <1>2 DEF InstallLink, DistroFirst
<1>6. Seam(a, b) <=> a = "wait"
  BY <1>1 DEF Seam
<1> QED BY <1>3, <1>4, <1>5, <1>6 DEF Leads

LEMMA InstallStep ==
  ASSUME Typed, NEW w \in Workers, Step(w), job[w].kind = "install", job'[w].kind = "install",
         product \in Fetched \cup {"kanidm"}
  PROVE  /\ Leads(w, PC(w), PC(w)') /\ Version(w)' = Version(w) /\ Version(w) \in Versions
         /\ (PC(w)' = "end" <=> job'[w].todo = <<>>)
         /\ result' = result
<1>1. Effects(w) /\ Proceeds(w) /\ job[w].todo # <<>> /\ product' = product
  BY StepEffects, StepMoves DEF Effects
<1>2. /\ Proper("install", product, PC(w)) /\ job[w].version \in Versions
  BY <1>1, Here
<1>3. PC(w) # "distroOrBundle"
  BY <1>2 DEF Proper, Fetched, Systemd, Bundled
<1>4. SameJob(w) /\ result' = result
  BY <1>1 DEF Proceeds, Dies, Idle, Onward
<1>5. Version(w)' = Version(w) /\ Version(w) \in Versions
  BY <1>2, <1>4 DEF SameJob, Version
<1>6. PC(w)' = "end" <=> job'[w].todo = <<>>
  <2>1. JobsFlow' /\ job'[w].kind # "idle"
    BY StepMoves
  <2>2. job'[w].todo # <<>> => Proper("install", product, PC(w)')
    <3>1. Flows("install", product, job'[w].todo)
      BY <1>1, <2>1 DEF JobsFlow
    <3>. DEFINE t == job'[w].todo
    <3>. HIDE DEF t
    <3>2. t # <<>> => Proper("install", product, t[1][2])
      BY <3>1, Advances DEF t
    <3> QED BY <3>2 DEF PC, Following, t
  <2> QED BY <2>2 DEF Proper, Installs, PC, Following
<1>7. CASE Onward(w) /\ (PC(w) = "check" => Version(w) \notin disk.sealed)
  <2>1. CASE job'[w].todo = <<>>
    <3>1. PC(w)' = "end" /\ Closes("install", product, PC(w)) /\ Serving(w) = "main"
      BY <1>7, <2>1 DEF Onward
    <3>2. PC(w) = "wait"
      BY <3>1 DEF Closes, Fetched, Systemd, Bundled
    <3> QED BY <1>4, <1>5, <1>6, <3>1, <3>2 DEF Leads
  <2>2. CASE job'[w].todo # <<>>
    <3>1. InstallLink(product, PC(w), PC(w)') /\ OnService(w) /\ Proper("install", product, PC(w)')
      BY <1>7, <2>2 DEF Onward, Link
    <3>2. IF Seam(PC(w), PC(w)') THEN Serving(w) = "meta" /\ Serving(w)' = "main" ELSE Serving(w)' = Serving(w)
      BY <3>1 DEF OnService
    <3>3. Leads(w, PC(w), PC(w)')
      BY <1>2, <1>6, <1>7, <2>2, <3>1, <3>2, FollowingStep
    <3> QED BY <1>4, <1>5, <1>6, <3>3
  <2> QED BY <2>1, <2>2
<1>8. CASE /\ PC(w) = "check" /\ PC(w)' = "locate" /\ Serving(w)' = Serving(w)
           /\ Version(w) \in disk.sealed /\ UNCHANGED <<disk, svc, tainted, result>>
  BY <1>4, <1>5, <1>6, <1>8 DEF Leads
<1> QED BY <1>1, <1>3, <1>7, <1>8 DEF Proceeds, Dies, Idle

\* The steps of an install once the files of its version are there.
After == {"locate", "config", "unit", "reload", "stop", "enable", "wait", "bootstrap", "kickstart"}

(* The files of a version, whole; sail's environment holds no other. *)
TreeReady(v) ==
  /\ disk.cache[v] = "whole"
  /\ IF product = "sail" THEN \A u \in Versions : u # v => disk.cache[u] = "none"
     ELSE v \in disk.sealed

(* What the service manager knows of a service that is put up. *)
UnitReady(a, s, v) ==
  /\ a = "reload" => svc[s].unit = v
  /\ (a = "stop" /\ product \in Systemd) \/ a \in {"enable", "wait"} =>
       svc[s].unit = v /\ svc[s].loaded = v
  /\ a = "wait" => svc[s].enabled

Underway(w) ==
  job[w].kind = "install" =>
    /\ "root" \notin tainted /\ product \in Fetched /\ PC(w) \in After => TreeReady(Version(w))
    /\ product \in Systemd \cup {"kanidm"} => UnitReady(PC(w), Serving(w), Version(w))

(* The tree of a version stays, or is completed before it is located. *)
LEMMA TreesKept ==
  ASSUME NEW w \in Workers, Typed, Sentinels(w), Underway(w), Step(w), job[w].kind = "install",
         job'[w].kind = "install", "root" \notin tainted', product \in Fetched, PC(w)' \in After
  PROVE  "root" \notin tainted /\ TreeReady(Version(w))'
<1>1. Effects(w) /\ job[w].todo # <<>> /\ product' = product
  BY StepEffects DEF Effects
<1>2. Proper("install", product, PC(w)) /\ \A a : At(w, a) <=> PC(w) = a
  BY <1>1, Here
<1>3. disk \in DiskType /\ disk.cache \in Tree
  BY DEF Typed, TypeOK, DiskType
<1>4. Leads(w, PC(w), PC(w)') /\ Version(w)' = Version(w) /\ Version(w) \in Versions
  BY InstallStep
<1>5. "root" \notin tainted
  <2>1. tainted' = tainted \/ Stop(w)
    BY <1>1, <1>2 DEF Effects, Writers, RemoveRoot, DropDatabase, Proper, Installs
  <2> QED BY <2>1 DEF Stop
<1>6. PC(w) \in After \cup {"seal", "venv", "check"}
      /\ (PC(w) \in {"seal", "venv", "check"} => PC(w)' = "locate")
  <2>1. product # "kanidm"
    BY DEF Fetched, Systemd, Bundled
  <2> QED BY <1>4, <2>1 DEF Leads, After
<1>7. CASE PC(w) = "check"
  <2>1. Version(w) \in disk.sealed /\ disk' = disk
    BY <1>4, <1>6, <1>7 DEF Leads
  <2>2. disk.cache[Version(w)] = "whole" /\ product # "sail"
    BY <1>5, <2>1 DEF Sentinels
  <2> QED BY <1>1, <1>4, <1>5, <2>1, <2>2 DEF TreeReady
<1>8. CASE PC(w) = "seal"
  <2>1. Seal(w)
    BY <1>2, <1>8, StepIs
  <2>2. disk'.sealed = disk.sealed \cup {Version(w)} /\ disk'.cache = disk.cache
    BY <1>3, <2>1 DEF Seal, Becomes, DiskType
  <2>3. disk.cache[Version(w)] = "whole"
    BY <1>5, <1>8 DEF Sentinels
  <2>4. product # "sail"
    BY <1>2, <1>8 DEF Proper
  <2> QED BY <1>1, <1>4, <1>5, <2>2, <2>3, <2>4 DEF TreeReady
<1>9. CASE PC(w) = "venv"
  <2>1. Venv(w)
    BY <1>2, <1>9, StepIs
  <2>2. disk'.cache = [v \in Versions |-> IF v = Version(w) THEN "whole" ELSE "none"]
    BY <1>3, <2>1 DEF Venv, Becomes, DiskType
  <2>3. product = "sail"
    BY <1>2, <1>9 DEF Proper
  <2>4. /\ disk'.cache[Version(w)] = "whole"
        /\ \A u \in Versions : u # Version(w) => disk'.cache[u] = "none"
    BY <1>4, <2>2
  <2> QED BY <1>1, <1>4, <1>5, <2>3, <2>4 DEF TreeReady
<1>10. CASE PC(w) \in After
  <2>1. TreeReady(Version(w))
    BY <1>5, <1>10 DEF Underway
  <2>2. disk'.cache = disk.cache /\ disk'.sealed = disk.sealed
    BY <1>1, <1>2, <1>10, ZenonT(40)
       DEF Effects, Writers, Extract, Venv, Jar, RemoveRoot, Seal, Becomes, After, Proper, Installs
  <2> QED BY <1>1, <1>4, <1>5, <2>1, <2>2 DEF TreeReady
<1> QED BY <1>6, <1>7, <1>8, <1>9, <1>10

(* The unit is written, then loaded, then enabled. *)
LEMMA UnitsKept ==
  ASSUME NEW w \in Workers, Typed, Underway(w), Step(w), job[w].kind = "install",
         job'[w].kind = "install", product \in Systemd \cup {"kanidm"}
  PROVE  UnitReady(PC(w), Serving(w), Version(w))'
<1>1. Effects(w) /\ job[w].todo # <<>> /\ product' = product
  BY StepEffects DEF Effects
<1>2. /\ Proper("install", product, PC(w)) /\ \A a : At(w, a) <=> PC(w) = a
      /\ Service(w) = Serving(w) /\ Serving(w) \in Services
  BY <1>1, Here
<1>3. svc \in [Services -> ServiceType] /\ svc[Serving(w)] \in ServiceType
  BY <1>2 DEF Typed, TypeOK
<1>4. Leads(w, PC(w), PC(w)') /\ Version(w)' = Version(w) /\ Version(w) \in Versions
  BY InstallStep DEF Fetched
<1>5. UnitReady(PC(w), Serving(w), Version(w))
  BY DEF Underway
<1>. DEFINE s == Serving(w)
            v == Version(w)
<1>6. PC(w)' \notin {"reload", "enable", "wait", "stop"} => UnitReady(PC(w), Serving(w), Version(w))'
  BY DEF UnitReady
<1>7. PC(w)' \in {"reload", "enable", "wait", "stop"} => Serving(w)' = s
  BY <1>4 DEF Leads
<1>8. CASE PC(w)' = "reload"
  <2>1. PC(w) = "unit"
    BY <1>4, <1>8 DEF Leads
  <2>2. Unit(w)
    BY <1>2, <2>1, StepIs
  <2>3. Wanted(w) = v
    BY DEF Wanted, DistroFirst, Systemd, Bundled
  <2>4. svc' = [svc EXCEPT ![s] = [svc[s] EXCEPT !.unit = v]]
    BY <1>2, <2>2, <2>3 DEF Unit, Manages, Now
  <2>5. svc'[s].unit = v
    BY <1>2, <1>3, <2>4 DEF ServiceType
  <2> QED BY <1>4, <1>7, <1>8, <2>5 DEF UnitReady
<1>9. CASE PC(w) = "reload" /\ PC(w)' \in {"enable", "stop"}
  <2>1. Reload(w)
    BY <1>2, <1>9, StepIs
  <2>2. svc' = [t \in Services |-> [svc[t] EXCEPT !.loaded = svc[t].unit]]
    BY <2>1 DEF Reload
  <2>3. svc'[s].unit = svc[s].unit /\ svc'[s].loaded = svc[s].unit
    BY <1>2, <1>3, <2>2 DEF ServiceType
  <2> QED BY <1>4, <1>5, <1>7, <1>9, <2>3 DEF UnitReady
<1>10. CASE PC(w) = "stop" /\ PC(w)' = "enable"
  <2>1. Stop(w)
    BY <1>2, <1>10, StepIs
  <2>2. svc' = [svc EXCEPT ![s].running = None]
    BY <1>2, <2>1 DEF Stop
  <2>3. svc'[s].unit = svc[s].unit /\ svc'[s].loaded = svc[s].loaded
    BY <1>2, <1>3, <2>2 DEF ServiceType
  <2>4. product \in Systemd
    BY <1>4, <1>10 DEF Leads
  <2> QED BY <1>4, <1>5, <1>7, <1>10, <2>3, <2>4 DEF UnitReady
<1>11. CASE PC(w) = "enable" /\ PC(w)' = "wait"
  <2>1. Enable(w)
    BY <1>2, <1>11, StepIs
  <2>2. ~Needs(w, "enable", FALSE)
    <3>1. job \in [Workers -> JobType]
      BY DEF Typed, JobsFlow
    <3> QED BY <3>1 DEF Needs, Idle
  <2>3. PICK r : svc' = [svc EXCEPT ![s] = [svc[s] EXCEPT !.enabled = TRUE, !.running = r]]
    BY <1>2, <2>1, <2>2 DEF Enable, Manages, Now
  <2>4. svc'[s].unit = svc[s].unit /\ svc'[s].loaded = svc[s].loaded /\ svc'[s].enabled
    BY <1>2, <1>3, <2>3 DEF ServiceType
  <2> QED BY <1>4, <1>5, <1>7, <1>11, <2>4 DEF UnitReady
<1>12. CASE PC(w)' = "stop" /\ product = "kanidm"
  <2>1. product \notin Systemd
    BY <1>12 DEF Systemd, Bundled
  <2> QED BY <1>1, <1>12, <2>1 DEF UnitReady
<1>13. product # "macKanidm"
  BY DEF Systemd, Bundled
<1>14. /\ PC(w)' = "stop" => PC(w) = "reload" \/ product = "kanidm"
       /\ PC(w)' = "enable" => PC(w) \in {"stop", "reload"}
       /\ PC(w)' = "wait" => PC(w) = "enable"
  BY <1>4, <1>13 DEF Leads
<1> QED BY <1>6, <1>8, <1>9, <1>10, <1>11, <1>12, <1>14

(* An install that cannot stop the old service goes on as it is. *)
LEMMA StopIgnored ==
  ASSUME NEW w \in Workers, Typed, Fail(w), Onward(w), PC(w) = "stop", job[w].kind = "install"
  PROVE  /\ disk' = disk /\ svc' = svc /\ product' = product /\ Version(w)' = Version(w)
         /\ product \in Fetched \cup {"kanidm"} => Leads(w, "stop", PC(w)')
<1>1. product' = product /\ (disk' = disk \/ HalfOf(w, disk')) /\ job[w].todo # <<>>
  BY Halves DEF Fail
<1>2. /\ Proper("install", product, PC(w)) /\ \A a : At(w, a) <=> PC(w) = a
  BY <1>1, Here
<1>3. disk' = disk /\ svc' = svc
  BY <1>1, <1>2 DEF Fail, HalfManaged, HalfOf
<1>4. SameJob(w) /\ Version(w)' = Version(w)
  BY DEF Onward, SameJob, Version
<1>5. ASSUME product \in Fetched \cup {"kanidm"} PROVE Leads(w, "stop", PC(w)')
  <2>1. CASE job'[w].todo = <<>>
    <3>1. Closes("install", product, "stop")
      BY <2>1 DEF Onward
    <3> QED BY <3>1 DEF Closes
  <2>2. CASE job'[w].todo # <<>>
    <3>1. /\ InstallLink(product, "stop", PC(w)') /\ OnService(w)
          /\ Proper("install", product, PC(w)')
      BY <2>2 DEF Onward, Link
    <3>2. IF Seam("stop", PC(w)') THEN Serving(w) = "meta" /\ Serving(w)' = "main" ELSE Serving(w)' = Serving(w)
      BY <3>1 DEF OnService
    <3>3. PC(w)' # "end"
      BY <3>1 DEF Proper, Installs
    <3> QED BY <1>2, <1>5, <3>1, <3>2, <3>3, FollowingStep
  <2> QED BY <2>1, <2>2
<1> QED BY <1>1, <1>3, <1>4, <1>5

LEMMA UnderwayNext ==
  ASSUME NEW w, Alone(w), Typed, Sentinels(w), Underway(w), [Next]_vars
  PROVE  Underway(w)'
<1>0. w \in Workers /\ (\A u \in Workers : u = w) /\ Workers = {w}
  BY DEF Alone
<1>1. CASE Step(w)
  <2>1. product' = product /\ job[w].todo # <<>> /\ Proceeds(w)
    BY <1>0, <1>1, StepEffects, StepMoves DEF Effects
  <2>2. job'[w].kind = "install" => job[w].kind = "install"
    BY <2>1 DEF Proceeds, Onward, SameJob, Dies, Idle
  <2> QED BY <1>0, <1>1, <2>1, <2>2, TreesKept, UnitsKept DEF Underway
<1>2. CASE Fail(w)
  <2>1. product' = product /\ (disk' = disk \/ HalfOf(w, disk')) /\ job[w].todo # <<>>
    BY <1>2, Halves DEF Fail
  <2>2. Dies(w) \/ (Onward(w) /\ (job[w].kind # "install" \/ PC(w) = "stop"))
    BY <1>0, <1>2, FailMoves
  <2>3. CASE Onward(w) /\ PC(w) = "stop" /\ job[w].kind = "install"
    <3>2. disk' = disk /\ svc' = svc /\ Version(w)' = Version(w)
      BY <1>0, <1>2, <2>3, StopIgnored
    <3>4. "root" \notin tainted' => "root" \notin tainted
      BY <1>0, <1>2, Remembered
    <3>5. product \in Fetched \cup {"kanidm"} => Leads(w, "stop", PC(w)')
      BY <1>0, <1>2, <2>3, StopIgnored
    <3>6. product \in Fetched /\ PC(w)' \in After /\ "root" \notin tainted' => TreeReady(Version(w))'
      BY <2>1, <2>3, <3>2, <3>4 DEF Underway, TreeReady, After
    <3>7. product \in Systemd \cup {"kanidm"} => UnitReady(PC(w), Serving(w), Version(w))'
      <4>. HAVE product \in Systemd \cup {"kanidm"}
      <4>1. UnitReady("stop", Serving(w), Version(w))
        BY <2>3 DEF Underway
      <4>2. Leads(w, "stop", PC(w)') /\ product # "macKanidm"
        BY <3>5 DEF Fetched, Systemd, Bundled
      <4>3. PC(w)' \in {"enable", "swap"} \/ PC(w)' \notin {"reload", "stop", "enable", "wait"}
        BY <4>2 DEF Leads
      <4>4. CASE PC(w)' = "enable"
        <5>1. product \in Systemd /\ Serving(w)' = Serving(w)
          BY <4>2, <4>4 DEF Leads
        <5> QED BY <2>1, <3>2, <4>1, <4>4, <5>1 DEF UnitReady
      <4>5. CASE PC(w)' \notin {"reload", "stop", "enable", "wait"}
        BY <4>5 DEF UnitReady
      <4> QED BY <4>3, <4>4, <4>5
    <3> QED BY <2>1, <3>6, <3>7 DEF Underway
  <2>4. CASE ~(Onward(w) /\ PC(w) = "stop" /\ job[w].kind = "install")
    BY <2>2, <2>4 DEF Dies, Idle, Onward, SameJob, Underway
  <2> QED BY <2>3, <2>4
<1>3. CASE Reboot
  <2>1. job'[w].kind = "idle"
    BY <1>0, <1>3, RebootMoves DEF Dies, Idle
  <2> QED BY <2>1 DEF Underway
<1>4. ASSUME NEW kind \in {"install", "uninstall"}, NEW v \in Versions, Start(w, kind, v)
      PROVE  Underway(w)'
  <2>1. job'[w].kind = kind /\ First(kind, product, PC(w)')
    BY <1>0, <1>4, StartMoves
  <2>2. kind = "install" => PC(w)' \notin After
    BY <2>1 DEF First, After
  <2> QED BY <2>1, <2>2 DEF Underway, UnitReady, After
<1>5. CASE Finish(w)
  <2>1. job'[w].kind = "idle"
    BY <1>0, <1>5, FinishMoves DEF Dies, Idle
  <2> QED BY <2>1 DEF Underway
<1>6. CASE EditConfig \/ RollBack
  <2>1. job[w].kind = "idle" /\ job' = job
    BY <1>0, <1>6 DEF EditConfig, RollBack, AllIdle
  <2> QED BY <2>1 DEF Underway
<1>7. ASSUME NEW r \in Services, Respawn(r) \/ PortTaken(r)
      PROVE  Underway(w)'
  <2>1. job' = job /\ product' = product /\ disk' = disk
        /\ (\A x \in {"root", "running"} : x \in tainted' <=> x \in tainted)
    BY <1>7 DEF Respawn, PortTaken
  <2>2. PICK x : svc' = [svc EXCEPT ![r].running = x]
    BY <1>7 DEF Respawn, PortTaken
  <2>3. \A s \in Services : /\ svc'[s].unit = svc[s].unit /\ svc'[s].loaded = svc[s].loaded
                            /\ svc'[s].enabled = svc[s].enabled
    BY <2>2 DEF Typed, TypeOK, ServiceType
  <2>4. job[w].todo # <<>> => Serving(w) \in Services
    BY <1>0, Here
  <2>5. job[w].todo = <<>> => PC(w) = "end"
    BY DEF PC, Following
  <2>6. PC(w)' = PC(w) /\ Serving(w)' = Serving(w) /\ Version(w)' = Version(w)
    BY <2>1 DEF PC, Following, Serving, Version
  <2> QED BY <2>1, <2>3, <2>4, <2>5, <2>6 DEF Underway, UnitReady, TreeReady
<1>8. CASE UNCHANGED vars
  BY <1>8 DEF vars, Underway, UnitReady, TreeReady, PC, Following, Serving, Version
<1> QED BY <1>0, <1>1, <1>2, <1>3, <1>4, <1>5, <1>6, <1>7, <1>8 DEF Next

-----------------------------------------------------------------------------
(* What interrupted jobs leave behind.                                     *)
(* What these drivers never leave: a torn key pair, runtime or data        *)
(* directory, and a torn config only if they write one.                    *)
Plain ==
  /\ product \in Resumable => disk.keys = "none" /\ disk.runtime = "none" /\ disk.data = None
  /\ product \in Resumable \ WithConfig => disk.config # "torn"

LEMMA ResumableIs ==
  /\ Resumable \subseteq Fetched
  /\ \A x \in Resumable : x \notin {"kanidm", "xtable", "garage", "trino"} /\ x \notin Released /\ x \notin DistroFirst
  /\ Resumable \cap Mac = {"macKanidm"}
BY DEF Resumable, Fetched, Systemd, Bundled, Released, DistroFirst, Mac

(* A unit whose version is there starts. *)
LEMMA StartsUp ==
  ASSUME product \in Resumable, Plain, disk.config # "torn", NEW v \in Versions, disk.cache[v] = "whole"
  PROVE  None \notin Runs(disk, v)
<1>1. v # None /\ None # "torn"
  BY DriversAssumption
<1>2. ~Broken(disk)
  BY <1>1 DEF Plain, Broken
<1>3. product # "xtable" /\ product \notin Released /\ product \notin DistroFirst
  BY ResumableIs
<1>4. None \notin Versions
  BY DriversAssumption
<1>5. CASE product = "sail"
  BY <1>1, <1>2, <1>3, <1>4, <1>5 DEF Runs
<1>6. CASE product # "sail"
  BY <1>1, <1>2, <1>3, <1>4, <1>6 DEF Runs
<1> QED BY <1>5, <1>6

LEMMA StepKeepsPlain ==
  ASSUME Typed, NEW w \in Workers, Plain, Step(w)
  PROVE  Plain'
<1>1. /\ Effects(w) /\ job[w].todo # <<>> /\ product' = product
  BY StepEffects DEF Effects
<1>2. Proper(job[w].kind, product, PC(w)) /\ \A a : At(w, a) <=> PC(w) = a
  BY <1>1, Here
<1>3. disk \in DiskType
  BY DEF Typed, TypeOK
<1>. SUFFICES ASSUME product \in Resumable
              PROVE  /\ disk'.keys = "none" /\ disk'.runtime = "none" /\ disk'.data = None
                     /\ product \notin WithConfig => disk'.config # "torn"
  BY <1>1 DEF Plain
<1>4. CASE RemoveRoot(w)
  BY <1>4 DEF RemoveRoot, NoDisk
<1>5. CASE ~RemoveRoot(w)
  <2>1. disk.keys = "none" /\ disk.runtime = "none" /\ disk.data = None
        /\ (product \notin WithConfig => disk.config # "torn")
    BY DEF Plain
  <2>2. ~KeyPair(w) /\ ~Runtime(w) /\ ~InitDb(w) /\ ~KeepConfig(w)
    BY <1>2, ResumableIs DEF KeyPair, Runtime, InitDb, KeepConfig, Becomes, Needs, Proper
  <2>3. RemoveData(w) => disk'.data = None
    BY <1>3 DEF RemoveData, Becomes, DiskType
  <2>4. Config(w) => disk'.config = "ours"
    BY <1>3 DEF Config, Becomes, DiskType
  <2> QED BY <1>1, <1>5, <2>1, <2>2, <2>3, <2>4 DEF Effects, Writers
<1> QED BY <1>4, <1>5

LEMMA HalvesKeepPlain ==
  ASSUME Typed, NEW w \in Workers, Plain, job[w].todo # <<>>, product' = product,
         disk' = disk \/ HalfOf(w, disk')
  PROVE  Plain'
<1>1. CASE disk' = disk
  BY <1>1 DEF Plain
<1>2. CASE HalfOf(w, disk')
  <2>1. Proper(job[w].kind, product, PC(w)) /\ \A a : At(w, a) <=> PC(w) = a
    BY Here
  <2>2. disk \in DiskType
    BY DEF Typed, TypeOK
  <2>. SUFFICES ASSUME product \in Resumable
                PROVE  /\ disk'.keys = "none" /\ disk'.runtime = "none" /\ disk'.data = None
                       /\ product \notin WithConfig => disk'.config # "torn"
    BY DEF Plain
  <2>3. disk.keys = "none" /\ disk.runtime = "none" /\ disk.data = None
        /\ (product \notin WithConfig => disk.config # "torn")
    BY DEF Plain
  <2>4. PC(w) \notin {"keypair", "runtime", "initdb", "keepConfig"} /\ (PC(w) = "config" => product \in WithConfig)
    BY <2>1, ResumableIs DEF Proper
  <2>5. CASE PC(w) = "rmRoot"
    <3>1. disk' \in HalfRemoved
      BY <1>2, <2>1, <2>5 DEF HalfOf
    <3>2. /\ disk'.keys \in {disk.keys, IF disk.keys = "both" THEN "certificate" ELSE disk.keys}
          /\ disk'.runtime = disk.runtime /\ disk'.data = disk.data
          /\ disk'.config \in {disk.config, "none"}
      BY <2>2, <3>1 DEF HalfRemoved, DiskType
    <3> QED BY <2>3, <3>2
  <2>6. CASE PC(w) # "rmRoot"
    <3>1. PC(w) # "rmData"
      BY <1>2, <2>1, <2>3 DEF HalfOf
    <3>2. /\ disk'.keys = disk.keys /\ disk'.runtime = disk.runtime /\ disk'.data = disk.data
          /\ (PC(w) # "config" => disk'.config = disk.config)
      BY <1>2, <2>4, <2>6, <3>1, HalfWriters
    <3> QED BY <2>3, <2>4, <3>2
  <2> QED BY <2>5, <2>6
<1> QED BY <1>1, <1>2

\* The steps of an install once the config is written.
AfterConfig == After \ {"locate", "config"}

(* What these drivers need at each step, all there: nothing blocks them. *)
Able(w) ==
  job[w].kind = "install" =>
    /\ PC(w) \in AfterConfig => disk.config # "torn"
    /\ PC(w) = "bootstrap" => svc["main"].unit # None
    /\ PC(w) = "kickstart" => svc["main"].loaded # None
    /\ PC(w) = "wait" =>
         /\ svc[Serving(w)].running # None \/ "foreign" \in tainted
         /\ svc[Serving(w)].loaded # None

(* The plists of kanidm on macOS name versions that are there. *)
Plists ==
  product = "macKanidm" =>
    svc["main"].unit \in disk.sealed \cup {None} /\ svc["main"].loaded \in disk.sealed \cup {None}

Harmless(w) ==
  /\ Plain
  /\ job[w].kind # "idle" => result = "none"
  /\ product \in Resumable /\ "root" \notin tainted => result # "blocked" /\ Plists /\ Able(w)

(* The service of an install that is enabled starts. *)
LEMMA EnabledStarts ==
  ASSUME NEW w \in Workers, Typed, Sentinels(w), Underway(w), Harmless(w), job[w].kind = "install",
         product \in Resumable, "root" \notin tainted, PC(w) \in {"enable", "kickstart", "wait"}
  PROVE  /\ svc[Serving(w)].loaded # None
         /\ None \notin Runs(disk, svc[Serving(w)].loaded)
<1>1. job[w].todo # <<>>
  BY DEF PC, Following
<1>2. /\ Proper("install", product, PC(w)) /\ Serving(w) \in Services /\ Version(w) \in Versions
  BY <1>1, Here DEF Version
<1>3. Plain /\ Able(w) /\ Plists
  BY DEF Harmless
<1>4. disk.config # "torn"
  BY <1>3 DEF Able, AfterConfig, After
<1>5. product \in Fetched /\ None \notin Versions
  BY ResumableIs, DriversAssumption
<1>6. TreeReady(Version(w))
  BY <1>5 DEF Underway, After
<1>7. CASE product = "macKanidm"
  <2>1. Serving(w) = "main" /\ PC(w) # "enable"
    BY <1>2, <1>7 DEF Services, Proper, Mac
  <2>2. svc["main"].loaded # None
    BY <1>3, <2>1 DEF Able
  <2>3. svc["main"].loaded \in disk.sealed
    BY <1>3, <1>7, <2>2 DEF Plists
  <2>4. svc["main"].loaded \in Versions /\ disk.cache[svc["main"].loaded] = "whole"
    BY <2>3 DEF Sentinels, Typed, TypeOK, DiskType
  <2> QED BY <1>3, <1>4, <2>1, <2>2, <2>4, StartsUp
<1>8. CASE product # "macKanidm"
  <2>1. product \in Systemd /\ product \notin Mac
    BY <1>5, <1>8 DEF Fetched, Systemd, Bundled, Mac
  <2>2. PC(w) # "kickstart"
    BY <1>2, <2>1 DEF Proper
  <2>3. svc[Serving(w)].loaded = Version(w)
    BY <2>1, <2>2 DEF Underway, UnitReady
  <2> QED BY <1>2, <1>3, <1>4, <1>5, <1>6, <2>3, StartsUp DEF TreeReady
<1> QED BY <1>7, <1>8

(* A job that does not stop is at its end, or at a step of its recipe. *)
LEMMA StepLands ==
  ASSUME Typed, NEW w \in Workers, Step(w), job'[w].kind # "idle"
  PROVE  PC(w)' = "end" \/ Proper(job'[w].kind, product, PC(w)')
<1>1. JobsFlow' /\ product' = product
  BY StepMoves, StepEffects DEF Effects
<1>. DEFINE t == job'[w].todo
            k == job'[w].kind
<1>2. Flows(k, product, t)
  BY <1>1 DEF JobsFlow
<1>. HIDE DEF t, k
<1>3. t # <<>> => Proper(k, product, t[1][2])
  BY <1>2, Advances
<1> QED BY <1>3 DEF PC, Following, t, k

(* No step of these drivers finds what it needs missing. *)
LEMMA NeverBlocks ==
  ASSUME NEW w \in Workers, Typed, Sentinels(w), Underway(w), Harmless(w), Step(w),
         product \in Resumable, "root" \notin tainted
  PROVE  job'[w].kind # "idle"
<1>. SUFFICES ASSUME job'[w].kind = "idle" PROVE FALSE
  OBVIOUS
<1>1. PC(w) \in {"locate", "distro", "build", "jar", "initdb", "enable", "wait"}
  BY Blocking
<1>2. job[w].todo # <<>>
  BY <1>1 DEF PC, Following
<1>3. /\ Proper(job[w].kind, product, PC(w)) /\ job[w].kind \in {"install", "uninstall"}
      /\ \A a : At(w, a) <=> PC(w) = a
      /\ Service(w) = Serving(w)
  BY <1>2, Here
<1>4. job[w].kind = "install" /\ PC(w) \in {"locate", "enable", "wait"}
  BY <1>1, <1>3, ResumableIs DEF Proper, Removals
<1>5. job[w] \in JobType /\ job \in [Workers -> JobType]
  BY DEF Typed, JobsFlow
<1>6. ~Advance(w, 1)
  BY <1>4, <1>5 DEF Advance, JobType
<1>7. CASE PC(w) = "locate"
  <2>1. Locate(w)
    BY <1>3, <1>7, StepIs
  <2>2. disk.cache[Version(w)] = "whole"
    BY <1>4, <1>7, ResumableIs DEF Underway, TreeReady, After
  <2>3. Needs(w, "locate", TRUE)
    BY <2>1, <2>2 DEF Locate
  <2> QED BY <1>6, <2>3 DEF Needs
<1>8. CASE PC(w) = "enable"
  <2>1. Enable(w)
    BY <1>3, <1>8, StepIs
  <2>2. svc[Serving(w)].loaded # None
    BY <1>4, <1>8, EnabledStarts
  <2> QED BY <1>3, <1>6, <2>1, <2>2 DEF Enable, Manages, Now
<1>9. CASE PC(w) = "wait"
  <2>1. Wait(w)
    BY <1>3, <1>9, StepIs
  <2>2. svc[Serving(w)].running # None \/ "foreign" \in tainted
    BY <1>4, <1>9 DEF Harmless, Able
  <2> QED BY <1>3, <1>6, <2>1, <2>2 DEF Wait, Needs, Now
<1> QED BY <1>4, <1>7, <1>8, <1>9

LEMMA AbleKept ==
  ASSUME NEW w \in Workers, Typed, Sentinels(w), Underway(w), Harmless(w), Step(w),
         product \in Resumable, "root" \notin tainted, job[w].kind = "install", job'[w].kind = "install"
  PROVE  Able(w)'
<1>1. Effects(w) /\ job[w].todo # <<>> /\ product' = product
  BY StepEffects DEF Effects
<1>2. /\ Proper("install", product, PC(w)) /\ \A a : At(w, a) <=> PC(w) = a
      /\ Service(w) = Serving(w) /\ Serving(w) \in Services
  BY <1>1, Here
<1>3. svc \in [Services -> ServiceType] /\ svc[Serving(w)] \in ServiceType /\ disk \in DiskType
  BY <1>2 DEF Typed, TypeOK
<1>4. Leads(w, PC(w), PC(w)') /\ Version(w) \in Versions
  BY InstallStep, ResumableIs
<1>5. Plain /\ Able(w) /\ product # "kanidm"
  BY ResumableIs DEF Harmless
<1>6. PC(w)' \in AfterConfig => disk'.config # "torn"
  <2>. HAVE PC(w)' \in AfterConfig
  <2>1. PC(w) \in AfterConfig \cup {"config", "locate"} /\ (PC(w) = "locate" => product \notin WithConfig)
    BY <1>4, <1>5 DEF Leads, AfterConfig, After
  <2>2. CASE PC(w) = "config"
    <3>1. Config(w)
      BY <1>2, <2>2, StepIs
    <3> QED BY <1>3, <3>1 DEF Config, Becomes, DiskType
  <2>3. CASE PC(w) # "config"
    <3>1. disk'.config = disk.config
      BY <1>1, <1>2, <2>1, <2>3
         DEF Effects, Writers, Config, KeepConfig, RemoveRoot, Becomes, AfterConfig, After
    <3>2. disk.config # "torn"
      BY <1>5, <2>1, <2>3 DEF Plain, Able
    <3> QED BY <3>1, <3>2
  <2> QED BY <2>2, <2>3
<1>7. PC(w)' = "bootstrap" => svc'["main"].unit # None
  <2>. HAVE PC(w)' = "bootstrap"
  <2>1. PC(w) = "unit" /\ product = "macKanidm"
    <3>1. PC(w)' = "end" \/ Proper("install", product, PC(w)')
      BY StepLands
    <3> QED BY <1>4, <3>1, ResumableIs DEF Leads, Proper
  <2>2. Unit(w) /\ Serving(w) = "main"
    BY <1>2, <2>1, StepIs DEF Services
  <2>3. Wanted(w) \in Versions
    BY <1>4, <2>1 DEF Wanted, DistroFirst
  <2>4. svc' = [svc EXCEPT !["main"] = [svc["main"] EXCEPT !.unit = Wanted(w)]]
    BY <1>2, <2>2 DEF Unit, Manages, Now
  <2>5. svc'["main"].unit = Wanted(w)
    BY <1>2, <1>3, <2>2, <2>4 DEF ServiceType
  <2> QED BY <2>3, <2>5, DriversAssumption
<1>8. PC(w)' = "kickstart" => svc'["main"].loaded # None
  <2>. HAVE PC(w)' = "kickstart"
  <2>1. PC(w) = "bootstrap" /\ product = "macKanidm"
    <3>1. PC(w)' = "end" \/ Proper("install", product, PC(w)')
      BY StepLands
    <3> QED BY <1>4, <3>1, ResumableIs DEF Leads, Proper
  <2>2. Bootstrap(w) /\ Serving(w) = "main"
    BY <1>2, <2>1, StepIs DEF Services
  <2>. DEFINE u == IF svc["main"].loaded = None THEN svc["main"].unit ELSE svc["main"].loaded
  <2>3. PICK r : svc' = [svc EXCEPT !["main"] =
                           [svc["main"] EXCEPT !.loaded = u, !.enabled = TRUE, !.running = r]]
    <3>1. Now(w) = svc["main"]
      BY <1>2, <2>2 DEF Now
    <3>2. \E r : Manages(w, "bootstrap", [Now(w) EXCEPT !.loaded = u, !.enabled = TRUE, !.running = r])
      <4>. HIDE DEF Manages, Now
      <4> QED BY <2>2, <3>1, Zenon DEF Bootstrap
    <3>3. \A x : Manages(w, "bootstrap", x) => svc' = [svc EXCEPT !["main"] = x]
      BY <1>2, <2>2 DEF Manages
    <3>. HIDE DEF u
    <3> QED BY <3>1, <3>2, <3>3, ZenonT(60)
  <2>. DEFINE n == [svc["main"] EXCEPT !.loaded = u, !.enabled = TRUE, !.running = r]
  <2>5. n.loaded = u
    <3>1. svc["main"] \in ServiceType
      BY <1>2, <1>3, <2>2
    <3>. HIDE DEF u
    <3> QED BY <3>1 DEF ServiceType
  <2>6. svc'["main"] = n
    <3>. HIDE DEF n
    <3>1. svc' = [svc EXCEPT !["main"] = n]
      BY <2>3 DEF n
    <3> QED BY <1>2, <1>3, <2>2, <3>1
  <2>4. svc'["main"].loaded = u
    <3>. HIDE DEF n, u
    <3> QED BY <2>5, <2>6
  <2> QED BY <1>5, <2>1, <2>4 DEF Able
<1>9. PC(w)' = "wait" => /\ svc'[Serving(w)'].running # None \/ "foreign" \in tainted'
                         /\ svc'[Serving(w)'].loaded # None
  <2>. HAVE PC(w)' = "wait"
  <2>1. PC(w) \in {"enable", "kickstart"} /\ Serving(w)' = Serving(w)
    BY <1>4 DEF Leads
  <2>2. svc[Serving(w)].loaded # None /\ None \notin Runs(disk, svc[Serving(w)].loaded)
    BY <2>1, EnabledStarts
  <2>5. Comes(disk, svc[Serving(w)].loaded, tainted) =
          Runs(disk, svc[Serving(w)].loaded) \cup (IF "foreign" \in tainted THEN {None} ELSE {})
    BY DEF Comes
  <2>3. PICK r, e : /\ r # None \/ "foreign" \in tainted
                    /\ tainted' = tainted
                    /\ svc' = [svc EXCEPT ![Serving(w)] = [svc[Serving(w)] EXCEPT !.enabled = e, !.running = r]]
    <3>1. CASE PC(w) = "enable"
      <4>1. Enable(w)
        BY <1>2, <3>1, StepIs
      <4>2. PICK r \in IF svc[Serving(w)].running # None THEN {svc[Serving(w)].running}
                       ELSE Comes(disk, svc[Serving(w)].loaded, tainted) :
              /\ tainted' = tainted
              /\ svc' = [svc EXCEPT ![Serving(w)] = [svc[Serving(w)] EXCEPT !.enabled = TRUE, !.running = r]]
        BY <1>2, <2>2, <4>1 DEF Enable, Manages, Now
      <4>3. r # None \/ "foreign" \in tainted
        BY <2>2, <2>5
      <4> QED BY <4>2, <4>3
    <3>2. CASE PC(w) = "kickstart"
      <4>1. Kickstart(w)
        BY <1>2, <3>2, StepIs
      <4>2. PICK r \in Comes(disk, svc[Serving(w)].loaded, tainted) :
              /\ tainted' = tainted
              /\ svc' = [svc EXCEPT ![Serving(w)] = [svc[Serving(w)] EXCEPT !.running = r]]
        BY <1>2, <4>1 DEF Kickstart, Manages, Now
      <4>3. r # None \/ "foreign" \in tainted
        BY <2>2, <2>5
      <4>4. [svc[Serving(w)] EXCEPT !.running = r] =
              [svc[Serving(w)] EXCEPT !.enabled = svc[Serving(w)].enabled, !.running = r]
        BY <1>3 DEF ServiceType
      <4> QED BY <4>2, <4>3, <4>4
    <3> QED BY <2>1, <3>1, <3>2
  <2>4. svc'[Serving(w)].running = r /\ svc'[Serving(w)].loaded = svc[Serving(w)].loaded
    BY <1>2, <1>3, <2>3 DEF ServiceType
  <2> QED BY <2>1, <2>2, <2>3, <2>4
<1> QED BY <1>6, <1>7, <1>8, <1>9 DEF Able

LEMMA PlistsKept ==
  ASSUME NEW w \in Workers, Typed, Sentinels(w), Underway(w), Harmless(w), Step(w),
         product = "macKanidm", "root" \notin tainted
  PROVE  Plists'
<1>1. Effects(w) /\ job[w].todo # <<>> /\ product' = product
  BY StepEffects DEF Effects
<1>2. /\ Proper(job[w].kind, product, PC(w)) /\ \A a : At(w, a) <=> PC(w) = a
      /\ Service(w) = Serving(w) /\ Serving(w) \in Services /\ job[w].kind \in {"install", "uninstall"}
  BY <1>1, Here
<1>3. svc \in [Services -> ServiceType] /\ svc["main"] \in ServiceType /\ disk \in DiskType
      /\ Serving(w) = "main"
  BY <1>2 DEF Typed, TypeOK, Services
<1>4. Plists /\ product \in Resumable /\ product \in Fetched
  BY ResumableIs DEF Harmless, Resumable
<1>. DEFINE m == svc["main"]
            n == svc'["main"]
<1>5. m.unit \in disk.sealed \cup {None} /\ m.loaded \in disk.sealed \cup {None}
  BY <1>4 DEF Plists
<1>6. disk.sealed \subseteq disk'.sealed
  <2>1. ~RemoveRoot(w)
    BY <1>2 DEF RemoveRoot, Proper, Mac
  <2>2. Seal(w) => disk'.sealed = disk.sealed \cup {Version(w)}
    BY <1>3 DEF Seal, Becomes, DiskType
  <2> QED BY <1>1, <2>1, <2>2 DEF Effects, Writers
<1>7. n.unit \in disk.sealed \cup {None} /\ n.loaded \in disk.sealed \cup {None}
  <2>1. CASE PC(w) = "unit"
    <3>1. Unit(w)
      BY <1>2, <2>1, StepIs
    <3>2. Wanted(w) = Version(w)
      BY DEF Wanted, DistroFirst
    <3>3. svc' = [svc EXCEPT !["main"] = [m EXCEPT !.unit = Version(w)]]
      BY <1>2, <1>3, <3>1, <3>2 DEF Unit, Manages, Now
    <3>4. n.unit = Version(w) /\ n.loaded = m.loaded
      BY <1>3, <3>3 DEF ServiceType, Services
    <3>5. Version(w) \in disk.sealed
      BY <1>2, <1>4, <2>1 DEF Underway, TreeReady, After, Proper, Removals
    <3> QED BY <1>5, <3>4, <3>5
  <2>2. CASE PC(w) = "bootstrap"
    <3>1. Bootstrap(w)
      BY <1>2, <2>2, StepIs
    <3>. DEFINE u == IF m.loaded = None THEN m.unit ELSE m.loaded
    <3>2. PICK r : svc' = [svc EXCEPT !["main"] = [m EXCEPT !.loaded = u, !.enabled = TRUE, !.running = r]]
      BY <1>2, <1>3, <3>1 DEF Bootstrap, Manages, Now
    <3>3. n.unit = m.unit /\ n.loaded = u
      BY <1>3, <3>2 DEF ServiceType, Services
    <3> QED BY <1>5, <3>3
  <2>3. CASE PC(w) = "kickstart"
    <3>1. Kickstart(w)
      BY <1>2, <2>3, StepIs
    <3>2. PICK r : svc' = [svc EXCEPT !["main"] = [m EXCEPT !.running = r]]
      BY <1>2, <1>3, <3>1 DEF Kickstart, Manages, Now
    <3> QED BY <1>3, <1>5, <3>2 DEF ServiceType, Services
  <2>4. CASE PC(w) = "bootout"
    <3>1. BootOut(w)
      BY <1>2, <2>4, StepIs
    <3>2. svc' = [svc EXCEPT !["main"] = [m EXCEPT !.loaded = None, !.running = None]]
      BY <1>2, <1>3, <3>1 DEF BootOut, Manages, Now
    <3> QED BY <1>3, <1>5, <3>2 DEF ServiceType, Services
  <2>5. CASE PC(w) = "rmUnit"
    <3>1. RemoveUnit(w)
      BY <1>2, <2>5, StepIs
    <3>2. svc' = [svc EXCEPT !["main"] = [m EXCEPT !.unit = None]]
      BY <1>2, <1>3, <3>1 DEF RemoveUnit, Manages, Now
    <3> QED BY <1>3, <1>5, <3>2 DEF ServiceType, Services
  <2>6. CASE PC(w) \notin {"unit", "bootstrap", "kickstart", "bootout", "rmUnit"}
    <3>1. PC(w) \notin {"reload", "stop", "enable", "unregister", "register", "start"}
      BY <1>2 DEF Proper, Mac
    <3>2. Disable(w) => PC(w) = "disable"
      BY <1>2, SMTT(30) DEF Disable, Manages
    <3>3. svc' = svc \/ Disable(w)
      BY <1>1, <1>2, <2>6, <3>1
         DEF Effects, Writers, Unit, Reload, Stop, Enable, Bootstrap, Kickstart, BootOut, Unregister,
             Register, StartService, RemoveUnit, Manages, Needs
    <3>4. Disable(w) => svc' = [svc EXCEPT !["main"] = [m EXCEPT !.enabled = FALSE]]
      BY <1>2, <1>3 DEF Disable, Manages, Now
    <3> QED BY <1>3, <1>5, <3>3, <3>4 DEF ServiceType, Services
  <2> QED BY <2>1, <2>2, <2>3, <2>4, <2>5, <2>6
<1> QED BY <1>6, <1>7 DEF Plists

LEMMA StepKeepsHarmless ==
  ASSUME NEW w \in Workers, Typed, Sentinels(w), Underway(w), Harmless(w), Step(w)
  PROVE  Harmless(w)'
<1>1. /\ Effects(w) /\ Proceeds(w) /\ job[w].todo # <<>> /\ product' = product
  BY StepEffects, StepMoves DEF Effects
<1>2. /\ Proper(job[w].kind, product, PC(w)) /\ job[w].kind \in {"install", "uninstall"}
      /\ \A a : At(w, a) <=> PC(w) = a
  BY <1>1, Here
<1>3. Plain'
  BY StepKeepsPlain DEF Harmless
<1>4. job'[w].kind # "idle" => result' = "none" /\ job'[w].kind = job[w].kind
  BY <1>1, <1>2 DEF Proceeds, Onward, SameJob, Dies, Idle, Harmless
<1>5. ASSUME product \in Resumable, "root" \notin tainted'
      PROVE  result' # "blocked" /\ Plists' /\ Able(w)'
  <2>1. CASE RemoveRoot(w)
    <3>1. PC(w) = "rmRoot"
      BY <1>2, <2>1 DEF RemoveRoot
    <3>2. job[w].kind = "uninstall" /\ product # "macKanidm"
      BY <1>2, <3>1 DEF Proper, Installs, Mac
    <3>3. result' = "none"
      BY <1>2, <2>1 DEF RemoveRoot, Harmless
    <3>4. job'[w].kind # "install"
      BY <1>4, <3>2
    <3> QED BY <1>1, <3>2, <3>3, <3>4 DEF Plists, Able
  <2>2. CASE ~RemoveRoot(w)
    <3>1. tainted' = tainted \/ Stop(w) \/ DropDatabase(w)
      BY <1>1, <2>2 DEF Effects, Writers
    <3>2. "root" \notin tainted
      BY <1>5, <3>1 DEF Stop, DropDatabase
    <3>3. job'[w].kind # "idle"
      BY <1>5, <3>2, NeverBlocks
    <3>4. Plists'
      BY <1>1, <3>2, PlistsKept DEF Plists
    <3>5. Able(w)'
      <4>1. CASE job'[w].kind = "install"
        BY <1>4, <1>5, <3>2, <3>3, <4>1, AbleKept
      <4>2. CASE job'[w].kind # "install"
        BY <4>2 DEF Able
      <4> QED BY <4>1, <4>2
    <3> QED BY <1>4, <3>3, <3>4, <3>5
  <2> QED BY <2>1, <2>2
<1> QED BY <1>1, <1>3, <1>4, <1>5 DEF Harmless

LEMMA FailKeepsHarmless ==
  ASSUME NEW w \in Workers, Typed, Harmless(w), Fail(w)
  PROVE  Harmless(w)'
<1>1. product' = product /\ (disk' = disk \/ HalfOf(w, disk')) /\ job[w].todo # <<>>
  BY Halves DEF Fail
<1>2. \/ Dies(w) /\ result' = "failed"
      \/ Onward(w) /\ result' = result /\ (job[w].kind # "install" \/ PC(w) = "stop")
  BY FailMoves
<1>3. Plain'
  BY <1>1, HalvesKeepPlain DEF Harmless
<1>4. /\ Proper(job[w].kind, product, PC(w)) /\ job[w].kind \in {"install", "uninstall"}
      /\ \A a : At(w, a) <=> PC(w) = a
      /\ Service(w) \in Services
  BY <1>1, Here
<1>5. job'[w].kind # "idle" => result' = "none" /\ job'[w].kind = job[w].kind
  BY <1>2, <1>4 DEF Dies, Idle, Onward, SameJob, Harmless
<1>6. ASSUME product \in Resumable, "root" \notin tainted'
      PROVE  result' # "blocked" /\ Plists' /\ Able(w)'
  <2>1. "root" \notin tainted /\ PC(w) # "rmRoot"
    BY <1>6, Remembered
  <2>2. result # "blocked" /\ Plists /\ Able(w)
    BY <1>6, <2>1 DEF Harmless
  <2>3. Plists'
    <3>. SUFFICES ASSUME product = "macKanidm" PROVE Plists'
      BY <1>1 DEF Plists
    <3>1. svc \in [Services -> ServiceType] /\ "main" \in Services /\ Services = {"main"}
      BY <1>1 DEF Typed, TypeOK, Services
    <3>2. disk'.sealed = disk.sealed
      BY <1>1, <2>1, HalfWriters
    <3>3. svc' = svc \/ svc' = [svc EXCEPT ![Service(w)].unit = None]
      BY DEF Fail, HalfManaged
    <3>4. svc'["main"].loaded = svc["main"].loaded
          /\ svc'["main"].unit \in {svc["main"].unit, None}
      BY <1>4, <3>1, <3>3 DEF ServiceType
    <3> QED BY <1>1, <2>2, <3>2, <3>4 DEF Plists
  <2>4. Able(w)'
    <3>. SUFFICES ASSUME job'[w].kind = "install" PROVE Able(w)'
      BY DEF Able
    <3>1. job[w].kind = "install" /\ Onward(w) /\ PC(w) = "stop"
      BY <1>2, <1>5 DEF Dies, Idle
    <3>2. disk' = disk /\ svc' = svc /\ Leads(w, "stop", PC(w)')
      BY <1>6, <3>1, StopIgnored, ResumableIs
    <3>3. PC(w)' \notin {"bootstrap", "kickstart", "wait"}
      BY <3>2 DEF Leads
    <3>4. disk.config # "torn"
      BY <2>2, <3>1 DEF Able, AfterConfig, After
    <3> QED BY <3>2, <3>3, <3>4 DEF Able
  <2> QED BY <1>2, <2>2, <2>3, <2>4
<1> QED BY <1>1, <1>3, <1>5, <1>6 DEF Harmless

LEMMA HarmlessNext ==
  ASSUME NEW w, Alone(w), Typed, Sentinels(w), Underway(w), Harmless(w), [Next]_vars
  PROVE  Harmless(w)'
<1>0. w \in Workers /\ (\A u \in Workers : u = w) /\ Workers = {w}
  BY DEF Alone
<1>a. svc \in [Services -> ServiceType] /\ "main" \in Services /\ disk \in DiskType
  BY DEF Typed, TypeOK, Services
<1>1. CASE Step(w)
  BY <1>0, <1>1, StepKeepsHarmless
<1>2. CASE Fail(w)
  BY <1>0, <1>2, FailKeepsHarmless
<1>3. CASE Reboot
  <2>1. product' = product /\ job'[w].kind = "idle" /\ result' \in {"failed", result}
    BY <1>0, <1>3, RebootMoves DEF Reboot, Dies, Idle
  <2>2. disk' = disk \/ (job[w].todo # <<>> /\ HalfOf(w, disk'))
    <3>1. disk' = disk \/ HalfOf(w, disk')
      BY <1>0, <1>3, RebootMoves
    <3>2. HalfOf(w, disk') => job[w].todo # <<>>
      BY DEF HalfOf, At
    <3> QED BY <3>1, <3>2
  <2>3. Plain'
    BY <1>0, <2>1, <2>2, HalvesKeepPlain DEF Harmless, Plain
  <2>4. ASSUME product \in Resumable, "root" \notin tainted'
        PROVE  result' # "blocked" /\ Plists'
    <3>1. "root" \notin tainted /\ PC(w) # "rmRoot"
      BY <1>0, <1>3, <2>4, Remembered
    <3>2. result # "blocked" /\ Plists
      BY <2>4, <3>1 DEF Harmless
    <3>3. disk'.sealed = disk.sealed
      BY <1>0, <2>2, <3>1, HalfWriters
    <3>4. svc'["main"].unit = svc["main"].unit /\ svc'["main"].loaded = svc["main"].unit
      <4>1. PICK runs : svc' = [s \in Services |->
                          [svc[s] EXCEPT !.loaded = svc[s].unit, !.running = runs[s]]]
        BY <1>3 DEF Reboot
      <4> QED BY <1>a, <4>1 DEF ServiceType
    <3> QED BY <2>1, <3>2, <3>3, <3>4 DEF Plists
  <2> QED BY <2>1, <2>3, <2>4, SMTT(30) DEF Harmless, Able
<1>4. ASSUME NEW kind \in {"install", "uninstall"}, NEW v \in Versions, Start(w, kind, v)
      PROVE  Harmless(w)'
  <2>1. job'[w].kind = kind /\ First(kind, product, PC(w)')
    BY <1>0, <1>4, StartMoves
  <2>2. kind = "install" => PC(w)' \notin AfterConfig
    BY <2>1 DEF First, AfterConfig, After
  <2>3. Able(w)'
    BY <2>1, <2>2 DEF Able, AfterConfig, After
  <2> QED BY <1>4, <2>3 DEF Start, Harmless, Plain, Plists
<1>5. CASE Finish(w)
  <2>1. job'[w].kind = "idle"
    BY <1>0, <1>5, FinishMoves DEF Dies, Idle
  <2>2. result' # "blocked" /\ UNCHANGED <<product, disk, svc, tainted>>
    BY <1>5 DEF Finish
  <2> QED BY <2>1, <2>2 DEF Harmless, Plain, Plists, Able
<1>6. CASE EditConfig
  <2>1. job[w].kind = "idle" /\ UNCHANGED <<product, svc, job, result, tainted>>
    BY <1>0, <1>6 DEF EditConfig, AllIdle
  <2>2. disk' = [disk EXCEPT !.config = "edited"]
    BY <1>6 DEF EditConfig
  <2>3. Plain' /\ disk'.sealed = disk.sealed
    BY <1>a, <2>1, <2>2 DEF Harmless, Plain, DiskType
  <2> QED BY <2>1, <2>3 DEF Harmless, Plists, Able
<1>7. CASE RollBack
  <2>1. job[w].kind = "idle" /\ UNCHANGED <<product, job, result, tainted>>
    BY <1>0, <1>7 DEF RollBack, AllIdle
  <2>2. PICK i : disk' = [disk EXCEPT !.current = i]
    BY <1>7 DEF RollBack
  <2>3. PICK r : svc' = [svc EXCEPT !["main"].running = r]
    BY <1>7 DEF RollBack
  <2>4. Plain' /\ disk'.sealed = disk.sealed
    BY <1>a, <2>1, <2>2 DEF Harmless, Plain, DiskType
  <2>5. svc'["main"].unit = svc["main"].unit /\ svc'["main"].loaded = svc["main"].loaded
    BY <1>a, <2>3 DEF ServiceType
  <2> QED BY <2>1, <2>4, <2>5 DEF Harmless, Plists, Able
<1>8. ASSUME NEW x \in Services, Respawn(x) \/ PortTaken(x)
      PROVE  Harmless(w)'
  <2>1. UNCHANGED <<product, disk, job, result>> /\ ("root" \in tainted' <=> "root" \in tainted)
        /\ ("foreign" \notin tainted' => "foreign" \notin tainted /\ Respawn(x))
    BY <1>8 DEF Respawn, PortTaken
  <2>2. PICK r : /\ svc' = [svc EXCEPT ![x].running = r]
                 /\ Respawn(x) => r \in Comes(disk, svc[x].loaded, tainted)
    BY <1>8 DEF Respawn, PortTaken
  <2>3. \A s \in Services : /\ svc'[s].unit = svc[s].unit /\ svc'[s].loaded = svc[s].loaded
                            /\ svc'[s].running = IF s = x THEN r ELSE svc[s].running
    BY <1>a, <2>2 DEF ServiceType
  <2>4. PC(w)' = PC(w) /\ Serving(w)' = Serving(w)
    BY <2>1 DEF PC, Following, Serving
  <2>5. ASSUME product \in Resumable, "root" \notin tainted
        PROVE  Plists' /\ Able(w)'
    <3>1. Plists /\ Able(w)
      BY <2>5 DEF Harmless
    <3>2. Plists'
      BY <1>a, <2>1, <2>3, <3>1 DEF Plists
    <3>3. ASSUME job[w].kind = "install", PC(w) = "wait"
          PROVE  /\ svc'[Serving(w)].running # None \/ "foreign" \in tainted'
                 /\ svc'[Serving(w)].loaded # None
      <4>1. Serving(w) \in Services
        BY <1>0, <3>3, Here DEF PC, Following
      <4>2. None \notin Runs(disk, svc[Serving(w)].loaded)
        BY <1>0, <2>5, <3>3, EnabledStarts
      <4>3. "foreign" \notin tainted' /\ Serving(w) = x => r # None
        BY <2>1, <2>2, <4>2 DEF Comes
      <4> QED BY <2>1, <2>3, <3>1, <3>3, <4>1, <4>3 DEF Able
    <3>4. Able(w)'
      BY <1>a, <2>1, <2>3, <2>4, <3>1, <3>3 DEF Able
    <3> QED BY <3>2, <3>4
  <2> QED BY <2>1, <2>5 DEF Harmless, Plain
<1>9. CASE UNCHANGED vars
  BY <1>9 DEF vars, Harmless, Plain, Plists, Able, PC, Following, Serving
<1> QED BY <1>0, <1>1, <1>2, <1>3, <1>4, <1>5, <1>6, <1>7, <1>8, <1>9 DEF Next

(* uninstall_service and the install pipelines: what an interrupted job of *)
(* these drivers leaves on the host blocks no later install, for any       *)
(* versions and any number of faults, a removal that died excepted.        *)
THEOREM LeftoversAlwaysHarmless ==
  ASSUME NEW w, Alone(w)
  PROVE  Spec => []LeftoversAreHarmless
<1>. DEFINE I == Typed /\ Sentinels(w) /\ Underway(w) /\ Harmless(w)
<1>1. Init => I
  <2>1. Init => Sentinels(w) /\ Underway(w) /\ Harmless(w)
    BY DEF Alone, Init, Sentinels, Underway, Harmless, Plain, Plists, Able, NoDisk, NoService,
           Services, PC, Following, Idle
  <2> QED BY <2>1, TypedInit
<1>2. I /\ [Next]_vars => I'
  BY TypedNext, SentinelsNext, UnderwayNext, HarmlessNext
<1>3. I => LeftoversAreHarmless
  BY DEF Harmless, LeftoversAreHarmless
<1> QED BY <1>1, <1>2, <1>3, PTL DEF Spec

-----------------------------------------------------------------------------
(* What runs after an install.                                             *)
(* The tree, the current release of kanidm, a service needs to start in v. *)
Starts(v) ==
  /\ ~Broken(disk)
  /\ IF product = "kanidm"
     THEN disk.current \in DOMAIN disk.releases /\ disk.releases[disk.current].binary = v
     ELSE TreeReady(v)

(* A service that is up in version v, and stays so; unless the daemon that *)
(* answered was an older one its stop had left running.                    *)
Up(s, v) ==
  /\ svc[s].unit = v /\ svc[s].loaded = v /\ svc[s].enabled
  /\ product = "databend" \/ "running" \notin tainted => Starts(v) /\ svc[s].running # None
  /\ "running" \notin tainted => svc[s].running = v

\* kanidm's steps between stopping the old daemon and starting the new one.
Stopped == {"swap", "prune", "keypair", "config", "unit", "reload", "enable"}

(* Which release of kanidm holds the binary that was built. *)
Holds(a, v, d) ==
  /\ a \in {"newRelease", "copy"} => d.built = v
  /\ a \in {"probe", "manifest", "stop", "swap"} => d.releases[Len(d.releases)].binary = v
  /\ a \in (Stopped \cup {"wait"}) \ {"swap"} =>
       d.current \in DOMAIN d.releases /\ d.releases[d.current].binary = v

(* How far an install is with the services of its version. *)
Rising(w, v) ==
  /\ product = "databend" /\ (job[w].todo = <<>> \/ Serving(w) = "main") => Up("meta", v)
  /\ job[w].todo = <<>> => Up("main", v)
  /\ "running" \notin tainted /\ (PC(w) = "enable" \/ (product = "kanidm" /\ PC(w) \in Stopped))
       => svc[Serving(w)].running = None
  /\ "running" \notin tainted /\ PC(w) = "wait" /\ svc[Serving(w)].running # None
       => Starts(v) /\ svc[Serving(w)].running = v
  /\ product = "kanidm" => Holds(PC(w), v, disk)

Running(w) ==
  product \in Honours /\ "root" \notin tainted /\ "foreign" \notin tainted =>
    /\ installed # None => \A s \in Services : Up(s, installed)
    /\ job[w].kind = "install" => Rising(w, Version(w))

LEMMA HonoursAre ==
  ASSUME product \in Honours
  PROVE  /\ product \in Systemd \cup {"kanidm"} /\ product \in Fetched \cup {"kanidm"}
         /\ product \notin DistroFirst /\ product \notin Mac
         /\ product \notin {"xtable", "garage", "macKanidm", "macPostgres", "postgres", "windowsPostgres"}
         /\ product \in Released <=> product = "kanidm"
         /\ product = "kanidm" => product \notin Systemd
         /\ product # "kanidm" => product \in Fetched
BY DriversAssumption DEF Honours, Known, Systemd, Bundled, Fetched, DistroFirst, Mac, Released

(* What such a unit starts: its version, or nothing at all. *)
LEMMA StartsAs ==
  ASSUME product \in Honours, NEW v \in Versions
  PROVE  /\ Starts(v) => Runs(disk, v) = {v}
         /\ (IF product = "kanidm"
             THEN disk.current \in DOMAIN disk.releases => disk.releases[disk.current].binary = v
             ELSE TreeReady(v)) =>
               \A r \in Runs(disk, v) : r # None => Starts(v) /\ r = v
<1>1. v # None /\ None \notin Versions
  BY DriversAssumption
<1>2. product # "xtable" /\ product \notin DistroFirst /\ (product \in Released <=> product = "kanidm")
  BY HonoursAre
<1>3. "kanidm" # "sail" /\ "whole" # "none"
  OBVIOUS
<1>4. Starts(v) => Runs(disk, v) = {v}
  <2>. HAVE Starts(v)
  <2>1. ~Broken(disk)
    BY DEF Starts
  <2>2. CASE product = "kanidm"
    BY <1>1, <1>2, <2>1, <2>2 DEF Starts, Runs
  <2>3. CASE product = "sail"
    <3>1. {x \in Versions : disk.cache[x] = "whole"} = {v}
      BY <1>3, <2>3 DEF Starts, TreeReady
    <3> QED BY <1>1, <1>2, <1>3, <2>1, <2>3, <3>1 DEF Runs
  <2>4. CASE product \notin {"kanidm", "sail"}
    <3>1. disk.cache[v] = "whole"
      BY <2>4 DEF Starts, TreeReady
    <3> QED BY <1>1, <1>2, <1>3, <2>1, <2>4, <3>1 DEF Runs
  <2> QED BY <2>2, <2>3, <2>4
<1>5. ASSUME NEW r \in Runs(disk, v), r # None,
             IF product = "kanidm"
             THEN disk.current \in DOMAIN disk.releases => disk.releases[disk.current].binary = v
             ELSE TreeReady(v)
      PROVE  Starts(v) /\ r = v
  <2>1. ~Broken(disk)
    BY <1>1, <1>2, <1>5 DEF Runs
  <2>2. CASE product = "kanidm"
    BY <1>1, <1>2, <1>5, <2>1, <2>2 DEF Starts, Runs
  <2>3. CASE product # "kanidm"
    <3>1. Starts(v)
      BY <1>5, <2>1, <2>3 DEF Starts
    <3> QED BY <1>4, <1>5, <3>1
  <2> QED BY <2>2, <2>3
<1> QED BY <1>4, <1>5

(* Nothing but a new tree, a new release or a torn config stops it. *)
LEMMA StartsKept ==
  ASSUME NEW v, Starts(v), product' = product,
         disk'.config # "torn", disk'.keys = disk.keys, disk'.runtime = disk.runtime,
         disk'.data = disk.data, disk'.cache = disk.cache, disk'.sealed = disk.sealed,
         disk'.releases = disk.releases, disk'.current = disk.current
  PROVE  Starts(v)'
BY DEF Starts, TreeReady, Broken

(* An install leaves the service it is not at alone, reloads apart. *)
LEMMA OtherService ==
  ASSUME Typed, NEW w \in Workers, Step(w), job[w].kind = "install",
         NEW x \in Services, x # Serving(w)
  PROVE  /\ svc'[x].unit = svc[x].unit /\ svc'[x].enabled = svc[x].enabled
         /\ svc'[x].running = svc[x].running /\ svc'[x].loaded \in {svc[x].loaded, svc[x].unit}
<1>1. Effects(w) /\ job[w].todo # <<>>
  BY StepEffects DEF Effects
<1>2. Service(w) = Serving(w) /\ Serving(w) \in Services
  BY <1>1, Here
<1>3. svc \in [Services -> ServiceType] /\ svc[x] \in ServiceType
  BY DEF Typed, TypeOK
<1>4. CASE Reload(w)
  BY <1>3, <1>4 DEF Reload, ServiceType
<1>5. CASE Stop(w)
  <2>1. svc' = [svc EXCEPT ![Serving(w)].running = None]
    BY <1>2, <1>5 DEF Stop
  <2> QED BY <1>2, <1>3, <2>1
<1>6. CASE svc' = svc
  BY <1>6
<1>7. CASE /\ svc' # svc /\ ~Reload(w) /\ ~Stop(w)
  <2>1. \E fields : svc' = [svc EXCEPT ![Serving(w)] = fields]
    <3>1. /\ Unit(w) => \E fields : svc' = [svc EXCEPT ![Serving(w)] = fields]
          /\ Register(w) => \E fields : svc' = [svc EXCEPT ![Serving(w)] = fields]
          /\ Unregister(w) => \E fields : svc' = [svc EXCEPT ![Serving(w)] = fields]
          /\ Disable(w) => \E fields : svc' = [svc EXCEPT ![Serving(w)] = fields]
          /\ RemoveUnit(w) => \E fields : svc' = [svc EXCEPT ![Serving(w)] = fields]
          /\ BootOut(w) => \E fields : svc' = [svc EXCEPT ![Serving(w)] = fields]
      BY <1>2 DEF Unit, Register, Unregister, Disable, RemoveUnit, BootOut, Manages
    <3>2. Bootstrap(w) => \E fields : svc' = [svc EXCEPT ![Serving(w)] = fields]
      BY <1>2 DEF Bootstrap, Manages
    <3>3. Kickstart(w) => \E fields : svc' = [svc EXCEPT ![Serving(w)] = fields]
      BY <1>2 DEF Kickstart, Manages
    <3>4. StartService(w) => \E fields : svc' = [svc EXCEPT ![Serving(w)] = fields]
      BY <1>2 DEF StartService, Manages
    <3>5. Enable(w) => \E fields : svc' = [svc EXCEPT ![Serving(w)] = fields]
      BY <1>2, <1>7 DEF Enable, Manages, Needs
    <3> QED BY <1>1, <1>7, <3>1, <3>2, <3>3, <3>4, <3>5 DEF Effects, Writers
  <2> QED BY <1>2, <1>3, <2>1
<1> QED BY <1>4, <1>5, <1>6, <1>7

(* databend: the meta service stays up while the other is put up. *)
LEMMA MetaStays ==
  ASSUME Typed, NEW w \in Workers, Step(w), job[w].kind = "install", job'[w].kind = "install",
         product = "databend", Serving(w) = "main", Up("meta", Version(w))
  PROVE  Up("meta", Version(w))'
<1>1. Effects(w) /\ job[w].todo # <<>> /\ product' = product
  BY StepEffects DEF Effects
<1>2. /\ Proper("install", product, PC(w)) /\ (\A a : At(w, a) <=> PC(w) = a)
      /\ Services = {"main", "meta"}
  BY <1>1, Here DEF Services
<1>3. svc \in [Services -> ServiceType] /\ disk \in DiskType /\ disk.cache \in Tree
  BY DEF Typed, TypeOK, DiskType
<1>4. Version(w)' = Version(w) /\ Version(w) \in Versions
  BY InstallStep DEF Fetched, Systemd, Bundled
<1>. DEFINE v == Version(w)
<1>5. /\ svc["meta"].unit = v /\ svc["meta"].loaded = v /\ svc["meta"].enabled
      /\ Starts(v) /\ svc["meta"].running # None
      /\ "running" \notin tainted => svc["meta"].running = v
  BY DEF Up
<1>6. /\ svc'["meta"].unit = v /\ svc'["meta"].loaded = v /\ svc'["meta"].enabled
      /\ svc'["meta"].running = svc["meta"].running
  BY <1>2, <1>5, OtherService
<1>7. tainted' = tainted
  <2>1. ~RemoveRoot(w) /\ ~DropDatabase(w)
    BY <1>2 DEF RemoveRoot, DropDatabase, Proper, Installs
  <2>2. Stop(w) => tainted' = tainted
    BY <1>2, <1>5, <1>6 DEF Stop
  <2> QED BY <1>1, <2>1, <2>2 DEF Effects, Writers
<1>8. Starts(v)'
  <2>1. ~RemoveRoot(w) /\ ~KeyPair(w) /\ ~Runtime(w) /\ ~InitDb(w) /\ ~KeepConfig(w) /\ ~RemoveData(w)
        /\ ~Venv(w) /\ ~Jar(w)
    BY <1>2 DEF RemoveRoot, KeyPair, Runtime, InitDb, KeepConfig, RemoveData, Venv, Jar,
       Becomes, Needs, Proper, Installs, DistroFirst
  <2>2. Config(w) => disk'.config = "ours"
    BY <1>3 DEF Config, Becomes, DiskType
  <2>3. Extract(w) => disk'.cache[v] = "whole"
    BY <1>3, <1>4 DEF Extract, Becomes, DiskType, Tree
  <2>4. Seal(w) => disk'.sealed = disk.sealed \cup {v}
    BY <1>3 DEF Seal, Becomes, DiskType
  <2>5. disk.config # "torn" /\ disk.keys # "certificate" /\ disk.runtime # "part" /\ disk.data # "torn"
        /\ disk.cache[v] = "whole" /\ v \in disk.sealed
    BY <1>5 DEF Starts, Broken, TreeReady
  <2>6. /\ disk'.config # "torn" /\ disk'.keys = disk.keys /\ disk'.runtime = disk.runtime
        /\ disk'.data = disk.data /\ disk'.cache[v] = "whole" /\ v \in disk'.sealed
    BY <1>1, <2>1, <2>2, <2>3, <2>4, <2>5 DEF Effects, Writers
  <2> QED BY <1>1, <1>4, <2>5, <2>6 DEF Starts, Broken, TreeReady
<1> QED BY <1>1, <1>4, <1>5, <1>6, <1>7, <1>8 DEF Up

(* A service that answered is up. *)
LEMMA WaitsUp ==
  ASSUME Typed, NEW w \in Workers, Step(w), job[w].kind = "install", job'[w].kind = "install",
         product \in Honours, "root" \notin tainted, "foreign" \notin tainted, Underway(w), Harmless(w),
         NEW v, v = Version(w), NEW s, s = Serving(w), Rising(w, v), PC(w) = "wait"
  PROVE  Up(s, v)' /\ svc' = svc /\ disk' = disk /\ tainted' = tainted
<1>1. Effects(w) /\ job[w].todo # <<>> /\ product' = product
  BY StepEffects DEF Effects
<1>2. (\A a : At(w, a) <=> PC(w) = a) /\ Service(w) = Serving(w)
  BY <1>1, Here
<1>3. Needs(w, "wait", svc[s].running # None)
  <2>1. Wait(w)
    BY <1>2, StepIs
  <2>2. At(w, "wait") /\ Needs(w, "wait", Now(w).running # None \/ "foreign" \in tainted)
    BY <2>1 DEF Wait
  <2>3. (Now(w).running # None \/ "foreign" \in tainted) = (svc[s].running # None)
    BY <1>2 DEF Now
  <2> QED BY <2>2, <2>3
<1>4. svc[s].running # None
  <2>1. job \in [Workers -> JobType]
    BY DEF Typed, JobsFlow
  <2> QED BY <1>3, <2>1 DEF Needs, Idle
<1>5. svc' = svc /\ disk' = disk /\ tainted' = tainted
  BY <1>3 DEF Needs
<1>6. svc[s].unit = v /\ svc[s].loaded = v /\ svc[s].enabled
  BY HonoursAre DEF Underway, UnitReady
<1>7. "running" \notin tainted => Starts(v) /\ svc[s].running = v
  BY <1>4 DEF Rising
<1>8. product = "databend" => Starts(v)
  <2>. HAVE product = "databend"
  <2>1. product \in Resumable /\ product \in Fetched
    BY HonoursAre DEF Resumable
  <2>2. TreeReady(v)
    BY <2>1 DEF Underway, After
  <2>3. Plain /\ Able(w)
    BY <2>1 DEF Harmless
  <2>4. disk.config # "torn"
    BY <2>3 DEF Able, AfterConfig, After
  <2>5. None # "torn"
    BY DriversAssumption
  <2> QED BY <2>1, <2>2, <2>3, <2>4, <2>5 DEF Starts, Broken, Plain
<1>9. Up(s, v)
  BY <1>4, <1>6, <1>7, <1>8 DEF Up
<1> QED BY <1>1, <1>5, <1>9 DEF Up, Starts, Broken, TreeReady

(* The binary that was built is the one that is staged, promoted and kept. *)
LEMMA HoldsKept ==
  ASSUME Typed, NEW w \in Workers, Step(w), job[w].kind = "install", job'[w].kind = "install",
         product = "kanidm", NEW v, v = Version(w), ReleasesFit(w), Holds(PC(w), v, disk)
  PROVE  Holds(PC(w)', v, disk')
<1>1. Effects(w) /\ job[w].todo # <<>> /\ product' = product
  BY StepEffects DEF Effects
<1>2. /\ Proper("install", product, PC(w)) /\ \A a : At(w, a) <=> PC(w) = a
  BY <1>1, Here
<1>3. disk \in DiskType /\ disk.releases \in Seq(Release)
  BY DEF Typed, TypeOK, DiskType
<1>4. Leads(w, PC(w), PC(w)') /\ v \in Versions
  BY InstallStep
<1>5. product \in Released /\ Staging(PC(w), disk)
  BY DEF ReleasesFit, Released
<1>. DEFINE rs == disk.releases
            a == PC(w)
            b == PC(w)'
<1>6. a \notin {"build", "newRelease", "copy", "probe", "manifest", "swap", "prune", "rmRoot"} =>
        disk'.releases = rs /\ disk'.current = disk.current
  BY <1>1, <1>2 DEF Effects, Writers, NewRelease, Copy, Probe, Manifest, Swap, Prune, RemoveRoot, Becomes
<1>7. CASE b = "newRelease"
  <2>1. Build(w) /\ SourceOf(w) = {v}
    BY <1>2, <1>4, <1>7, StepIs DEF Leads, SourceOf
  <2>2. ~Needs(w, "build", FALSE)
    <3>1. job \in [Workers -> JobType]
      BY DEF Typed, JobsFlow
    <3> QED BY <3>1 DEF Needs, Idle
  <2>3. disk' = [disk EXCEPT !.built = v]
    BY <2>1, <2>2 DEF Build, Becomes
  <2> QED BY <1>3, <1>7, <2>3 DEF Holds, Stopped, DiskType
<1>8. CASE b = "copy"
  <2>1. NewRelease(w) /\ a = "newRelease"
    BY <1>2, <1>4, <1>8, StepIs DEF Leads
  <2>2. disk'.built = disk.built
    BY <1>3, <2>1 DEF NewRelease, Becomes, DiskType
  <2> QED BY <1>8, <2>1, <2>2 DEF Holds, Stopped
<1>9. CASE b = "probe"
  <2>1. Copy(w) /\ a = "copy"
    BY <1>2, <1>4, <1>9, StepIs DEF Leads
  <2>2. rs # <<>> /\ disk.built = v
    BY <1>5, <2>1 DEF Staging, Holds
  <2>3. Len(rs) \in DOMAIN rs /\ rs[Len(rs)] \in Release
    BY <1>3, <2>2
  <2>4. disk' = [disk EXCEPT !.releases = [rs EXCEPT ![Len(rs)] = [rs[Len(rs)] EXCEPT !.binary = v]]]
    BY <1>3, <2>1, <2>2 DEF Copy, Becomes, Newest
  <2>5. disk'.releases = [rs EXCEPT ![Len(rs)] = [rs[Len(rs)] EXCEPT !.binary = v]]
    BY <1>3, <2>4 DEF DiskType
  <2>6. Len(disk'.releases) = Len(rs) /\ disk'.releases[Len(rs)].binary = v
    BY <1>3, <2>3, <2>5 DEF Release
  <2> QED BY <1>9, <2>6 DEF Holds, Stopped
<1>10. CASE b = "manifest"
  <2>1. Probe(w) /\ a = "probe"
    BY <1>2, <1>4, <1>10, StepIs DEF Leads
  <2>2. rs # <<>> /\ rs[Len(rs)].binary = v
    BY <1>5, <2>1 DEF Staging, Holds
  <2>3. Len(rs) \in DOMAIN rs /\ rs[Len(rs)] \in Release
    BY <1>3, <2>2
  <2>4. disk' = [disk EXCEPT !.releases = [rs EXCEPT ![Len(rs)] = [rs[Len(rs)] EXCEPT !.probed = TRUE]]]
    BY <1>3, <2>1 DEF Probe, Becomes, Newest
  <2>5. disk'.releases = [rs EXCEPT ![Len(rs)] = [rs[Len(rs)] EXCEPT !.probed = TRUE]]
    BY <1>3, <2>4 DEF DiskType
  <2>6. Len(disk'.releases) = Len(rs) /\ disk'.releases[Len(rs)].binary = v
    BY <1>3, <2>2, <2>3, <2>5 DEF Release
  <2> QED BY <1>10, <2>6 DEF Holds, Stopped
<1>11. CASE b = "stop"
  <2>1. Manifest(w) /\ a = "manifest"
    BY <1>2, <1>4, <1>11, StepIs DEF Leads
  <2>2. rs # <<>> /\ rs[Len(rs)].binary = v
    BY <1>5, <2>1 DEF Staging, Holds
  <2>3. Len(rs) \in DOMAIN rs /\ rs[Len(rs)] \in Release
    BY <1>3, <2>2
  <2>4. disk' = [disk EXCEPT !.releases = [rs EXCEPT ![Len(rs)] = [rs[Len(rs)] EXCEPT !.label = v]]]
    BY <1>3, <2>1 DEF Manifest, Becomes, Newest
  <2>5. disk'.releases = [rs EXCEPT ![Len(rs)] = [rs[Len(rs)] EXCEPT !.label = v]]
    BY <1>3, <2>4 DEF DiskType
  <2>6. Len(disk'.releases) = Len(rs) /\ disk'.releases[Len(rs)].binary = v
    BY <1>3, <2>2, <2>3, <2>5 DEF Release
  <2> QED BY <1>11, <2>6 DEF Holds, Stopped
<1>12. CASE b = "swap"
  <2>1. a = "stop"
    BY <1>4, <1>12 DEF Leads
  <2> QED BY <1>6, <1>12, <2>1 DEF Holds, Stopped
<1>13. CASE b = "prune"
  <2>1. Swap(w) /\ a = "swap"
    BY <1>2, <1>4, <1>13, StepIs DEF Leads
  <2>2. rs # <<>> /\ rs[Len(rs)].binary = v
    BY <1>5, <2>1 DEF Staging, Holds
  <2>3. Len(rs) \in DOMAIN rs
    BY <1>3, <2>2
  <2>4. disk' = [disk EXCEPT !.current = Len(rs)]
    BY <2>1 DEF Swap, Becomes, Newest
  <2>5. disk'.releases = rs /\ disk'.current = Len(rs)
    BY <1>3, <2>4 DEF DiskType
  <2> QED BY <1>13, <2>2, <2>3, <2>5 DEF Holds, Stopped
<1>14. CASE b = "keypair"
  <2>1. Prune(w) /\ a = "prune"
    BY <1>2, <1>4, <1>14, StepIs DEF Leads
  <2>2. disk.current \in DOMAIN rs /\ rs[disk.current].binary = v
    BY <2>1 DEF Holds, Stopped
  <2>3. disk' = Pruned(disk)
    BY <2>1 DEF Prune, Becomes
  <2>4. disk'.current \in DOMAIN disk'.releases /\ disk'.releases[disk'.current] = rs[disk.current]
    BY <1>3, <2>2, <2>3, PrunedFits
  <2> QED BY <1>14, <2>2, <2>4 DEF Holds, Stopped
<1>15. CASE b \in {"config", "unit", "reload", "enable", "wait"}
  <2>1. a \in {"keypair", "config", "unit", "reload", "enable"}
    BY <1>4, <1>15 DEF Leads, WithConfig
  <2> QED BY <1>6, <1>15, <2>1 DEF Holds, Stopped
<1>16. CASE b \notin {"newRelease", "copy", "probe", "manifest", "stop", "wait"} \cup Stopped
  BY <1>16 DEF Holds, Stopped
<1> QED BY <1>7, <1>8, <1>9, <1>10, <1>11, <1>12, <1>13, <1>14, <1>15, <1>16 DEF Stopped

(* Between its stop and its start, nothing runs the old version. *)
LEMMA OldIsDown ==
  ASSUME Typed, NEW w \in Workers, Step(w), job[w].kind = "install", job'[w].kind = "install",
         product \in Honours, NEW v, v = Version(w), Rising(w, v),
         "running" \notin tainted',
         PC(w)' = "enable" \/ (product = "kanidm" /\ PC(w)' \in Stopped)
  PROVE  svc'[Serving(w)'].running = None
<1>1. Effects(w) /\ job[w].todo # <<>> /\ product' = product
  BY StepEffects DEF Effects
<1>2. /\ Proper("install", product, PC(w)) /\ (\A a : At(w, a) <=> PC(w) = a)
      /\ Service(w) = Serving(w) /\ Serving(w) \in Services
  BY <1>1, Here
<1>3. svc \in [Services -> ServiceType] /\ svc[Serving(w)] \in ServiceType
  BY <1>2 DEF Typed, TypeOK
<1>4. Leads(w, PC(w), PC(w)')
  BY InstallStep, HonoursAre
<1>. DEFINE a == PC(w)
            s == Serving(w)
<1>5. PC(w)' \notin {"end", "check"} /\ a # "wait"
  BY <1>4 DEF Leads, Stopped
<1>6. Serving(w)' = s
  BY <1>4, <1>5 DEF Leads
<1>7. CASE a = "stop"
  <2>1. svc' = [svc EXCEPT ![s].running = None]
    BY <1>2, <1>7, StepIs DEF Stop
  <2> QED BY <1>2, <1>3, <1>6, <2>1
<1>8. CASE a # "stop"
  <2>1. product = "kanidm" /\ a \in Stopped \ {"enable"}
    BY <1>4, <1>8 DEF Leads, Stopped, WithConfig
  <2>2. tainted' = tainted
    <3>1. ~Stop(w) /\ ~RemoveRoot(w) /\ ~DropDatabase(w)
      BY <1>2, <1>8 DEF Stop, RemoveRoot, DropDatabase, Proper, Installs
    <3> QED BY <1>1, <3>1 DEF Effects, Writers
  <2>3. svc[s].running = None
    BY <2>1, <2>2 DEF Rising
  <2>4. CASE a = "unit"
    <3>1. svc' = [svc EXCEPT ![s] = [svc[s] EXCEPT !.unit = Wanted(w)]]
      BY <1>2, <2>4, StepIs DEF Unit, Manages, Now
    <3> QED BY <1>2, <1>3, <1>6, <2>3, <3>1 DEF ServiceType
  <2>5. CASE a = "reload"
    <3>1. svc' = [t \in Services |-> [svc[t] EXCEPT !.loaded = svc[t].unit]]
      BY <1>2, <2>5, StepIs DEF Reload
    <3>2. svc'[s] = [svc[s] EXCEPT !.loaded = svc[s].unit]
      BY <1>2, <3>1
    <3>3. svc'[s].running = svc[s].running
      BY <1>3, <3>2 DEF ServiceType
    <3> QED BY <1>6, <2>3, <3>3
  <2>6. CASE a \notin {"unit", "reload"}
    <3>1. svc' = svc
      BY <1>1, <1>2, <2>1, <2>6
         DEF Effects, Writers, Unit, Reload, Stop, Enable, Bootstrap, Kickstart, BootOut, Unregister,
             Register, StartService, Disable, RemoveUnit, Manages, Needs, Stopped
    <3> QED BY <1>6, <2>3, <3>1, SMTT(30)
  <2> QED BY <2>4, <2>5, <2>6
<1> QED BY <1>7, <1>8

(* What `enable` starts is the version of the install, or nothing. *)
LEMMA EnabledAs ==
  ASSUME Typed, NEW w \in Workers, Step(w), job[w].kind = "install", job'[w].kind = "install",
         product \in Honours, "root" \notin tainted, Underway(w), NEW v, v = Version(w), Rising(w, v),
         "running" \notin tainted', PC(w)' = "wait", svc'[Serving(w)'].running # None
  PROVE  Starts(v)' /\ svc'[Serving(w)'].running = v
<1>1. Effects(w) /\ job[w].todo # <<>> /\ product' = product
  BY StepEffects DEF Effects
<1>2. /\ Proper("install", product, PC(w)) /\ (\A a : At(w, a) <=> PC(w) = a)
      /\ Service(w) = Serving(w) /\ Serving(w) \in Services
  BY <1>1, Here
<1>3. svc \in [Services -> ServiceType] /\ svc[Serving(w)] \in ServiceType
  BY <1>2 DEF Typed, TypeOK
<1>4. Leads(w, PC(w), PC(w)') /\ v \in Versions
  BY InstallStep, HonoursAre
<1>. DEFINE s == Serving(w)
<1>5. PC(w) = "enable" /\ Serving(w)' = s
  BY <1>4, HonoursAre DEF Leads
<1>6. Enable(w) /\ ~Needs(w, "enable", FALSE)
  <2>1. job \in [Workers -> JobType]
    BY DEF Typed, JobsFlow
  <2> QED BY <1>2, <1>5, <2>1, StepIs DEF Needs, Idle
<1>7. disk' = disk /\ tainted' = tainted
  BY <1>6 DEF Enable, Manages
<1>8. svc[s].running = None /\ svc[s].loaded = v
  BY <1>5, <1>7, HonoursAre DEF Rising, Underway, UnitReady
<1>9. PICK r \in Comes(disk, v, tainted) : svc' = [svc EXCEPT ![s] = [svc[s] EXCEPT !.enabled = TRUE, !.running = r]]
  BY <1>2, <1>6, <1>8 DEF Enable, Manages, Now
<1>10. svc'[s].running = r /\ r # None
  BY <1>2, <1>3, <1>5, <1>9 DEF ServiceType
<1>11. IF product = "kanidm"
       THEN disk.current \in DOMAIN disk.releases => disk.releases[disk.current].binary = v
       ELSE TreeReady(v)
  BY <1>5, HonoursAre DEF Rising, Holds, Stopped, Underway, After
<1>12. Starts(v) /\ r = v
  <2>1. r \in Runs(disk, v)
    BY <1>10 DEF Comes
  <2> QED BY <1>4, <1>10, <1>11, <2>1, StartsAs
<1> QED BY <1>1, <1>5, <1>7, <1>10, <1>12 DEF Starts, Broken, TreeReady

LEMMA RisingKept ==
  ASSUME Typed, NEW w \in Workers, Step(w), job[w].kind = "install", job'[w].kind = "install",
         product \in Honours, "root" \notin tainted, "foreign" \notin tainted,
         Underway(w), Harmless(w), ReleasesFit(w),
         NEW v, v = Version(w), Rising(w, v)
  PROVE  Rising(w, v)'
<1>1. Effects(w) /\ job[w].todo # <<>> /\ product' = product
  BY StepEffects DEF Effects
<1>2. /\ Serving(w) \in Services
      /\ (product = "databend" => Services = {"main", "meta"})
      /\ (product # "databend" => Services = {"main"})
  BY <1>1, Here DEF Services
<1>3. Leads(w, PC(w), PC(w)') /\ Version(w)' = v
      /\ (PC(w)' = "end" <=> job'[w].todo = <<>>)
  BY InstallStep, HonoursAre
<1>4. product = "databend" /\ (job'[w].todo = <<>> \/ Serving(w)' = "main") => Up("meta", v)'
  <2>. HAVE product = "databend" /\ (job'[w].todo = <<>> \/ Serving(w)' = "main")
  <2>1. CASE Serving(w) = "main"
    <3>1. Up("meta", Version(w))
      BY <2>1 DEF Rising
    <3>2. Up("meta", Version(w))'
      BY <2>1, <3>1, MetaStays
    <3> QED BY <1>3, <3>2
  <2>2. CASE Serving(w) = "meta"
    <3>1. PC(w) = "wait"
      BY <1>3, <2>2 DEF Leads
    <3> QED BY <2>2, <3>1, WaitsUp
  <2> QED BY <1>2, <2>1, <2>2
<1>5. job'[w].todo = <<>> => Up("main", v)'
  <2>. HAVE job'[w].todo = <<>>
  <2>1. PC(w) = "wait" /\ Serving(w) = "main"
    BY <1>3 DEF Leads
  <2> QED BY <2>1, WaitsUp
<1>6. "running" \notin tainted' /\ (PC(w)' = "enable" \/ (product = "kanidm" /\ PC(w)' \in Stopped))
        => svc'[Serving(w)'].running = None
  BY OldIsDown
<1>7. "running" \notin tainted' /\ PC(w)' = "wait" /\ svc'[Serving(w)'].running # None
        => Starts(v)' /\ svc'[Serving(w)'].running = v
  BY EnabledAs
<1>8. product = "kanidm" => Holds(PC(w)', v, disk')
  BY HoldsKept DEF Rising
<1>9. (product = "kanidm" => Holds(PC(w), v, disk)')
  BY <1>8 DEF Holds
<1> QED BY <1>1, <1>4, <1>5, <1>6, <1>7, <1>9 DEF Rising

(* A daemon that is up is started again in the same version. *)
LEMMA RespawnsUp ==
  ASSUME Typed, product \in Honours, "foreign" \notin tainted, NEW x \in Services, Respawn(x),
         NEW v \in Versions, NEW s \in Services, Up(s, v)
  PROVE  Up(s, v)'
<1>1. UNCHANGED <<product, disk, tainted>>
  BY DEF Respawn
<1>2. PICK r \in Runs(disk, svc[x].loaded) : svc' = [svc EXCEPT ![x].running = r]
  BY DEF Respawn, Comes
<1>3. /\ svc'[s].unit = svc[s].unit /\ svc'[s].loaded = svc[s].loaded
      /\ svc'[s].enabled = svc[s].enabled
      /\ svc'[s].running = IF s = x THEN r ELSE svc[s].running
  BY <1>2 DEF Typed, TypeOK, ServiceType
<1>4. Starts(v) => Runs(disk, v) = {v}
  BY StartsAs
<1>5. s = x /\ Starts(v) => r = v
  BY <1>2, <1>4 DEF Up
<1>6. v # None
  BY DriversAssumption
<1>7. Starts(v) => Starts(v)'
  BY <1>1 DEF Starts, Broken, TreeReady
<1> QED BY <1>1, <1>3, <1>5, <1>6, <1>7 DEF Up

LEMMA RunningNext ==
  ASSUME NEW w, Alone(w), Typed, Sentinels(w), Underway(w), Harmless(w), Keys(w), ReleasesFit(w),
         Running(w), [Next]_vars
  PROVE  Running(w)'
<1>0. w \in Workers /\ (\A u \in Workers : u = w) /\ Workers = {w}
  BY DEF Alone
<1>a. svc \in [Services -> ServiceType] /\ "main" \in Services /\ disk \in DiskType
      /\ installed \in Some /\ None \notin Versions
  BY DriversAssumption DEF Typed, TypeOK, Services
<1>b. installed # None => job[w].kind = "idle" /\ job[w].todo = <<>> /\ PC(w) = "end"
  BY <1>0 DEF Keys, Typed, JobsFlow, PC, Following
<1>1. CASE Step(w)
  <2>1. /\ product' = product /\ installed' = installed /\ job[w].todo # <<>> /\ Proceeds(w)
        /\ Effects(w)
    BY <1>0, <1>1, StepEffects, StepMoves DEF Effects
  <2>2. installed = None
    BY <1>b, <2>1
  <2>3. job'[w].kind = "install" => job[w].kind = "install"
    BY <2>1 DEF Proceeds, Onward, SameJob, Dies, Idle
  <2>4. ASSUME product \in Honours, "root" \notin tainted', "foreign" \notin tainted',
               job'[w].kind = "install"
        PROVE  Rising(w, Version(w))'
    <3>1. "root" \notin tainted /\ "foreign" \notin tainted
      <4>1. Proper("install", product, PC(w)) /\ \A a : At(w, a) <=> PC(w) = a
        BY <1>0, <2>1, <2>3, <2>4, Here
      <4>2. ~RemoveRoot(w) /\ ~DropDatabase(w)
        BY <4>1 DEF RemoveRoot, DropDatabase, Proper, Installs
      <4>3. tainted' = tainted \/ Stop(w)
        BY <2>1, <4>2 DEF Effects, Writers
      <4> QED BY <2>4, <4>3 DEF Stop
    <3>2. Rising(w, Version(w))
      BY <2>3, <2>4, <3>1 DEF Running
    <3>3. Version(w)' = Version(w)
      BY <1>0, <1>1, <2>3, <2>4, InstallStep, HonoursAre
    <3>. DEFINE v == Version(w)
    <3>4. \A u : u = v => Rising(w, u)'
      <4>. SUFFICES ASSUME NEW u, u = v PROVE Rising(w, u)'
        OBVIOUS
      <4> QED BY <1>0, <1>1, <2>3, <2>4, <3>1, <3>2, RisingKept
    <3> QED BY <3>3, <3>4
  <2> QED BY <2>1, <2>2, <2>4 DEF Running
<1>2. CASE Fail(w)
  <2>1. product' = product /\ installed' = installed /\ job[w].todo # <<>>
        /\ tainted' = Taint(w)
    BY <1>2 DEF Fail
  <2>2. installed = None
    BY <1>b, <2>1
  <2>3. Dies(w) \/ (Onward(w) /\ (job[w].kind # "install" \/ PC(w) = "stop"))
    BY <1>0, <1>2, FailMoves
  <2>4. ASSUME product \in Honours, "root" \notin tainted', "foreign" \notin tainted',
               job'[w].kind = "install"
        PROVE  Rising(w, Version(w))'
    <3>1. Onward(w) /\ job[w].kind = "install" /\ PC(w) = "stop"
      BY <2>3, <2>4 DEF Dies, Idle, Onward, SameJob
    <3>2. disk' = disk /\ svc' = svc /\ Version(w)' = Version(w) /\ Leads(w, "stop", PC(w)')
      BY <1>0, <1>2, <2>4, <3>1, StopIgnored, HonoursAre
    <3>3. \A a : At(w, a) <=> PC(w) = a
      BY <1>0, <2>1, Here
    <3>4. tainted' = tainted \cup {"running"} /\ "root" \notin tainted /\ "foreign" \notin tainted
      BY <2>1, <2>4, <3>1, <3>3 DEF Taint
    <3>5. Rising(w, Version(w))
      BY <2>4, <3>1, <3>4 DEF Running
    <3>6. PC(w)' # "end" /\ job'[w].todo # <<>> /\ Serving(w)' = Serving(w)
      BY <3>1, <3>2 DEF Leads, Onward
    <3>7. product = "databend" /\ Serving(w) = "main" => Up("meta", Version(w))'
      <4>. HAVE product = "databend" /\ Serving(w) = "main"
      <4>1. Up("meta", Version(w))
        BY <3>5 DEF Rising
      <4> QED BY <2>1, <3>2, <3>4, <4>1 DEF Up, Starts, Broken, TreeReady
    <3>8. product = "kanidm" => Holds(PC(w)', Version(w), disk)
      <4>. HAVE product = "kanidm"
      <4>1. Holds("stop", Version(w), disk)
        BY <3>1, <3>5 DEF Rising
      <4>2. PC(w)' \notin {"newRelease", "copy", "probe", "manifest", "stop", "wait"} \cup (Stopped \ {"swap"})
        BY <3>2 DEF Leads, Stopped, WithConfig
      <4> QED BY <4>1, <4>2 DEF Holds, Stopped
    <3>9. product = "kanidm" => Holds(PC(w), Version(w), disk)'
      BY <3>2, <3>8 DEF Holds
    <3> QED BY <2>1, <3>4, <3>6, <3>7, <3>9 DEF Rising
  <2> QED BY <2>1, <2>2, <2>4 DEF Running
<1>3. CASE Reboot
  <2>1. product' = product /\ installed' = installed /\ job'[w].kind = "idle"
        /\ Services' = Services
    BY <1>0, <1>3, RebootMoves DEF Reboot, Dies, Idle, Services
  <2>2. ASSUME product \in Honours, "root" \notin tainted', "foreign" \notin tainted', installed # None,
               NEW s \in Services
        PROVE  Up(s, installed)'
    <3>1. disk' = disk
      BY <1>0, <1>3, <1>b, <2>2, RebootMoves
    <3>2. tainted' = tainted
      BY <1>0, <1>3, <1>b, <2>2 DEF Reboot, At
    <3>3. Up(s, installed) /\ installed \in Versions
      BY <1>a, <2>2, <3>2, SMTT(30) DEF Running, Some
    <3>4. PICK runs \in [Services -> Versions \cup {None}] :
            /\ \A t \in Services :
                 runs[t] \in IF svc[t].enabled THEN Comes(disk', svc[t].unit, tainted) ELSE {None}
            /\ svc' = [t \in Services |->
                 [svc[t] EXCEPT !.loaded = svc[t].unit, !.running = runs[t]]]
      BY <1>3 DEF Reboot
    <3>5. runs[s] \in Runs(disk, installed)
      BY <2>2, <3>1, <3>2, <3>3, <3>4 DEF Up, Comes
    <3>6. Starts(installed) => runs[s] = installed
      BY <2>2, <3>3, <3>5, StartsAs
    <3>7. /\ svc'[s].unit = svc[s].unit /\ svc'[s].loaded = svc[s].unit
          /\ svc'[s].enabled = svc[s].enabled /\ svc'[s].running = runs[s]
      BY <1>a, <3>4 DEF ServiceType
    <3>8. Starts(installed) => Starts(installed)'
      BY <2>1, <3>1 DEF Starts, Broken, TreeReady
    <3> QED BY <1>a, <2>1, <3>2, <3>3, <3>6, <3>7, <3>8 DEF Up
  <2> QED BY <2>1, <2>2, SMTT(30) DEF Running
<1>4. ASSUME NEW kind \in {"install", "uninstall"}, NEW v \in Versions, Start(w, kind, v)
      PROVE  Running(w)'
  <2>1. /\ job'[w].kind = kind /\ job'[w].todo # <<>> /\ First(kind, product, PC(w)')
        /\ product = "databend" => Serving(w)' = "meta"
        /\ installed' = None
    BY <1>0, <1>4, StartMoves DEF Start
  <2>2. kind = "install" =>
          PC(w)' \notin {"newRelease", "copy", "probe", "manifest", "stop", "wait"} \cup Stopped
    BY <2>1 DEF First, Stopped
  <2>3. kind = "install" => Holds(PC(w), Version(w), disk)'
    BY <2>2 DEF Holds, Stopped
  <2>4. kind = "install" => Rising(w, Version(w))'
    BY <1>4, <2>1, <2>2, <2>3 DEF Rising, Start, Stopped
  <2> QED BY <2>1, <2>4 DEF Running
<1>5. CASE Finish(w)
  <2>1. job'[w].kind = "idle" /\ UNCHANGED <<product, disk, svc, tainted>> /\ Services' = Services
    BY <1>0, <1>5, FinishMoves DEF Dies, Idle, Finish, Services
  <2>2. job[w].todo = <<>> /\ (installed' = None \/ (job[w].kind = "install" /\ installed' = Version(w)))
    BY <1>5 DEF Finish
  <2>3. ASSUME product \in Honours, "root" \notin tainted, "foreign" \notin tainted, job[w].kind = "install",
               NEW s \in Services
        PROVE  Up(s, Version(w))
    <3>1. Rising(w, Version(w))
      BY <2>3 DEF Running
    <3>2. s = "main" \/ (s = "meta" /\ product = "databend")
      BY DEF Services
    <3> QED BY <2>2, <3>1, <3>2 DEF Rising
  <2>4. ASSUME product \in Honours, "root" \notin tainted, "foreign" \notin tainted, installed' # None,
               NEW s \in Services
        PROVE  Up(s, installed)'
    <3>1. Up(s, Version(w)) /\ installed' = Version(w)
      BY <2>2, <2>3, <2>4
    <3> QED BY <2>1, <3>1 DEF Up, Starts, Broken, TreeReady
  <2> QED BY <2>1, <2>4 DEF Running
<1>6. CASE EditConfig
  <2>1. job[w].kind = "idle" /\ UNCHANGED <<product, svc, job, installed, tainted>>
        /\ Services' = Services
    BY <1>0, <1>6 DEF EditConfig, AllIdle, Services
  <2>2. disk' = [disk EXCEPT !.config = "edited"]
    BY <1>6 DEF EditConfig
  <2>3. ASSUME NEW v, Starts(v) PROVE Starts(v)'
    <3>1. /\ disk'.config # "torn" /\ disk'.keys = disk.keys /\ disk'.runtime = disk.runtime
          /\ disk'.data = disk.data /\ disk'.cache = disk.cache /\ disk'.sealed = disk.sealed
          /\ disk'.releases = disk.releases /\ disk'.current = disk.current
      BY <1>a, <2>2 DEF DiskType
    <3> QED BY <2>1, <2>3, <3>1, StartsKept
  <2>4. ASSUME NEW s \in Services, Up(s, installed) PROVE Up(s, installed)'
    <3>1. Starts(installed) => Starts(installed)'
      BY <2>1, <2>3
    <3> QED BY <2>1, <2>4, <3>1 DEF Up
  <2> QED BY <2>1, <2>4 DEF Running
<1>7. CASE RollBack
  <2>1. job'[w].kind = "idle" /\ installed' = None
    BY <1>0, <1>7 DEF RollBack, AllIdle
  <2> QED BY <2>1 DEF Running
<1>8. ASSUME NEW x \in Services, Respawn(x)
      PROVE  Running(w)'
  <2>1. UNCHANGED <<product, disk, job, installed, tainted>> /\ Services' = Services
        /\ svc[x].running # None
    BY <1>8 DEF Respawn, Services
  <2>2. PC(w)' = PC(w) /\ Serving(w)' = Serving(w) /\ Version(w)' = Version(w)
    BY <2>1 DEF PC, Following, Serving, Version
  <2>3. ASSUME product \in Honours, "root" \notin tainted, "foreign" \notin tainted, installed # None,
               NEW s \in Services
        PROVE  Up(s, installed)'
    <3>1. Up(s, installed) /\ installed \in Versions
      BY <1>a, <2>3 DEF Running, Some
    <3>. DEFINE v == installed
    <3>2. \A u : u = v => Up(s, u)'
      BY <1>8, <2>3, <3>1, RespawnsUp
    <3> QED BY <2>1, <3>2
  <2>4. ASSUME product \in Honours, "root" \notin tainted, "foreign" \notin tainted, job[w].kind = "install",
               NEW v, v = Version(w)
        PROVE  Rising(w, v)'
    <3>1. Rising(w, v) /\ v \in Versions
      BY <1>0, <2>4 DEF Running, Typed, JobsFlow, Version
    <3>2. PICK r \in Runs(disk, svc[x].loaded) : svc' = [svc EXCEPT ![x].running = r]
      BY <1>8, <2>4 DEF Respawn, Comes
    <3>3. \A s \in Services : svc'[s].running = IF s = x THEN r ELSE svc[s].running
      BY <1>a, <3>2 DEF ServiceType
    <3>4. Up("main", v) => Up("main", v)'
      BY <1>a, <1>8, <2>4, <3>1, RespawnsUp
    <3>5. product = "databend" /\ Up("meta", v) => Up("meta", v)'
      <4>1. product = "databend" => "meta" \in Services
        BY DEF Services
      <4> QED BY <1>8, <2>4, <3>1, <4>1, RespawnsUp
    <3>6. job[w].todo # <<>> => Serving(w) \in Services
      BY <1>0, Here
    <3>7. PC(w) \in {"wait"} \cup Stopped => Serving(w) \in Services
      BY <3>6 DEF PC, Following, Stopped
    <3>8. "running" \notin tainted /\ (PC(w) = "enable" \/ (product = "kanidm" /\ PC(w) \in Stopped))
            => svc'[Serving(w)].running = None
      BY <2>1, <3>1, <3>3, <3>7 DEF Rising, Stopped
    <3>9. Starts(v) => Starts(v)'
      BY <2>1 DEF Starts, Broken, TreeReady
    <3>10. "running" \notin tainted /\ PC(w) = "wait" /\ svc'[Serving(w)].running # None
             => Starts(v) /\ svc'[Serving(w)].running = v
      <4>. HAVE "running" \notin tainted /\ PC(w) = "wait" /\ svc'[Serving(w)].running # None
      <4>1. svc[Serving(w)].running # None
        BY <2>1, <3>3, <3>7
      <4>2. Starts(v) /\ svc[Serving(w)].running = v
        BY <3>1, <4>1 DEF Rising
      <4>3. svc[Serving(w)].loaded = v
        BY <2>4, HonoursAre DEF Underway, UnitReady
      <4>4. Runs(disk, v) = {v}
        BY <2>4, <3>1, <4>2, StartsAs
      <4> QED BY <3>2, <3>3, <3>7, <4>2, <4>3, <4>4
    <3>11. product = "kanidm" => Holds(PC(w), v, disk)'
      BY <2>1, <2>2, <3>1 DEF Rising, Holds
    <3> QED BY <2>1, <2>2, <3>1, <3>4, <3>5, <3>8, <3>9, <3>10, <3>11 DEF Rising
  <2>5. ASSUME product \in Honours, "root" \notin tainted, "foreign" \notin tainted, job[w].kind = "install"
        PROVE  Rising(w, Version(w))'
    <3>. DEFINE v == Version(w)
    <3>1. \A u : u = v => Rising(w, u)'
      BY <2>4, <2>5
    <3> QED BY <2>2, <3>1
  <2> QED BY <2>1, <2>3, <2>5 DEF Running
<1>9. CASE UNCHANGED vars
  BY <1>9 DEF vars, Running, Rising, Up, Starts, Broken, TreeReady, Holds, PC, Following, Serving,
     Services, Version
<1>10. ASSUME NEW x \in Services, PortTaken(x)
       PROVE  Running(w)'
  BY <1>10 DEF PortTaken, Running
<1> QED BY <1>0, <1>1, <1>2, <1>3, <1>4, <1>5, <1>6, <1>7, <1>8, <1>9, <1>10 DEF Next

(* service.rs: an install that reports success leaves its version running, *)
(* over an older one, after respawns and reboots, unless the manager       *)
(* refused to stop the old daemon, another program has its port, or a      *)
(* removal died: for any versions and any number of faults.                *)
THEOREM InstalledAlwaysRunning ==
  ASSUME NEW w, Alone(w)
  PROVE  Spec => []InstalledIsRunning
<1>. DEFINE I == /\ Typed /\ Sentinels(w) /\ Underway(w) /\ Harmless(w)
                 /\ Keys(w) /\ ReleasesFit(w) /\ Running(w)
<1>1. Init => I
  <2>1. Init => Sentinels(w) /\ Underway(w) /\ Harmless(w)
    BY DEF Alone, Init, Sentinels, Underway, Harmless, Plain, Plists, Able, NoDisk, NoService,
           Services, PC, Following, Idle
  <2>2. Init => Keys(w)
    BY DriversAssumption DEF Alone, Init, Keys, Fitting, NoDisk, PC, Following, Idle
  <2>3. Init => ReleasesFit(w)
    BY DEF Alone, Init, ReleasesFit, Sound, NoDisk, PC, Following, Idle
  <2>4. Init => Running(w)
    BY DEF Alone, Init, Running, Idle
  <2> QED BY <2>1, <2>2, <2>3, <2>4, TypedInit
<1>2. I /\ [Next]_vars => I'
  BY TypedNext, SentinelsNext, UnderwayNext, HarmlessNext, KeysNext, ReleasesNext, RunningNext
<1>3. I => InstalledIsRunning
  <2>. SUFFICES ASSUME I, AllIdle, installed # None, tainted = {}, product \in Honours,
                       NEW s \in Services
                PROVE  svc[s].running = installed
    BY DEF InstalledIsRunning
  <2>1. Up(s, installed)
    BY DEF Running
  <2> QED BY <2>1 DEF Up
<1> QED BY <1>1, <1>2, <1>3, PTL DEF Spec
=============================================================================
