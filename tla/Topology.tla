------------------------------- MODULE Topology -------------------------------
(***************************************************************************)
(* What the master works out about the wiring of the bus: the slave each   *)
(* slave is connected to (ec_scan, ec.c) and the time a frame travels from *)
(* the reference clock to each slave (ec_dc_config, dc.c).                 *)
(*                                                                         *)
(* Slaves are numbered from 1 in the order the frame is processed, and 0   *)
(* stands for the master (-1 in the code).  The frame enters a slave at    *)
(* port 0 and leaves it at ports 3, 1 and 2 in this order, so the numbers  *)
(* are a preorder of the tree of slaves.                                   *)
(***************************************************************************)
EXTENDS Integers, Sequences, FiniteSets, FiniteSetsExt

CONSTANTS
    ClockWidth,     \* the receive time registers count modulo this (2^32 in the code)
    TDiff,          \* t_diff, what forwarding inside a slave costs: 0 here as in the wiring
    MaxUnread       \* receive times that are lost on their way to the master

ASSUME TopologyAssumption == /\ ClockWidth \in Nat \ {0} /\ TDiff \in Nat
                             /\ MaxUnread \in Nat

VARIABLES
    bus,      \* the wiring, which the master does not know (see Wirings)
    port_of,  \* slaves[i].active_ports, for the slaves scanned so far
    parent,   \* slaves[i].parent
    dcs,      \* slaves[i].dc and what ec_dc_config keeps beside it, slave by slave
    unread    \* slaves whose receive times never reached the master

tvars == <<bus, port_of, parent, dcs, unread>>

Port == 0 .. 3

-----------------------------------------------------------------------------
(* The wiring.                                                             *)

Slaves == 1 .. Len(bus.up)

Rank == [p \in Port |-> CASE p = 0 -> 0 [] p = 3 -> 1 [] p = 1 -> 2 [] p = 2 -> 3]

Ancestors(up) ==
    LET above[i \in 0 .. Len(up)] == IF i = 0 THEN {} ELSE {i} \cup above[up[i]]
    IN  above

\* All trees of n slaves: who is above whom, and at which port.
Wirings(n) ==
    {w \in [up : [1 .. n -> 0 .. n - 1], port : [1 .. n -> {1, 2, 3}]] :
        /\ w.up[1] = 0 /\ w.port[1] = 3
        /\ \A i \in 2 .. n : w.up[i] \in 1 .. i - 1
        /\ \A i \in 2 .. n : w.up[i] \in Ancestors(w.up)[i - 1]
        /\ \A i, j \in 2 .. n :
              i < j /\ w.up[i] = w.up[j] => Rank[w.port[i]] < Rank[w.port[j]]}

Below(i)       == {j \in Slaves : i \in Ancestors(bus.up)[j]}
Children(i)    == {j \in Slaves : bus.up[j] = i}
ActivePorts(i) == {0} \cup {bus.port[j] : j \in Children(i)}

\* The frame passes the cable above each slave once on its way down and once on its way up.
Travel(down, both) == MapThenSumSet(LAMBDA k : bus.cable[k], down)
                      + 2 * MapThenSumSet(LAMBDA k : bus.cable[k], both)

Arrival(i) == LET path == Ancestors(bus.up)[i] \ {1}
              IN  Travel(path, (2 .. i) \ path)

\* What the slave's receive time registers latch when the frame comes by.
Latched(i) ==
    [p \in Port |->
        LET visited == {k \in Children(i) : Rank[bus.port[k]] <= Rank[p]}
        IN  IF p \in ActivePorts(i)
            THEN (bus.clock[i] + Travel({}, UNION {Below(k) : k \in visited})) % ClockWidth
            ELSE 0]

-----------------------------------------------------------------------------
(* ec_scan: the ports with a link, and the slave above.                    *)

\* Mutant: a slave with three ports in use does not open a branch.
Weight_flat(links) == CASE links = 1 -> -1 [] links = 4 -> 2 [] OTHER -> 0

Weight(links) == CASE links = 1 -> -1 [] links = 3 -> 1 [] links = 4 -> 2 [] OTHER -> 0

LinkCnt(i) == Cardinality(port_of[i])

Scanned == Len(port_of)

\* The slaves between k and i, k included, that open branches and that end them.
Balance(k, i) == MapThenSumSet(LAMBDA j : Weight(LinkCnt(j)), k .. i - 1)

FindParent(i) ==
    IF i = 1 THEN 0
    ELSE Max({k \in 1 .. i - 1 : k = 1 \/ (Balance(k, i) >= 0 /\ LinkCnt(k) > 1)})

ScanSlave == /\ Scanned < Len(bus.up)
             /\ LET i == Scanned + 1
                IN  /\ port_of' = Append(port_of, ActivePorts(i))
                    /\ parent' = Append(parent, FindParent(i))
             /\ UNCHANGED <<bus, dcs, unread>>

-----------------------------------------------------------------------------
(* ec_dc_config: one step per slave of its loop.                           *)

NoTimes == [p \in Port |-> 0]

ForwardOrder == [p \in Port |-> CASE p = 0 -> <<3, 1, 2, 0>> [] p = 1 -> <<2, 0, 3, 1>>
                                  [] p = 2 -> <<0, 3, 1, 2>> [] p = 3 -> <<1, 2, 0, 3>>]
ReverseOrder == [p \in Port |-> CASE p = 0 -> <<2, 1, 3, 0>> [] p = 1 -> <<3, 0, 2, 1>>
                                  [] p = 2 -> <<1, 3, 0, 2>> [] p = 3 -> <<0, 2, 1, 3>>]

FirstOf(order, ports, else) ==
    LET hits == {n \in DOMAIN order : order[n] \in ports}
    IN  IF hits = {} THEN else ELSE order[Min(hits)]

PreviousActive(i, p) == FirstOf(SubSeq(ReverseOrder[p], 1, 3), port_of[i], p)

\* Mutant: the search starts at the slave's first port, whatever its entry port.
NextAvailable_all(d, p) == FirstOf(ReverseOrder[p], d.available, p)

NextAvailable(d, p) == FirstOf(ForwardOrder[p], d.available, p)

\* The active port with the smallest receive time.
EntryPort(i, times) ==
    CHOOSE p \in port_of[i] : \A q \in port_of[i] :
        times[p] < times[q] \/ (times[p] = times[q] /\ p <= q)

\* Differences of receive times, as signed numbers of the clock's width.
Signed(x) == LET m == x % ClockWidth IN IF 2 * m < ClockWidth THEN m ELSE m - ClockWidth
Halved(x) == LET a == IF x < 0 THEN -x ELSE x IN a \div 2

\* The next slave above that uses distributed clocks, 0 when there is none.
DcAbove(i) == LET above == {k \in Ancestors(parent)[i] \ {i} : bus.dc[k]}
              IN  IF above = {} THEN 0 ELSE Max(above)

ConfigureDc(i, times) ==
    LET entry  == EntryPort(i, times)
        childs == Signed(times[PreviousActive(i, entry)] - times[entry])
        up     == DcAbove(i)
        own    == [dcs[i] EXCEPT !.available = port_of[i] \ {entry}, !.entry = entry,
                                 !.times = times]
    IN  IF up = 0 THEN [dcs EXCEPT ![i] = own]
        ELSE LET above    == dcs[up]
                 at       == NextAvailable(above, above.entry)
                 prev     == PreviousActive(up, at)
                 with     == Signed(above.times[at] - above.times[prev])
                 slave    == Halved((IF with < 0 THEN -with ELSE with) - childs + TDiff)
                 previous == Signed(above.times[prev] - above.times[above.entry])
             IN  [dcs EXCEPT
                    ![up].available = @ \ {at},
                    ![i] = [own EXCEPT !.pdelay =
                        above.pdelay + IF entry = 0 THEN previous + slave
                                       ELSE Halved(Signed(times[entry] - times[0]) + TDiff)]]

\* Slave i of the loop; its receive times may not arrive, the old ones are used then.
DcConfigSlave(i) ==
    IF ~bus.dc[i]
    THEN /\ dcs' = [dcs EXCEPT ![i].available = port_of[i], ![i].times = NoTimes]
         /\ UNCHANGED unread
    ELSE \/ /\ dcs' = ConfigureDc(i, Latched(i))
            /\ unread' = unread \ {i}
         \/ /\ Cardinality(unread) < MaxUnread
            /\ dcs' = ConfigureDc(i, dcs[i].times)
            /\ unread' = IF dcs[i].times = NoTimes THEN unread \cup {i} ELSE unread

-----------------------------------------------------------------------------
NewDc == [available |-> {}, entry |-> 0, times |-> NoTimes, pdelay |-> 0]

TopologyInit(w) == /\ bus = w
                   /\ port_of = <<>> /\ parent = <<>>
                   /\ dcs = [i \in 1 .. Len(w.up) |-> NewDc]
                   /\ unread = {}

\* The master finds the true parent of every slave from nothing but the numbers of
\* their links (ec.c:856), for every shape of the bus.
ParentsTrue == \A i \in 1 .. Scanned : parent[i] = bus.up[i]

\* The clock of slave i does not overflow while the frame is below it.
Steady(i) == \A p \in ActivePorts(i) : Latched(i)[p] >= bus.clock[i]

\* A slave without distributed clocks hides no branch of the bus: one slave below it at
\* most, and whatever is wired behind it, if anything at all is, uses distributed clocks.
Transparent(k) == /\ Cardinality(Children(k)) <= 1
                  /\ (\E j \in Below(k) : bus.dc[j])
                        \/ \A j \in Children(bus.up[k]) : Rank[bus.port[j]] <= Rank[bus.port[k]]

\* The propagation delay that is written to each slave is the time the frame really takes
\* from the reference clock to it (dc.c:402-425), on every bus, where the clocks of the
\* slaves above do not overflow during the measurement, the receive times arrived and the
\* slaves without distributed clocks hide nothing.
DelaysTrue(configured) ==
    LET ref == Min({i \in Slaves : bus.dc[i]})
    IN  \A i \in 1 .. configured :
            /\ bus.dc[i]
            /\ \A k \in Slaves : bus.dc[k] \/ Transparent(k)
            /\ \A k \in Ancestors(bus.up)[i] : bus.dc[k] => Steady(k) /\ k \notin unread
            => dcs[i].pdelay = Arrival(i) - Arrival(ref)
=============================================================================
