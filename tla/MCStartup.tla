------------------------------- MODULE MCStartup -------------------------------
EXTENDS Startup

CONSTANT MaxSlaves

Cables  == <<0, 1, 2, 3, 1>>
Bus(w, dc, wraps, n) ==
    [up |-> w.up, port |-> w.port, dc |-> dc, cable |-> SubSeq(Cables, 1, n),
     clock |-> [i \in 1 .. n |-> IF i = wraps THEN ClockWidth - 2 ELSE i]]

Line(n) == [up |-> [i \in 1 .. n |-> i - 1], port |-> [i \in 1 .. n |-> 3]]
Plain   == [sm |-> <<>>, fmmus |-> 0, mbx |-> FALSE, lrw |-> TRUE, member |-> TRUE]

\* Every shape of the bus, every choice of slaves with distributed clocks, and the clock of none
\* or of the second slave overflowing during the measurement.
Buses == \E n \in 2 .. MaxSlaves : \E w \in Wirings(n), dc \in [1 .. n -> BOOLEAN], wraps \in {0, 2} :
            /\ \E i \in 1 .. n : dc[i]
            /\ StartupInit(Bus(w, dc, wraps, n), [i \in 1 .. n |-> Plain], <<TRUE, TRUE, FALSE>>)

Out(n) == [dir |-> "out", len |-> n]
In(n)  == [dir |-> "in", len |-> n]

Managed == {<<>>, <<Out(1)>>, <<In(2)>>, <<Out(1), In(2)>>, <<Out(2), In(1)>>,
            <<Out(1), Out(1), In(1)>>, <<In(1), Out(0), Out(1)>>}
Device  == [sm : Managed, fmmus : {1, 4}, mbx : {FALSE}, lrw : {TRUE}, member : {TRUE}]
           \cup [sm : {<<Out(1), In(2)>>, <<In(1)>>}, fmmus : {2}, mbx : {TRUE}, lrw : {TRUE},
                 member : {TRUE}]
           \cup [sm : {<<Out(2), In(1)>>}, fmmus : {4}, mbx : {TRUE}, lrw : {FALSE}, member : BOOLEAN]
Last    == [sm |-> <<Out(1), In(2)>>, fmmus |-> 4, mbx |-> TRUE, lrw |-> TRUE, member |-> TRUE]

\* use_lrw, overlapping and skip of the group, as the application may set them.
Settings == {<<TRUE, TRUE, FALSE>>, <<TRUE, TRUE, TRUE>>, <<TRUE, FALSE, FALSE>>, <<FALSE, TRUE, FALSE>>}

\* Any two kinds of slaves in front of a third, in a group with any settings.
Images == \E a, b \in Device : \E group \in Settings :
             StartupInit(Bus(Line(3), [i \in 1 .. 3 |-> FALSE], 0, 3), <<a, b, Last>>, group)

\* One slave, and time.
Clocks == StartupInit(Bus(Line(1), <<TRUE>>, 0, 1), <<Plain>>, <<TRUE, TRUE, FALSE>>)

Init == Buses \/ Images \/ Clocks
Spec == Init /\ [][Next]_vars
=============================================================================
