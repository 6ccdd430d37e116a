------------------------------ MODULE ProcessData ------------------------------
(***************************************************************************)
(* The process data of one group: ec_create_logical_mapping and            *)
(* ec_create_logical_mapping_overlapping lay the sync managers of the      *)
(* group's slaves out in the logical address space and in the image the    *)
(* application sees, the cyclic datagrams carry the image over the bus     *)
(* (ec.c).                                                                 *)
(*                                                                         *)
(* Addresses are counted from pd->log, image offsets from &pd->pd[0].      *)
(***************************************************************************)
EXTENDS Integers, Sequences, FiniteSets, FiniteSetsExt

CONSTANT MaxAbsent  \* slaves that may fail to take part in a cycle

ASSUME ProcessDataAssumption == MaxAbsent \in Nat

VARIABLES
    plan,      \* what the slaves are, by position: see Devices
    pd,        \* pec->pd_groups[group]
    maps,      \* what the mapping wrote to each slave
    mappings,  \* how often the group was mapped
    image,     \* the received half of pd->pd, what the slaves received, and the counter
    mailed     \* the slaves with new mail, and those whose mailbox read was scheduled

pvars == <<plan, pd, maps, mappings, image, mailed>>

Outputs == "out"
Inputs  == "in"

-----------------------------------------------------------------------------
(* Sync managers of a slave's process data: those behind the mailbox's.    *)

Members  == {i \in DOMAIN plan : plan[i].member}
Managers(i) == DOMAIN plan[i].sm
Bytes(i, ks) == SumFunctionOnSet([k \in Managers(i) |-> plan[i].sm[k].len], ks)
Of(i, dir)   == {k \in Managers(i) : plan[i].sm[k].dir = dir}
Size(i, dir) == Bytes(i, Of(i, dir))
Larger(a, b) == IF a > b THEN a ELSE b

\* What the members of the group need, and sums of that over them.
Sizes(dir)   == [j \in Members |-> Size(j, dir)]
Areas        == [j \in Members |-> Larger(Size(j, Inputs), Size(j, Outputs))]
Total(f)     == SumFunctionOnSet(f, Members)
Before(i, f) == SumFunctionOnSet(f, {j \in Members : j < i})

\* The FMMU a sync manager would take; it is mapped when the slave has that many.
Used(i)   == {k \in Managers(i) : plan[i].sm[k].len > 0}
Fmmu(i, k)   == Cardinality({j \in Used(i) : j <= k})
Mapped(i)    == {k \in Used(i) : Fmmu(i, k) <= plan[i].fmmus}
Offset(i, k) == Bytes(i, {j \in Of(i, plan[i].sm[k].dir) : j < k})

\* slv->pdout and slv->pdin: the first mapping sets the pointer, every mapping adds.
Extended(old, i, dir, base) ==
    LET ks == Mapped(i) \cap Of(i, dir)
    IN  IF ks = {} THEN old
        ELSE [pd  |-> IF old.len = 0 THEN base + Offset(i, Min(ks)) ELSE old.pd,
              len |-> old.len + Bytes(i, ks)]

\* The bit of the mailbox state, for slaves with an FMMU left for it.
HasMbxBit(i) == plan[i].mbx /\ Cardinality(Used(i)) < plan[i].fmmus
MbxBit(i)    == Cardinality({j \in Members : j < i /\ HasMbxBit(j)})

-----------------------------------------------------------------------------
(* Where a slave's outputs and inputs start, in logical addresses and in   *)
(* the image.                                                              *)

\* Mutant: the inputs of a slave follow its outputs.
Split_mixed(i, dir) == LET at == Before(i, Sizes(Outputs)) + Before(i, Sizes(Inputs))
                                 + IF dir = Inputs THEN Size(i, Outputs) ELSE 0
                       IN  [log |-> at, pd |-> at]

\* ec_create_logical_mapping: all outputs first, then all inputs.
Split(i, dir) == LET at == Before(i, Sizes(dir)) + IF dir = Inputs THEN Total(Sizes(Outputs)) ELSE 0
                 IN  [log |-> at, pd |-> at]

\* ec_create_logical_mapping_overlapping: a slave's outputs and inputs lie in the same
\* place, as wide as the larger of the two.  Addresses move on by what the slave has, image
\* offsets by what it has got mapped, now and in earlier mappings.
Overlaid(i, dir) ==
    LET mapped(j, d) == maps[j][d].len + Bytes(j, Mapped(j) \cap Of(j, d))
        ahead        == [j \in Members |-> Larger(mapped(j, Inputs), mapped(j, Outputs))]
    IN  [log |-> Before(i, Areas),
         pd  |-> Before(i, ahead) + IF dir = Inputs THEN Total(Areas) ELSE 0]

\* Where the sync managers of a slave go when its outputs and inputs start at at.
MapSlave(i, at) ==
    [log      |-> [k \in Mapped(i) |-> at[plan[i].sm[k].dir].log + Offset(i, k)],
     out      |-> Extended(maps[i].out, i, Outputs, at[Outputs].pd),
     in       |-> Extended(maps[i].in, i, Inputs, at[Inputs].pd),
     sm_state |-> IF plan[i].mbx /\ ~HasMbxBit(i) THEN FALSE ELSE maps[i].sm_state,
     bitno    |-> IF HasMbxBit(i) THEN MbxBit(i) ELSE maps[i].bitno]

\* Lengths of the group and the working counters it expects from now on.
SplitGroup(g) ==
    LET outLen == Total(Sizes(Outputs))
        inLen  == Total(Sizes(Inputs))
        out    == Total([j \in Members |-> Cardinality(Mapped(j) \cap Of(j, Outputs))])
        in     == Total([j \in Members |-> Cardinality(Mapped(j) \cap Of(j, Inputs))])
    IN  [g EXCEPT !.outLen = outLen, !.inLen = inLen, !.logLen = outLen + inLen,
                  !.lrd = in, !.lwr = @ + out, !.lrw = in + 2 * out]

\* Mutant: counts sync managers instead of slaves.
OverlaidGroup_managers(g) ==
    LET len == Total(Areas)
        wkc == [j \in Members |-> 2 * Cardinality(Mapped(j) \cap Of(j, Outputs))
                                  + Cardinality(Mapped(j) \cap Of(j, Inputs))]
    IN  [g EXCEPT !.outLen = len, !.inLen = len, !.logLen = len, !.lrw = Total(wkc)]

OverlaidGroup(g) ==
    LET len == Total(Areas)
        hit(j, dir) == IF Mapped(j) \cap Of(j, dir) = {} THEN 0 ELSE 1
        wkc == [j \in Members |-> 2 * hit(j, Outputs) + hit(j, Inputs)]
    IN  [g EXCEPT !.outLen = len, !.inLen = len, !.logLen = len, !.lrw = Total(wkc)]

Nothing == [in |-> <<>>, out |-> <<>>, absent |-> {}, matched |-> FALSE]

\* ec_set_state on the way to SAFEOP.
CreateMapping ==
    LET lrw == pd.useLrw /\ \A i \in Members : plan[i].lrw
        group == [pd EXCEPT !.useLrw = lrw, !.overlapping = @ /\ lrw]
    IN  /\ pd' = IF group.overlapping THEN OverlaidGroup(group) ELSE SplitGroup(group)
        /\ maps' = [i \in DOMAIN plan |->
                       IF i \notin Members THEN maps[i]
                       ELSE MapSlave(i, [dir \in {Outputs, Inputs} |->
                                            IF group.overlapping THEN Overlaid(i, dir) ELSE Split(i, dir)])]
        /\ mappings' = mappings + 1
        /\ image' = Nothing
        /\ mailed' = [new |-> {}, read |-> {}]
        /\ UNCHANGED plan

-----------------------------------------------------------------------------
(* The slaves' part (external): what their FMMUs do to a passing datagram. *)
(* A byte is <<"app", offset>> in the output image, <<slave, manager,      *)
(* byte>> in a slave, and <<>> where nobody wrote.                         *)

Windows(i, dir) == UNION {{k} \X (0 .. plan[i].sm[k].len - 1) : k \in Mapped(i) \cap Of(i, dir)}
At(i, kb)       == maps[i].log[kb[1]] + kb[2]

\* The datagram (address to byte) behind slave i.
Behind(sent, present) ==
    LET after[i \in 0 .. Len(plan)] ==
            IF i = 0 THEN sent
            ELSE IF i \notin Members \cap present THEN after[i - 1]
            ELSE LET mine == {kb \in Windows(i, Inputs) : At(i, kb) \in DOMAIN sent}
                 IN  [a \in DOMAIN sent |->
                        IF \E kb \in mine : At(i, kb) = a
                        THEN <<i>> \o (CHOOSE kb \in mine : At(i, kb) = a) ELSE after[i - 1][a]]
    IN  after

Hits(dir, present) == Cardinality({i \in Members \cap present : Windows(i, dir) # {}})

\* What the output sync managers hold after the datagram went by.
Received(behind, present) ==
    [i \in Members \cap present |->
        [kb \in {kb \in Windows(i, Outputs) : At(i, kb) \in DOMAIN behind[i - 1]} |->
            behind[i - 1][At(i, kb)]]]

-----------------------------------------------------------------------------
(* ec_send_process_data_group and the callbacks of its datagrams.          *)

Sent(first, len) == [a \in first .. first + len - 1 |-> IF a < pd.outLen THEN <<"app", a>> ELSE <<>>]

\* Mutant: the input image is filled from the second half of the payload.
CopyFrom_swapped == IF pd.useLrw \/ pd.overlapping THEN pd.outLen ELSE 0

\* Where cb_process_data_group starts to copy in the payload.
CopyFrom == IF pd.useLrw \/ pd.overlapping THEN 0 ELSE pd.outLen

\* One datagram (LRW) or two (LWR for the outputs, LRD for the inputs).
Exchange(absent) ==
    LET present == Members \ absent
        write   == Behind(Sent(0, IF pd.useLrw THEN pd.logLen ELSE pd.outLen), present)
        read    == IF pd.useLrw THEN write ELSE Behind(Sent(pd.outLen, pd.inLen), present)
        payload == read[Len(plan)]
        start   == IF pd.useLrw THEN 0 ELSE pd.outLen
        wkc     == IF pd.useLrw THEN Hits(Inputs, present) + 2 * Hits(Outputs, present)
                                ELSE Hits(Inputs, present)
        ok      == wkc = IF pd.useLrw THEN pd.lrw ELSE pd.lrd
        okWrite == pd.useLrw \/ Hits(Outputs, present) = pd.lwr
        byte(n) == IF start + CopyFrom + n \in DOMAIN payload
                   THEN payload[start + CopyFrom + n] ELSE <<>>
    IN  /\ mappings > 0 /\ pd.logLen > 0
        /\ Cardinality(absent) <= MaxAbsent
        /\ image' = [in      |-> IF pd.skip /\ ~ok THEN image.in
                                 ELSE [n \in 0 .. pd.inLen - 1 |-> byte(n)],
                     out     |-> Received(write, present),
                     absent  |-> absent,
                     matched |-> ok /\ okWrite]
        /\ UNCHANGED <<plan, pd, maps, mappings, mailed>>

\* Mutant: a slave's bit is looked up by its position.
Signals_position(new, i) == \E j \in new : HasMbxBit(j) /\ maps[j].bitno = i - 1

\* The bit of slave i in the answer to the mailbox state datagram.
Signals(new, i) == \E j \in new : HasMbxBit(j) /\ maps[j].bitno = maps[i].bitno

\* cb_lrd_mbx_state: the mailboxes that have got new mail.
MbxStates(new) ==
    /\ mappings > 0 /\ \E i \in Members : HasMbxBit(i)
    /\ mailed' = [new |-> new, read |-> {i \in Members : plan[i].mbx /\ Signals(new, i)}]
    /\ UNCHANGED <<plan, pd, maps, mappings, image>>

-----------------------------------------------------------------------------
ProcessDataInit(devices, group) ==
    /\ plan = devices
    /\ pd = [useLrw |-> group[1], overlapping |-> group[2], skip |-> group[3],
             outLen |-> 0, inLen |-> 0, logLen |-> 0, lrw |-> 0, lrd |-> 0, lwr |-> 0]
    /\ maps = [i \in DOMAIN devices |->
                  [log |-> <<>>, out |-> [pd |-> 0, len |-> 0], in |-> [pd |-> 0, len |-> 0],
                   sm_state |-> TRUE, bitno |-> 0]]
    /\ mappings = 0 /\ image = Nothing /\ mailed = [new |-> {}, read |-> {}]

\* Every sync manager of the group got an FMMU.
AllMapped == \A i \in Members : Mapped(i) = Used(i)

\* A slave has at most one sync manager for each direction.
OneEach == \A i \in Members, dir \in {Outputs, Inputs} : Cardinality(Used(i) \cap Of(i, dir)) <= 1

\* "At offset pdout_len, the inputs are filled in" (ec.h:97-103), whatever commands are used:
\* behind slv->pdin of every slave that took part is what the slave sent.
InputsInPlace ==
    AllMapped /\ image.matched /\ DOMAIN image.in # {}
    => \A i \in Members \ image.absent : \A kb \in Windows(i, Inputs) :
           image.in[maps[i].in.pd - pd.outLen + Offset(i, kb[1]) + kb[2]] = <<i>> \o kb

\* What the application finds behind slv->pdin of a slave that took part in the cycle is
\* what the slave sent (ec.c:1607-1614), in a group with overlapping areas.
InputsArrive == pd.overlapping => InputsInPlace

\* What the application puts behind slv->pdout of a slave is what the slave's sync managers
\* get, whatever commands carry it.
OutputsArrive ==
    AllMapped => \A i \in DOMAIN image.out : \A kb \in Windows(i, Outputs) :
        /\ kb \in DOMAIN image.out[i]
        /\ image.out[i][kb] = <<"app", maps[i].out.pd + Offset(i, kb[1]) + kb[2]>>

\* The working counters match what the mapping expects exactly when no slave with process
\* data is missing: the supervision is called when it must be and never for nothing
\* (ec.c:1622, 1556).  With LRD and LWR only the first mapping and one sync manager
\* per direction are counted right.
AbsenceNoticed ==
    image # Nothing /\ (pd.overlapping \/ (OneEach /\ mappings = 1))
    => (image.matched <=> \A i \in image.absent \cap Members : Mapped(i) = {})

\* New mail is found by its bit or, where the slave has no FMMU left for a bit, by polling,
\* and a mailbox that is not polled is read only when it has got mail.
MailNoticed == /\ \A i \in mailed.new : i \in mailed.read \/ ~maps[i].sm_state
               /\ \A i \in mailed.read : i \in mailed.new \/ ~maps[i].sm_state
=============================================================================
