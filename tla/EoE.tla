---------------------------------- MODULE EoE ----------------------------------
(***************************************************************************)
(* Ethernet over EtherCAT: ec_eoe_send_frame and ec_eoe_set_ip_parameter,  *)
(* which eoe.lock admits one at a time, and ec_eoe_process_recv, which the *)
(* handler thread calls when the last fragment of a frame has come         *)
(* (eoe.c).  A frame is a sequence of units of data.                       *)
(***************************************************************************)
EXTENDS SoE

CONSTANTS
    FreeFrames   \* entries of eoe.eth_frames_free_pool, 128 in the code

VARIABLES
    eoe,         \* the thread in ec_eoe_send_frame or ec_eoe_set_ip_parameter
    eoe_calls,   \* the calls it makes: [op, frame]
    send_sync,   \* eoe.send_sync
    eth_free,    \* the number of entries in eoe.eth_frames_free_pool
    eth_recv,    \* eoe.eth_frames_recv_pool
    veth,        \* the frames given to the virtual network device, or NULL without one
    node         \* the slave: the frame it puts together, those it has, those it sends

evars == <<eoe, eoe_calls, send_sync, eth_free, eth_recv, veth, node>>

EoeMessage(nr, payload, more) == Message("eoe", "FRAGMENT", nr, payload, more)

EoeOp == eoe_calls[eoe.call]

-----------------------------------------------------------------------------
EoeOnly == UNCHANGED <<eoe_calls, eth_free, eth_recv, veth, node>>

EoeCall == /\ eoe.pc = "idle" /\ eoe.call < Len(eoe_calls)
           /\ LET call == eoe_calls[eoe.call + 1]
                  next == [pc |-> call.op, call |-> eoe.call + 1, ret |-> "timeout", pos |-> 0, nr |-> 0]
              IN  \/ /\ call.op = "frame" /\ eoe' = next
                     /\ UNCHANGED sends
                  \/ /\ call.op = "ip" /\ eoe' = next
                     /\ SendTail(Message("ip", "SET_IP", 0, <<>>, FALSE))
                  \/ /\ call.op = "ip" /\ send_free = 0
                     /\ eoe' = [next EXCEPT !.pc = "idle", !.ret = "no_buffer"]
                     /\ UNCHANGED sends
           /\ UNCHANGED <<recvs, slave, losses, lates, send_sync>>
           /\ EoeOnly

\* Mutant: the fragments are queued without waiting for each other, the newest first.
EoeFragment_head ==
    /\ eoe.pc = "frame"
    /\ LET part == Part(EoeOp.frame, eoe.pos, room.write)
       IN  /\ SendHead(EoeMessage(eoe.nr, part, Len(part) = room.write))
           /\ eoe' = [eoe EXCEPT !.pos = @ + Len(part), !.nr = @ + 1,
                                 !.pc = IF eoe.pos + Len(part) < Len(EoeOp.frame) THEN "frame" ELSE "sync"]
    /\ UNCHANGED <<recvs, slave, losses, lates, send_sync>>
    /\ EoeOnly

\* The next fragment; it is the last one when it does not fill the mailbox.
EoeFragment ==
    /\ eoe.pc = "frame"
    /\ LET part == Part(EoeOp.frame, eoe.pos, room.write)
       IN  /\ SendTail(EoeMessage(eoe.nr, part, Len(part) = room.write))
           /\ eoe' = [eoe EXCEPT !.pos = @ + Len(part), !.nr = @ + 1, !.pc = "sync"]
    /\ UNCHANGED <<recvs, slave, losses, lates, send_sync>>
    /\ EoeOnly

\* Ten seconds have passed without a send buffer.  The result of ec_mbx_get_free_send_buffer
\* is ignored, and the callback is written through the NULL it left in p_entry.
EoeNoBuffer == /\ eoe.pc = "frame" /\ send_free = 0
               /\ eoe' = [eoe EXCEPT !.pc = "crash"]
               /\ UNCHANGED <<port, send_sync>>
               /\ EoeOnly

\* The handler has written it.
EoeSynced == /\ eoe.pc = "sync" /\ send_sync > 0
             /\ send_sync' = send_sync - 1
             /\ eoe' = [eoe EXCEPT !.pc = IF eoe.pos < Len(EoeOp.frame) THEN "frame" ELSE "idle"]
             /\ UNCHANGED port
             /\ EoeOnly

EoeIpAnswer == /\ eoe.pc = "ip" /\ TakeAndReturn("ip")
               /\ eoe' = [eoe EXCEPT !.pc = "idle", !.ret = "ok"]
               /\ UNCHANGED <<sends, send_sync>>
               /\ EoeOnly

EoeTimeout == /\ eoe.pc = "ip"
              /\ Expires("ip")
              /\ eoe' = [eoe EXCEPT !.pc = "idle"]
              /\ UNCHANGED send_sync
              /\ EoeOnly

-----------------------------------------------------------------------------
(* ec_eoe_process_recv, called by the handler until there is no frame left.*)

Fragment(k) == data[recv_pool["eoe"][k]]

\* The oldest frame: the fragments up to the first that is a last one.
EndsFrame(n) == ~Fragment(n).more /\ \A j \in 1 .. n - 1 : Fragment(j).more

\* Mutant: only the first of the n buffers that are returned leaves the pool.
EoeReleases_one(n) == /\ recv_pool' = [recv_pool EXCEPT !["eoe"] = Tail(@)]
                     /\ recv_free' = recv_free \o SubSeq(recv_pool["eoe"], 1, n)

\* The first n buffers of the pool are returned.
EoeReleases(n) == /\ recv_pool' = [recv_pool EXCEPT !["eoe"] = SubSeq(@, n + 1, Len(@))]
                 /\ recv_free' = recv_free \o SubSeq(recv_pool["eoe"], 1, n)

HandlerLeaves == handler' = Idle

Processing == handler.does = "frames"

EoeNoFrame == /\ Processing /\ ~Arrived("eoe")
              /\ HandlerLeaves
              /\ UNCHANGED <<recv_free, recv_pool, eth_free, eth_recv, veth>>

\* Out of memory: the first fragment is lost, and no other is looked at now.
EoeNoMemory == /\ Processing /\ Arrived("eoe") /\ eth_free = 0
               /\ EoeReleases(1)
               /\ HandlerLeaves
               /\ UNCHANGED <<eth_free, eth_recv, veth>>

\* Not the start of a frame.  The ethernet buffer goes where received frames go.
EoeNoStart == /\ Processing /\ Arrived("eoe") /\ eth_free > 0 /\ Fragment(1).nr # 0
              /\ EoeReleases(1)
              /\ eth_free' = eth_free - 1 /\ eth_recv' = Append(eth_recv, <<>>)
              /\ UNCHANGED <<handler, veth>>

\* Mutant: what the second fragment has is written over the first one.
EoeFrame_over ==
    /\ Processing /\ Arrived("eoe") /\ eth_free > 0 /\ Fragment(1).nr = 0
    /\ \E n \in DOMAIN recv_pool["eoe"] :
          LET frame == Fragment(n).payload
          IN  /\ EndsFrame(n) /\ EoeReleases(n)
              /\ IF veth = NULL
                 THEN eth_free' = eth_free - 1 /\ eth_recv' = Append(eth_recv, frame) /\ UNCHANGED veth
                 ELSE veth' = Append(veth, frame) /\ UNCHANGED <<eth_free, eth_recv>>
    /\ UNCHANGED handler

\* The fragments of a frame, whatever their offsets say, go to the device, or to a pool
\* nobody takes them from.
EoeFrame ==
    /\ Processing /\ Arrived("eoe") /\ eth_free > 0 /\ Fragment(1).nr = 0
    /\ \E n \in DOMAIN recv_pool["eoe"] :
          LET frame == FlattenSeq([k \in 1 .. n |-> Fragment(k).payload])
          IN  /\ EndsFrame(n) /\ EoeReleases(n)
              /\ IF veth = NULL
                 THEN eth_free' = eth_free - 1 /\ eth_recv' = Append(eth_recv, frame) /\ UNCHANGED veth
                 ELSE veth' = Append(veth, frame) /\ UNCHANGED <<eth_free, eth_recv>>
    /\ UNCHANGED handler

HandlerFrames == /\ EoeNoFrame \/ EoeNoMemory \/ EoeNoStart \/ EoeFrame
                 /\ UNCHANGED <<sends, data, slave, losses, lates, eoe, eoe_calls, send_sync, node>>

\* Mutant: the callback is not called.
HandlerSends_silent == /\ HandlerSend
                       /\ UNCHANGED <<send_sync, eoe, eoe_calls, eth_free, eth_recv, veth, node>>

\* The callback of a fragment that was written.
HandlerSends == /\ HandlerSend
                /\ send_sync' = IF handler.with.pool = "eoe" THEN send_sync + 1 ELSE send_sync
                /\ UNCHANGED <<eoe, eoe_calls, eth_free, eth_recv, veth, node>>

-----------------------------------------------------------------------------
(* The slave's network (external).                                         *)

NodeReceives(m) == LET frame == IF m.nr = 0 THEN m.payload ELSE node.partial \o m.payload
                   IN  IF m.more THEN [node EXCEPT !.partial = frame]
                       ELSE [node EXCEPT !.partial = <<>>, !.has = Append(@, frame)]

SlaveEoe == /\ wrote # NULL
            /\ \/ /\ wrote.pool = "eoe"
                  /\ SlaveTakes(<<>>) /\ node' = NodeReceives(wrote)
               \/ /\ wrote.pool = "ip"
                  /\ SlaveTakes(<<Message("ip", "SET_IP", 0, <<>>, FALSE)>>) /\ UNCHANGED node
            /\ UNCHANGED <<eoe, eoe_calls, send_sync, eth_free, eth_recv, veth>>

\* The next frame of the node, in as many fragments as it takes.
NodeSends == /\ node.sent < Len(node.frames)
             /\ LET parts == Fragments(node.frames[node.sent + 1], room.read)
                IN  SlaveSpeaks([k \in DOMAIN parts |->
                                    EoeMessage(k - 1, parts[k], k < Len(parts))])
             /\ node' = [node EXCEPT !.sent = @ + 1]
             /\ UNCHANGED <<eoe, eoe_calls, send_sync, eth_free, eth_recv, veth>>

-----------------------------------------------------------------------------
EoeInit(calls, frames, device) ==
    /\ eoe = [pc |-> "idle", call |-> 0, ret |-> NULL, pos |-> 0, nr |-> 0]
    /\ eoe_calls = calls /\ send_sync = 0
    /\ eth_free = FreeFrames /\ eth_recv = <<>>
    /\ veth = IF device THEN <<>> ELSE NULL
    /\ node = [partial |-> <<>>, has |-> <<>>, frames |-> frames, sent |-> 0]

EoeNext == EoeCall \/ EoeFragment \/ EoeNoBuffer \/ EoeSynced \/ EoeIpAnswer \/ EoeTimeout
=============================================================================
