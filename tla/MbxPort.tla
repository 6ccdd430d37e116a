-------------------------------- MODULE MbxPort --------------------------------
(***************************************************************************)
(* The mailbox of one slave as FoE, SoE and EoE see it (mbx.c).  A service *)
(* takes a send buffer and queues its message; the handler thread writes   *)
(* the queued messages to the slave, reads the slave's messages into       *)
(* receive buffers and hands these on, one pool per protocol.  Module      *)
(* Mailbox has the flags and the steps inside the handler; here a step of  *)
(* the handler ends with an access to a pool or to the slave, and the      *)
(* receive buffers have identities, as a service may look at one that is   *)
(* no longer its own.                                                      *)
(***************************************************************************)
EXTENDS Integers, Sequences, FiniteSets, SequencesExt

CONSTANTS
    SendBufs,   \* LEC_MAX_MBX_ENTRIES of mbx_message_pool_send_free
    Buffers,    \* the entries of mbx_message_pool_recv_free
    MaxLosses,  \* bound: messages lost on the way from the slave's read mailbox
    MaxLates,   \* bound: pools whose timers expire although the answer is on its way and may be read
    NULL

ASSUME MbxPortAssumption == /\ IsFiniteSet(Buffers) /\ NULL \notin Buffers
                            /\ {SendBufs, MaxLosses, MaxLates} \subseteq Nat

VARIABLES
    send_free,    \* the number of buffers in mbx_message_pool_send_free
    send_queued,  \* mbx.message_pool_send_queued
    recv_free,    \* mbx_message_pool_recv_free
    data,         \* what is in each receive buffer
    recv_pool,    \* foe.recv_pool, soe.recv_pool, eoe.recv_pool and eoe.response_pool
    handler,      \* what the handler thread does, with which buffer or message
    wrote,        \* the slave's write mailbox
    answers,      \* what the slave is going to put into its read mailbox
    full,         \* the slave's read mailbox
    losses,       \* how many messages were lost
    lates         \* the pools that had an answer come too late

slave == <<wrote, answers, full>>
sends == <<send_free, send_queued>>
recvs == <<recv_free, data, recv_pool, handler>>
port  == <<sends, recvs, slave, losses, lates>>

Pools == {"foe", "soe", "eoe", "ip"}

\* Where the receive buffers are: each protocol's pool, the free ones, the handler's.
Places == Pools \cup {"free", "hand"}
Place  == [x \in Places |-> CASE x \in Pools -> recv_pool[x]
                              [] x = "free"  -> recv_free
                              [] x = "hand"  -> IF handler.does = "receive" THEN <<handler.with>> ELSE <<>>]

\* A message for or from a pool's service; more is set when others belong to it.
Message(pool, op, nr, payload, more) ==
    [pool |-> pool, op |-> op, nr |-> nr, payload |-> payload, more |-> more]

Zeroed == Message("none", "none", 0, <<>>, FALSE)
Idle   == [does |-> "nothing", with |-> NULL]

-----------------------------------------------------------------------------
(* What the services call.                                                 *)

\* ec_mbx_get_free_send_buffer, and with the message m in it, ec_mbx_enqueue_head ...
SendHead(m) == /\ send_free > 0
               /\ send_free' = send_free - 1
               /\ send_queued' = <<m>> \o send_queued

\* ... or ec_mbx_enqueue_tail.
SendTail(m) == /\ send_free > 0
               /\ send_free' = send_free - 1
               /\ send_queued' = Append(send_queued, m)

\* A message is waiting for a service.  Its buffer belongs to the service until ...
Arrived(p) == recv_pool[p] # <<>>
Oldest(p)  == Head(recv_pool[p])
Received(p) == data[Oldest(p)]

\* ... ec_mbx_return_free_recv_buffer puts it back.
ec_mbx_return_free_recv_buffer(b) == recv_free' = Append(recv_free, b)

\* The service takes the message and returns the buffer; what it does in between with its
\* own memory is of its own.
TakeAndReturn(p) == /\ Arrived(p)
                    /\ recv_pool' = [recv_pool EXCEPT ![p] = Tail(@)]
                    /\ ec_mbx_return_free_recv_buffer(Oldest(p))
                    /\ UNCHANGED <<data, handler, slave, losses, lates>>

\* Nothing is on its way any more.
Quiet == /\ send_queued = <<>> /\ handler.does \in {"nothing", "receive"}
         /\ wrote = NULL /\ answers = <<>> /\ full = NULL

\* Every receive buffer is in a pool nobody may ever take it from.
UsedUp == recv_free = <<>> /\ handler.does \notin {"receive", "frames"}

\* The wait for a message of p ends without one: there will be none, or it is late.
Expires(p) == /\ ~Arrived(p)
              /\ lates' = IF Quiet THEN lates ELSE lates \cup {p}
              /\ UsedUp \/ Cardinality(lates') <= MaxLates
              /\ UNCHANGED <<sends, recvs, slave, losses>>

-----------------------------------------------------------------------------
(* ec_mbx_do_handle.                                                       *)

HandlerBuffer == /\ handler = Idle /\ recv_free # <<>>
                 /\ handler' = [does |-> "receive", with |-> Head(recv_free)]
                 /\ recv_free' = Tail(recv_free)
                 /\ data' = [data EXCEPT ![Head(recv_free)] = Zeroed]
                 /\ UNCHANGED <<sends, recv_pool, slave, losses, lates>>

\* The mailbox is empty, or the answer to the read is lost.
HandlerEmpty == /\ handler.does = "receive"
                /\ \/ full = NULL /\ UNCHANGED <<full, losses>>
                   \/ full # NULL /\ losses < MaxLosses /\ losses' = losses + 1 /\ full' = NULL
                /\ ec_mbx_return_free_recv_buffer(handler.with)
                /\ handler' = Idle
                /\ UNCHANGED <<sends, data, recv_pool, wrote, answers, lates>>

\* A message is in the buffer and goes to the pool of its protocol; one that only gets
\* logged goes nowhere.  The last fragment of a frame has the frames put together.
HandlerRead == /\ handler.does = "receive" /\ full # NULL
               /\ data' = [data EXCEPT ![handler.with] = full]
               /\ full' = NULL
               /\ \/ /\ full.pool \notin Pools
                     /\ ec_mbx_return_free_recv_buffer(handler.with)
                     /\ UNCHANGED recv_pool
                  \/ /\ full.pool \in Pools
                     /\ recv_pool' = [recv_pool EXCEPT ![full.pool] = Append(@, handler.with)]
                     /\ UNCHANGED recv_free
               /\ handler' = IF full.pool = "eoe" /\ ~full.more
                             THEN [does |-> "frames", with |-> NULL] ELSE Idle
               /\ UNCHANGED <<sends, wrote, answers, losses, lates>>

HandlerPop == /\ handler = Idle /\ send_queued # <<>>
              /\ handler' = [does |-> "send", with |-> Head(send_queued)]
              /\ send_queued' = Tail(send_queued)
              /\ UNCHANGED <<send_free, recv_free, data, recv_pool, slave, losses, lates>>

\* Once the write mailbox is empty; the composition says who is told.
HandlerSend == /\ handler.does = "send" /\ wrote = NULL
               /\ wrote' = handler.with
               /\ send_free' = send_free + 1
               /\ handler' = Idle
               /\ UNCHANGED <<send_queued, recv_free, data, recv_pool, answers, full, losses, lates>>

\* Mutant: the buffer of a message that is put back is returned as well.
HandlerRequeue_returned == /\ handler.does = "send" /\ wrote # NULL
                           /\ send_queued' = <<handler.with>> \o send_queued
                           /\ send_free' = send_free + 1
                           /\ handler' = Idle
                           /\ UNCHANGED <<recv_free, data, recv_pool, slave, losses, lates>>

\* It was not for ten times EC_DEFAULT_TIMEOUT_MBX.
HandlerRequeue == /\ handler.does = "send" /\ wrote # NULL
                  /\ send_queued' = <<handler.with>> \o send_queued
                  /\ handler' = Idle
                  /\ UNCHANGED <<send_free, recv_free, data, recv_pool, slave, losses, lates>>

-----------------------------------------------------------------------------
(* The slave (external): it takes the next message when it has put all     *)
(* answers to the last one into its read mailbox.                          *)

SlaveTakes(replies) == /\ answers = <<>>
                       /\ wrote' = NULL
                       /\ answers' = replies
                       /\ UNCHANGED <<sends, recvs, full, losses, lates>>

SlaveAnswers == /\ answers # <<>> /\ full = NULL
                /\ full' = Head(answers)
                /\ answers' = Tail(answers)
                /\ UNCHANGED <<sends, recvs, wrote, losses, lates>>

\* Something nobody asked for.
SlaveSpeaks(messages) == /\ answers' = answers \o messages
                         /\ UNCHANGED <<sends, recvs, wrote, full, losses, lates>>

\* The send buffers are shared by all slaves: others hold some of them.
PortInit(held) ==
    /\ send_free = SendBufs - held /\ send_queued = <<>>
    /\ recv_free = SetToSeq(Buffers)
    /\ data = [b \in Buffers |-> Zeroed]
    /\ recv_pool = [p \in Pools |-> <<>>]
    /\ handler = Idle
    /\ wrote = NULL /\ answers = <<>> /\ full = NULL
    /\ losses = 0 /\ lates = {}
=============================================================================
