-------------------------------- MODULE Mailbox --------------------------------
(***************************************************************************)
(* The mailbox of one slave: the buffer pools and queues, the handler      *)
(* thread (mbx.c), the handler's part of CoE (ec_coe_enqueue and the ring  *)
(* of emergencies, coe.c), the mailbox state datagram of the receive       *)
(* thread (cb_lrd_mbx_state, ec.c) and the slave on the other side of its  *)
(* two mailboxes.  Module CoE adds the threads that use the mailbox.       *)
(*                                                                         *)
(* A step is one critical section, one access to the bus or one unlocked   *)
(* access to sm_state.  Pools are counters and queues of messages: Pool    *)
(* shows what they promise.                                                *)
(***************************************************************************)
EXTENDS Integers, Sequences, FiniteSets

CONSTANTS
    Users,          \* threads that send requests and wait for their answers
    SendBufs,       \* LEC_MAX_MBX_ENTRIES of mbx_message_pool_send_free
    RecvBufs,       \* LEC_MAX_MBX_ENTRIES of mbx_message_pool_recv_free
    MaxEmergencies, \* LEC_MAX_COE_EMERGENCIES, the slots of the ring
    Requests,       \* the identities of requests
    Kinds,          \* the CoE services the clients call
    Fragments,      \* fragments of an object dictionary list
    Refuses,        \* TRUE: the slave may answer with an abort or an error
    SlaveDepth,     \* messages a slave prepares before it takes the next request
    MaxEvents,      \* bound: messages the slave sends on its own
    MaxFaults,      \* bound: failed accesses to the mailboxes
    NULL

ASSUME MailboxAssumption ==
    /\ IsFiniteSet(Users)
    /\ {SendBufs, RecvBufs, MaxEvents, MaxFaults} \subseteq Nat
    /\ {MaxEmergencies, Fragments, SlaveDepth} \subseteq Nat \ {0}
    /\ Refuses \in BOOLEAN
    /\ NULL \notin Users /\ "handler" \notin Users /\ NULL # "handler"

VARIABLES
    send_free,   \* buffers in pec->mbx_message_pool_send_free
    recv_free,   \* buffers in pec->mbx_message_pool_recv_free
    send_queued, \* mbx.message_pool_send_queued
    recv_pool,   \* mbx.coe.recv_pool and pec->mbx_gw_recv_pool
    hold,        \* the message in the buffer each user holds
    sync,        \* mbx.handler_flags and the binary semaphore sync_sem
    sm_state,    \* *mbx.sm_state says that the read mailbox is full
    h,           \* the handler thread
    coe_lock,    \* the owner of mbx.coe.lock
    em,          \* the ring of emergencies
    rx,          \* the receive thread in cb_lrd_mbx_state
    op,          \* act_state is SAFEOP or OP
    slave,       \* write mailbox, answers in preparation, read mailbox
    events,      \* messages the slave sent on its own so far
    faults       \* accesses failed so far

pools  == <<send_free, recv_free, send_queued, recv_pool>>
mvars  == <<pools, hold, sync, sm_state, h, coe_lock, em, rx, op, slave, events, faults>>

-----------------------------------------------------------------------------
(* Messages.  svc is what a receiver tells apart: the CoE service with the *)
(* SDO or info opcode; left is the fragments_left of an info message, and  *)
(* the number of an emergency.                                             *)
Protos   == {"coe", "gw", "other"}
Services == {"request", "sdores", "abort", "info", "info_error", "emergency", "unknown"}
Messages == [proto : Protos, svc : Services, kind : Kinds \cup {"gateway", NULL},
             req : Requests \cup {NULL}, left : Nat]

Msg(p, s, k, r, f) == [proto |-> p, svc |-> s, kind |-> k, req |-> r, left |-> f]

\* What the slave may answer a request m with, as sequences of messages: all it
\* asks for, or a refusal.
Answer(m, s, f) == Msg(m.proto, s, m.kind, m.req, f)
Answers(m) ==
    CASE m.kind = "odlist"          -> {[i \in 1 .. Fragments |-> Answer(m, "info", Fragments - i)]}
                                       \cup (IF Refuses THEN {<<Answer(m, "info_error", 0)>>} ELSE {})
      [] m.kind \in {"desc", "entry"} -> {<<Answer(m, s, 0)>> : s \in {"info"} \cup (IF Refuses THEN {"info_error"} ELSE {})}
      [] OTHER                      -> {<<Answer(m, s, 0)>> : s \in {"sdores"} \cup (IF Refuses THEN {"abort"} ELSE {})}

-----------------------------------------------------------------------------
(* What the users and the receive thread call. *)

\* ec_mbx_get_free_send_buffer, whose buffer its caller fills with m.
ec_mbx_get_free_send_buffer(u, m) == /\ send_free > 0
                                     /\ send_free' = send_free - 1
                                     /\ hold' = [hold EXCEPT ![u] = m]
                                     /\ UNCHANGED <<recv_free, send_queued, recv_pool>>

ec_mbx_return_free_recv_buffer(u) == /\ recv_free' = recv_free + 1
                                     /\ hold' = [hold EXCEPT ![u] = NULL]

\* The locked part of ec_mbx_enqueue_head, ec_mbx_enqueue_tail, ec_mbx_sched_read.
Post(flag) == sync' = [flags |-> sync.flags \cup {flag}, sem |-> TRUE]

\* Mutant: the semaphore is posted without the flag.
ec_mbx_sched_read_no_flag == sync' = [sync EXCEPT !.sem = TRUE]

ec_mbx_sched_read == Post("recv")

\* ec_mbx_enqueue_head: first the message, then, in a second step, Post("send").
PutHead(u) == /\ send_queued' = <<hold[u]>> \o send_queued
              /\ hold' = [hold EXCEPT ![u] = NULL]

-----------------------------------------------------------------------------
(* ec_mbx_handler and ec_mbx_do_handle. *)

HWait == /\ h.pc = "wait" /\ sync.sem
         /\ sync' = [sync EXCEPT !.sem = FALSE]
         /\ h' = [h EXCEPT !.pc = "take"]
         /\ UNCHANGED <<pools, hold, sm_state, coe_lock, em, rx, op, slave, events, faults>>

\* On a timeout, look for something to send, below SAFEOP also to receive.
HTimeout == /\ h.pc = "wait" /\ ~sync.sem
            /\ sync' = [sync EXCEPT !.flags = @ \cup {"send"} \cup (IF op THEN {} ELSE {"recv"})]
            /\ h' = [h EXCEPT !.pc = "take"]
            /\ UNCHANGED <<pools, hold, sm_state, coe_lock, em, rx, op, slave, events, faults>>

\* Take the flags and go on with pc: receiving comes first, sending second.
HTake == /\ h.pc = "take"
         /\ LET send == "send" \in sync.flags
            IN  h' = IF "recv" \in sync.flags THEN [h EXCEPT !.pc = "recv", !.send = send]
                     ELSE [h EXCEPT !.pc = IF send THEN "send" ELSE "wait"]
         /\ sync' = [sync EXCEPT !.flags = {}]
         /\ UNCHANGED <<pools, hold, sm_state, coe_lock, em, rx, op, slave, events, faults>>

\* Done with receiving: the buffer belongs to somebody else, or ...
HReceived == h' = [pc |-> IF h.send THEN "send" ELSE "wait", send |-> FALSE, msg |-> NULL]

\* ... there is no message, or nobody wants it: back to the free buffers.
HGiveBack == HReceived /\ recv_free' = recv_free + 1

\* A buffer to receive into; "out of mailbox buffers" skips the reception.
HRecv == /\ h.pc = "recv"
         /\ \/ /\ recv_free > 0
               /\ recv_free' = recv_free - 1
               /\ h' = [h EXCEPT !.pc = "full"]
            \/ /\ recv_free = 0
               /\ HReceived
               /\ UNCHANGED recv_free
         /\ UNCHANGED <<send_free, send_queued, recv_pool, hold, sync, sm_state, coe_lock, em, rx, op, slave, events, faults>>

\* ec_mbx_is_full with no time to wait: below SAFEOP it asks the slave, ...
HAsk == /\ h.pc = "full" /\ ~op
        /\ \/ /\ slave.in # NULL
              /\ h' = [h EXCEPT !.pc = "read"]
              /\ UNCHANGED <<recv_free, faults>>
           \/ /\ \/ slave.in = NULL /\ UNCHANGED faults
                 \/ faults < MaxFaults /\ faults' = faults + 1
              /\ HGiveBack
        /\ UNCHANGED <<send_free, send_queued, recv_pool, hold, sync, sm_state, coe_lock, em, rx, op, slave, events>>

\* ... in SAFEOP and OP it reads *sm_state and, in a second access, resets it.
HSample == /\ h.pc = "full" /\ op
           /\ h' = [h EXCEPT !.pc = IF sm_state THEN "clear_full" ELSE "clear_empty"]
           /\ UNCHANGED <<pools, hold, sync, sm_state, coe_lock, em, rx, op, slave, events, faults>>

HClear == /\ sm_state' = FALSE
          /\ \/ /\ h.pc = "clear_full"
                /\ h' = [h EXCEPT !.pc = "read"]
                /\ UNCHANGED recv_free
             \/ /\ h.pc = "clear_empty"
                /\ HGiveBack
          /\ UNCHANGED <<send_free, send_queued, recv_pool, hold, sync, coe_lock, em, rx, op, slave, events, faults>>

\* Read the mailbox.  An empty one does not answer (wkc 0), and the frame with
\* the contents of a full one may be lost on its way back.
HRead == /\ h.pc = "read"
         /\ slave' = [slave EXCEPT !.in = NULL]
         /\ \/ /\ slave.in # NULL
               /\ h' = [h EXCEPT !.pc = "dispatch", !.msg = slave.in]
               /\ UNCHANGED <<recv_free, faults>>
            \/ /\ \/ slave.in = NULL /\ UNCHANGED faults
                  \/ slave.in # NULL /\ faults < MaxFaults /\ faults' = faults + 1
               /\ HGiveBack
         /\ UNCHANGED <<send_free, send_queued, recv_pool, hold, sync, sm_state, coe_lock, em, rx, op, events>>

ForUser(m)      == m.proto = "gw" \/ (m.proto = "coe" /\ m.svc \notin {"emergency", "unknown"})
IsEmergency(m)  == m.proto = "coe" /\ m.svc = "emergency"

\* Mutant: a message nobody waits for keeps its buffer.
HDispatch_drop ==
    /\ h.pc = "dispatch"
    /\ sm_state' = FALSE
    /\ \/ /\ ForUser(h.msg)
          /\ recv_pool' = [recv_pool EXCEPT ![h.msg.proto] = Append(@, h.msg)]
          /\ HReceived
       \/ /\ IsEmergency(h.msg)
          /\ h' = [h EXCEPT !.pc = "emergency"]
          /\ UNCHANGED recv_pool
       \/ /\ ~ForUser(h.msg) /\ ~IsEmergency(h.msg)
          /\ HReceived
          /\ UNCHANGED recv_pool
    /\ UNCHANGED <<send_free, recv_free, send_queued, hold, sync, coe_lock, em, rx, op, slave, events, faults>>

\* Reset *sm_state, then hand the message on (ec_mbx_gateway_enqueue and
\* ec_coe_enqueue); one of an unknown service or of a protocol without support
\* is dropped.
HDispatch ==
    /\ h.pc = "dispatch"
    /\ sm_state' = FALSE
    /\ \/ /\ ForUser(h.msg)
          /\ recv_pool' = [recv_pool EXCEPT ![h.msg.proto] = Append(@, h.msg)]
          /\ HReceived
          /\ UNCHANGED recv_free
       \/ /\ IsEmergency(h.msg)
          /\ h' = [h EXCEPT !.pc = "emergency"]
          /\ UNCHANGED <<recv_free, recv_pool>>
       \/ /\ ~ForUser(h.msg) /\ ~IsEmergency(h.msg)
          /\ HGiveBack
          /\ UNCHANGED recv_pool
    /\ UNCHANGED <<send_free, send_queued, hold, sync, coe_lock, em, rx, op, slave, events, faults>>

Succ(i) == (i + 1) % MaxEmergencies

\* Mutant: a full ring is taken for an empty one.
HEmergency_overrun ==
    /\ h.pc = "emergency" /\ coe_lock = NULL
    /\ em' = [em EXCEPT !.slots[em.write] = h.msg.left, !.write = Succ(em.write)]
    /\ HGiveBack
    /\ UNCHANGED <<send_free, send_queued, recv_pool, hold, sync, sm_state, coe_lock, rx, op, slave, events, faults>>

\* ec_coe_emergency_enqueue in the lock of the CoE users: a full ring loses
\* its oldest emergency.
HEmergency ==
    /\ h.pc = "emergency" /\ coe_lock = NULL
    /\ em' = [em EXCEPT !.slots[em.write] = h.msg.left,
                        !.write = Succ(em.write),
                        !.read = IF Succ(em.write) = @ THEN Succ(@) ELSE @]
    /\ HGiveBack
    /\ UNCHANGED <<send_free, send_queued, recv_pool, hold, sync, sm_state, coe_lock, rx, op, slave, events, faults>>

\* One message per round, even when more are queued.
HSend == /\ h.pc = "send"
         /\ \/ /\ send_queued # <<>>
               /\ h' = [h EXCEPT !.pc = "write", !.msg = Head(send_queued)]
               /\ send_queued' = Tail(send_queued)
            \/ /\ send_queued = <<>>
               /\ h' = [h EXCEPT !.pc = "wait"]
               /\ UNCHANGED send_queued
         /\ UNCHANGED <<send_free, recv_free, recv_pool, hold, sync, sm_state, coe_lock, em, rx, op, slave, events, faults>>

\* ec_mbx_send into the empty write mailbox; the buffer is free again.
HWrite == /\ h.pc = "write" /\ slave.out = NULL
          /\ slave' = [slave EXCEPT !.out = h.msg]
          /\ send_free' = send_free + 1
          /\ h' = [h EXCEPT !.pc = "wait", !.msg = NULL]
          /\ UNCHANGED <<recv_free, send_queued, recv_pool, hold, sync, sm_state, coe_lock, em, rx, op, events, faults>>

\* Mutant: the message is queued again, and its buffer is free at once.
HRequeue_return == /\ h.pc = "write"
                   /\ \/ slave.out # NULL /\ UNCHANGED faults
                      \/ faults < MaxFaults /\ faults' = faults + 1
                   /\ send_queued' = <<h.msg>> \o send_queued
                   /\ send_free' = send_free + 1
                   /\ h' = [h EXCEPT !.pc = "post", !.msg = NULL]
                   /\ UNCHANGED <<recv_free, recv_pool, hold, sync, sm_state, coe_lock, em, rx, op, slave, events>>

\* Ten times without success, as the mailbox stays full or does not answer:
\* ec_mbx_enqueue_head, and in a second step its Post("send").
HRequeue == /\ h.pc = "write"
            /\ \/ slave.out # NULL /\ UNCHANGED faults
               \/ faults < MaxFaults /\ faults' = faults + 1
            /\ send_queued' = <<h.msg>> \o send_queued
            /\ h' = [h EXCEPT !.pc = "post", !.msg = NULL]
            /\ UNCHANGED <<send_free, recv_free, recv_pool, hold, sync, sm_state, coe_lock, em, rx, op, slave, events>>

HPost == /\ h.pc = "post"
         /\ Post("send")
         /\ h' = [h EXCEPT !.pc = "wait"]
         /\ UNCHANGED <<pools, hold, sm_state, coe_lock, em, rx, op, slave, events, faults>>

Handler == \/ HWait \/ HTimeout \/ HTake
           \/ HRecv \/ HAsk \/ HSample \/ HClear \/ HRead \/ HDispatch \/ HEmergency
           \/ HSend \/ HWrite \/ HRequeue \/ HPost

-----------------------------------------------------------------------------
(* The mailbox state datagram: the frame samples the sync manager of the   *)
(* read mailbox on its way through the slave; its callback sets *sm_state  *)
(* and then schedules a read.                                              *)
RxSample == /\ rx = "idle" /\ op /\ slave.in # NULL
            /\ rx' = "set"
            /\ UNCHANGED <<pools, hold, sync, sm_state, h, coe_lock, em, op, slave, events, faults>>

\* Between the handler's two accesses to *sm_state (h.pc = "clear_empty") this
\* write is lost, until the next datagram repeats it.
RxSet == /\ rx = "set"
         /\ rx' = "sched"
         /\ sm_state' = TRUE
         /\ UNCHANGED <<pools, hold, sync, h, coe_lock, em, op, slave, events, faults>>

RxSched == /\ rx = "sched"
           /\ ec_mbx_sched_read
           /\ rx' = "idle"
           /\ UNCHANGED <<pools, hold, sm_state, h, coe_lock, em, op, slave, events, faults>>

Rx == RxSample \/ RxSet \/ RxSched

\* act_state becomes SAFEOP, and the cyclic task sends the datagram from now on.
EnterOp == /\ ~op /\ op' = TRUE
           /\ UNCHANGED <<pools, hold, sync, sm_state, h, coe_lock, em, rx, slave, events, faults>>

-----------------------------------------------------------------------------
(* The slave: takes a request, prepares its answer, fills the read mailbox. *)
SlaveTake == /\ slave.out # NULL /\ Len(slave.todo) < SlaveDepth
             /\ \E a \in Answers(slave.out) :
                    slave' = [slave EXCEPT !.out = NULL, !.todo = @ \o a]
             /\ UNCHANGED <<pools, hold, sync, sm_state, h, coe_lock, em, rx, op, events, faults>>

SlaveFill == /\ slave.in = NULL /\ slave.todo # <<>>
             /\ slave' = [slave EXCEPT !.in = Head(slave.todo), !.todo = Tail(@)]
             /\ UNCHANGED <<pools, hold, sync, sm_state, h, coe_lock, em, rx, op, events, faults>>

\* An emergency (numbered in left) or something the master does not know; a
\* CoE message of an unknown service is dropped in the same way.
SlaveEvent == /\ events < MaxEvents /\ events' = events + 1
              /\ \E m \in {Msg("coe", "emergency", NULL, NULL, events + 1),
                           Msg("other", "unknown", NULL, NULL, 0)} :
                     slave' = [slave EXCEPT !.todo = Append(@, m)]
              /\ UNCHANGED <<pools, hold, sync, sm_state, h, coe_lock, em, rx, op, faults>>

Slave == SlaveTake \/ SlaveFill

-----------------------------------------------------------------------------
\* ec_open fills the pools, ec_mbx_init and ec_coe_init open the queues.
MInit == /\ send_free = SendBufs /\ recv_free = RecvBufs
         /\ send_queued = <<>>
         /\ recv_pool = [p \in {"coe", "gw"} |-> <<>>]
         /\ hold = [u \in Users |-> NULL]
         /\ sync = [flags |-> {}, sem |-> FALSE]
         /\ sm_state = FALSE
         /\ h = [pc |-> "wait", send |-> FALSE, msg |-> NULL]
         /\ coe_lock = NULL
         /\ em = [write |-> 0, read |-> 0, slots |-> [i \in 0 .. MaxEmergencies - 1 |-> 0]]
         /\ rx = "idle"
         /\ op = FALSE
         /\ slave = [out |-> NULL, todo |-> <<>>, in |-> NULL]
         /\ events = 0 /\ faults = 0

MNext == Handler \/ Rx \/ EnterOp \/ Slave \/ SlaveEvent
=============================================================================
