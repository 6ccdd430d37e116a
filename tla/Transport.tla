------------------------------ MODULE Transport ------------------------------
(***************************************************************************)
(* The datagram transport of the master: the index queue (idx.c), the      *)
(* frame assembly and the sent-table tx_send (hw.c), the blocking          *)
(* ec_transceive, the cyclic senders and the receive callbacks (ec.c), and *)
(* get_packet_duration (dc.c), over the default raw-socket device, whose   *)
(* receive thread calls hw_process_rx_frame.                               *)
(*                                                                         *)
(* Threads: Clients call ec_transceive (Pingers call get_packet_duration), *)
(* "cyc" is the application's cyclic task, "rx" the receive thread.  Each  *)
(* step below is one critical section or one unlocked access of a thread;  *)
(* everything between two of them belongs to that thread alone.            *)
(***************************************************************************)
EXTENDS Integers, Sequences, FiniteSets, SequencesExt

CONSTANTS
    Indices,      \* the LEC_MAX_INDEX datagram indices (idx.h)
    Idx0,         \* index 0
    Entries,      \* the LEC_MAX_DATAGRAMS entries of pec->pool
    Clients,      \* threads that transceive
    Pingers,      \* those among them that measure the packet duration
    CycleSeq,     \* the cyclic datagrams, in the order the task sends them
    MasterClock,  \* TRUE: dc.mode == dc_mode_master_clock
    MaxDg,        \* datagrams that fit into a frame (mtu_size)
    MaxCalls,     \* bound: transceive calls of each client
    MaxLoss,      \* bound: frames lost on the wire
    MaxTimeouts,  \* bound: waits for a reply that time out
    MaxWire,      \* bound: frames on the wire when a new cycle starts
    MaxFrames,    \* bound: frames on the wire when hw_tx_pool sends a full one,
                  \*   which it may do for ever over a queue that is torn
    Recycle,      \* FALSE: the wire is never slower than a whole round through
                  \*   the FIFO queues, so an index or entry is not handed out
                  \*   again while its old datagram is still under way
    NULL

Cdgs == {CycleSeq[k] : k \in 1 .. Len(CycleSeq)}

(* The cyclic datagrams: dc.cdg, the process data group's cdg ("lrw") or   *)
(* cdg_lwr and cdg_lrd, its cdg_lrd_mbx_state ("mbx"), and cdg_state.      *)
CdgNames == {"dc", "lrw", "lwr", "lrd", "mbx", "state"}
Group    == {"lrw", "lwr", "lrd", "mbx"}

Heads  == {"pool", "low", "high"}     \* pec->pool, phw->tx_low, phw->tx_high
Owners == Clients \cup Cdgs \cup {"sto"}

ASSUME TransportAssumption ==
    /\ IsFiniteSet(Indices) /\ IsFiniteSet(Entries)
    /\ Idx0 \in Indices
    /\ NULL \notin Indices \cup Entries \cup Clients \cup CdgNames
    /\ NULL \notin {"block", "anon", "no_reply", "sto", "cyc"}
    /\ Entries \cap Heads = {}
    /\ Pingers \subseteq Clients
    /\ CycleSeq \in Seq(CdgNames)
    /\ \A j, k \in 1 .. Len(CycleSeq) : CycleSeq[j] = CycleSeq[k] => j = k
    /\ Clients \cap (CdgNames \cup {"sto", "cyc"}) = {}
    /\ {MaxDg, MaxCalls, MaxLoss, MaxTimeouts, MaxWire, MaxFrames} \subseteq Nat
    /\ {MasterClock, Recycle} \subseteq BOOLEAN

VARIABLES
    idxq,      \* idx_q.q, the queue of free indices
    waiter,    \* the binary semaphore of each index
    q,         \* the links of the three entry queues
    ent,       \* user_cb, p_idx and the datagram in data of each entry
    p_idx,     \* the index each owner holds (local p_idx or cdg.p_idx)
    p_entry,   \* the entry each owner holds
    tx_send,   \* phw->tx_send
    hw,        \* hw_lock's owner and the state of its hw_tx_pool
    wire,      \* frames sent and not yet received, in order
    rx,        \* the receive thread
    pc,        \* where each client is
    calls,     \* calls each client has made
    cyc,       \* the cyclic task
    op,        \* master_state is SAFEOP or OP
    losses,    \* frames lost so far
    timeouts   \* waits timed out so far

qvars  == <<idxq, waiter, p_idx>>
evars  == <<q, ent, p_entry>>
hvars  == <<tx_send, hw, wire>>
cvars  == <<pc, calls>>
bounds == <<losses, timeouts>>
vars   == <<qvars, evars, hvars, rx, cvars, cyc, op, bounds>>

Tq == INSTANCE Tailq

-----------------------------------------------------------------------------
(* Data.  A request is named by its caller and call number; the datagram   *)
(* in an entry or frame carries its index, the request and whether it has  *)
(* been through the slaves (its payload and working counter).              *)
Requests  == (Clients \X (1 .. MaxCalls)) \cup ((Cdgs \cup {"sto", "none"}) \X {0})
Datagrams == [idx : Indices, req : Requests, ans : BOOLEAN]
Callbacks == {"block", "anon", "no_reply"} \cup Cdgs
Contents  == [p_idx : Indices \cup {NULL}, cb : Callbacks \cup {NULL}, dg : Datagrams]

Datagram(i, r)    == [idx |-> i, req |-> r, ans |-> FALSE]
Content(i, cb, d) == [p_idx |-> i, cb |-> cb, dg |-> d]
Zeroed            == Content(NULL, NULL, Datagram(Idx0, <<"none", 0>>))

(* What is under way: the datagram an entry popped by hw_tx_pool holds,    *)
(* the frame being filled, the wire, the frame being received.             *)
FrameIdxs(f)    == {f[k].idx : k \in 1 .. Len(f)}
InFlightIdxs    == FrameIdxs(hw.frame) \cup FrameIdxs(rx.frame)
                     \cup (UNION {FrameIdxs(wire[k]) : k \in 1 .. Len(wire)})
                     \cup (IF hw.entry = NULL THEN {} ELSE {ent[hw.entry].dg.idx})
InFlightEntries == {hw.entry, rx.entry} \cup {tx_send[i] : i \in InFlightIdxs}

-----------------------------------------------------------------------------
(* idx.c *)

\* Mutant: without the trywait that drains the semaphore.
ec_index_get_no_drain(o) == /\ idxq # <<>>
                            /\ Recycle \/ Head(idxq) \notin InFlightIdxs
                            /\ idxq' = Tail(idxq)
                            /\ p_idx' = [p_idx EXCEPT ![o] = Head(idxq)]
                            /\ UNCHANGED waiter

\* ec_index_get, on a non-empty queue: pop the head and drain its semaphore.
ec_index_get(o) == /\ idxq # <<>>
                   /\ Recycle \/ Head(idxq) \notin InFlightIdxs
                   /\ idxq' = Tail(idxq)
                   /\ waiter' = [waiter EXCEPT ![Head(idxq)] = FALSE]
                   /\ p_idx' = [p_idx EXCEPT ![o] = Head(idxq)]

ec_index_put(i) == idxq' = Append(idxq, i)

(* pool.c without a timeout, on the pointers of the queues. *)

\* pool_get of pec->pool, which fills in what its caller then writes.
pool_get(o, cb, d) ==
    LET e == Tq!TAILQ_FIRST(q, "pool")
    IN  /\ e # NULL
        /\ Recycle \/ e \notin InFlightEntries
        /\ q' = Tq!TAILQ_REMOVE(q, "pool", e)
        /\ p_entry' = [p_entry EXCEPT ![o] = e]
        /\ ent' = [ent EXCEPT ![e] = Content(p_idx[o], cb, d)]

PoolEmpty == Tq!TAILQ_FIRST(q, "pool") = NULL

pool_put(h, e)    == q' = Tq!TAILQ_INSERT_TAIL(q, h, e)
pool_remove(h, e) == q' = Tq!TAILQ_REMOVE(q, h, e)

-----------------------------------------------------------------------------
(* hw.c *)

\* hw_enqueue: a leftover sent mark of this index counts as a lost datagram.
hw_enqueue(e, h) == /\ tx_send' = [tx_send EXCEPT ![ent[e].p_idx] = NULL]
                    /\ pool_put(h, e)

\* phw->send: a frame with datagrams in it goes on the wire.
Sent(f) == IF f = <<>> THEN wire ELSE Append(wire, f)

\* hw_tx, hw_tx_low: take hw_lock and start with queue h.
hw_lock(t, h) == /\ hw.owner = NULL
                 /\ hw' = [hw EXCEPT !.owner = t, !.queue = h]

\* One turn of hw_tx_pool: pop an entry; send the frame if it is full.
TxPop == LET e    == Tq!TAILQ_FIRST(q, hw.queue)
             full == Len(hw.frame) >= MaxDg
         IN  /\ hw.owner # NULL /\ hw.entry = NULL /\ e # NULL
             /\ full => Len(wire) < MaxFrames
             /\ q' = Tq!TAILQ_REMOVE(q, hw.queue, e)
             /\ hw' = [hw EXCEPT !.entry = e, !.frame = IF full THEN <<>> ELSE @]
             /\ wire' = IF full THEN Sent(hw.frame) ELSE wire
             /\ UNCHANGED <<qvars, ent, p_entry, tx_send, rx, cvars, cyc, op, bounds>>

\* ... copy its datagram into the frame and mark its index as sent.
TxCopy == /\ hw.owner # NULL /\ hw.entry # NULL
          /\ LET d == ent[hw.entry].dg
             IN  /\ hw' = [hw EXCEPT !.frame = Append(@, d), !.entry = NULL]
                 /\ tx_send' = [tx_send EXCEPT ![d.idx] = hw.entry]
          /\ UNCHANGED <<qvars, evars, wire, rx, cvars, cyc, op, bounds>>

\* Mutant: hw_tx sends the high priority queue only.
TxDone_high_only == /\ hw.owner # NULL /\ hw.entry = NULL
                    /\ Tq!TAILQ_FIRST(q, hw.queue) = NULL
                    /\ wire' = Sent(hw.frame)
                    /\ hw' = [hw EXCEPT !.frame = <<>>, !.owner = NULL]
                    /\ pc' = IF hw.owner \in Clients THEN [pc EXCEPT ![hw.owner] = "wait"] ELSE pc
                    /\ cyc' = IF hw.owner = "cyc" THEN [cyc EXCEPT !.pc = "idle"] ELSE cyc
                    /\ UNCHANGED <<qvars, evars, tx_send, rx, calls, op, bounds>>

\* Nothing is pending: send what is there; hw_tx goes on with the low queue,
\* hw_tx_low (and hw_tx after that) releases the lock and returns.
TxDone == LET both == hw.queue = "high"
          IN  /\ hw.owner # NULL /\ hw.entry = NULL
              /\ Tq!TAILQ_FIRST(q, hw.queue) = NULL
              /\ wire' = Sent(hw.frame)
              /\ hw' = [hw EXCEPT !.frame = <<>>,
                                  !.queue = "low",
                                  !.owner = IF both THEN @ ELSE NULL]
              /\ pc' = IF hw.owner \in Clients /\ ~both
                         THEN [pc EXCEPT ![hw.owner] = "wait"] ELSE pc
              /\ cyc' = IF hw.owner = "cyc" /\ ~both THEN [cyc EXCEPT !.pc = "idle"] ELSE cyc
              /\ UNCHANGED <<qvars, evars, tx_send, rx, calls, op, bounds>>

\* The environment: a frame that never comes back.
LoseFrame == /\ losses < MaxLoss
             /\ losses' = losses + 1
             /\ \E k \in 1 .. Len(wire) : wire' = RemoveAt(wire, k)
             /\ UNCHANGED <<qvars, evars, tx_send, hw, rx, cvars, cyc, op, timeouts>>

-----------------------------------------------------------------------------
(* ec_transceive and get_packet_duration, step by step. *)

Goto(c, l) == pc' = [pc EXCEPT ![c] = l]

TcIndexGet(c) == /\ pc[c] = "out" /\ calls[c] < MaxCalls
                 /\ calls' = [calls EXCEPT ![c] = @ + 1]
                 /\ \/ ec_index_get(c) /\ Goto(c, "pool")
                    \/ idxq = <<>> /\ UNCHANGED <<qvars, pc>>  \* EC_ERROR_OUT_OF_INDICES
                 /\ UNCHANGED <<evars, hvars, rx, cyc, op, bounds>>

\* Mutant: without a datagram it returns at once and keeps the index.
TcPoolGet_leak(c) ==
    /\ pc[c] = "pool"
    /\ \/ pool_get(c, "block", Datagram(p_idx[c], <<c, calls[c]>>)) /\ Goto(c, "enqueue")
          /\ UNCHANGED p_idx
       \/ /\ PoolEmpty /\ Goto(c, "out") /\ UNCHANGED evars
          /\ p_idx' = [p_idx EXCEPT ![c] = NULL]
    /\ UNCHANGED <<idxq, waiter, hvars, rx, calls, cyc, op, bounds>>

\* get_packet_duration leaves index 0 in its datagram, whatever index it got.
Request(c) == Datagram(IF c \in Pingers THEN Idx0 ELSE p_idx[c], <<c, calls[c]>>)

TcPoolGet(c) ==
    LET cb == IF c \in Pingers THEN "anon" ELSE "block"
    IN  /\ pc[c] = "pool"
        /\ \/ pool_get(c, cb, Request(c)) /\ Goto(c, "enqueue")
           \/ PoolEmpty /\ Goto(c, "iput") /\ UNCHANGED evars   \* OUT_OF_DATAGRAMS
        /\ UNCHANGED <<qvars, hvars, rx, calls, cyc, op, bounds>>

TcEnqueue(c) == /\ pc[c] = "enqueue"
                /\ IF c \in Pingers THEN pool_put("high", p_entry[c]) /\ UNCHANGED tx_send
                                     ELSE hw_enqueue(p_entry[c], "low")
                /\ Goto(c, "tx")
                /\ UNCHANGED <<qvars, ent, p_entry, hw, wire, rx, calls, cyc, op, bounds>>

\* In SAFEOP and OP the cyclic task sends, otherwise the caller does.
TcTx(c) == /\ pc[c] = "tx"
           /\ IF op /\ c \notin Pingers
                THEN Goto(c, "wait") /\ UNCHANGED hw
                ELSE hw_lock(c, IF c \in Pingers THEN "high" ELSE "low") /\ Goto(c, "sending")
           /\ UNCHANGED <<qvars, evars, tx_send, wire, rx, calls, cyc, op, bounds>>

\* Mutant: does not look whether the semaphore was posted.
TcWaitOk_blind(c) == /\ pc[c] = "wait"
                     /\ waiter' = [waiter EXCEPT ![p_idx[c]] = FALSE]
                     /\ Goto(c, "read")
                     /\ UNCHANGED <<idxq, p_idx, evars, hvars, rx, calls, cyc, op, bounds>>

TcWaitOk(c) == /\ pc[c] = "wait" /\ waiter[p_idx[c]]
               /\ waiter' = [waiter EXCEPT ![p_idx[c]] = FALSE]
               /\ Goto(c, "read")
               /\ UNCHANGED <<idxq, p_idx, evars, hvars, rx, calls, cyc, op, bounds>>

\* Mutant: waits without a timeout.
TcWaitTimeout_never(c) == /\ pc[c] = "wait" /\ ~waiter[p_idx[c]]
                          /\ UNCHANGED vars

TcWaitTimeout(c) == /\ pc[c] = "wait" /\ ~waiter[p_idx[c]]
                    /\ timeouts < MaxTimeouts
                    /\ timeouts' = timeouts + 1
                    /\ Goto(c, IF c \in Pingers THEN "put" ELSE "remove")
                    /\ UNCHANGED <<qvars, evars, hvars, rx, calls, cyc, op, losses>>

\* Mutant: leaves the entry in tx_low.
TcRemove_skip(c) == /\ pc[c] = "remove"
                    /\ Goto(c, "expire")
                    /\ UNCHANGED <<qvars, evars, hvars, rx, calls, cyc, op, bounds>>

\* The entry is taken out of tx_low, whether it is in there or not.
TcRemove(c) == /\ pc[c] = "remove"
               /\ pool_remove("low", p_entry[c])
               /\ Goto(c, "expire")
               /\ UNCHANGED <<qvars, ent, p_entry, hvars, rx, calls, cyc, op, bounds>>

\* The loop ends because ret is EC_ERROR_TIMEOUT, before to_transceive expired,
TcGiveUp(c) == /\ pc[c] = "expire"
               /\ Goto(c, "put")
               /\ UNCHANGED <<qvars, evars, hvars, rx, calls, cyc, op, bounds>>

\* or after it did: only then the sent mark goes.
TcExpired(c) == /\ pc[c] = "expire"
                /\ tx_send' = [tx_send EXCEPT ![ent[p_entry[c]].dg.idx] = NULL]
                /\ Goto(c, "put")
                /\ UNCHANGED <<qvars, evars, hw, wire, rx, calls, cyc, op, bounds>>

TcPoolPut(c) == /\ pc[c] \in {"read", "put"}
                /\ pool_put("pool", p_entry[c])
                /\ p_entry' = [p_entry EXCEPT ![c] = NULL]
                /\ Goto(c, "iput")
                /\ UNCHANGED <<qvars, ent, hvars, rx, calls, cyc, op, bounds>>

TcIndexPut(c) == /\ pc[c] = "iput"
                 /\ ec_index_put(p_idx[c])
                 /\ p_idx' = [p_idx EXCEPT ![c] = NULL]
                 /\ Goto(c, "out")
                 /\ UNCHANGED <<waiter, evars, hvars, rx, calls, cyc, op, bounds>>

\* ec_set_state: master_state becomes SAFEOP, with the cyclic task running.
EnterOp == /\ ~op /\ op' = TRUE /\ CycleSeq # <<>>
           /\ UNCHANGED <<qvars, evars, hvars, rx, cvars, cyc, bounds>>

-----------------------------------------------------------------------------
(* The cyclic task: ec_send_distributed_clocks_sync, ec_send_process_data  *)
(* (one group) and ec_send_brd_ec_state, each in the lock of its cyclic    *)
(* datagram, and hw_tx.                                                    *)
cdg == CycleSeq[cyc.k]

\* The lock a sender takes, and the one the callback of that datagram takes.
\* Both halves of a split group's answers lock pd->cdg.
CbLock(d) == IF d \in {"lwr", "lrd"} THEN "lrw" ELSE d

CycHolds(d) == cyc.pc \in {"pool", "iput", "enqueue"} /\ cdg = d
RxHolds(d)  == rx.pc \in {"sto_pool", "sto_iput", "sto_put"} /\ d = "dc"

\* Go on with the next datagram, or with hw_tx after the last.  In a process
\* data group an error is carried on to the datagrams that follow.
NextCdg(ret) ==
    cyc' = IF cyc.k < Len(CycleSeq)
             THEN [pc  |-> "lock", k |-> cyc.k + 1,
                   ret |-> ret \/ ~({cdg, CycleSeq[cyc.k + 1]} \subseteq Group)]
             ELSE [pc |-> "tx", k |-> 1, ret |-> TRUE]

CycStart == /\ cyc.pc = "idle" /\ CycleSeq # <<>>
            /\ Len(wire) < MaxWire
            /\ cyc' = [pc |-> "lock", k |-> 1, ret |-> TRUE]
            /\ UNCHANGED <<qvars, evars, hvars, rx, cvars, op, bounds>>

\* With an index; an error carried on from the group still skips the rest.
CycHasIndex == IF cyc.ret THEN cyc' = [cyc EXCEPT !.pc = "pool"] ELSE NextCdg(FALSE)

\* Lock the datagram and see to its index.
CycIndexGet ==
    /\ cyc.pc = "lock" /\ ~RxHolds(cdg)
    /\ \/ p_idx[cdg] # NULL /\ CycHasIndex /\ UNCHANGED qvars
       \/ p_idx[cdg] = NULL /\ CycHasIndex /\ ec_index_get(cdg)
       \/ p_idx[cdg] = NULL /\ idxq = <<>> /\ NextCdg(FALSE) /\ UNCHANGED qvars
    /\ UNCHANGED <<evars, hvars, rx, cvars, op, bounds>>

CycPoolGet ==
    /\ cyc.pc = "pool"
    /\ \/ /\ p_entry[cdg] # NULL /\ UNCHANGED evars
          /\ cyc' = [cyc EXCEPT !.pc = "enqueue"]
       \/ /\ p_entry[cdg] = NULL
          /\ pool_get(cdg, cdg, Datagram(p_idx[cdg], <<cdg, 0>>))
          /\ cyc' = [cyc EXCEPT !.pc = "enqueue"]
       \/ /\ p_entry[cdg] = NULL /\ PoolEmpty /\ UNCHANGED evars
          /\ cyc' = [cyc EXCEPT !.pc = "iput"]
    /\ UNCHANGED <<qvars, hvars, rx, cvars, op, bounds>>

\* Mutant: forgets the index first and then returns what it forgot.
CycIndexPut_swapped == /\ cyc.pc = "iput"
                       /\ p_idx' = [p_idx EXCEPT ![cdg] = NULL]
                       /\ ec_index_put(p_idx'[cdg])
                       /\ NextCdg(FALSE)
                       /\ UNCHANGED <<waiter, evars, hvars, rx, cvars, op, bounds>>

\* Mutant: no sender forgets the index it returned.
CycIndexPut_keep == /\ cyc.pc = "iput"
                    /\ ec_index_put(p_idx[cdg])
                    /\ NextCdg(FALSE)
                    /\ UNCHANGED <<waiter, p_idx, evars, hvars, rx, cvars, op, bounds>>

\* No datagram: the index goes back.  The process data senders forget it,
\* the dc and the state sender keep it.
CycIndexPut == /\ cyc.pc = "iput"
               /\ ec_index_put(p_idx[cdg])
               /\ p_idx' = IF cdg \in Group THEN [p_idx EXCEPT ![cdg] = NULL] ELSE p_idx
               /\ NextCdg(FALSE)
               /\ UNCHANGED <<waiter, evars, hvars, rx, cvars, op, bounds>>

CycEnqueue == /\ cyc.pc = "enqueue"
              /\ ent' = [ent EXCEPT ![p_entry[cdg]].dg = Datagram(p_idx[cdg], <<cdg, 0>>)]
              /\ hw_enqueue(p_entry[cdg], "high")
              /\ NextCdg(TRUE)
              /\ UNCHANGED <<qvars, p_entry, hw, wire, rx, cvars, op, bounds>>

CycTx == /\ cyc.pc = "tx"
         /\ hw_lock("cyc", "high")
         /\ cyc' = [cyc EXCEPT !.pc = "sending"]
         /\ UNCHANGED <<qvars, evars, tx_send, wire, rx, cvars, op, bounds>>

-----------------------------------------------------------------------------
(* The receive thread: hw_process_rx_frame and the callbacks. *)

RxFrame == /\ rx.pc = "idle" /\ wire # <<>>
           /\ rx' = [pc |-> "slot", frame |-> Head(wire), entry |-> NULL]
           /\ wire' = Tail(wire)
           /\ UNCHANGED <<qvars, evars, tx_send, hw, cvars, cyc, op, bounds>>

\* On to the next datagram of the frame.
RxNext == rx' = [pc    |-> IF Len(rx.frame) > 1 THEN "slot" ELSE "idle",
                 frame |-> Tail(rx.frame), entry |-> NULL]

RxDg == Head(rx.frame)

\* entry = tx_send[d->idx], and in a second access tx_send[d->idx] = NULL.
RxSlot == /\ rx.pc = "slot"
          /\ rx' = [rx EXCEPT !.pc = "clear", !.entry = tx_send[RxDg.idx]]
          /\ UNCHANGED <<qvars, evars, hvars, cvars, cyc, op, bounds>>

\* Not marked as sent, or an entry without a callback: nothing more to do.
RxIgnored == rx.entry = NULL \/ ent[rx.entry].cb = NULL

RxClear == /\ rx.pc = "clear"
           /\ tx_send' = [tx_send EXCEPT ![RxDg.idx] = NULL]
           /\ IF RxIgnored THEN RxNext ELSE rx' = [rx EXCEPT !.pc = "cb"]
           /\ UNCHANGED <<qvars, evars, hw, wire, cvars, cyc, op, bounds>>

Calling(cb) == rx.pc = "cb" /\ ent[rx.entry].cb = cb

\* Mutant: posts without copying the answer.
cb_block_no_copy == /\ Calling("block")
                    /\ rx' = [rx EXCEPT !.pc = "post"]
                    /\ UNCHANGED <<qvars, evars, hvars, cvars, cyc, op, bounds>>

\* cb_block copies the answer into the entry, then posts; anon_cb only posts.
cb_block == /\ Calling("block")
            /\ ent' = [ent EXCEPT ![rx.entry].dg = [RxDg EXCEPT !.ans = TRUE]]
            /\ rx' = [rx EXCEPT !.pc = "post"]
            /\ UNCHANGED <<qvars, q, p_entry, hvars, cvars, cyc, op, bounds>>

RxPost == /\ rx.pc = "post" \/ Calling("anon")
          /\ waiter' = [waiter EXCEPT ![ent[rx.entry].p_idx] = TRUE]
          /\ RxNext
          /\ UNCHANGED <<idxq, p_idx, evars, hvars, cvars, cyc, op, bounds>>

\* Mutant: does nothing, as the caller does not care about the answer.
cb_no_reply_nop == /\ Calling("no_reply")
                   /\ RxNext
                   /\ UNCHANGED <<qvars, evars, hvars, cvars, cyc, op, bounds>>

\* cb_no_reply returns the entry and then reads the index out of it.
cb_no_reply == /\ Calling("no_reply")
               /\ pool_put("pool", rx.entry)
               /\ rx' = [rx EXCEPT !.pc = "iput"]
               /\ UNCHANGED <<qvars, ent, p_entry, hvars, cvars, cyc, op, bounds>>

RxIndexPut == /\ rx.pc = "iput"
              /\ ec_index_put(ent[rx.entry].p_idx)
              /\ RxNext
              /\ UNCHANGED <<waiter, p_idx, evars, hvars, cvars, cyc, op, bounds>>

\* The callbacks of the cyclic datagrams take their lock and leave the
\* transport alone.  So does the one of the distributed clocks when no slave
\* answered (wkc 0), there is no index or the mode is not master clock mode;
\* otherwise it sends a datagram of its own.
RxCyclic == /\ \E d \in Cdgs : Calling(d) /\ ~CycHolds(CbLock(d))
            /\ RxNext
            /\ UNCHANGED <<qvars, evars, hvars, cvars, cyc, op, bounds>>

cb_distributed_clocks == /\ Calling("dc") /\ ~CycHolds("dc") /\ MasterClock
                         /\ ec_index_get("sto")
                         /\ rx' = [rx EXCEPT !.pc = "sto_pool"]
                         /\ UNCHANGED <<evars, hvars, cvars, cyc, op, bounds>>

StoPoolGet ==
    /\ rx.pc = "sto_pool"
    /\ \/ /\ pool_get("sto", "no_reply", Datagram(p_idx["sto"], <<"sto", 0>>))
          /\ rx' = [rx EXCEPT !.pc = "sto_put"]
       \/ PoolEmpty /\ rx' = [rx EXCEPT !.pc = "sto_iput"] /\ UNCHANGED evars
    /\ UNCHANGED <<qvars, hvars, cvars, cyc, op, bounds>>

StoIndexPut == /\ rx.pc = "sto_iput"
               /\ ec_index_put(p_idx["sto"])
               /\ p_idx' = [p_idx EXCEPT !["sto"] = NULL]
               /\ RxNext
               /\ UNCHANGED <<waiter, evars, hvars, cvars, cyc, op, bounds>>

\* From here on the datagram in tx_low is the only owner of its index.
StoPut == /\ rx.pc = "sto_put"
          /\ pool_put("low", p_entry["sto"])
          /\ p_idx' = [p_idx EXCEPT !["sto"] = NULL]
          /\ p_entry' = [p_entry EXCEPT !["sto"] = NULL]
          /\ RxNext
          /\ UNCHANGED <<idxq, waiter, ent, hvars, cvars, cyc, op, bounds>>

-----------------------------------------------------------------------------
\* ec_open: ec_index_init, pool_open of pec->pool, hw_open; nothing is sent.
Init == /\ idxq = SetToSeq(Indices)
        /\ waiter = [i \in Indices |-> FALSE]
        /\ q = Tq!Filled("pool", SetToSeq(Entries))
        /\ ent = [e \in Entries |-> Zeroed]
        /\ p_idx = [o \in Owners |-> NULL]
        /\ p_entry = [o \in Owners |-> NULL]
        /\ tx_send = [i \in Indices |-> NULL]
        /\ hw = [owner |-> NULL, queue |-> "low", frame |-> <<>>, entry |-> NULL]
        /\ wire = <<>>
        /\ rx = [pc |-> "idle", frame |-> <<>>, entry |-> NULL]
        /\ pc = [c \in Clients |-> "out"]
        /\ calls = [c \in Clients |-> 0]
        /\ cyc = [pc |-> "idle", k |-> 1, ret |-> TRUE]
        /\ op = FALSE
        /\ losses = 0 /\ timeouts = 0

Tc(c) == \/ TcPoolGet(c) \/ TcEnqueue(c) \/ TcTx(c) \/ TcWaitOk(c) \/ TcRemove(c)
         \/ TcGiveUp(c) \/ TcExpired(c) \/ TcPoolPut(c) \/ TcIndexPut(c)

Tx == TxPop \/ TxCopy \/ TxDone

Cyc == \/ CycStart \/ CycIndexGet \/ CycPoolGet \/ CycIndexPut
       \/ CycEnqueue \/ CycTx

Rx == \/ RxFrame \/ RxSlot \/ RxClear \/ cb_block \/ RxPost \/ cb_no_reply \/ RxIndexPut
      \/ RxCyclic \/ cb_distributed_clocks \/ StoPoolGet \/ StoIndexPut \/ StoPut

Next == \/ \E c \in Clients : TcIndexGet(c) \/ TcWaitTimeout(c) \/ Tc(c)
        \/ Tx \/ Cyc \/ Rx \/ EnterOp \/ LoseFrame

Spec == Init /\ [][Next]_vars

(* Every thread that can run does: the callers inside a call, the holder   *)
(* of hw_lock, the cyclic task with its period, the receive thread.  The   *)
(* cyclic task sleeps between two cycles and holds its locks only briefly, *)
(* so whoever waits for one of them gets it.  A wait without an answer     *)
(* times out, as long as MaxTimeouts allows.                               *)
Fairness == /\ \A c \in Clients : WF_vars(Tc(c)) /\ WF_vars(TcWaitTimeout(c))
            /\ \A c \in Clients : SF_vars(TcTx(c))
            /\ WF_vars(Tx) /\ WF_vars(Cyc) /\ WF_vars(Rx)
            /\ SF_vars(RxCyclic \/ cb_distributed_clocks)

FairSpec == Spec /\ Fairness

-----------------------------------------------------------------------------
Steps     == {"out", "pool", "enqueue", "tx", "sending", "wait", "read", "remove",
              "expire", "put", "iput"}
Frames    == Seq(Datagrams) \ {<<>>}
HwStates  == [owner : Clients \cup {"cyc", NULL}, queue : {"high", "low"},
              frame : Seq(Datagrams), entry : Entries \cup {NULL}]
RxStates  == [pc : {"idle", "slot", "clear", "cb", "post", "iput", "sto_pool",
                    "sto_iput", "sto_put"},
              frame : Seq(Datagrams), entry : Entries \cup {NULL}]
CycStates == [pc : {"idle", "lock", "pool", "iput", "enqueue", "tx", "sending"},
              k : Nat, ret : BOOLEAN]

\* The shape of the transport's state.
TypeOK == /\ idxq \in Seq(Indices)
          /\ waiter \in [Indices -> BOOLEAN]
          /\ q \in Tq!Links
          /\ ent \in [Entries -> Contents]
          /\ p_idx \in [Owners -> Indices \cup {NULL}]
          /\ p_entry \in [Owners -> Entries \cup {NULL}]
          /\ tx_send \in [Indices -> Entries \cup {NULL}]
          /\ hw \in HwStates /\ rx \in RxStates /\ cyc \in CycStates
          /\ wire \in Seq(Frames)
          /\ pc \in [Clients -> Steps]
          /\ calls \in [Clients -> 0 .. MaxCalls]
          /\ op \in BOOLEAN
          /\ losses \in 0 .. MaxLoss /\ timeouts \in 0 .. MaxTimeouts

Free(i)    == \E k \in 1 .. Len(idxq) : idxq[k] = i
Members(h) == ToSet(Tq!Walk(q, h, Cardinality(Entries)))

\* ec_index_get hands out an index that nobody else has: an index is in the
\* free queue at most once, and not while a caller of ec_transceive or a
\* cyclic datagram holds it, and no two of them hold the same one.  Not so in
\* master clock mode, where cb_no_reply reads the index from an entry it has put
\* back (ec.c:1529), and not when the dc or the state sender finds no entry and
\* keeps the index it returned (ec.c:2032, ec.c:2176).
IndexOwnership == /\ \A j, k \in 1 .. Len(idxq) : idxq[j] = idxq[k] => j = k
                  /\ \A o \in Owners : p_idx[o] # NULL => ~Free(p_idx[o])
                  /\ \A o, u \in Owners : o # u /\ p_idx[o] # NULL => p_idx[o] # p_idx[u]

\* The system time offset datagrams that are out, each with an index of its own.
StoEntries == {e \in Entries : /\ ent[e].cb = "no_reply"
                               /\ e \notin Members("pool") \/ (rx.pc = "iput" /\ rx.entry = e)}

\* No error path and no callback loses an index: each one is free, held by a
\* caller or a cyclic datagram, or travels with a no-reply datagram.  Not so in
\* master clock mode, for the same line of cb_no_reply.
NoIndexLost == \A i \in Indices : \/ Free(i)
                                   \/ \E o \in Owners : p_idx[o] = i
                                   \/ \E e \in StoEntries : ent[e].p_idx = i

\* The entry queues are well-linked lists without a common entry, and an entry
\* that is in use is not in the pool, is used by one owner, and none is lost.
EntryOwnership ==
    /\ \A h \in Heads : Tq!IsQueue(q, h, Tq!Walk(q, h, Cardinality(Entries)))
    /\ \A g, h \in Heads : g # h => Members(g) \cap Members(h) = {}
    /\ \A o, u \in Owners : o # u /\ p_entry[o] # NULL => p_entry[o] # p_entry[u]
    /\ \A o \in Owners : p_entry[o] \notin Members("pool")
    /\ \A e \in Entries : \/ e \in Members("pool") \/ ent[e].cb = "no_reply"
                           \/ \E o \in Owners : p_entry[o] = e

\* An entry marked as sent under an index belongs to whoever holds that index,
\* so that the answer is handed to the one who sent the request.
SentIsHeld == \A i \in Indices : tx_send[i] # NULL =>
    \/ \E o \in Owners : p_entry[o] = tx_send[i] /\ p_idx[o] = i
    \/ tx_send[i] \in StoEntries /\ ent[tx_send[i]].p_idx = i

\* While no wait has timed out, hw_process_rx_frame runs the callback of an entry
\* only while a caller or a cyclic datagram has that entry, however many of them
\* take, return and lose entries and indices meanwhile.  After a timeout it may run
\* on an entry that is free or somebody else's, since ec_transceive leaves its mark
\* in tx_send when it gives up before its timer expires (ec.c:1504-1506).
CallbackOnHeldEntry == timeouts = 0 /\ rx.pc \in {"cb", "post"} =>
    \/ \E o \in Owners : p_entry[o] = rx.entry
    \/ rx.entry \in StoEntries

\* When ec_transceive's wait succeeds, the entry holds the answer to this very
\* request: no stale semaphore count, no answer to somebody else's datagram.
ReplyMatches == \A c \in Clients \ Pingers : pc[c] = "read" =>
    ent[p_entry[c]].dg = [Datagram(p_idx[c], <<c, calls[c]>>) EXCEPT !.ans = TRUE]

\* Whoever takes entries out and puts them back, under which lock and after which
\* error or timeout: one kind of step alone ends EntryOwnership, the pool_remove of a
\* caller whose wait timed out, for an entry that another thread's hw_tx_pool has
\* taken out of tx_low before (ec.c:1490).  With a second caller's entry in tx_low, it
\* does.
OnlyRemoveTears ==
    [][q' # q => \/ EntryOwnership'
                 \/ ~EntryOwnership
                 \/ \E c \in Clients : TcRemove(c) /\ p_entry[c] \notin Members("low")]_vars

\* pool_remove is called for an entry that is in that pool (pool.h: "Pool Entry
\* to remove, got previously by pool_peek").
RemoveQueued == \A c \in Clients : pc[c] = "remove" => p_entry[c] \in Members("low")

\* ec_transceive: "allow frames to be sent 10 times if lost on wire": it does
\* not give up before its timer expired.
ResendUntilExpired == [][\A c \in Clients : ~TcGiveUp(c)]_vars

\* A frame that comes back wakes its caller: every call of ec_transceive and
\* get_packet_duration returns, without the help of a timeout.
TransceiveReturns == \A c \in Clients : pc[c] # "out" ~> pc[c] = "out"

\* ec.c on the datagrams of the distributed clocks callback: "we don't care
\* about the answer, cb_no_reply frees datagram and index".
NoReplyFreed == \A e \in Entries : e \in StoEntries ~> e \notin StoEntries
=============================================================================
