---------------------------------- MODULE CoE ----------------------------------
(***************************************************************************)
(* The users of a slave's mailbox: the CoE services (SDO upload, expedited *)
(* and normal download, object dictionary list, object and entry           *)
(* descriptions) and ec_coe_emergency_get_next of coe.c, and the requests  *)
(* of the mailbox gateway (mbx_gateway.c).                                 *)
(***************************************************************************)
EXTENDS Mailbox

CONSTANTS
    Gateways,    \* the users that are mailbox gateways (pec->veth's thread)
    Segments,    \* segments that follow the first one in a normal download
    Small,       \* may the caller's buffer be too small?
    MaxCalls,    \* bound: calls of each user
    MaxTimeouts, \* bound: waits for an answer that time out
    MaxReads     \* bound: calls of ec_coe_emergency_get_next

AllKinds == {"read", "write", "normal", "odlist", "desc", "entry"}
Clients  == Users \ Gateways

ASSUME CoEAssumption ==
    /\ Gateways \subseteq Users
    /\ {Segments, MaxCalls, MaxTimeouts, MaxReads} \subseteq Nat
    /\ Small \subseteq BOOLEAN /\ Small # {}
    /\ Kinds \subseteq AllKinds
    /\ Requests = Users \X (1 .. MaxCalls) \X (0 .. Segments)

VARIABLES
    pc,       \* where each user is
    call,     \* the call it is in
    got,      \* the emergencies ec_coe_emergency_get_next has returned
    timeouts  \* waits timed out so far

uvars == <<pc, call, got, timeouts>>
vars  == <<mvars, uvars>>

\* Left alone by every step of a user: what the handler does.
hvars == <<sm_state, h, rx, op, slave, events, faults>>

Goto(u, l) == pc' = [pc EXCEPT ![u] = l]

-----------------------------------------------------------------------------
(* A call: its number n and kind, what ret is by now, the stage it is in   *)
(* (0, or the segment of a normal download), the segments that rest,       *)
(* frag_left, whether the buffer is too small.  acked counts the requests  *)
(* that were confirmed by their own answers; the code does not know it.    *)

\* Mutant: the gateway does not mark its requests (0x8000 in the address).
Proto_unmarked(u) == "coe"

Proto(u) == IF u \in Gateways THEN "gw" ELSE "coe"
Req(u)   == <<u, call[u].n, call[u].stage>>

InitialRet(k) == CASE k \in {"odlist", "desc", "gateway"} -> "ok"
                   [] k = "entry"                         -> "read"
                   [] OTHER                               -> "timeout"

NewCall(n, k, s) == [n |-> n, kind |-> k, ret |-> InitialRet(k), stage |-> 0,
                     rest  |-> IF k = "normal" THEN Segments ELSE 0,
                     left  |-> 0, small |-> s, acked |-> 0]

Start(u) == /\ pc[u] = "out" /\ call[u].n < MaxCalls
            /\ \E k \in IF u \in Gateways THEN {"gateway"} ELSE Kinds :
               \E s \in IF k \in {"read", "odlist"} THEN Small ELSE {FALSE} :
                   call' = [call EXCEPT ![u] = NewCall(@.n + 1, k, s)]
            /\ Goto(u, IF u \in Gateways THEN "get" ELSE "lock")
            /\ UNCHANGED <<mvars, got, timeouts>>

Lock(u) == /\ pc[u] = "lock" /\ coe_lock = NULL
           /\ coe_lock' = u
           /\ Goto(u, "get")
           /\ UNCHANGED <<pools, hold, sync, hvars, em, call, got, timeouts>>

\* A send buffer and the request in it, or EC_ERROR_MAILBOX_OUT_OF_SEND_BUFFERS
\* (which the gateway only logs).
GetBuffer(u) ==
    /\ pc[u] = "get"
    /\ \/ /\ ec_mbx_get_free_send_buffer(u, Msg(Proto(u), "request", call[u].kind, Req(u), 0))
          /\ call' = IF call[u].stage = 0 THEN call
                     ELSE [call EXCEPT ![u].ret = "timeout", ![u].rest = @ - 1]
          /\ Goto(u, "put")
       \/ /\ send_free = 0
          /\ call' = IF u \in Gateways THEN call ELSE [call EXCEPT ![u].ret = "no_buffer"]
          /\ Goto(u, "unlock")
          /\ UNCHANGED <<pools, hold>>
    /\ UNCHANGED <<sync, hvars, coe_lock, em, got, timeouts>>

Enqueue(u) == /\ pc[u] = "put"
              /\ PutHead(u)
              /\ Goto(u, "post")
              /\ UNCHANGED <<send_free, recv_free, recv_pool, sync, hvars, coe_lock, em, call, got, timeouts>>

PostSend(u) == /\ pc[u] = "post"
               /\ Post("send")
               /\ Goto(u, IF u \in Gateways THEN "wait" ELSE "sched")
               /\ UNCHANGED <<pools, hold, hvars, coe_lock, em, call, got, timeouts>>

\* ec_coe_wait: have the mailbox read, then wait 100 us for a message; ...
SchedRead(u) == /\ pc[u] = "sched"
                /\ ec_mbx_sched_read
                /\ Goto(u, "wait")
                /\ UNCHANGED <<pools, hold, hvars, coe_lock, em, call, got, timeouts>>

Receive(u) == /\ pc[u] = "wait" /\ recv_pool[Proto(u)] # <<>>
              /\ hold' = [hold EXCEPT ![u] = Head(recv_pool[Proto(u)])]
              /\ recv_pool' = [recv_pool EXCEPT ![Proto(u)] = Tail(@)]
              /\ Goto(u, "process")
              /\ UNCHANGED <<send_free, recv_free, send_queued, sync, hvars, coe_lock, em, call, got, timeouts>>

\* ... and again (ec_mbx_gateway_wait only waits again),
WaitAgain(u) == /\ pc[u] = "wait" /\ u \in Clients /\ recv_pool["coe"] = <<>>
                /\ Goto(u, "sched")
                /\ UNCHANGED <<mvars, call, got, timeouts>>

-----------------------------------------------------------------------------
(* What follows a wait. *)

\* The next segment of a normal download, or the end of the call.
NextSegment(u, ret, more) ==
    IF more /\ call[u].rest > 0
      THEN /\ call' = [call EXCEPT ![u].ret = ret, ![u].stage = @ + 1]
           /\ Goto(u, "get")
      ELSE /\ call' = [call EXCEPT ![u].ret = ret]
           /\ Goto(u, "unlock")

\* ... until 10 s have passed, even when a message arrives just then.  The
\* reader of an object dictionary list goes on waiting for the fragments left,
\* a normal download with the segments after the one that was not confirmed.
WaitTimeout(u) ==
    /\ pc[u] = "wait"
    /\ timeouts < MaxTimeouts /\ timeouts' = timeouts + 1
    /\ IF call[u].left # 0 THEN Goto(u, "sched") /\ UNCHANGED call
                           ELSE NextSegment(u, call[u].ret, call[u].stage > 0)
    /\ UNCHANGED <<mvars, got>>

\* What the service and opcode of a message m make of ret.
SdoRet(u, m) == CASE m.svc = "abort"  -> "abort"
                  [] m.svc = "sdores" -> IF call[u].kind = "read" /\ call[u].small THEN "too_small" ELSE "ok"
                  [] OTHER            -> "read"

InfoRet(u, m) == CASE m.svc = "info" /\ m.kind = call[u].kind -> "ok"
                   [] m.svc = "info_error"                    -> "abort"
                   [] m.svc = "info"                          -> call[u].ret
                   [] OTHER                                   -> "read"

\* m confirms the request u has under way.
Confirms(u, m) == /\ m.req = Req(u)
                  /\ m.svc = "sdores" \/ (m.svc = "info" /\ m.left = 0)

\* Count it, give the buffer back.
Processed(u) == /\ ec_mbx_return_free_recv_buffer(u)
                /\ UNCHANGED <<send_free, send_queued, recv_pool, sync, hvars, coe_lock, em, got, timeouts>>

Acked(u) == call[u].acked + (IF Confirms(u, hold[u]) THEN 1 ELSE 0)

\* An SDO transfer goes on until its answer or an abort.
ProcessSdo(u) ==
    LET ret  == SdoRet(u, hold[u])
        done == [call[u] EXCEPT !.ret = ret, !.acked = Acked(u)]
        more == call[u].rest > 0 /\ (ret = "ok" \/ call[u].stage > 0)
    IN  /\ pc[u] = "process" /\ call[u].kind \in {"read", "write", "normal"}
        /\ \/ /\ ret \notin {"ok", "abort"}
              /\ call' = [call EXCEPT ![u] = done]
              /\ Goto(u, "sched")
           \/ /\ ret \in {"ok", "abort"} /\ more
              /\ call' = [call EXCEPT ![u] = [done EXCEPT !.stage = @ + 1]]
              /\ Goto(u, "get")
           \/ /\ ret \in {"ok", "abort"} /\ ~more
              /\ call' = [call EXCEPT ![u] = done]
              /\ Goto(u, "unlock")
        /\ Processed(u)

\* A description, the same way.
ProcessInfo(u) ==
    LET ret == InfoRet(u, hold[u])
    IN  /\ pc[u] = "process" /\ call[u].kind \in {"desc", "entry"}
        /\ call' = [call EXCEPT ![u].ret = ret, ![u].acked = Acked(u)]
        /\ Goto(u, IF ret \in {"ok", "abort"} THEN "unlock" ELSE "sched")
        /\ Processed(u)

\* Mutant: the list is complete with its first fragment.
ProcessList_first(u) ==
    /\ pc[u] = "process" /\ call[u].kind = "odlist"
    /\ call' = [call EXCEPT ![u].acked = Acked(u)]
    /\ Goto(u, "unlock")
    /\ Processed(u)

\* ret after a message m, taken for a fragment whatever it is: only the first one's
\* lengths are compared with the buffer.  They are those of the list in its first
\* fragment, 2 bytes in a refusal, anything in other messages.
ListRets(u, m) ==
    LET first == call[u].left = 0 /\ call[u].ret = "ok"
        list  == m.svc = "info" /\ m.kind = "odlist"
    IN  IF ~first                                                THEN {call[u].ret}
        ELSE IF ~call[u].small /\ (list \/ m.svc = "info_error") THEN {"ok"}
        ELSE IF call[u].small /\ list /\ m.left = Fragments - 1  THEN {"too_small"}
        ELSE {"ok", "too_small"}

\* A fragment of the object dictionary list, whatever the message is: in an
\* SDO response, fragments_left lies on the index and subindex.
ProcessList(u) ==
    /\ pc[u] = "process" /\ call[u].kind = "odlist"
    /\ \E left \in IF hold[u].svc \in {"info", "info_error"} THEN {hold[u].left} ELSE 0 .. Fragments :
       \E ret \in ListRets(u, hold[u]) :
           /\ call' = [call EXCEPT ![u].left = left, ![u].acked = Acked(u), ![u].ret = ret]
           /\ Goto(u, IF left = 0 THEN "unlock" ELSE "sched")
    /\ Processed(u)

\* ec_mbx_gateway_handle takes the first answer of any slave for its own.
ProcessGateway(u) ==
    /\ pc[u] = "process" /\ u \in Gateways
    /\ call' = [call EXCEPT ![u].acked = Acked(u)]
    /\ Goto(u, "unlock")
    /\ Processed(u)

\* Return; the gateway has no lock to give back.
Unlock(u) == /\ pc[u] = "unlock"
             /\ coe_lock' = IF u \in Gateways THEN coe_lock ELSE NULL
             /\ Goto(u, "out")
             /\ UNCHANGED <<pools, hold, sync, hvars, em, call, got, timeouts>>

\* ec_coe_emergency_get_next: the index is not reduced modulo the size of the
\* ring; behind the ring lies something else (0).
EmergencyGetNext ==
    /\ coe_lock = NULL
    /\ em.write # em.read /\ Len(got) < MaxReads
    /\ got' = Append(got, IF em.read < MaxEmergencies THEN em.slots[em.read] ELSE 0)
    /\ em' = [em EXCEPT !.read = @ + 1]
    /\ UNCHANGED <<pools, hold, sync, hvars, coe_lock, pc, call, timeouts>>

-----------------------------------------------------------------------------
Init == /\ MInit
        /\ pc = [u \in Users |-> "out"]
        /\ call = [u \in Users |-> NewCall(0, "gateway", FALSE)]
        /\ got = <<>>
        /\ timeouts = 0

\* A user inside a call that does not wait for the lock or run into a timeout.
Step(u) == \/ GetBuffer(u) \/ Enqueue(u) \/ PostSend(u) \/ SchedRead(u) \/ Receive(u)
           \/ WaitAgain(u) \/ ProcessSdo(u) \/ ProcessInfo(u) \/ ProcessList(u)
           \/ ProcessGateway(u) \/ Unlock(u)

Next == \/ \E u \in Users : Start(u) \/ Lock(u) \/ WaitTimeout(u) \/ Step(u)
        \/ EmergencyGetNext
        \/ MNext /\ UNCHANGED uvars

Spec == Init /\ [][Next]_vars

(* The handler, the receive thread and the slave run, and the cyclic task   *)
(* keeps sending the mailbox state datagram; its callback does not fall     *)
(* between the handler's two accesses to *sm_state for ever.  A user inside *)
(* a call runs, and gets the lock and the message that are there again and  *)
(* again.  No fairness for timeouts: an answer that arrives must be enough. *)
RxSetLost == RxSet /\ h.pc = "clear_empty"

Fairness ==
    /\ WF_vars(Handler /\ UNCHANGED uvars) /\ SF_vars(HEmergency /\ UNCHANGED uvars)
    /\ WF_vars(Rx /\ UNCHANGED uvars) /\ <>[][~RxSetLost]_vars
    /\ WF_vars(SlaveTake /\ UNCHANGED uvars) /\ WF_vars(SlaveFill /\ UNCHANGED uvars)
    /\ \A u \in Users : WF_vars(Step(u)) /\ SF_vars(Lock(u)) /\ SF_vars(Receive(u))

FairSpec == Spec /\ Fairness

-----------------------------------------------------------------------------
Places == {"out", "lock", "get", "put", "post", "sched", "wait", "process", "unlock"}
Rets   == {"ok", "timeout", "read", "abort", "too_small", "no_buffer"}
Calls  == [n : 0 .. MaxCalls, kind : Kinds \cup {"gateway"}, ret : Rets, stage : 0 .. Segments,
           rest : 0 .. Segments, left : Nat, small : BOOLEAN, acked : Nat]

HandlerPlaces == {"wait", "take", "recv", "full", "clear_full", "clear_empty", "read",
                  "dispatch", "emergency", "send", "write", "post"}

\* The shape of the mailbox's state.
TypeOK == /\ send_free \in 0 .. SendBufs /\ recv_free \in 0 .. RecvBufs
          /\ send_queued \in Seq(Messages)
          /\ recv_pool \in [{"coe", "gw"} -> Seq(Messages)]
          /\ hold \in [Users -> Messages \cup {NULL}]
          /\ sync \in [flags : SUBSET {"send", "recv"}, sem : BOOLEAN]
          /\ sm_state \in BOOLEAN /\ op \in BOOLEAN
          /\ h \in [pc : HandlerPlaces, send : BOOLEAN, msg : Messages \cup {NULL}]
          /\ coe_lock \in Clients \cup {NULL}
          /\ em \in [write : 0 .. MaxEmergencies - 1, read : Nat,
                     slots : [0 .. MaxEmergencies - 1 -> Nat]]
          /\ rx \in {"idle", "set", "sched"}
          /\ slave \in [out : Messages \cup {NULL}, todo : Seq(Messages), in : Messages \cup {NULL}]
          /\ pc \in [Users -> Places] /\ call \in [Users -> Calls]
          /\ got \in Seq(Nat)

HolderOf(place) == {u \in Users : pc[u] = place}
HandlerHas(places) == IF h.pc \in places THEN 1 ELSE 0

\* Every send buffer is free, queued, or in the hands of one thread, and so is
\* every receive buffer: no path through the handler, the users' errors and
\* timeouts or the dispatch of a message loses or doubles one.
BuffersKept ==
    /\ send_free + Len(send_queued) + Cardinality(HolderOf("put")) + HandlerHas({"write"}) = SendBufs
    /\ recv_free + Len(recv_pool["coe"]) + Len(recv_pool["gw"]) + Cardinality(HolderOf("process"))
         + HandlerHas({"full", "clear_full", "clear_empty", "read", "dispatch",
                       "emergency"}) = RecvBufs

\* As long as nobody has given up waiting, the message a user takes from its
\* receive pool is one of the answers to the request it has under way.
OwnAnswer == \A u \in Users : pc[u] = "process" /\ timeouts = 0 => hold[u].req = Req(u)

\* A step with which u's call ends with EC_OK.
EndsOk(u) == pc[u] # "unlock" /\ pc'[u] = "unlock" /\ call'[u].ret = "ok"

\* Every request of the call has been confirmed by the slave.
Confirmed(c) == c.acked = c.stage + 1 /\ c.rest = 0

\* The slave has refused u's object dictionary list.
RefusedList(u) == /\ pc[u] = "process" /\ call[u].kind = "odlist"
                  /\ hold[u].svc = "info_error" /\ hold[u].req = Req(u)

\* coe.h, EC_OK: "CoE transfer was successfull", while no wait has timed out: a call that
\* ends with EC_OK has been confirmed by the slave, every request of it.  Two kinds of
\* refusal end with EC_OK all the same.  Of the object dictionary list, because
\* ec_coe_odlist_read looks at neither the service nor the opcode (coe.c:832-866).  Of a
\* segment in the middle of a download with two segments or more behind the first one: the
\* abort only ends the wait for its answer, the others are sent, and the confirmation of the
\* last one is EC_OK (coe.c:694-735).
ConfirmedInTime ==
    [][timeouts' = 0 /\ (Segments < 2 \/ ~Refuses) =>
           \A u \in Clients : EndsOk(u) => Confirmed(call'[u]) \/ RefusedList(u)]_vars

\* As long as none has been handed out, the ring holds the newest emergencies
\* in the order of their arrival, and only a full ring has lost any.
InRing == (em.write - em.read) % MaxEmergencies
InSlot == {i \in DOMAIN em.slots : em.slots[i] > 0}
NewestKept == got = <<>> =>
    LET at(k) == em.slots[(em.read + k) % MaxEmergencies]
    IN  /\ InRing = Cardinality(InSlot) - (IF InSlot = DOMAIN em.slots THEN 1 ELSE 0)
        /\ \A k \in 1 .. InRing - 1 : at(k - 1) < at(k)
        /\ InRing > 0 => \A i \in InSlot : em.slots[i] <= at(InRing - 1)

\* The emergencies are handed out in the order of their arrival, each one once.
EmergencyOrder == \A i \in 1 .. Len(got) : got[i] > (IF i = 1 THEN 0 ELSE got[i - 1])

\* ec_coe_wait: "trigger mailbox read more often while waiting": a user never
\* runs into its timeout while the handler thread waits for the user's lock.
HandlerNotBlocked == [][\A u \in Clients : WaitTimeout(u) => h.pc # "emergency"]_vars

\* Every call returns without the help of a timeout when no access fails.
CallReturns == \A u \in Users : pc[u] # "out" ~> pc[u] = "out"
=============================================================================
