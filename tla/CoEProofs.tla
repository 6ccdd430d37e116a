------------------------------- MODULE CoEProofs -------------------------------
(***************************************************************************)
(* Proofs about Mailbox and CoE, for every number of clients, gateways and *)
(* buffers, with failed accesses, timed out waits and emergencies.         *)
(***************************************************************************)
EXTENDS CoE, FiniteSetTheorems, TLAPS

\* Where a user is past the request it waits for.
Asking == {"put", "post", "sched", "wait", "process"}

\* What a user has at a place, and that a download ends with its segments.
Control(u, place, c, m) ==
    /\ place # "out" => c.n \in 1 .. MaxCalls
    /\ place = "lock" => u \in Clients /\ c.stage = 0
    /\ place \in {"put", "process"} => m \in Messages
    /\ place = "get" /\ c.stage # 0 => c.rest # 0 /\ c.stage + c.rest <= Segments + 1
    /\ place \in Asking => c.stage + c.rest <= Segments
UserControl == \A u \in Users : Control(u, pc[u], call[u], hold[u])

\* Where the handler has a message.
HandlerControl == h.pc \in {"dispatch", "emergency", "write"} => h.msg \in Messages

\* What keeps the types and the buffers.
Inv == TypeOK /\ events \in Nat /\ UserControl /\ HandlerControl /\ BuffersKept

-----------------------------------------------------------------------------
(* Facts about the data. *)

\* The request of a user inside a call.
LEMMA RequestType ==
    ASSUME TypeOK, UserControl, NEW u \in Users, pc[u] # "out"
    PROVE  /\ Req(u) \in Requests
           /\ Msg(Proto(u), "request", call[u].kind, Req(u), 0) \in Messages
  <1>1. call[u].n \in 1 .. MaxCalls /\ call[u].stage \in 0 .. Segments /\ call[u].kind \in Kinds \cup {"gateway"}
    BY DEF TypeOK, UserControl, Control, Calls
  <1>2. Req(u) \in Requests
    BY <1>1, CoEAssumption DEF Req
  <1> QED  BY <1>1, <1>2 DEF Msg, Messages, Proto, Protos, Services

\* The answers of a slave.
LEMMA AnswersType ==
    ASSUME NEW m \in Messages, NEW a \in Answers(m)
    PROVE  a \in Seq(Messages)
  <1>1. \A s \in Services, f \in Nat : Answer(m, s, f) \in Messages
    BY DEF Answer, Msg, Messages
  <1>2. CASE a = [i \in 1 .. Fragments |-> Answer(m, "info", Fragments - i)]
    <2>2. \A i \in 1 .. Fragments : Answer(m, "info", Fragments - i) \in Messages
      BY <1>1, MailboxAssumption DEF Services
    <2>3. Fragments \in Nat
      BY MailboxAssumption
    <2> HIDE DEF Answer
    <2> QED  BY <1>2, <2>2, <2>3
  <1>3. CASE a # [i \in 1 .. Fragments |-> Answer(m, "info", Fragments - i)]
    <2>1. PICK s \in {"info", "info_error", "sdores", "abort"} : a = <<Answer(m, s, 0)>>
      BY <1>3 DEF Answers
    <2>2. Answer(m, s, 0) \in Messages
      BY <1>1, <2>1 DEF Services
    <2> QED  BY <2>1, <2>2
  <1> QED  BY <1>2, <1>3

\* A user that goes from one place to another counts where it is.
Count(p) == Cardinality(HolderOf(p))

\* The users at a place are counted with a number.
LEMMA CountType ==
    ASSUME NEW p
    PROVE  Count(p) \in Nat
  BY FS_Subset, FS_CardinalityType, MailboxAssumption DEF Count, HolderOf

LEMMA CountGoto ==
    ASSUME NEW u \in Users, NEW l \in Places, pc \in [Users -> Places], Goto(u, l), NEW p
    PROVE  /\ l = p /\ pc[u] # p => Count(p)' = Count(p) + 1
           /\ l # p /\ pc[u] = p => Count(p)' = Count(p) - 1
           /\ (l = p <=> pc[u] = p) => Count(p)' = Count(p)
           /\ Count(p) \in Nat /\ Count(p)' \in Nat
  <1> DEFINE H == {v \in Users : pc[v] = p}
             G == {v \in Users : pc'[v] = p}
  <1>1. Count(p) = Cardinality(H) /\ Count(p)' = Cardinality(G)
    BY DEF Count, HolderOf
  <1>2. IsFiniteSet(H) /\ IsFiniteSet(G) /\ Cardinality(H) \in Nat /\ Cardinality(G) \in Nat
    BY FS_Subset, FS_CardinalityType, MailboxAssumption
  <1>3. pc' = [pc EXCEPT ![u] = l]
    BY DEF Goto
  <1>4. l = p => G = H \cup {u}
    BY <1>3
  <1>5. l # p => G = H \ {u}
    BY <1>3
  <1>6. u \in H <=> pc[u] = p
    OBVIOUS
  <1> HIDE DEF G, H
  <1> QED  BY <1>1, <1>2, <1>4, <1>5, <1>6, FS_AddElement, FS_RemoveElement

-----------------------------------------------------------------------------
(* A step of a user: it goes to a place where it has what it needs. *)

\* The part of TypeOK that is about the users, and the other part.
UserType == /\ hold \in [Users -> Messages \cup {NULL}]
            /\ pc \in [Users -> Places] /\ call \in [Users -> Calls]

\* A user whose place, call and message change has what it needs there.
LEMMA UserMoves ==
    ASSUME UserType, UserControl, NEW u \in Users, NEW l \in Places, NEW c \in Calls,
           NEW m \in Messages \cup {NULL}, Control(u, l, c, m), Goto(u, l),
           call' = [call EXCEPT ![u] = c], hold' = [hold EXCEPT ![u] = m]
    PROVE  UserType' /\ UserControl'
  <1>1. UserType'
    BY DEF UserType, Goto
  <1>2. ASSUME NEW v \in Users PROVE Control(v, pc'[v], call'[v], hold'[v])
    <2>1. CASE v = u
      <3>1. pc'[v] = l /\ call'[v] = c /\ hold'[v] = m
        BY <2>1 DEF UserType, Goto
      <3> QED  BY <2>1, <3>1
    <2>2. CASE v # u
      <3>1. pc'[v] = pc[v] /\ call'[v] = call[v] /\ hold'[v] = hold[v]
        BY <2>2 DEF UserType, Goto
      <3>2. Control(v, pc[v], call[v], hold[v])
        BY DEF UserControl
      <3> QED  BY <3>1, <3>2
    <2> QED  BY <2>1, <2>2
  <1>3. UserControl'
    BY <1>2 DEF UserControl
  <1> QED  BY <1>1, <1>3

\* Nothing changes for the users when no user moves.
LEMMA UserStays ==
    ASSUME UserControl, UNCHANGED <<hold, pc, call>>
    PROVE  UserControl' /\ (\A p : Count(p)' = Count(p))
  BY DEF UserControl, Control, Count, HolderOf

\* One when a user is at place p.
At(l, p) == IF l = p THEN 1 ELSE 0

\* The same in one equation.
LEMMA CountAt ==
    ASSUME NEW u \in Users, NEW l \in Places, pc \in [Users -> Places], Goto(u, l), NEW p
    PROVE  /\ Count(p)' + At(pc[u], p) = Count(p) + At(l, p)
           /\ Count(p) \in Nat /\ Count(p)' \in Nat
  <1>1. CASE l = p /\ pc[u] # p
    BY <1>1, CountGoto DEF At
  <1>2. CASE l # p /\ pc[u] = p
    BY <1>2, CountGoto DEF At
  <1>3. CASE l = p <=> pc[u] = p
    BY <1>3, CountGoto DEF At
  <1> QED  BY <1>1, <1>2, <1>3

\* n buffers free, q queued, c held by users and k by the handler.
LEMMA Balance ==
    ASSUME NEW B, NEW n \in Nat, NEW q \in Nat, NEW c \in Nat, NEW k \in Nat,
           NEW n2 \in Nat, NEW q2 \in Nat, NEW c2 \in Nat, NEW k2 \in Nat,
           n + q + c + k = B, n2 + q2 + c2 + k2 = n + q + c + k
    PROVE  n2 + q2 + c2 + k2 = B /\ n2 \in 0 .. B
  OBVIOUS

\* What the handler has, and the queued messages.
SendHas == HandlerHas({"write"})
RecvHas == HandlerHas({"full", "clear_full", "clear_empty", "read", "dispatch", "emergency"})
QueuesType == /\ send_free \in Nat /\ recv_free \in Nat
              /\ send_queued \in Seq(Messages)
              /\ recv_pool \in [{"coe", "gw"} -> Seq(Messages)]
Posted == Len(send_queued)
Queued == Len(recv_pool["coe"]) + Len(recv_pool["gw"])

\* The lengths of the queues.
LEMMA QueueLengths ==
    ASSUME NEW q \in Seq(Messages), NEW r \in [{"coe", "gw"} -> Seq(Messages)], NEW n \in Nat
    PROVE  /\ Len(q) \in Nat /\ Len(r["coe"]) \in Nat /\ Len(r["gw"]) \in Nat
           /\ Len(r["coe"]) + Len(r["gw"]) \in Nat
           /\ n + (Len(r["coe"]) + Len(r["gw"])) = n + Len(r["coe"]) + Len(r["gw"])
  <1>1. r["coe"] \in Seq(Messages) /\ r["gw"] \in Seq(Messages)
    OBVIOUS
  <1>2. \A s \in Seq(Messages) : Len(s) \in Nat
    OBVIOUS
  <1>3. Len(q) \in Nat /\ Len(r["coe"]) \in Nat /\ Len(r["gw"]) \in Nat
    BY <1>1, <1>2
  <1>4. \A a, b \in Nat : a + b \in Nat /\ n + (a + b) = n + a + b
    OBVIOUS
  <1> QED  BY <1>3, <1>4, Zenon

\* What the handler has is counted with a number.
LEMMA HasType == SendHas \in Nat /\ RecvHas \in Nat
  BY DEF SendHas, RecvHas, HandlerHas

\* What has to be shown of a step for BuffersKept.
LEMMA KeepsBuffers ==
    ASSUME BuffersKept, QueuesType, QueuesType', Count("put") \in Nat, Count("process") \in Nat,
           Count("put")' \in Nat, Count("process")' \in Nat,
           send_free' + Posted' + Count("put")' + SendHas'
              = send_free + Posted + Count("put") + SendHas,
           recv_free' + Queued' + Count("process")' + RecvHas'
              = recv_free + Queued + Count("process") + RecvHas
    PROVE  BuffersKept' /\ send_free' \in 0 .. SendBufs /\ recv_free' \in 0 .. RecvBufs
  <1>1. /\ Posted \in Nat /\ Queued \in Nat
        /\ send_free \in Nat /\ recv_free \in Nat
    BY QueueLengths DEF QueuesType, Queued, Posted
  <1>2. /\ Posted' \in Nat /\ Queued' \in Nat
        /\ send_free' \in Nat /\ recv_free' \in Nat
    BY QueueLengths DEF QueuesType, Queued, Posted
  <1>3. SendHas \in Nat /\ RecvHas \in Nat /\ SendHas' \in Nat /\ RecvHas' \in Nat
    BY HasType DEF SendHas, RecvHas, HandlerHas
  <1>4. BuffersKept <=> /\ send_free + Posted + Count("put") + SendHas = SendBufs
                        /\ recv_free + Queued + Count("process") + RecvHas = RecvBufs
    <2>1. recv_free + Queued = recv_free + Len(recv_pool["coe"]) + Len(recv_pool["gw"])
      BY QueueLengths, Zenon DEF Queued, QueuesType
    <2>2. BuffersKept <=>
              /\ send_free + Posted + Count("put") + SendHas = SendBufs
              /\ recv_free + Len(recv_pool["coe"]) + Len(recv_pool["gw"]) + Count("process") + RecvHas = RecvBufs
      BY ZenonT(30) DEF BuffersKept, Count, Posted, SendHas, RecvHas
    <2> QED  BY <2>1, <2>2
  <1>5. BuffersKept' <=> /\ send_free' + Posted' + Count("put")' + SendHas' = SendBufs
                         /\ recv_free' + Queued' + Count("process")' + RecvHas' = RecvBufs
    <2>1. recv_free' + Queued' = recv_free' + Len(recv_pool'["coe"]) + Len(recv_pool'["gw"])
      BY QueueLengths, Zenon DEF Queued, QueuesType
    <2>2. BuffersKept' <=>
              /\ send_free' + Posted' + Count("put")' + SendHas' = SendBufs
              /\ recv_free' + Len(recv_pool'["coe"]) + Len(recv_pool'["gw"]) + Count("process")' + RecvHas' = RecvBufs
      BY ZenonT(30) DEF BuffersKept, Count, Posted, SendHas, RecvHas
    <2> QED  BY <2>1, <2>2
  <1>6. /\ send_free' + Posted' + Count("put")' + SendHas' = SendBufs
        /\ send_free' \in 0 .. SendBufs
    BY <1>1, <1>2, <1>3, <1>4, Balance
  <1>7. /\ recv_free' + Queued' + Count("process")' + RecvHas' = RecvBufs
        /\ recv_free' \in 0 .. RecvBufs
    BY <1>1, <1>2, <1>3, <1>4, Balance
  <1> QED  BY <1>5, <1>6, <1>7

\* Such a step keeps the invariant when it moves as many buffers as users.
LEMMA UserStep ==
    ASSUME Inv, NEW u \in Users, NEW l \in Places, NEW c \in Calls,
           NEW m \in Messages \cup {NULL}, Control(u, l, c, m), Goto(u, l),
           call' = [call EXCEPT ![u] = c], hold' = [hold EXCEPT ![u] = m],
           UNCHANGED <<hvars, em, got>>, QueuesType',
           sync' \in [flags : SUBSET {"send", "recv"}, sem : BOOLEAN],
           coe_lock' \in Clients \cup {NULL},
           send_free' + Posted' + At(l, "put")
               = send_free + Posted + At(pc[u], "put"),
           recv_free' + Queued' + At(l, "process") = recv_free + Queued + At(pc[u], "process")
    PROVE  Inv'
  <1>1. UserType /\ UserControl /\ QueuesType
    BY SMTT(30) DEF Inv, TypeOK, UserType, QueuesType
  <1>2. UserType' /\ UserControl'
    BY <1>1, UserMoves
  <1>3. HandlerControl'
    BY DEF Inv, HandlerControl, hvars
  <1>4. \A p : Count(p)' + At(pc[u], p) = Count(p) + At(l, p) /\ Count(p) \in Nat /\ Count(p)' \in Nat
    BY <1>1, CountAt DEF UserType
  <1>5. BuffersKept' /\ send_free' \in 0 .. SendBufs /\ recv_free' \in 0 .. RecvBufs
    <2>1. SendHas' = SendHas /\ RecvHas' = RecvHas /\ SendHas \in Nat /\ RecvHas \in Nat
      BY HasType DEF SendHas, RecvHas, HandlerHas, hvars
    <2>2. /\ Posted \in Nat /\ Queued \in Nat /\ send_free \in Nat /\ recv_free \in Nat
          /\ Posted' \in Nat /\ Queued' \in Nat /\ send_free' \in Nat /\ recv_free' \in Nat
      BY <1>1, QueueLengths DEF QueuesType, Queued, Posted
    <2>3. \A p, q : At(p, q) \in Nat
      BY DEF At
    <2>4. /\ At(l, "put") \in Nat /\ At(l, "process") \in Nat
          /\ At(pc[u], "put") \in Nat /\ At(pc[u], "process") \in Nat
      BY <2>3, Zenon
    <2>5. /\ Count("put")' + At(pc[u], "put") = Count("put") + At(l, "put")
          /\ Count("process")' + At(pc[u], "process") = Count("process") + At(l, "process")
          /\ Count("put") \in Nat /\ Count("put")' \in Nat
          /\ Count("process") \in Nat /\ Count("process")' \in Nat
      BY <1>4
    <2>6. send_free' + Posted' + Count("put")' + SendHas'
              = send_free + Posted + Count("put") + SendHas
      BY <2>1, <2>2, <2>4, <2>5
    <2>7. recv_free' + Queued' + Count("process")' + RecvHas'
              = recv_free + Queued + Count("process") + RecvHas
      BY <2>1, <2>2, <2>4, <2>5
    <2> QED  BY <1>1, <2>5, <2>6, <2>7, KeepsBuffers DEF Inv
  <1>6. TypeOK'
    BY <1>2, <1>5 DEF Inv, TypeOK, UserType, QueuesType, hvars
  <1>7. events' \in Nat
    BY DEF Inv, hvars
  <1> QED  BY <1>2, <1>3, <1>5, <1>6, <1>7 DEF Inv

-----------------------------------------------------------------------------
(* The steps of the users. *)

\* What the invariant says of one user.
LEMMA UserFacts ==
    ASSUME Inv, NEW u \in Users
    PROVE  /\ call[u] \in Calls /\ hold[u] \in Messages \cup {NULL} /\ pc[u] \in Places
           /\ Control(u, pc[u], call[u], hold[u])
           /\ call = [call EXCEPT ![u] = call[u]] /\ hold = [hold EXCEPT ![u] = hold[u]]
           /\ QueuesType
           /\ sync \in [flags : SUBSET {"send", "recv"}, sem : BOOLEAN]
           /\ coe_lock \in Clients \cup {NULL}
  <1>1. call \in [Users -> Calls] /\ hold \in [Users -> Messages \cup {NULL}] /\ pc \in [Users -> Places]
    BY DEF Inv, TypeOK
  <1>2. Control(u, pc[u], call[u], hold[u])
    BY DEF Inv, UserControl
  <1>3. QueuesType /\ sync \in [flags : SUBSET {"send", "recv"}, sem : BOOLEAN]
        /\ coe_lock \in Clients \cup {NULL}
    BY MailboxAssumption DEF Inv, TypeOK, QueuesType
  <1> QED  BY <1>1, <1>2, <1>3

\* A step that leaves the pools alone and goes where no buffer is held.
LEMMA PlainStep ==
    ASSUME Inv, NEW u \in Users, NEW l \in Places, NEW c \in Calls,
           Control(u, l, c, hold[u]), Goto(u, l), call' = [call EXCEPT ![u] = c],
           {l, pc[u]} \cap {"put", "process"} = {},
           UNCHANGED <<pools, hold, hvars, em, got>>,
           sync' \in [flags : SUBSET {"send", "recv"}, sem : BOOLEAN],
           coe_lock' \in Clients \cup {NULL}
    PROVE  Inv'
  <1>1. hold' = [hold EXCEPT ![u] = hold[u]] /\ hold[u] \in Messages \cup {NULL}
    BY UserFacts
  <1>2. QueuesType' /\ send_free' = send_free /\ recv_free' = recv_free /\ Posted' = Posted /\ Queued' = Queued
    BY UserFacts DEF QueuesType, Posted, Queued, pools
  <1>3. At(l, "put") = At(pc[u], "put") /\ At(l, "process") = At(pc[u], "process")
    BY DEF At
  <1> QED  BY <1>1, <1>2, <1>3, UserStep

\* The steps of a call: its start, ...
LEMMA StartInv ==
    ASSUME Inv, NEW u \in Users, Start(u)
    PROVE  Inv'
  <1>1. PICK k \in Kinds \cup {"gateway"}, sm \in BOOLEAN :
            call' = [call EXCEPT ![u] = NewCall(call[u].n + 1, k, sm)]
    BY CoEAssumption DEF Start
  <1> DEFINE c == NewCall(call[u].n + 1, k, sm)
             l == IF u \in Gateways THEN "get" ELSE "lock"
  <1>2. pc[u] = "out" /\ call[u].n < MaxCalls /\ Goto(u, l) /\ UNCHANGED <<mvars, got>>
    BY DEF Start
  <1>3. c \in Calls /\ c.n \in 1 .. MaxCalls /\ c.stage = 0
    <2>1. call[u].n \in 0 .. MaxCalls
      BY UserFacts DEF Calls
    <2>2. InitialRet(k) \in Rets
      BY DEF InitialRet, Rets
    <2>3. call[u].n + 1 \in 1 .. MaxCalls /\ Segments \in Nat
      BY <1>2, <2>1, CoEAssumption
    <2> QED  BY <2>2, <2>3 DEF NewCall, Calls
  <1>4. Control(u, l, c, hold[u])
    BY <1>3 DEF Control, Clients, Asking
  <1>5. {l, pc[u]} \cap {"put", "process"} = {} /\ l \in Places
    BY <1>2 DEF Places
  <1>6. UNCHANGED <<pools, hold, hvars, em, got, sync, coe_lock>>
    BY <1>2 DEF mvars, hvars
  <1> HIDE DEF c, l
  <1>7. call' = [call EXCEPT ![u] = c]
    BY <1>1 DEF c
  <1> QED  BY <1>2, <1>3, <1>4, <1>5, <1>6, <1>7, UserFacts, PlainStep

\* Steps that leave call alone and take no message.
LEMMA WalkInv ==
    ASSUME Inv, NEW u \in Users, Lock(u) \/ PostSend(u) \/ SchedRead(u) \/ WaitAgain(u) \/ Unlock(u)
    PROVE  Inv'
  <1> DEFINE l == CASE pc[u] = "lock"   -> "get"
                    [] pc[u] = "post"   -> IF u \in Gateways THEN "wait" ELSE "sched"
                    [] pc[u] = "sched"  -> "wait"
                    [] pc[u] = "wait"   -> "sched"
                    [] pc[u] = "unlock" -> "out"
  <1>1. pc[u] \in {"lock", "post", "sched", "wait", "unlock"} /\ Goto(u, l)
        /\ UNCHANGED <<pools, hold, hvars, em, got, call>>
    BY DEF Lock, PostSend, SchedRead, WaitAgain, Unlock, mvars, hvars
  <1>2. l \in Places /\ {l, pc[u]} \cap {"put", "process"} = {}
    BY <1>1 DEF Places
  <1>3. Control(u, l, call[u], hold[u])
    BY <1>1, UserFacts DEF Control, Asking
  <1>4. sync' \in [flags : SUBSET {"send", "recv"}, sem : BOOLEAN]
    <2>1. \A flag \in {"send", "recv"} :
              Post(flag) => sync' \in [flags : SUBSET {"send", "recv"}, sem : BOOLEAN]
      BY UserFacts DEF Post
    <2>2. (\E flag \in {"send", "recv"} : Post(flag)) \/ UNCHANGED sync
      BY DEF Lock, PostSend, SchedRead, WaitAgain, Unlock, mvars, ec_mbx_sched_read
    <2> QED  BY <2>1, <2>2, UserFacts
  <1>5. coe_lock' \in Clients \cup {NULL}
    BY UserFacts DEF Lock, PostSend, SchedRead, WaitAgain, Unlock, mvars, Control
  <1> HIDE DEF l
  <1> QED  BY <1>1, <1>2, <1>3, <1>4, <1>5, UserFacts, PlainStep

\* ... its send buffer, ...
LEMMA GetBufferInv ==
    ASSUME Inv, NEW u \in Users, GetBuffer(u)
    PROVE  Inv'
  <1> DEFINE m == Msg(Proto(u), "request", call[u].kind, Req(u), 0)
             c == [call[u] EXCEPT !.ret = "timeout", !.rest = @ - 1]
             e == [call[u] EXCEPT !.ret = "no_buffer"]
  <1>1. pc[u] = "get" /\ UNCHANGED <<sync, hvars, coe_lock, em, got>>
    BY DEF GetBuffer
  <1>2. m \in Messages
    BY <1>1, RequestType DEF Inv
  <1>3. CASE send_free > 0
    <2>1. /\ send_free' = send_free - 1 /\ hold' = [hold EXCEPT ![u] = m]
          /\ UNCHANGED <<recv_free, send_queued, recv_pool>> /\ Goto(u, "put")
          /\ call' = IF call[u].stage = 0 THEN call
                     ELSE [call EXCEPT ![u].ret = "timeout", ![u].rest = @ - 1]
      BY <1>3 DEF GetBuffer, ec_mbx_get_free_send_buffer
    <2> DEFINE d == IF call[u].stage = 0 THEN call[u] ELSE c
    <2>2. call' = [call EXCEPT ![u] = d]
      BY <2>1, UserFacts DEF Inv, TypeOK
    <2>3. d \in Calls /\ Control(u, "put", d, m)
      <3>1. /\ call[u] \in Calls /\ call[u].n \in 1 .. MaxCalls
            /\ call[u].stage \in 0 .. Segments /\ call[u].rest \in 0 .. Segments
            /\ call[u].stage # 0 => call[u].rest # 0 /\ call[u].stage + call[u].rest <= Segments + 1
        BY <1>1, UserFacts DEF Calls, Control
      <3>2. CASE call[u].stage = 0
        BY <1>2, <3>1, <3>2, CoEAssumption DEF Control, Asking
      <3>3. CASE call[u].stage # 0
        <4>1. call[u].rest - 1 \in 0 .. Segments /\ call[u].stage + (call[u].rest - 1) <= Segments
          BY <3>1, <3>3, CoEAssumption
        <4>2. c \in Calls /\ c.n = call[u].n /\ c.stage = call[u].stage /\ c.rest = call[u].rest - 1
          BY <3>1, <4>1 DEF Calls, Rets
        <4> QED  BY <1>2, <3>1, <3>3, <4>1, <4>2 DEF Control, Asking
      <3> QED  BY <3>2, <3>3
    <2>4. QueuesType' /\ Posted' = Posted /\ Queued' = Queued /\ Posted \in Nat /\ Queued \in Nat
      <3>1. QueuesType /\ send_free - 1 \in Nat
        BY <1>3, UserFacts DEF QueuesType
      <3>2. QueuesType'
        BY <2>1, <3>1 DEF QueuesType
      <3>3. Posted \in Nat /\ Queued \in Nat
        BY <3>1, QueueLengths DEF QueuesType, Posted, Queued
      <3> QED  BY <2>1, <3>2, <3>3 DEF Posted, Queued
    <2>5. /\ send_free' + Posted' + At("put", "put") = send_free + Posted + At(pc[u], "put")
          /\ recv_free' + Queued' + At("put", "process") = recv_free + Queued + At(pc[u], "process")
      BY <1>1, <2>1, <2>4, UserFacts DEF At, QueuesType
    <2> HIDE DEF d, c, e, m
    <2> QED  BY <1>1, <1>2, <2>1, <2>2, <2>3, <2>4, <2>5, UserFacts, UserStep DEF Places
  <1>4. CASE send_free = 0
    <2> DEFINE d == IF u \in Gateways THEN call[u] ELSE e
    <2>1. /\ UNCHANGED <<pools, hold>> /\ Goto(u, "unlock")
          /\ call' = IF u \in Gateways THEN call ELSE [call EXCEPT ![u].ret = "no_buffer"]
      BY <1>4 DEF GetBuffer, ec_mbx_get_free_send_buffer
    <2>2. call' = [call EXCEPT ![u] = d]
      BY <2>1, UserFacts DEF Inv, TypeOK
    <2>3. d \in Calls /\ Control(u, "unlock", d, hold[u])
      BY <1>1, UserFacts DEF Calls, Rets, Control, Asking
    <2>4. "unlock" \in Places /\ {"unlock", pc[u]} \cap {"put", "process"} = {}
      BY <1>1 DEF Places
    <2>5. /\ sync' \in [flags : SUBSET {"send", "recv"}, sem : BOOLEAN]
          /\ coe_lock' \in Clients \cup {NULL}
      BY <1>1, UserFacts
    <2> HIDE DEF d, c, e, m
    <2> QED  BY <1>1, <2>1, <2>2, <2>3, <2>4, <2>5, PlainStep
  <1> QED  BY <1>3, <1>4, UserFacts DEF QueuesType

\* ... its request in the queue, ...
LEMMA EnqueueInv ==
    ASSUME Inv, NEW u \in Users, Enqueue(u)
    PROVE  Inv'
  <1>1. /\ pc[u] = "put" /\ Goto(u, "post")
        /\ send_queued' = <<hold[u]>> \o send_queued /\ hold' = [hold EXCEPT ![u] = NULL]
        /\ UNCHANGED <<send_free, recv_free, recv_pool, sync, hvars, coe_lock, em, call, got>>
    BY DEF Enqueue, PutHead
  <1>2. hold[u] \in Messages /\ Control(u, "post", call[u], NULL)
    BY <1>1, UserFacts DEF Control, Asking
  <1>3. QueuesType' /\ Posted' = Posted + 1 /\ Queued' = Queued /\ Posted \in Nat /\ Queued \in Nat
    <2>1. \A s \in Seq(Messages), x \in Messages : <<x>> \o s \in Seq(Messages) /\ Len(<<x>> \o s) = Len(s) + 1
      OBVIOUS
    <2> QED  BY <1>1, <1>2, <2>1, UserFacts, QueueLengths DEF QueuesType, Posted, Queued
  <1>4. /\ send_free' + Posted' + At("post", "put") = send_free + Posted + At(pc[u], "put")
        /\ recv_free' + Queued' + At("post", "process") = recv_free + Queued + At(pc[u], "process")
    BY <1>1, <1>3, UserFacts DEF At, QueuesType
  <1> QED  BY <1>1, <1>2, <1>3, <1>4, UserFacts, UserStep DEF Places

\* ... the message it takes, ...
LEMMA ReceiveInv ==
    ASSUME Inv, NEW u \in Users, Receive(u)
    PROVE  Inv'
  <1> DEFINE p == Proto(u)
             m == Head(recv_pool[p])
  <1>1. /\ pc[u] = "wait" /\ recv_pool[p] # <<>> /\ Goto(u, "process")
        /\ hold' = [hold EXCEPT ![u] = m] /\ recv_pool' = [recv_pool EXCEPT ![p] = Tail(@)]
        /\ UNCHANGED <<send_free, recv_free, send_queued, sync, hvars, coe_lock, em, call, got>>
    BY DEF Receive
  <1>2. p \in {"coe", "gw"} /\ recv_pool[p] \in Seq(Messages)
    BY UserFacts DEF Proto, QueuesType
  <1>3. \A s \in Seq(Messages) : s # <<>> =>
            Head(s) \in Messages /\ Tail(s) \in Seq(Messages) /\ Len(s) = Len(Tail(s)) + 1 /\ Len(Tail(s)) \in Nat
    OBVIOUS
  <1>4. m \in Messages /\ Tail(recv_pool[p]) \in Seq(Messages)
        /\ Len(recv_pool[p]) = Len(Tail(recv_pool[p])) + 1 /\ Len(Tail(recv_pool[p])) \in Nat
    BY <1>1, <1>2, <1>3
  <1>5. QueuesType' /\ Posted' = Posted /\ Posted \in Nat
    BY <1>1, <1>2, <1>4, UserFacts, QueueLengths DEF QueuesType, Posted
  <1>6. Queued = Queued' + 1 /\ Queued' \in Nat
    <2>1. Len(recv_pool["coe"]) \in Nat /\ Len(recv_pool["gw"]) \in Nat
      BY UserFacts, QueueLengths DEF QueuesType
    <2>2. CASE p = "coe"
      <3>1. recv_pool'["coe"] = Tail(recv_pool["coe"]) /\ recv_pool'["gw"] = recv_pool["gw"]
        BY <1>1, <2>2, UserFacts DEF QueuesType
      <3>2. \A a, b, d \in Nat : a = b + 1 => a + d = b + d + 1 /\ b + d \in Nat
        OBVIOUS
      <3>3. Len(recv_pool["coe"]) = Len(Tail(recv_pool["coe"])) + 1 /\ Len(Tail(recv_pool["coe"])) \in Nat
        BY <1>4, <2>2
      <3>4. Queued = Len(recv_pool["coe"]) + Len(recv_pool["gw"])
            /\ Queued' = Len(Tail(recv_pool["coe"])) + Len(recv_pool["gw"])
        BY <3>1, Zenon DEF Queued
      <3> QED  BY <2>1, <3>2, <3>3, <3>4
    <2>3. CASE p = "gw"
      <3>1. recv_pool'["gw"] = Tail(recv_pool["gw"]) /\ recv_pool'["coe"] = recv_pool["coe"]
        BY <1>1, <2>3, UserFacts DEF QueuesType
      <3>2. \A a, b, d \in Nat : a = b + 1 => d + a = d + b + 1 /\ d + b \in Nat
        OBVIOUS
      <3>3. Len(recv_pool["gw"]) = Len(Tail(recv_pool["gw"])) + 1 /\ Len(Tail(recv_pool["gw"])) \in Nat
        BY <1>4, <2>3
      <3>4. Queued = Len(recv_pool["coe"]) + Len(recv_pool["gw"])
            /\ Queued' = Len(recv_pool["coe"]) + Len(Tail(recv_pool["gw"]))
        BY <3>1, Zenon DEF Queued
      <3> QED  BY <2>1, <3>2, <3>3, <3>4
    <2> QED  BY <1>2, <2>2, <2>3
  <1>7. Control(u, "process", call[u], m)
    BY <1>1, <1>4, UserFacts DEF Control, Asking
  <1>8. /\ send_free' + Posted' + At("process", "put") = send_free + Posted + At(pc[u], "put")
        /\ recv_free' + Queued' + At("process", "process") = recv_free + Queued + At(pc[u], "process")
    BY <1>1, <1>5, <1>6, UserFacts DEF At, QueuesType
  <1> HIDE DEF m, p
  <1> QED  BY <1>1, <1>4, <1>5, <1>7, <1>8, UserFacts, UserStep DEF Places

\* The count of confirmed requests is a number.
LEMMA AckedType ==
    ASSUME Inv, NEW u \in Users
    PROVE  Acked(u) \in Nat
  <1>1. call[u].acked \in Nat
    BY UserFacts DEF Calls
  <1> QED  BY <1>1 DEF Acked

\* A user gives the buffer it received back.
LEMMA ProcessedInv ==
    ASSUME Inv, NEW u \in Users, pc[u] = "process", NEW l \in {"sched", "get", "unlock"}, Goto(u, l),
           NEW c \in Calls, call' = [call EXCEPT ![u] = c], Processed(u),
           c.n = call[u].n, l = "sched" => c.stage + c.rest <= Segments,
           l = "get" => c.rest # 0 /\ c.stage + c.rest <= Segments + 1
    PROVE  Inv'
  <1>1. /\ recv_free' = recv_free + 1 /\ hold' = [hold EXCEPT ![u] = NULL]
        /\ UNCHANGED <<send_free, send_queued, recv_pool, sync, hvars, coe_lock, em, got>>
    BY DEF Processed, ec_mbx_return_free_recv_buffer
  <1>2. Control(u, l, c, NULL)
    BY UserFacts DEF Control, Asking
  <1>3. QueuesType' /\ Posted' = Posted /\ Queued' = Queued /\ Posted \in Nat /\ Queued \in Nat
    <2>1. QueuesType /\ recv_free + 1 \in Nat
      BY UserFacts DEF QueuesType
    <2>2. QueuesType'
      BY <1>1, <2>1 DEF QueuesType
    <2>3. Posted \in Nat /\ Queued \in Nat
      BY <2>1, QueueLengths DEF QueuesType, Posted, Queued
    <2> QED  BY <1>1, <2>2, <2>3 DEF Posted, Queued
  <1>4. /\ send_free' + Posted' + At(l, "put") = send_free + Posted + At(pc[u], "put")
        /\ recv_free' + Queued' + At(l, "process") = recv_free + Queued + At(pc[u], "process")
    BY <1>1, <1>3, UserFacts, SMTT(30) DEF At, QueuesType
  <1>5. /\ sync' \in [flags : SUBSET {"send", "recv"}, sem : BOOLEAN]
        /\ coe_lock' \in Clients \cup {NULL} /\ l \in Places
    BY <1>1, UserFacts DEF Places
  <1> QED  BY <1>1, <1>2, <1>3, <1>4, <1>5, UserStep

\* ... what it makes of the message, ...
LEMMA ProcessInv ==
    ASSUME Inv, NEW u \in Users,
           ProcessSdo(u) \/ ProcessInfo(u) \/ ProcessList(u) \/ ProcessGateway(u)
    PROVE  Inv'
  <1>1. pc[u] = "process" /\ Processed(u)
    BY DEF ProcessSdo, ProcessInfo, ProcessList, ProcessGateway
  <1>2. /\ call[u] \in Calls /\ call[u].stage \in 0 .. Segments /\ call[u].rest \in 0 .. Segments
        /\ call[u].stage + call[u].rest <= Segments /\ Acked(u) \in Nat
        /\ call[u].ret \in Rets /\ call[u].left \in Nat /\ hold[u] \in Messages
        /\ Segments \in Nat
    BY <1>1, UserFacts, AckedType, CoEAssumption DEF Calls, Control, Asking
  <1>3. ASSUME NEW l \in {"sched", "unlock"}, NEW c \in Calls, Goto(u, l), call' = [call EXCEPT ![u] = c],
               c.n = call[u].n, c.stage = call[u].stage, c.rest = call[u].rest
        PROVE  Inv'
    <2>1. c.stage + c.rest <= Segments /\ l # "get" /\ l \in {"sched", "get", "unlock"}
      BY <1>2, <1>3
    <2> QED  BY <1>1, <1>3, <2>1, ProcessedInv
  <1>4. call \in [Users -> Calls]
    BY DEF Inv, TypeOK
  <1>5. CASE ProcessSdo(u)
    <2> DEFINE ret  == SdoRet(u, hold[u])
               done == [call[u] EXCEPT !.ret = ret, !.acked = Acked(u)]
               next == [done EXCEPT !.stage = @ + 1]
    <2>1. ret \in Rets
      BY DEF SdoRet, Rets
    <2>2. done \in Calls /\ done.n = call[u].n /\ done.stage = call[u].stage /\ done.rest = call[u].rest
      BY <1>2, <2>1 DEF Calls
    <2>3. \/ (Goto(u, "sched") \/ Goto(u, "unlock")) /\ call' = [call EXCEPT ![u] = done]
          \/ Goto(u, "get") /\ call[u].rest > 0 /\ call' = [call EXCEPT ![u] = next]
      BY <1>5 DEF ProcessSdo
    <2>4. CASE Goto(u, "get") /\ call[u].rest > 0 /\ call' = [call EXCEPT ![u] = next]
      <3>1. call[u].stage + 1 \in 0 .. Segments
        BY <1>2, <2>4
      <3>2. next \in Calls /\ next.n = call[u].n /\ next.stage = call[u].stage + 1 /\ next.rest = call[u].rest
        BY <2>2, <3>1 DEF Calls
      <3>3. next.rest # 0 /\ next.stage + next.rest <= Segments + 1
        BY <1>2, <2>4, <3>2
      <3> HIDE DEF ret, done, next
      <3> QED  BY <1>1, <2>4, <3>2, <3>3, ProcessedInv
    <2> HIDE DEF ret, done, next
    <2> QED  BY <1>3, <2>2, <2>3, <2>4
  <1>6. CASE ProcessInfo(u)
    <2> DEFINE ret == InfoRet(u, hold[u])
               c   == [call[u] EXCEPT !.ret = ret, !.acked = Acked(u)]
    <2>1. ret \in Rets
      BY <1>2 DEF InfoRet, Rets
    <2>2. c \in Calls /\ c.n = call[u].n /\ c.stage = call[u].stage /\ c.rest = call[u].rest
      BY <1>2, <2>1 DEF Calls
    <2>3. call' = [call EXCEPT ![u].ret = ret, ![u].acked = Acked(u)]
          /\ (Goto(u, "sched") \/ Goto(u, "unlock"))
      BY <1>6 DEF ProcessInfo
    <2>4. call' = [call EXCEPT ![u] = c]
      BY <1>4, <2>3
    <2> HIDE DEF ret, c
    <2> QED  BY <1>3, <2>2, <2>3, <2>4
  <1>7. CASE ProcessList(u)
    <2>1. hold[u].left \in Nat /\ 0 .. Fragments \subseteq Nat
      BY <1>2, MailboxAssumption DEF Messages
    <2>2. PICK left \in IF hold[u].svc \in {"info", "info_error"} THEN {hold[u].left} ELSE 0 .. Fragments,
               ret \in ListRets(u, hold[u]) :
              /\ Goto(u, IF left = 0 THEN "unlock" ELSE "sched")
              /\ call' = [call EXCEPT ![u].left = left, ![u].acked = Acked(u), ![u].ret = ret]
      BY <1>7 DEF ProcessList
    <2>3. left \in Nat /\ (Goto(u, "sched") \/ Goto(u, "unlock"))
      BY <2>1, <2>2
    <2> DEFINE c == [call[u] EXCEPT !.left = left, !.acked = Acked(u), !.ret = ret]
    <2>4. ret \in Rets
      BY <1>2 DEF ListRets, Rets
    <2>5. c \in Calls /\ c.n = call[u].n /\ c.stage = call[u].stage /\ c.rest = call[u].rest
      BY <1>2, <2>3, <2>4 DEF Calls
    <2>6. call' = [call EXCEPT ![u] = c]
      BY <1>4, <2>2
    <2> HIDE DEF c
    <2> QED  BY <1>3, <2>3, <2>5, <2>6
  <1>8. CASE ProcessGateway(u)
    <2> DEFINE c == [call[u] EXCEPT !.acked = Acked(u)]
    <2>1. Goto(u, "unlock") /\ call' = [call EXCEPT ![u].acked = Acked(u)]
      BY <1>8 DEF ProcessGateway
    <2>2. c \in Calls /\ c.n = call[u].n /\ c.stage = call[u].stage /\ c.rest = call[u].rest
      BY <1>2 DEF Calls
    <2>3. call' = [call EXCEPT ![u] = c]
      BY <1>4, <2>1
    <2> HIDE DEF c
    <2> QED  BY <1>3, <2>1, <2>2, <2>3
  <1> QED  BY <1>5, <1>6, <1>7, <1>8

\* ... and the end of its patience.
LEMMA WaitTimeoutInv ==
    ASSUME Inv, NEW u \in Users, WaitTimeout(u)
    PROVE  Inv'
  <1>1. pc[u] = "wait" /\ UNCHANGED <<pools, hold, hvars, em, got, sync, coe_lock>>
    BY DEF WaitTimeout, mvars, hvars
  <1>2. /\ call[u] \in Calls /\ call[u].stage \in 0 .. Segments /\ call[u].rest \in 0 .. Segments
        /\ call[u].n \in 1 .. MaxCalls /\ call[u].stage + call[u].rest <= Segments /\ Segments \in Nat
    BY <1>1, UserFacts, CoEAssumption DEF Calls, Control, Asking
  <1> DEFINE c == [call[u] EXCEPT !.stage = @ + 1]
  <1>3. \/ (Goto(u, "sched") \/ Goto(u, "unlock")) /\ call' = [call EXCEPT ![u] = call[u]]
        \/ Goto(u, "get") /\ call[u].rest > 0 /\ call' = [call EXCEPT ![u] = c]
    <2> DEFINE r == call[u].ret
    <2>1. call = [call EXCEPT ![u] = call[u]]
      BY DEF Inv, TypeOK
    <2>2. /\ [call EXCEPT ![u].ret = r] = [call EXCEPT ![u] = call[u]]
          /\ [call EXCEPT ![u].ret = r, ![u].stage = @ + 1] = [call EXCEPT ![u] = c]
      <3>1. [call[u] EXCEPT !.ret = r] = call[u]
        BY <1>2 DEF Calls
      <3>2. u \in DOMAIN call
        BY DEF Inv, TypeOK
      <3> QED  BY <3>1, <3>2
    <2>3. CASE call[u].left # 0
      BY <2>1, <2>3 DEF WaitTimeout
    <2>4. CASE call[u].left = 0
      <3>1. NextSegment(u, r, call[u].stage > 0)
        BY <2>4 DEF WaitTimeout
      <3> HIDE DEF r, c
      <3> QED  BY <2>2, <3>1 DEF NextSegment
    <2> QED  BY <2>3, <2>4
  <1>4. ASSUME NEW l \in {"sched", "unlock", "get"}, NEW d \in Calls, Goto(u, l),
               call' = [call EXCEPT ![u] = d], Control(u, l, d, hold[u])
        PROVE  Inv'
    <2>1. l \in Places /\ {l, pc[u]} \cap {"put", "process"} = {}
      BY <1>1 DEF Places
    <2> QED  BY <1>1, <1>4, <2>1, UserFacts, PlainStep
  <1>5. Control(u, "sched", call[u], hold[u]) /\ Control(u, "unlock", call[u], hold[u])
    BY <1>2 DEF Control, Asking
  <1>6. ASSUME call[u].rest > 0
        PROVE  c \in Calls /\ Control(u, "get", c, hold[u])
    <2>1. call[u].stage + 1 \in 0 .. Segments
      BY <1>2, <1>6
    <2>2. c \in Calls /\ c.n = call[u].n /\ c.stage = call[u].stage + 1 /\ c.rest = call[u].rest
      BY <1>2, <2>1 DEF Calls
    <2> QED  BY <1>2, <1>6, <2>2 DEF Control, Asking
  <1> HIDE DEF c
  <1> QED  BY <1>2, <1>3, <1>4, <1>5, <1>6

\* ec_coe_emergency_get_next touches neither a user nor a buffer.
LEMMA EmergencyGetNextInv ==
    ASSUME Inv, EmergencyGetNext
    PROVE  Inv'
  <1>1. UNCHANGED <<pools, hold, sync, hvars, coe_lock, pc, call>>
    BY DEF EmergencyGetNext
  <1>2. em.read + 1 \in Nat /\ (IF em.read < MaxEmergencies THEN em.slots[em.read] ELSE 0) \in Nat
    <2>1. em \in [write : 0 .. MaxEmergencies - 1, read : Nat, slots : [0 .. MaxEmergencies - 1 -> Nat]]
          /\ MaxEmergencies \in Nat
      BY MailboxAssumption DEF Inv, TypeOK
    <2>2. em.read \in Nat /\ em.slots \in [0 .. MaxEmergencies - 1 -> Nat]
      BY <2>1
    <2> QED  BY <2>1, <2>2
  <1>3. em' \in [write : 0 .. MaxEmergencies - 1, read : Nat, slots : [0 .. MaxEmergencies - 1 -> Nat]]
    BY <1>2 DEF EmergencyGetNext, Inv, TypeOK
  <1>4. got' \in Seq(Nat)
    BY <1>2 DEF EmergencyGetNext, Inv, TypeOK
  <1>5. TypeOK'
    BY <1>1, <1>3, <1>4, SMTT(30) DEF Inv, TypeOK, pools, hvars
  <1>6. UserControl' /\ HandlerControl' /\ BuffersKept'
    BY <1>1 DEF Inv, UserControl, HandlerControl, BuffersKept, HandlerHas, HolderOf, pools, hvars
  <1>7. events' \in Nat
    BY <1>1 DEF Inv, hvars
  <1> QED  BY <1>5, <1>6, <1>7 DEF Inv

-----------------------------------------------------------------------------
(* The steps of the handler, the receive thread and the slave. *)

HandlerType == h \in [pc : HandlerPlaces, send : BOOLEAN, msg : Messages \cup {NULL}]
SlaveType   == slave \in [out : Messages \cup {NULL}, todo : Seq(Messages), in : Messages \cup {NULL}]
SyncType    == sync \in [flags : SUBSET {"send", "recv"}, sem : BOOLEAN]
OtherType   == /\ sm_state \in BOOLEAN /\ op \in BOOLEAN
               /\ coe_lock \in Clients \cup {NULL}
               /\ em \in [write : 0 .. MaxEmergencies - 1, read : Nat,
                          slots : [0 .. MaxEmergencies - 1 -> Nat]]
               /\ rx \in {"idle", "set", "sched"} /\ events \in Nat

\* What the invariant says of the mailbox.
LEMMA MailboxFacts ==
    ASSUME Inv
    PROVE  QueuesType /\ HandlerType /\ SlaveType /\ SyncType /\ OtherType /\ HandlerControl
           /\ send_free \in Nat /\ recv_free \in Nat /\ Posted \in Nat /\ Queued \in Nat
  <1>1. QueuesType
    BY MailboxAssumption DEF Inv, TypeOK, QueuesType
  <1>2. Posted \in Nat /\ Queued \in Nat /\ send_free \in Nat /\ recv_free \in Nat
    BY <1>1, QueueLengths DEF QueuesType, Posted, Queued
  <1> QED  BY <1>1, <1>2 DEF Inv, TypeOK, HandlerType, SlaveType, SyncType, OtherType

\* Such a step keeps the invariant when it hands its buffers on.
LEMMA MailboxStep ==
    ASSUME Inv, UNCHANGED <<hold, uvars>>, QueuesType', HandlerType', SlaveType', SyncType',
           OtherType', HandlerControl',
           send_free' + Posted' + SendHas' = send_free + Posted + SendHas,
           recv_free' + Queued' + RecvHas' = recv_free + Queued + RecvHas
    PROVE  Inv'
  <1>1. UserControl' /\ (\A p : Count(p)' = Count(p))
    BY UserStays DEF Inv, uvars
  <1>2. pc \in [Users -> Places] /\ call \in [Users -> Calls] /\ hold \in [Users -> Messages \cup {NULL}]
        /\ got \in Seq(Nat)
    BY DEF Inv, TypeOK
  <1>3. \A p : Count(p) \in Nat
    BY CountType
  <1>4. /\ send_free \in Nat /\ recv_free \in Nat /\ Posted \in Nat /\ Queued \in Nat /\ QueuesType
        /\ SendHas \in Nat /\ RecvHas \in Nat
    BY MailboxFacts, HasType
  <1>5. /\ send_free' \in Nat /\ recv_free' \in Nat /\ Posted' \in Nat /\ Queued' \in Nat
        /\ SendHas' \in Nat /\ RecvHas' \in Nat
    BY QueueLengths DEF QueuesType, Posted, Queued, SendHas, RecvHas, HandlerHas
  <1>6. /\ Count("put")' = Count("put") /\ Count("process")' = Count("process")
        /\ Count("put") \in Nat /\ Count("process") \in Nat
    BY <1>1, <1>3
  <1>7. /\ send_free' + Posted' + Count("put")' + SendHas' = send_free + Posted + Count("put") + SendHas
        /\ recv_free' + Queued' + Count("process")' + RecvHas'
              = recv_free + Queued + Count("process") + RecvHas
    <2>1. ASSUME NEW n, NEW q, NEW k, NEW n2, NEW q2, NEW k2, NEW c,
                 {n, q, k, n2, q2, k2, c} \subseteq Nat, n2 + q2 + k2 = n + q + k
          PROVE  n2 + q2 + c + k2 = n + q + c + k
      <3>1. n \in Nat /\ q \in Nat /\ k \in Nat /\ n2 \in Nat /\ q2 \in Nat /\ k2 \in Nat /\ c \in Nat
        BY <2>1
      <3> QED  BY <2>1, <3>1
    <2>2. PICK n, q, k, n2, q2, k2, c :
              n = send_free /\ q = Posted /\ k = SendHas /\ n2 = send_free' /\ q2 = Posted'
              /\ k2 = SendHas' /\ c = Count("put")
      OBVIOUS
    <2>3. PICK r, p, j, r2, p2, j2, d :
              r = recv_free /\ p = Queued /\ j = RecvHas /\ r2 = recv_free' /\ p2 = Queued'
              /\ j2 = RecvHas' /\ d = Count("process")
      OBVIOUS
    <2>4. /\ {n, q, k, n2, q2, k2, c} \subseteq Nat /\ n2 + q2 + k2 = n + q + k
          /\ {r, p, j, r2, p2, j2, d} \subseteq Nat /\ r2 + p2 + j2 = r + p + j
      BY <1>4, <1>5, <1>6, <2>2, <2>3, ZenonT(30)
    <2>5. n2 + q2 + c + k2 = n + q + c + k /\ r2 + p2 + d + j2 = r + p + d + j
      BY <2>1, <2>4
    <2> QED  BY <1>6, <2>2, <2>3, <2>5, ZenonT(30)
  <1>8. BuffersKept' /\ send_free' \in 0 .. SendBufs /\ recv_free' \in 0 .. RecvBufs
    BY <1>4, <1>6, <1>7, KeepsBuffers DEF Inv
  <1>9. TypeOK'
    BY <1>2, <1>8 DEF TypeOK, QueuesType, HandlerType, SlaveType, SyncType, OtherType, uvars
  <1> QED  BY <1>1, <1>8, <1>9 DEF Inv, OtherType

\* Such a step that leaves the pools alone.
LEMMA MailboxPlain ==
    ASSUME Inv, UNCHANGED <<pools, hold, uvars>>, HandlerType', SlaveType', SyncType',
           OtherType', HandlerControl', SendHas' = SendHas, RecvHas' = RecvHas
    PROVE  Inv'
  <1>1. QueuesType' /\ send_free' = send_free /\ recv_free' = recv_free /\ Posted' = Posted /\ Queued' = Queued
    BY MailboxFacts DEF QueuesType, Posted, Queued, pools
  <1> QED  BY <1>1, MailboxStep

\* What the handler's record becomes.
LEMMA HandlerBecomes ==
    ASSUME HandlerType, NEW p \in HandlerPlaces, NEW m \in Messages \cup {NULL}, NEW b \in BOOLEAN,
           \/ h' = [h EXCEPT !.pc = p]
           \/ h' = [h EXCEPT !.pc = p, !.msg = m]
           \/ h' = [h EXCEPT !.pc = p, !.send = b]
           \/ h' = [pc |-> p, send |-> b, msg |-> m]
    PROVE  HandlerType' /\ h'.pc = p
  <1>1. CASE h' = [h EXCEPT !.pc = p]
    BY <1>1 DEF HandlerType
  <1>2. CASE h' = [h EXCEPT !.pc = p, !.msg = m]
    BY <1>2 DEF HandlerType
  <1>3. CASE h' = [h EXCEPT !.pc = p, !.send = b]
    BY <1>3 DEF HandlerType
  <1>4. CASE h' = [pc |-> p, send |-> b, msg |-> m]
    BY <1>4 DEF HandlerType
  <1> QED  BY <1>1, <1>2, <1>3, <1>4

\* The handler waits, takes the flags, samples *sm_state, posts its request.
LEMMA HandlerPlain ==
    ASSUME Inv, UNCHANGED uvars, HWait \/ HTimeout \/ HTake \/ HSample \/ HPost
    PROVE  Inv'
  <1>1. UNCHANGED <<pools, hold, sm_state, coe_lock, em, rx, op, slave, events>>
    BY DEF HWait, HTimeout, HTake, HSample, HPost
  <1>2. SyncType'
    <2>1. SyncType
      BY MailboxFacts
    <2>2. CASE HWait
      BY <2>1, <2>2 DEF HWait, SyncType
    <2>3. CASE HTimeout
      BY <2>1, <2>3 DEF HTimeout, SyncType
    <2>4. CASE HTake
      BY <2>1, <2>4 DEF HTake, SyncType
    <2>5. CASE HSample
      BY <2>1, <2>5 DEF HSample, SyncType
    <2>6. CASE HPost
      BY <2>1, <2>6 DEF HPost, Post, SyncType
    <2> QED  BY <2>2, <2>3, <2>4, <2>5, <2>6
  <1>3. PICK p \in {"take", "recv", "send", "wait", "clear_full", "clear_empty"}, b \in BOOLEAN :
            h' = [h EXCEPT !.pc = p] \/ h' = [h EXCEPT !.pc = p, !.send = b]
    <2> DEFINE S(p, b) == h' = [h EXCEPT !.pc = p] \/ h' = [h EXCEPT !.pc = p, !.send = b]
    <2>1. CASE HWait \/ HTimeout
      <3>1. S("take", TRUE)
        BY <2>1 DEF HWait, HTimeout
      <3> QED  BY <3>1
    <2>2. CASE HSample
      <3>1. S("clear_full", TRUE) \/ S("clear_empty", TRUE)
        BY <2>2 DEF HSample
      <3> QED  BY <3>1
    <2>3. CASE HPost
      <3>1. S("wait", TRUE)
        BY <2>3 DEF HPost
      <3> QED  BY <3>1
    <2>4. CASE HTake
      <3>1. S("recv", "send" \in sync.flags) \/ S("send", TRUE) \/ S("wait", TRUE)
        BY <2>4 DEF HTake
      <3>2. ("send" \in sync.flags) \in BOOLEAN
        OBVIOUS
      <3> QED  BY <3>1, <3>2
    <2> QED  BY <2>1, <2>2, <2>3, <2>4
  <1>4. HandlerType' /\ h'.pc = p
    BY <1>3, MailboxFacts, HandlerBecomes DEF HandlerPlaces
  <1>5. HandlerControl'
    BY <1>3, <1>4 DEF HandlerControl
  <1>6. SendHas' = SendHas /\ RecvHas' = RecvHas
    <2>1. CASE HSample
      BY <2>1, MailboxFacts DEF HSample, SendHas, RecvHas, HandlerHas, HandlerType
    <2>2. CASE ~HSample
      <3>1. h.pc \in {"wait", "take", "post"} /\ h'.pc \in {"take", "recv", "send", "wait"}
        BY <2>2, MailboxFacts DEF HWait, HTimeout, HTake, HPost, HandlerType
      <3> QED  BY <3>1 DEF SendHas, RecvHas, HandlerHas
    <2> QED  BY <2>1, <2>2
  <1>7. SlaveType' /\ OtherType'
    BY <1>1, MailboxFacts DEF SlaveType, OtherType
  <1> QED  BY <1>1, <1>2, <1>4, <1>5, <1>6, <1>7, MailboxPlain

\* The receive thread and act_state.
LEMMA OutsideInv ==
    ASSUME Inv, UNCHANGED uvars, Rx \/ EnterOp
    PROVE  Inv'
  <1>1. UNCHANGED <<pools, hold, h, coe_lock, em, slave>>
    BY DEF Rx, RxSample, RxSet, RxSched, EnterOp
  <1>2. SyncType'
    <2>1. UNCHANGED sync \/ Post("recv")
      BY DEF Rx, RxSample, RxSet, RxSched, EnterOp, ec_mbx_sched_read
    <2>2. Post("recv") => SyncType'
      BY MailboxFacts DEF Post, SyncType
    <2> QED  BY <2>1, <2>2, MailboxFacts DEF SyncType
  <1>3. OtherType'
    BY <1>1, MailboxFacts DEF Rx, RxSample, RxSet, RxSched, EnterOp, OtherType
  <1>4. SendHas' = SendHas /\ RecvHas' = RecvHas /\ HandlerType' /\ HandlerControl' /\ SlaveType'
    BY <1>1, MailboxFacts DEF SendHas, RecvHas, HandlerHas, HandlerType, HandlerControl, SlaveType
  <1> QED  BY <1>1, <1>2, <1>3, <1>4, MailboxPlain

\* The slave.
LEMMA SlaveInv ==
    ASSUME Inv, UNCHANGED uvars, Slave \/ SlaveEvent
    PROVE  Inv'
  <1>1. UNCHANGED <<pools, hold, h, coe_lock, em, sync, sm_state, rx, op>>
    BY DEF Slave, SlaveTake, SlaveFill, SlaveEvent
  <1>2. SlaveType
    BY MailboxFacts
  <1>3. SlaveType'
    <2>1. CASE SlaveTake
      <3>1. PICK a \in Answers(slave.out) : slave' = [slave EXCEPT !.out = NULL, !.todo = @ \o a]
        BY <2>1 DEF SlaveTake
      <3>2. slave.out \in Messages
        BY <1>2, <2>1 DEF SlaveTake, SlaveType
      <3>3. a \in Seq(Messages)
        BY <3>2, AnswersType
      <3>4. slave.todo \o a \in Seq(Messages)
        BY <1>2, <3>3 DEF SlaveType
      <3> QED  BY <1>2, <3>1, <3>4 DEF SlaveType
    <2>2. CASE SlaveFill
      <3>1. slave' = [slave EXCEPT !.in = Head(slave.todo), !.todo = Tail(@)] /\ slave.todo # <<>>
        BY <2>2 DEF SlaveFill
      <3>2. Head(slave.todo) \in Messages /\ Tail(slave.todo) \in Seq(Messages)
        BY <1>2, <3>1 DEF SlaveType
      <3> QED  BY <1>2, <3>1, <3>2 DEF SlaveType
    <2>3. CASE SlaveEvent
      <3>1. events + 1 \in Nat
        BY DEF Inv, TypeOK
      <3>2. PICK m \in {Msg("coe", "emergency", NULL, NULL, events + 1),
                        Msg("other", "unknown", NULL, NULL, 0)} :
                slave' = [slave EXCEPT !.todo = Append(@, m)]
        BY <2>3 DEF SlaveEvent
      <3>3. m \in Messages
        <4>1. /\ Msg("coe", "emergency", NULL, NULL, events + 1) \in Messages
              /\ Msg("other", "unknown", NULL, NULL, 0) \in Messages
          BY <3>1 DEF Msg, Messages, Protos, Services
        <4> QED  BY <3>2, <4>1
      <3>4. Append(slave.todo, m) \in Seq(Messages)
        BY <1>2, <3>3 DEF SlaveType
      <3> QED  BY <1>2, <3>2, <3>4 DEF SlaveType
    <2> QED  BY <2>1, <2>2, <2>3 DEF Slave
  <1>4. events' \in Nat
    <2>1. events' \in {events, events + 1}
      BY DEF Slave, SlaveTake, SlaveFill, SlaveEvent
    <2> QED  BY <2>1 DEF Inv
  <1>5. SendHas' = SendHas /\ RecvHas' = RecvHas /\ HandlerType' /\ HandlerControl' /\ OtherType' /\ SyncType'
    BY <1>1, <1>4, MailboxFacts DEF SendHas, RecvHas, HandlerHas, HandlerType, HandlerControl, OtherType, SyncType
  <1> QED  BY <1>1, <1>3, <1>5, MailboxPlain

\* Where the handler has a receive buffer.
Receiving == {"full", "clear_full", "clear_empty", "read", "dispatch", "emergency"}

\* A handler that has received has no buffer any more.
LEMMA HandlerReceived ==
    ASSUME Inv, HReceived
    PROVE  HandlerType' /\ HandlerControl' /\ h'.pc \in {"send", "wait"} /\ SendHas' = 0 /\ RecvHas' = 0
  <1>1. h'.pc \in {"send", "wait"} /\ HandlerType'
    BY DEF HReceived, HandlerType, HandlerPlaces
  <1> QED  BY <1>1 DEF HandlerControl, SendHas, RecvHas, HandlerHas

\* One receive buffer, and none to send.
LEMMA ReceivingHas ==
    ASSUME h.pc \in Receiving
    PROVE  SendHas = 0 /\ RecvHas = 1
  BY DEF Receiving, SendHas, RecvHas, HandlerHas

\* The handler gives the buffer back that it receives with, ...
LEMMA GiveBackInv ==
    ASSUME Inv, UNCHANGED <<uvars, send_free, send_queued, recv_pool, hold, sync>>,
           SlaveType', OtherType', h.pc \in Receiving, HGiveBack
    PROVE  Inv'
  <1>1. recv_free' = recv_free + 1 /\ HReceived
    BY DEF HGiveBack
  <1>2. QueuesType' /\ Posted' = Posted /\ Queued' = Queued /\ SyncType'
    BY <1>1, MailboxFacts DEF QueuesType, Posted, Queued, SyncType
  <1>3. /\ send_free' + Posted' + SendHas' = send_free + Posted + SendHas
        /\ recv_free' + Queued' + RecvHas' = recv_free + Queued + RecvHas
    BY <1>1, <1>2, HandlerReceived, ReceivingHas, MailboxFacts
  <1> QED  BY <1>1, <1>2, <1>3, HandlerReceived, MailboxStep

\* ... or goes on with it.
LEMMA GoOnInv ==
    ASSUME Inv, UNCHANGED <<uvars, pools, hold, sync>>, SlaveType', OtherType',
           h.pc \in Receiving, HandlerType', h'.pc \in Receiving, HandlerControl'
    PROVE  Inv'
  <1>1. SendHas' = SendHas /\ RecvHas' = RecvHas
    BY DEF Receiving, SendHas, RecvHas, HandlerHas
  <1>2. SyncType'
    BY MailboxFacts DEF SyncType
  <1> QED  BY <1>1, <1>2, MailboxPlain

\* The handler takes a buffer, asks whether the mailbox is full, reads it, ...
LEMMA RecvInv ==
    ASSUME Inv, UNCHANGED uvars, HRecv
    PROVE  Inv'
  <1>1. h.pc = "recv" /\ SendHas = 0 /\ RecvHas = 0
    BY DEF HRecv, SendHas, RecvHas, HandlerHas
  <1>2. UNCHANGED <<send_free, send_queued, recv_pool, hold, sync, sm_state, coe_lock, em, rx, op, slave, events>>
    BY DEF HRecv
  <1>3. SyncType' /\ OtherType' /\ SlaveType'
    BY <1>2, MailboxFacts DEF SyncType, OtherType, SlaveType
  <1>4. CASE recv_free > 0
    <2>1. recv_free' = recv_free - 1 /\ h' = [h EXCEPT !.pc = "full"]
      BY <1>4 DEF HRecv
    <2>2. HandlerType' /\ h'.pc = "full"
      BY <2>1, MailboxFacts, HandlerBecomes DEF HandlerPlaces
    <2>3. HandlerControl' /\ SendHas' = 0 /\ RecvHas' = 1
      BY <2>2 DEF HandlerControl, SendHas, RecvHas, HandlerHas
    <2>4. recv_free - 1 \in Nat
      BY <1>4, MailboxFacts
    <2>5. QueuesType' /\ Posted' = Posted /\ Queued' = Queued
      BY <1>2, <2>1, <2>4, MailboxFacts DEF QueuesType, Posted, Queued
    <2>6. /\ send_free' + Posted' + SendHas' = send_free + Posted + SendHas
          /\ recv_free' + Queued' + RecvHas' = recv_free + Queued + RecvHas
      BY <1>1, <1>2, <2>1, <2>3, <2>5, MailboxFacts
    <2> QED  BY <1>2, <1>3, <2>2, <2>3, <2>5, <2>6, MailboxStep
  <1>5. CASE recv_free = 0
    <2>1. HReceived /\ UNCHANGED pools
      BY <1>2, <1>5 DEF HRecv, pools
    <2> QED  BY <1>1, <1>2, <1>3, <2>1, HandlerReceived, MailboxPlain
  <1> QED  BY <1>4, <1>5, MailboxFacts

\* (ec_mbx_is_full, by a datagram or by *sm_state)
LEMMA AskInv ==
    ASSUME Inv, UNCHANGED uvars, HAsk \/ HClear
    PROVE  Inv'
  <1>1. UNCHANGED <<send_free, send_queued, recv_pool, hold, sync, coe_lock, em, rx, op, slave, events>>
        /\ sm_state' \in {sm_state, FALSE} /\ h.pc \in Receiving
    BY DEF HAsk, HClear, Receiving
  <1>2. OtherType' /\ SlaveType'
    BY <1>1, MailboxFacts DEF OtherType, SlaveType
  <1>3. HGiveBack \/ (h' = [h EXCEPT !.pc = "read"] /\ UNCHANGED recv_free)
    BY DEF HAsk, HClear
  <1>4. CASE h' = [h EXCEPT !.pc = "read"] /\ UNCHANGED recv_free
    <2>1. HandlerType' /\ h'.pc = "read"
      BY <1>4, MailboxFacts, HandlerBecomes DEF HandlerPlaces
    <2>2. HandlerControl' /\ h'.pc \in Receiving /\ UNCHANGED pools
      BY <1>1, <1>4, <2>1 DEF HandlerControl, Receiving, pools
    <2> QED  BY <1>1, <1>2, <2>1, <2>2, GoOnInv
  <1> QED  BY <1>1, <1>2, <1>3, <1>4, GiveBackInv

\* (ec_mbx_receive)
LEMMA ReadInv ==
    ASSUME Inv, UNCHANGED uvars, HRead
    PROVE  Inv'
  <1>1. UNCHANGED <<send_free, send_queued, recv_pool, hold, sync, sm_state, coe_lock, em, rx, op, events>>
        /\ h.pc \in Receiving /\ slave' = [slave EXCEPT !.in = NULL]
    BY DEF HRead, Receiving
  <1>2. OtherType' /\ SlaveType'
    BY <1>1, MailboxFacts DEF OtherType, SlaveType
  <1>3. HGiveBack \/ (slave.in # NULL /\ h' = [h EXCEPT !.pc = "dispatch", !.msg = slave.in]
                       /\ UNCHANGED recv_free)
    BY DEF HRead
  <1>4. CASE slave.in # NULL /\ h' = [h EXCEPT !.pc = "dispatch", !.msg = slave.in] /\ UNCHANGED recv_free
    <2>1. slave.in \in Messages
      BY <1>4, MailboxFacts DEF SlaveType
    <2>2. HandlerType' /\ h'.pc = "dispatch" /\ h'.msg = slave.in
      BY <1>4, <2>1, MailboxFacts DEF HandlerType, HandlerPlaces
    <2>3. HandlerControl' /\ h'.pc \in Receiving /\ UNCHANGED pools
      BY <1>1, <1>4, <2>1, <2>2 DEF HandlerControl, Receiving, pools
    <2> QED  BY <1>1, <1>2, <2>2, <2>3, GoOnInv
  <1> QED  BY <1>1, <1>2, <1>3, <1>4, GiveBackInv

\* ... hands the message on or drops it, ...
LEMMA DispatchInv ==
    ASSUME Inv, UNCHANGED uvars, HDispatch
    PROVE  Inv'
  <1>1. UNCHANGED <<send_free, send_queued, hold, sync, coe_lock, em, rx, op, slave, events>>
        /\ sm_state' = FALSE /\ h.pc = "dispatch" /\ h.pc \in Receiving
    BY DEF HDispatch, Receiving
  <1>2. OtherType' /\ SlaveType' /\ SyncType'
    BY <1>1, MailboxFacts DEF OtherType, SlaveType, SyncType
  <1>3. h.msg \in Messages
    BY <1>1, MailboxFacts DEF HandlerControl
  <1>4. CASE ForUser(h.msg)
    <2> DEFINE p == h.msg.proto
    <2>1. p \in {"coe", "gw"}
      BY <1>4 DEF ForUser
    <2>2. recv_pool' = [recv_pool EXCEPT ![p] = Append(@, h.msg)] /\ HReceived /\ UNCHANGED recv_free
      BY <1>4 DEF HDispatch, ForUser, IsEmergency
    <2>3. QueuesType /\ recv_pool["coe"] \in Seq(Messages) /\ recv_pool["gw"] \in Seq(Messages)
      BY MailboxFacts DEF QueuesType
    <2>4. \A s \in Seq(Messages) : /\ Append(s, h.msg) \in Seq(Messages)
                                  /\ Len(Append(s, h.msg)) = Len(s) + 1 /\ Len(s) \in Nat
      BY <1>3
    <2>5. QueuesType' /\ Posted' = Posted
      BY <1>1, <2>1, <2>2, <2>3, <2>4 DEF QueuesType, Posted
    <2>6. Queued' = Queued + 1
      <3>1. \A a, b, d \in Nat : (a = b + 1 => a + d = b + d + 1) /\ (a = b + 1 => d + a = d + b + 1)
        OBVIOUS
      <3>2. CASE p = "coe"
        <4>1. recv_pool'["coe"] = Append(recv_pool["coe"], h.msg) /\ recv_pool'["gw"] = recv_pool["gw"]
          BY <2>2, <2>3, <3>2 DEF QueuesType
        <4>2. /\ Len(Append(recv_pool["coe"], h.msg)) = Len(recv_pool["coe"]) + 1 /\ Len(Append(recv_pool["coe"], h.msg)) \in Nat
              /\ Len(recv_pool["coe"]) \in Nat /\ Len(recv_pool["gw"]) \in Nat
          BY <2>3, <2>4
        <4>3. /\ Queued = Len(recv_pool["coe"]) + Len(recv_pool["gw"])
              /\ Queued' = Len(Append(recv_pool["coe"], h.msg)) + Len(recv_pool["gw"])
          BY <4>1, Zenon DEF Queued
        <4> QED  BY <3>1, <4>2, <4>3
      <3>3. CASE p = "gw"
        <4>1. recv_pool'["gw"] = Append(recv_pool["gw"], h.msg) /\ recv_pool'["coe"] = recv_pool["coe"]
          BY <2>2, <2>3, <3>3 DEF QueuesType
        <4>2. /\ Len(Append(recv_pool["gw"], h.msg)) = Len(recv_pool["gw"]) + 1 /\ Len(Append(recv_pool["gw"], h.msg)) \in Nat
              /\ Len(recv_pool["coe"]) \in Nat /\ Len(recv_pool["gw"]) \in Nat
          BY <2>3, <2>4
        <4>3. /\ Queued = Len(recv_pool["coe"]) + Len(recv_pool["gw"])
              /\ Queued' = Len(recv_pool["coe"]) + Len(Append(recv_pool["gw"], h.msg))
          BY <4>1, Zenon DEF Queued
        <4> QED  BY <3>1, <4>2, <4>3
      <3> QED  BY <2>1, <3>2, <3>3
    <2>7. /\ send_free' + Posted' + SendHas' = send_free + Posted + SendHas
          /\ recv_free' + Queued' + RecvHas' = recv_free + Queued + RecvHas
      BY <1>1, <2>2, <2>5, <2>6, HandlerReceived, ReceivingHas, MailboxFacts
    <2> HIDE DEF p
    <2> QED  BY <1>1, <1>2, <2>2, <2>5, <2>7, HandlerReceived, MailboxStep
  <1>5. CASE IsEmergency(h.msg) /\ ~ForUser(h.msg)
    <2>1. h' = [h EXCEPT !.pc = "emergency"] /\ UNCHANGED <<recv_free, recv_pool>>
      BY <1>5 DEF HDispatch
    <2>2. HandlerType' /\ h'.pc = "emergency" /\ h'.msg = h.msg
      BY <2>1, MailboxFacts DEF HandlerType, HandlerPlaces
    <2>3. HandlerControl' /\ h'.pc \in Receiving /\ UNCHANGED pools
      BY <1>1, <1>3, <2>1, <2>2 DEF HandlerControl, Receiving, pools
    <2> QED  BY <1>1, <1>2, <2>2, <2>3, GoOnInv
  <1>6. CASE ~IsEmergency(h.msg) /\ ~ForUser(h.msg)
    <2>1. HGiveBack /\ UNCHANGED recv_pool
      BY <1>6 DEF HDispatch
    <2> QED  BY <1>1, <1>2, <2>1, GiveBackInv
  <1> QED  BY <1>4, <1>5, <1>6

\* ... keeps an emergency, ...
LEMMA EmergencyInv ==
    ASSUME Inv, UNCHANGED uvars, HEmergency
    PROVE  Inv'
  <1>1. UNCHANGED <<send_free, send_queued, recv_pool, hold, sync, sm_state, coe_lock, rx, op, slave, events>>
        /\ HGiveBack /\ h.pc = "emergency" /\ h.pc \in Receiving
    BY DEF HEmergency, Receiving
  <1>2. \A i \in Nat : Succ(i) \in 0 .. MaxEmergencies - 1
    BY MailboxAssumption DEF Succ
  <1>3. h.msg.left \in Nat /\ MaxEmergencies \in Nat
    BY <1>1, MailboxFacts, MailboxAssumption DEF HandlerControl, Messages
  <1>4. /\ em.write \in Nat /\ em.read \in Nat /\ em.slots \in [0 .. MaxEmergencies - 1 -> Nat]
        /\ em \in [write : 0 .. MaxEmergencies - 1, read : Nat, slots : [0 .. MaxEmergencies - 1 -> Nat]]
    BY <1>3, MailboxFacts DEF OtherType
  <1> DEFINE w == Succ(em.write)
             r == IF w = em.read THEN Succ(em.read) ELSE em.read
             t == [em.slots EXCEPT ![em.write] = h.msg.left]
  <1>5. em' = [em EXCEPT !.slots[em.write] = h.msg.left, !.write = w, !.read = r]
    BY DEF HEmergency
  <1>6. w \in 0 .. MaxEmergencies - 1 /\ r \in Nat /\ t \in [0 .. MaxEmergencies - 1 -> Nat]
    BY <1>2, <1>3, <1>4
  <1>7. em' = [write |-> w, read |-> r, slots |-> t]
    <2> HIDE DEF w, r
    <2> QED  BY <1>4, <1>5
  <1>8. OtherType' /\ SlaveType'
    <2> HIDE DEF w, r, t
    <2> QED  BY <1>1, <1>6, <1>7, MailboxFacts DEF OtherType, SlaveType
  <1> QED  BY <1>1, <1>8, GiveBackInv

\* ... and takes a message to send.
LEMMA SendInv ==
    ASSUME Inv, UNCHANGED uvars, HSend
    PROVE  Inv'
  <1>1. UNCHANGED <<send_free, recv_free, recv_pool, hold, sync, sm_state, coe_lock, em, rx, op, slave, events>>
        /\ h.pc = "send"
    BY DEF HSend
  <1>2. OtherType' /\ SlaveType' /\ SyncType'
    BY <1>1, MailboxFacts DEF OtherType, SlaveType, SyncType
  <1>3. SendHas = 0 /\ RecvHas = 0
    BY <1>1 DEF SendHas, RecvHas, HandlerHas
  <1>4. CASE send_queued # <<>>
    <2>1. h' = [h EXCEPT !.pc = "write", !.msg = Head(send_queued)] /\ send_queued' = Tail(send_queued)
      BY <1>4 DEF HSend
    <2>2. QueuesType /\ send_queued \in Seq(Messages)
      BY MailboxFacts DEF QueuesType
    <2>3. Head(send_queued) \in Messages /\ Tail(send_queued) \in Seq(Messages)
          /\ Len(send_queued) = Len(Tail(send_queued)) + 1 /\ Len(Tail(send_queued)) \in Nat
      BY <1>4, <2>2
    <2>4. HandlerType' /\ h'.pc = "write" /\ h'.msg \in Messages
      BY <2>1, <2>3, MailboxFacts DEF HandlerType, HandlerPlaces
    <2>5. HandlerControl' /\ SendHas' = 1 /\ RecvHas' = 0
      BY <2>4 DEF HandlerControl, SendHas, RecvHas, HandlerHas
    <2>6. QueuesType' /\ Queued' = Queued
      BY <1>1, <2>1, <2>2, <2>3 DEF QueuesType, Queued
    <2>7. Posted = Posted' + 1 /\ Posted' \in Nat
      BY <2>1, <2>3 DEF Posted
    <2>8. /\ send_free' + Posted' + SendHas' = send_free + Posted + SendHas
          /\ recv_free' + Queued' + RecvHas' = recv_free + Queued + RecvHas
      BY <1>1, <1>3, <2>5, <2>6, <2>7, MailboxFacts
    <2> QED  BY <1>1, <1>2, <2>4, <2>5, <2>6, <2>8, MailboxStep
  <1>5. CASE send_queued = <<>>
    <2>1. h' = [h EXCEPT !.pc = "wait"] /\ UNCHANGED pools
      BY <1>1, <1>5 DEF HSend, pools
    <2>2. HandlerType' /\ h'.pc = "wait"
      BY <2>1, MailboxFacts, HandlerBecomes DEF HandlerPlaces
    <2>3. HandlerControl' /\ SendHas' = 0 /\ RecvHas' = 0
      BY <2>2 DEF HandlerControl, SendHas, RecvHas, HandlerHas
    <2> QED  BY <1>1, <1>2, <1>3, <2>1, <2>2, <2>3, MailboxPlain
  <1> QED  BY <1>4, <1>5

\* The message is in the slave, or queued again.
LEMMA WriteInv ==
    ASSUME Inv, UNCHANGED uvars, HWrite \/ HRequeue
    PROVE  Inv'
  <1>1. UNCHANGED <<recv_free, recv_pool, hold, sync, sm_state, coe_lock, em, rx, op, events>>
        /\ h.pc = "write" /\ h' = [h EXCEPT !.pc = h'.pc, !.msg = NULL] /\ h'.pc \in {"wait", "post"}
    BY MailboxFacts DEF HWrite, HRequeue, HandlerType
  <1>2. OtherType' /\ SyncType'
    BY <1>1, MailboxFacts DEF OtherType, SyncType
  <1>3. h.msg \in Messages /\ SendHas = 1 /\ RecvHas = 0
    BY <1>1, MailboxFacts DEF HandlerControl, SendHas, RecvHas, HandlerHas
  <1>4. HandlerType'
    BY <1>1, MailboxFacts DEF HandlerType, HandlerPlaces
  <1>5. HandlerControl' /\ SendHas' = 0 /\ RecvHas' = 0
    BY <1>1 DEF HandlerControl, SendHas, RecvHas, HandlerHas
  <1>6. QueuesType /\ Queued' = Queued
    BY <1>1, MailboxFacts DEF Queued
  <1>7. SlaveType' /\ QueuesType' /\ send_free' + Posted' = send_free + Posted + 1
        /\ send_free' \in Nat /\ Posted' \in Nat
    <2>1. CASE HWrite
      <3>1. slave' = [slave EXCEPT !.out = h.msg] /\ send_free' = send_free + 1 /\ UNCHANGED send_queued
        BY <2>1 DEF HWrite
      <3>2. SlaveType' /\ QueuesType' /\ Posted' = Posted
        <4>1. SlaveType'
          BY <1>3, <3>1, MailboxFacts DEF SlaveType
        <4>2. send_free' \in Nat
          BY <3>1, MailboxFacts
        <4>3. QueuesType' /\ Posted' = Posted
          BY <1>1, <1>6, <3>1, <4>2 DEF QueuesType, Posted
        <4> QED  BY <4>1, <4>3
      <3> QED  BY <3>1, <3>2, MailboxFacts
    <2>2. CASE HRequeue
      <3>1. send_queued' = <<h.msg>> \o send_queued /\ UNCHANGED <<send_free, slave>>
        BY <2>2 DEF HRequeue
      <3>2. \A s \in Seq(Messages), x \in Messages : <<x>> \o s \in Seq(Messages) /\ Len(<<x>> \o s) = Len(s) + 1
        OBVIOUS
      <3>3. SlaveType' /\ QueuesType' /\ Posted' = Posted + 1
        BY <1>1, <1>3, <3>1, <3>2, MailboxFacts DEF SlaveType, QueuesType, Posted
      <3> QED  BY <3>1, <3>3, MailboxFacts
    <2> QED  BY <2>1, <2>2
  <1>8. /\ send_free' + Posted' + SendHas' = send_free + Posted + SendHas
        /\ recv_free' + Queued' + RecvHas' = recv_free + Queued + RecvHas
    BY <1>1, <1>3, <1>5, <1>6, <1>7, MailboxFacts
  <1> QED  BY <1>1, <1>2, <1>4, <1>5, <1>7, <1>8, MailboxStep

-----------------------------------------------------------------------------
(* The theorems. *)

\* The pools are full at first.
LEMMA InitInv == Init => Inv
  <1> SUFFICES ASSUME Init PROVE Inv
    OBVIOUS
  <1>1. NewCall(0, "gateway", FALSE) \in Calls
    <2>1. InitialRet("gateway") = "ok" /\ Segments \in Nat /\ MaxCalls \in Nat
      BY CoEAssumption DEF InitialRet
    <2> QED  BY <2>1 DEF NewCall, Calls, Rets
  <1>2. TypeOK
    <2>1. /\ em = [write |-> 0, read |-> 0, slots |-> [i \in 0 .. MaxEmergencies - 1 |-> 0]]
          /\ 0 \in 0 .. MaxEmergencies - 1
      BY MailboxAssumption DEF Init, MInit
    <2>2. em \in [write : 0 .. MaxEmergencies - 1, read : Nat, slots : [0 .. MaxEmergencies - 1 -> Nat]]
      BY <2>1
    <2>3. /\ send_free \in 0 .. SendBufs /\ recv_free \in 0 .. RecvBufs
          /\ send_queued \in Seq(Messages) /\ recv_pool \in [{"coe", "gw"} -> Seq(Messages)]
          /\ hold \in [Users -> Messages \cup {NULL}]
      BY MailboxAssumption DEF Init, MInit
    <2>4. /\ sync \in [flags : SUBSET {"send", "recv"}, sem : BOOLEAN]
          /\ h \in [pc : HandlerPlaces, send : BOOLEAN, msg : Messages \cup {NULL}]
          /\ slave \in [out : Messages \cup {NULL}, todo : Seq(Messages), in : Messages \cup {NULL}]
      BY DEF Init, MInit, HandlerPlaces
    <2>5. /\ pc \in [Users -> Places] /\ call \in [Users -> Calls] /\ got \in Seq(Nat)
      <3>1. pc \in [Users -> Places]
        BY DEF Init, Places
      <3>2. call \in [Users -> Calls]
        BY <1>1, Zenon DEF Init
      <3>3. got \in Seq(Nat)
        BY DEF Init
      <3> QED  BY <3>1, <3>2, <3>3
    <2>6. /\ sm_state \in BOOLEAN /\ op \in BOOLEAN /\ coe_lock \in Clients \cup {NULL}
          /\ rx \in {"idle", "set", "sched"}
      BY DEF Init, MInit
    <2> QED  BY <2>2, <2>3, <2>4, <2>5, <2>6 DEF TypeOK
  <1>3. UserControl /\ HandlerControl /\ events \in Nat
    BY DEF Init, MInit, UserControl, Control, Asking, HandlerControl
  <1>4. BuffersKept
    <2>1. HolderOf("put") = {} /\ HolderOf("process") = {}
      BY DEF Init, HolderOf
    <2>2. Cardinality(HolderOf("put")) = 0 /\ Cardinality(HolderOf("process")) = 0
      BY <2>1, FS_EmptySet
    <2>3. /\ HandlerHas({"write"}) = 0
          /\ HandlerHas({"full", "clear_full", "clear_empty", "read", "dispatch", "emergency"}) = 0
      BY DEF Init, MInit, HandlerHas
    <2>4. /\ send_free = SendBufs /\ recv_free = RecvBufs /\ Len(send_queued) = 0
          /\ Len(recv_pool["coe"]) = 0 /\ Len(recv_pool["gw"]) = 0
      BY DEF Init, MInit
    <2> QED  BY <2>2, <2>3, <2>4, MailboxAssumption DEF BuffersKept
  <1> QED  BY <1>2, <1>3, <1>4 DEF Inv

\* Every step keeps the invariant.
LEMMA NextInv == Inv /\ [Next]_vars => Inv'
  <1> SUFFICES ASSUME Inv, [Next]_vars PROVE Inv'
    OBVIOUS
  <1>1. ASSUME NEW u \in Users, Start(u) \/ Lock(u) \/ WaitTimeout(u) \/ Step(u)
        PROVE  Inv'
    BY <1>1, StartInv, WalkInv, WaitTimeoutInv, GetBufferInv, EnqueueInv, ReceiveInv, ProcessInv DEF Step
  <1>2. CASE EmergencyGetNext
    BY <1>2, EmergencyGetNextInv
  <1>3. CASE MNext /\ UNCHANGED uvars
    BY <1>3, HandlerPlain, RecvInv, AskInv, ReadInv, DispatchInv, EmergencyInv, SendInv, WriteInv,
       OutsideInv, SlaveInv DEF MNext, Handler
  <1>4. CASE UNCHANGED vars
    BY <1>4 DEF vars, mvars, pools, uvars, Inv, TypeOK, UserControl, HandlerControl, BuffersKept,
       HandlerHas, HolderOf
  <1> QED  BY <1>1, <1>2, <1>3, <1>4 DEF Next

\* Every step keeps the invariant: buffers are counted where their holders are,
\* and what a thread needs at a place it brings there.
THEOREM InvAlways == Spec => []Inv
  BY InitInv, NextInv, PTL DEF Spec

\* The mailbox's queues, rings and flags keep their types, and every user and
\* the handler their place, however the threads of mbx.c, coe.c and
\* mbx_gateway.c interleave.
THEOREM TypeCorrect == Spec => []TypeOK
  BY InvAlways, PTL DEF Inv

\* No path through the handler, the CoE services and the gateway loses or
\* doubles a buffer: ec_mbx_get_free_send_buffer and the reception of a message
\* fail only when all buffers are really in use.
THEOREM BuffersConserved == Spec => []BuffersKept
  BY InvAlways, PTL DEF Inv

-----------------------------------------------------------------------------
(* The answers on their way, with one gateway thread (ec_mbx_gateway_handle *)
(* of mbx_gateway.c is called by one).                                      *)
OneGateway == \A u, v \in Gateways : u = v

\* No segment of a download is refused and passed over.
Confirmable == Segments < 2 \/ ~Refuses

\* A message for the users of protocol p.
For(m, p) == ForUser(m) /\ m.proto = p

\* Those in a queue.
Fors(s, p) == {s[i] : i \in {j \in DOMAIN s : For(s[j], p)}}
Mine(s, p) == \A i \in DOMAIN s : For(s[i], p)

\* The messages for them, from the user that holds one to the slave that prepares some, ...
Held(p) == {hold[u] : u \in {v \in Users : Proto(v) = p /\ pc[v] = "process"}}
Pool(p) == Fors(recv_pool[p], p)
Hand(p) == IF h.pc = "dispatch" /\ For(h.msg, p) THEN {h.msg} ELSE {}
Box(p)  == IF slave.in # NULL /\ For(slave.in, p) THEN {slave.in} ELSE {}
Todo(p) == Fors(slave.todo, p)
Answered(p) == Held(p) \cup Pool(p) \cup Hand(p) \cup Box(p) \cup Todo(p)

\* ... and their requests, from the user that fills a buffer to the slave's mailbox.
Put(p)   == {hold[u] : u \in {v \in Users : Proto(v) = p /\ pc[v] = "put"}}
Of(s, p) == {s[i] : i \in {j \in DOMAIN s : s[j].proto = p}}
Write(p) == IF h.pc = "write" /\ h.msg.proto = p THEN {h.msg} ELSE {}
Out(p)   == IF slave.out # NULL /\ slave.out.proto = p THEN {slave.out} ELSE {}
Requested(p) == Put(p) \cup Of(send_queued, p) \cup Write(p) \cup Out(p)

\* A message belongs to the request that a user has under way, and is not confirmed yet.
Own(p, m) == \E u \in Users : /\ Proto(u) = p /\ pc[u] \in Asking
                              /\ m.req = Req(u) /\ m.kind = call[u].kind
                              /\ Confirmable => call[u].acked = call[u].stage

\* An answer is what the slave gives to such a request.
Fits(m) == /\ m.kind = "odlist" => m.svc = "info" \/ (m.svc = "info_error" /\ m.left = 0)
           /\ m.kind \in {"desc", "entry"} => m.svc \in {"info", "info_error"} /\ m.left = 0
           /\ m.kind \notin {"odlist", "desc", "entry"} => m.svc \in {"sdores", "abort"} /\ m.left = 0
           /\ ~Refuses => m.svc \notin {"abort", "info_error"}

\* Each has less to follow than those before it, so behind the last one there is none.
Above(S, T) == \A x \in S, y \in T : x.left > y.left
Falling(s, p) == \A i, j \in DOMAIN s : i < j /\ For(s[i], p) /\ For(s[j], p) => s[i].left > s[j].left
Ordered(a, b, c, d, e) == /\ Above(a, b \cup c \cup d \cup e) /\ Above(b, c \cup d \cup e)
                          /\ Above(c, d \cup e) /\ Above(d, e)
InOrder(p) == /\ Mine(recv_pool[p], p)
              /\ Falling(recv_pool[p], p) /\ Falling(slave.todo, p)
              /\ Ordered(Held(p), Pool(p), Hand(p), Box(p), Todo(p))

\* There is one request at most, in one place, and no answer then.
One(s, p) == \A i, j \in DOMAIN s : s[i].proto = p /\ s[j].proto = p => i = j
Alone(a, b, c, d) == /\ a # {} => b \cup c \cup d = {}
                     /\ b # {} => c \cup d = {}
                     /\ c # {} => d = {}
OneRequest(p) == /\ One(send_queued, p)
                 /\ Alone(Put(p), Of(send_queued, p), Write(p), Out(p))
                 /\ Requested(p) # {} => Answered(p) = {}

Dialogue(p) == /\ \A m \in Requested(p) : Own(p, m) /\ m.proto = p
               /\ \A m \in Answered(p) : Own(p, m) /\ Fits(m)
               /\ OneRequest(p) /\ InOrder(p)

\* The clients take turns, and a gateway only passes requests on.
Turns == /\ \A u \in Clients : pc[u] \notin {"out", "lock"} => coe_lock = u
         /\ \A u \in Gateways : pc[u] # "out" => call[u].kind = "gateway"

\* What has been confirmed of the call c of a user at a place.  A refused object
\* dictionary list ends with EC_OK, too: see ListEnds.
Account(u, place, c) ==
    /\ c.kind # "normal" => c.rest = 0 /\ c.stage = 0
    /\ place \in {"lock", "get"} => c.acked = c.stage
    /\ u \in Clients /\ place = "unlock" /\ c.ret = "ok" /\ c.kind # "odlist" => Confirmed(c)
Accounts == \A u \in Users : Account(u, pc[u], call[u])

\* While nobody has given up waiting, all messages belong to who asks.
OwnInv == /\ Turns /\ timeouts \in Nat
          /\ timeouts = 0 => \A p \in {"coe", "gw"} : Dialogue(p)
          /\ timeouts = 0 /\ Confirmable => Accounts

-----------------------------------------------------------------------------
(* What happens to queues.                                                 *)

LEMMA ConsIs ==
    ASSUME NEW s \in Seq(Messages), NEW m \in Messages, NEW p
    PROVE  LET t == <<m>> \o s
           IN  /\ m.proto # p => Of(t, p) = Of(s, p) /\ (One(s, p) => One(t, p))
               /\ m.proto = p /\ Of(s, p) = {} => Of(t, p) = {m} /\ One(t, p)
  <1> DEFINE t == <<m>> \o s
  <1>1. /\ t \in Seq(Messages) /\ Len(t) = Len(s) + 1 /\ Len(s) \in Nat /\ t[1] = m
        /\ \A i \in 1 .. Len(s) : t[i + 1] = s[i]
    OBVIOUS
  <1>2. DOMAIN s = 1 .. Len(s) /\ DOMAIN t = 1 .. Len(t)
    BY <1>1
  <1> HIDE DEF t
  <1>3. 1 \in DOMAIN t /\ \A i \in DOMAIN s : i + 1 \in DOMAIN t /\ t[i + 1] = s[i]
    BY <1>1, <1>2
  <1>4. \A i \in DOMAIN t : i = 1 \/ (i - 1 \in DOMAIN s /\ t[i] = s[i - 1])
    <2>1. TAKE i \in DOMAIN t
    <2>2. CASE i # 1
      <3>1. i - 1 \in 1 .. Len(s) /\ (i - 1) + 1 = i
        BY <1>1, <1>2, <2>2
      <3> QED  BY <1>1, <1>2, <3>1
    <2> QED  BY <2>2
  <1>5. CASE m.proto # p
    <2>1. Of(t, p) \subseteq Of(s, p)
      BY <1>1, <1>4, <1>5 DEF Of
    <2>2. Of(s, p) \subseteq Of(t, p)
      BY <1>3 DEF Of
    <2>3. ASSUME One(s, p) PROVE One(t, p)
      <3>1. \A i \in DOMAIN t : t[i].proto = p => i - 1 \in DOMAIN s /\ s[i - 1].proto = p
        BY <1>1, <1>4, <1>5
      <3>2. \A i, j \in DOMAIN t : i - 1 = j - 1 => i = j
        BY <1>1, <1>2
      <3> QED  BY <2>3, <3>1, <3>2 DEF One
    <2> QED  BY <1>5, <2>1, <2>2, <2>3 DEF t
  <1>6. CASE m.proto = p /\ Of(s, p) = {}
    <2>1. \A i \in DOMAIN s : s[i].proto # p
      BY <1>6 DEF Of
    <2>2. \A i \in DOMAIN t : t[i].proto = p <=> i = 1
      BY <1>1, <1>4, <1>6, <2>1
    <2>3. Of(t, p) = {m} /\ One(t, p)
      BY <1>1, <1>3, <2>2 DEF Of, One
    <2> QED  BY <1>6, <2>3 DEF t
  <1>7. CASE m.proto = p /\ Of(s, p) # {}
    BY <1>7
  <1> QED  BY <1>5, <1>6, <1>7

LEMMA TailIs ==
    ASSUME NEW s \in Seq(Messages), s # <<>>, NEW p
    PROVE  LET t == Tail(s)  m == Head(s)
           IN  /\ m.proto # p => Of(t, p) = Of(s, p) /\ (One(s, p) => One(t, p))
               /\ m.proto = p /\ One(s, p) => Of(t, p) = {} /\ Of(s, p) = {m} /\ One(t, p)
  <1> DEFINE t == Tail(s)
             m == Head(s)
  <1>1. /\ t \in Seq(Messages) /\ Len(t) = Len(s) - 1 /\ Len(s) \in Nat /\ Len(s) >= 1 /\ s[1] = m
        /\ \A i \in 1 .. Len(t) : t[i] = s[i + 1]
    OBVIOUS
  <1>2. DOMAIN s = 1 .. Len(s) /\ DOMAIN t = 1 .. Len(t)
    BY <1>1
  <1> HIDE DEF t, m
  <1>3. 1 \in DOMAIN s /\ \A i \in DOMAIN t : i + 1 \in DOMAIN s /\ t[i] = s[i + 1] /\ i + 1 # 1
    BY <1>1, <1>2
  <1>4. \A i \in DOMAIN s : i = 1 \/ (i - 1 \in DOMAIN t /\ s[i] = t[i - 1])
    <2>1. TAKE i \in DOMAIN s
    <2>2. CASE i # 1
      <3>1. i - 1 \in 1 .. Len(t) /\ (i - 1) + 1 = i
        BY <1>1, <1>2, <2>2
      <3> QED  BY <1>1, <1>2, <3>1
    <2> QED  BY <2>2
  <1>5. ASSUME One(s, p) PROVE One(t, p)
    <2>1. \A i, j \in DOMAIN t : i + 1 = j + 1 => i = j
      BY <1>1, <1>2
    <2> QED  BY <1>3, <1>5, <2>1 DEF One
  <1>6. CASE m.proto # p
    <2>1. Of(s, p) \subseteq Of(t, p)
      BY <1>1, <1>4, <1>6 DEF Of
    <2>2. Of(t, p) \subseteq Of(s, p)
      BY <1>3 DEF Of
    <2> QED  BY <1>5, <1>6, <2>1, <2>2 DEF t, m
  <1>7. CASE m.proto = p /\ One(s, p)
    <2>1. \A i \in DOMAIN s : s[i].proto = p <=> i = 1
      BY <1>1, <1>3, <1>7 DEF One
    <2>2. \A i \in DOMAIN t : t[i].proto # p
      BY <1>3, <2>1
    <2>3. Of(s, p) = {m} /\ Of(t, p) = {}
      BY <1>1, <1>3, <2>1, <2>2 DEF Of
    <2> QED  BY <1>5, <1>7, <2>3 DEF t, m
  <1>8. CASE m.proto = p /\ ~One(s, p)
    BY <1>8 DEF m
  <1> QED  BY <1>6, <1>7, <1>8 DEF m

\* The first is above the rest.
LEMMA TailFalls ==
    ASSUME NEW s \in Seq(Messages), s # <<>>, NEW p, Falling(s, p)
    PROVE  LET t == Tail(s)  m == Head(s)
           IN  /\ Falling(t, p) /\ Fors(t, p) \subseteq Fors(s, p) /\ (Mine(s, p) => Mine(t, p))
               /\ Fors(s, p) \subseteq {m} \cup Fors(t, p)
               /\ Mine(s, p) => For(m, p)
               /\ ~For(m, p) => Fors(t, p) = Fors(s, p)
               /\ For(m, p) => m \in Fors(s, p) /\ Above({m}, Fors(t, p))
  <1> DEFINE t == Tail(s)
             m == Head(s)
  <1>1. /\ t \in Seq(Messages) /\ Len(t) = Len(s) - 1 /\ Len(s) \in Nat /\ Len(s) >= 1 /\ s[1] = m
        /\ \A i \in 1 .. Len(t) : t[i] = s[i + 1]
    OBVIOUS
  <1>2. DOMAIN s = 1 .. Len(s) /\ DOMAIN t = 1 .. Len(t)
    BY <1>1
  <1> HIDE DEF t, m
  <1>3. 1 \in DOMAIN s /\ \A i \in DOMAIN t : i + 1 \in DOMAIN s /\ t[i] = s[i + 1] /\ 1 < i + 1
    BY <1>1, <1>2
  <1>4. \A i, j \in DOMAIN t : i < j => i + 1 < j + 1
    BY <1>2, <1>1
  <1>5. Falling(t, p)
    BY <1>3, <1>4 DEF Falling
  <1>6. Fors(t, p) \subseteq Fors(s, p)
    BY <1>3 DEF Fors
  <1>8. Mine(s, p) => Mine(t, p) /\ For(m, p)
    BY <1>1, <1>3 DEF Mine
  <1>9. Fors(s, p) \subseteq {m} \cup Fors(t, p)
    <2>1. \A i \in DOMAIN s : i = 1 \/ (i - 1 \in DOMAIN t /\ s[i] = t[i - 1])
      <3>1. TAKE i \in DOMAIN s
      <3>2. CASE i # 1
        <4>1. i - 1 \in 1 .. Len(t) /\ (i - 1) + 1 = i
          BY <1>1, <1>2, <3>2
        <4> QED  BY <1>1, <1>2, <4>1
      <3> QED  BY <3>2
    <2> QED  BY <1>1, <2>1 DEF Fors
  <1>10. ASSUME ~For(m, p) PROVE Fors(t, p) = Fors(s, p)
    <2>1. \A x \in Fors(s, p) : For(x, p)
      BY DEF Fors
    <2> QED  BY <1>6, <1>9, <1>10, <2>1
  <1>7. ASSUME For(m, p) PROVE m \in Fors(s, p) /\ Above({m}, Fors(t, p))
    <2>1. m \in Fors(s, p)
      BY <1>1, <1>3, <1>7 DEF Fors
    <2>2. \A i \in DOMAIN t : For(t[i], p) => m.left > t[i].left
      BY <1>1, <1>3, <1>7 DEF Falling
    <2> QED  BY <2>1, <2>2 DEF Above, Fors
  <1> QED  BY <1>5, <1>6, <1>7, <1>8, <1>9, <1>10 DEF t, m

\* One that is below all of them comes last.
LEMMA AppendFalls ==
    ASSUME NEW s \in Seq(Messages), NEW m \in Messages, NEW p, Falling(s, p),
           For(m, p) => Above(Fors(s, p), {m})
    PROVE  LET t == Append(s, m)
           IN  /\ Falling(t, p)
               /\ For(m, p) => Fors(t, p) = Fors(s, p) \cup {m}
               /\ ~For(m, p) => Fors(t, p) = Fors(s, p)
               /\ Mine(s, p) /\ For(m, p) => Mine(t, p)
  <1> DEFINE t == Append(s, m)
             n == Len(s) + 1
  <1>1. /\ t \in Seq(Messages) /\ Len(t) = n /\ Len(s) \in Nat /\ t[n] = m
        /\ \A i \in 1 .. Len(s) : t[i] = s[i]
    OBVIOUS
  <1>2. DOMAIN s = 1 .. Len(s) /\ DOMAIN t = 1 .. n
    BY <1>1
  <1> HIDE DEF t
  <1>3. n \in DOMAIN t /\ n \notin DOMAIN s /\ \A i \in DOMAIN s : i \in DOMAIN t /\ t[i] = s[i] /\ i < n
    BY <1>1, <1>2
  <1>4. \A i \in DOMAIN t : i = n \/ i \in DOMAIN s
    BY <1>1, <1>2
  <1>5. \A i \in DOMAIN t : ~(n < i)
    BY <1>1, <1>2
  <1> HIDE DEF n
  <1>6. Falling(t, p)
    <2> SUFFICES ASSUME NEW i \in DOMAIN t, NEW j \in DOMAIN t, i < j, For(t[i], p), For(t[j], p)
                 PROVE  t[i].left > t[j].left
      BY DEF Falling
    <2>1. i \in DOMAIN s
      BY <1>4, <1>5
    <2>2. CASE j \in DOMAIN s
      BY <1>3, <2>1, <2>2 DEF Falling
    <2>3. CASE j = n
      <3>1. For(m, p) /\ t[i] = s[i] /\ t[i] \in Fors(s, p)
        BY <1>1, <1>3, <2>1, <2>3 DEF Fors
      <3> QED  BY <1>1, <2>3, <3>1 DEF Above
    <2> QED  BY <1>4, <2>2, <2>3
  <1>7. For(m, p) => Fors(t, p) = Fors(s, p) \cup {m}
    BY <1>1, <1>3, <1>4 DEF Fors
  <1>8. ~For(m, p) => Fors(t, p) = Fors(s, p)
    BY <1>1, <1>3, <1>4 DEF Fors
  <1>9. Mine(s, p) /\ For(m, p) => Mine(t, p)
    BY <1>1, <1>3, <1>4 DEF Mine
  <1> QED  BY <1>6, <1>7, <1>8, <1>9 DEF t

\* What follows when there was none, or none follows.
LEMMA ConcatFalls ==
    ASSUME NEW s \in Seq(Messages), NEW a \in Seq(Messages), NEW p, Falling(s, p), Falling(a, p),
           Fors(s, p) = {} \/ Fors(a, p) = {}
    PROVE  Falling(s \o a, p) /\ Fors(s \o a, p) = Fors(s, p) \cup Fors(a, p)
  <1> DEFINE t == s \o a
             n == Len(s)
  <1>1. /\ t \in Seq(Messages) /\ Len(t) = n + Len(a) /\ n \in Nat /\ Len(a) \in Nat
        /\ \A i \in 1 .. n : t[i] = s[i]
        /\ \A i \in 1 .. Len(a) : t[n + i] = a[i]
    OBVIOUS
  <1>2. DOMAIN s = 1 .. n /\ DOMAIN a = 1 .. Len(a) /\ DOMAIN t = 1 .. n + Len(a)
    BY <1>1
  <1> HIDE DEF t, n
  <1>3. /\ \A i \in DOMAIN s : i \in DOMAIN t /\ t[i] = s[i]
        /\ \A i \in DOMAIN a : n + i \in DOMAIN t /\ t[n + i] = a[i]
    BY <1>1, <1>2
  <1>4. \A i \in DOMAIN t : \/ i \in DOMAIN s /\ t[i] = s[i]
                            \/ i - n \in DOMAIN a /\ t[i] = a[i - n]
    <2>1. TAKE i \in DOMAIN t
    <2>2. CASE i > n
      <3>1. i - n \in 1 .. Len(a) /\ n + (i - n) = i
        BY <1>1, <1>2, <2>2
      <3> QED  BY <1>1, <1>2, <3>1
    <2>3. CASE i <= n
      BY <1>1, <1>2, <2>3
    <2> QED  BY <1>1, <1>2, <2>2, <2>3
  <1>5. Fors(t, p) = Fors(s, p) \cup Fors(a, p)
    <2>1. Fors(t, p) \subseteq Fors(s, p) \cup Fors(a, p)
      BY <1>4 DEF Fors
    <2>2. Fors(s, p) \subseteq Fors(t, p) /\ Fors(a, p) \subseteq Fors(t, p)
      BY <1>3 DEF Fors
    <2> QED  BY <2>1, <2>2
  <1>6. Falling(t, p)
    <2> SUFFICES ASSUME NEW i \in DOMAIN t, NEW j \in DOMAIN t, i < j, For(t[i], p), For(t[j], p)
                 PROVE  t[i].left > t[j].left
      BY DEF Falling
    <2>1. CASE Fors(s, p) = {}
      <3>1. i - n \in DOMAIN a /\ t[i] = a[i - n] /\ j - n \in DOMAIN a /\ t[j] = a[j - n]
        BY <1>4, <2>1 DEF Fors
      <3>2. i - n < j - n
        BY <1>1, <1>2
      <3> QED  BY <3>1, <3>2 DEF Falling
    <2>2. CASE Fors(a, p) = {}
      <3>1. i \in DOMAIN s /\ t[i] = s[i] /\ j \in DOMAIN s /\ t[j] = s[j]
        BY <1>4, <2>2 DEF Fors
      <3> QED  BY <3>1 DEF Falling
    <2> QED  BY <2>1, <2>2
  <1> QED  BY <1>5, <1>6 DEF t

\* The stations.
LEMMA Stations ==
    ASSUME NEW a, NEW b, NEW c, NEW d, NEW e, Ordered(a, b, c, d, e)
    PROVE  /\ \A a2, b2, c2, d2, e2 :
                 a2 \subseteq a /\ b2 \subseteq b /\ c2 \subseteq c /\ d2 \subseteq d /\ e2 \subseteq e
                 => Ordered(a2, b2, c2, d2, e2)
           /\ \A m, b2 : m \in b /\ b2 \subseteq b /\ Above({m}, b2) => Ordered({m}, b2, c, d, e)
           /\ Ordered(a, b \cup c, {}, d, e)
           /\ Ordered(a, b, d, {}, e)
           /\ \A m, e2 : m \in e /\ e2 \subseteq e /\ Above({m}, e2) => Ordered(a, b, c, {m}, e2)
  <1>1. \A a2, b2, c2, d2, e2 :
           a2 \subseteq a /\ b2 \subseteq b /\ c2 \subseteq c /\ d2 \subseteq d /\ e2 \subseteq e
           => Ordered(a2, b2, c2, d2, e2)
    BY DEF Ordered, Above
  <1>2. \A m, b2 : m \in b /\ b2 \subseteq b /\ Above({m}, b2) => Ordered({m}, b2, c, d, e)
    BY DEF Ordered, Above
  <1>3. Ordered(a, b \cup c, {}, d, e)
    BY DEF Ordered, Above
  <1>4. Ordered(a, b, d, {}, e)
    BY DEF Ordered, Above
  <1>5. \A m, e2 : m \in e /\ e2 \subseteq e /\ Above({m}, e2) => Ordered(a, b, c, {m}, e2)
    BY DEF Ordered, Above
  <1> QED  BY <1>1, <1>2, <1>3, <1>4, <1>5

-----------------------------------------------------------------------------
(* The users.                                                              *)

Inside(u) == pc[u] \notin {"out", "lock"}

\* One user of a protocol at a time.
LEMMA Lonely ==
    ASSUME OneGateway, Turns, NEW u \in Users, NEW v \in Users, Proto(u) = Proto(v), Inside(u), Inside(v)
    PROVE  u = v
  <1>1. CASE u \in Gateways
    <2>1. v \in Gateways
      BY <1>1 DEF Proto
    <2> QED  BY <1>1, <2>1 DEF OneGateway
  <1>2. CASE u \notin Gateways
    <2>1. u \in Clients /\ v \in Clients
      BY <1>2 DEF Proto, Clients
    <2> QED  BY <2>1 DEF Turns, Inside
  <1> QED  BY <1>1, <1>2

\* What a user holds when it is in the middle of its call.
LEMMA Holds ==
    ASSUME OneGateway, Turns, NEW u \in Users, NEW p, Proto(u) = p, Inside(u)
    PROVE  /\ pc[u] = "process" => Held(p) = {hold[u]}
           /\ pc[u] # "process" => Held(p) = {}
           /\ pc[u] = "put" => Put(p) = {hold[u]}
           /\ pc[u] # "put" => Put(p) = {}
  <1>1. \A v \in Users : Proto(v) = p /\ pc[v] \in {"process", "put"} => v = u
    BY Lonely DEF Inside
  <1> QED  BY <1>1 DEF Held, Put

\* What the users of p hold after a step of u.
LEMMA HoldsNext ==
    ASSUME UserType, NEW u \in Users, NEW l \in Places, NEW m, Goto(u, l),
           hold' = [hold EXCEPT ![u] = m], NEW p
    PROVE  /\ Proto(u) # p \/ {l, pc[u]} \cap {"put", "process"} = {}
                => Held(p)' = Held(p) /\ Put(p)' = Put(p)
           /\ OneGateway /\ Turns /\ Proto(u) = p /\ Inside(u)
                => /\ Held(p)' = IF l = "process" THEN {m} ELSE {}
                   /\ Put(p)' = IF l = "put" THEN {m} ELSE {}
  <1>1. /\ pc'[u] = l /\ hold'[u] = m
        /\ \A v \in Users : v # u => pc'[v] = pc[v] /\ hold'[v] = hold[v]
    BY DEF UserType, Goto
  <1>2. ASSUME Proto(u) # p \/ {l, pc[u]} \cap {"put", "process"} = {}
        PROVE  Held(p)' = Held(p) /\ Put(p)' = Put(p)
    <2>1. \A v \in Users : Proto(v) = p /\ (pc[v] \in {"put", "process"} \/ pc'[v] \in {"put", "process"})
             => v # u
      BY <1>1, <1>2
    <2>2. /\ {v \in Users : Proto(v) = p /\ pc'[v] = "process"} = {v \in Users : Proto(v) = p /\ pc[v] = "process"}
          /\ {v \in Users : Proto(v) = p /\ pc'[v] = "put"} = {v \in Users : Proto(v) = p /\ pc[v] = "put"}
          /\ \A v \in Users : Proto(v) = p /\ pc[v] \in {"put", "process"} => hold'[v] = hold[v]
      BY <1>1, <2>1
    <2>3. Held(p)' = Held(p)
      BY <2>2 DEF Held, Proto
    <2>4. Put(p)' = Put(p)
      BY <2>2 DEF Put, Proto
    <2> QED  BY <2>3, <2>4
  <1>3. ASSUME OneGateway, Turns, Proto(u) = p, Inside(u)
        PROVE  /\ Held(p)' = IF l = "process" THEN {m} ELSE {}
               /\ Put(p)' = IF l = "put" THEN {m} ELSE {}
    <2>1. \A v \in Users : Proto(v) = p /\ pc'[v] \in {"process", "put"} => v = u
      BY <1>1, <1>3, Lonely DEF Inside
    <2> QED  BY <1>1, <1>3, <2>1 DEF Held, Put, Proto
  <1> QED  BY <1>2, <1>3

\* Who asks goes on with the same request.
Asks(p) == \A v \in Users : Proto(v) = p /\ pc[v] \in Asking =>
               /\ pc'[v] \in Asking /\ Req(v)' = Req(v) /\ call'[v].kind = call[v].kind
               /\ call'[v].stage = call[v].stage /\ call'[v].acked = call[v].acked

LEMMA OwnKeeps ==
    ASSUME NEW p, NEW m, Own(p, m), Asks(p)
    PROVE  Own(p, m)'
  <1>1. PICK v \in Users : /\ Proto(v) = p /\ pc[v] \in Asking /\ m.req = Req(v) /\ m.kind = call[v].kind
                           /\ Confirmable => call[v].acked = call[v].stage
    BY DEF Own
  <1>2. /\ pc'[v] \in Asking /\ Req(v)' = Req(v) /\ call'[v].kind = call[v].kind
        /\ call'[v].stage = call[v].stage /\ call'[v].acked = call[v].acked
    BY <1>1 DEF Asks
  <1> QED  BY <1>1, <1>2 DEF Own, Proto

\* Whose message it is.
LEMMA OwnIs ==
    ASSUME OneGateway, Turns, NEW u \in Users, NEW p, Proto(u) = p, Inside(u), NEW m, Own(p, m)
    PROVE  /\ pc[u] \in Asking /\ m.req = Req(u) /\ m.kind = call[u].kind
           /\ Confirmable => call[u].acked = call[u].stage
  <1>1. PICK v \in Users : /\ Proto(v) = p /\ pc[v] \in Asking /\ m.req = Req(v) /\ m.kind = call[v].kind
                           /\ Confirmable => call[v].acked = call[v].stage
    BY DEF Own
  <1>2. v = u
    BY <1>1, Lonely DEF Inside, Asking
  <1> QED  BY <1>1, <1>2

LEMMA AsksNext ==
    ASSUME UserType, NEW u \in Users, NEW l \in Places, NEW c, Goto(u, l),
           call' = [call EXCEPT ![u] = c], NEW p,
           \/ Proto(u) # p
           \/ pc[u] \notin Asking
           \/ /\ l \in Asking /\ c.n = call[u].n /\ c.stage = call[u].stage /\ c.kind = call[u].kind
              /\ c.acked = call[u].acked
    PROVE  Asks(p)
  <1>1. /\ pc'[u] = l /\ call'[u] = c
        /\ \A v \in Users : v # u => pc'[v] = pc[v] /\ call'[v] = call[v]
    BY DEF UserType, Goto
  <1> SUFFICES ASSUME NEW v \in Users, Proto(v) = p, pc[v] \in Asking
               PROVE  /\ pc'[v] \in Asking /\ Req(v)' = Req(v) /\ call'[v].kind = call[v].kind
                      /\ call'[v].stage = call[v].stage /\ call'[v].acked = call[v].acked
    BY DEF Asks
  <1>2. CASE v = u
    BY <1>1, <1>2 DEF Req
  <1>3. CASE v # u
    BY <1>1, <1>3 DEF Req
  <1> QED  BY <1>2, <1>3

\* A step that brings no new message.
LEMMA DialogueFrom ==
    ASSUME NEW p, Dialogue(p), Asks(p), One(send_queued, p)',
           Alone(Put(p), Of(send_queued, p), Write(p), Out(p))',
           Requested(p)' \subseteq Requested(p), Answered(p)' \subseteq Answered(p), InOrder(p)'
    PROVE  Dialogue(p)'
  <1>1. \A m \in Requested(p)' : Own(p, m)' /\ m.proto = p
    BY OwnKeeps DEF Dialogue
  <1>2. \A m \in Answered(p)' : Own(p, m)' /\ Fits(m)
    BY OwnKeeps DEF Dialogue
  <1>3. OneRequest(p)'
    BY DEF OneRequest, Dialogue
  <1> QED  BY <1>1, <1>2, <1>3 DEF Dialogue, Fits

-----------------------------------------------------------------------------
(* The steps.                                                              *)

Idles == /\ UNCHANGED <<recv_pool, send_queued, slave>>
         /\ h.pc \in {"dispatch", "write"} \/ h'.pc \in {"dispatch", "write"} => h' = h

\* The messages that nobody touches stay where they are.
LEMMA PartsSame ==
    ASSUME NEW p
    PROVE  /\ recv_pool'[p] = recv_pool[p] => Pool(p)' = Pool(p)
           /\ h'.pc = "dispatch" /\ h.pc # "dispatch" => Hand(p) = {}
           /\ h'.pc # "dispatch" => Hand(p)' = {}
           /\ h'.pc # "write" => Write(p)' = {}
           /\ h.pc # "dispatch" => Hand(p) = {}
           /\ h.pc # "write" => Write(p) = {}
           /\ h' = h => Hand(p)' = Hand(p) /\ Write(p)' = Write(p)
           /\ slave' = slave => Box(p)' = Box(p) /\ Todo(p)' = Todo(p) /\ Out(p)' = Out(p)
           /\ slave'.in = slave.in => Box(p)' = Box(p)
           /\ slave'.todo = slave.todo => Todo(p)' = Todo(p)
           /\ slave'.out = slave.out => Out(p)' = Out(p)
  BY DEF Pool, Hand, Write, Box, Todo, Out

LEMMA Rests ==
    ASSUME NEW p, Dialogue(p), Asks(p), Idles, Held(p)' = Held(p), Put(p)' = Put(p)
    PROVE  Dialogue(p)'
  <1>1. /\ Pool(p)' = Pool(p) /\ Hand(p)' = Hand(p) /\ Write(p)' = Write(p)
        /\ Box(p)' = Box(p) /\ Todo(p)' = Todo(p) /\ Out(p)' = Out(p)
    BY PartsSame DEF Idles
  <1>2. send_queued' = send_queued /\ recv_pool'[p] = recv_pool[p] /\ slave' = slave
    BY DEF Idles
  <1>3. InOrder(p)'
    BY <1>1, <1>2 DEF InOrder, Dialogue
  <1>4. One(send_queued, p)' /\ Alone(Put(p), Of(send_queued, p), Write(p), Out(p))'
    BY <1>1, <1>2 DEF OneRequest, Dialogue
  <1>5. Requested(p)' = Requested(p) /\ Answered(p)' = Answered(p)
    BY <1>1, <1>2 DEF Requested, Answered
  <1> QED  BY <1>3, <1>4, <1>5, DialogueFrom

\* A user that goes where it holds nothing new.
LEMMA Walks ==
    ASSUME UserType, NEW u \in Users, NEW l \in Places, NEW c, Goto(u, l),
           call' = [call EXCEPT ![u] = c], UNCHANGED <<hold, h, recv_pool, send_queued, slave>>,
           {l, pc[u]} \cap {"put", "process"} = {},
           \/ pc[u] \notin Asking
           \/ /\ l \in Asking /\ c.n = call[u].n /\ c.stage = call[u].stage /\ c.kind = call[u].kind
              /\ c.acked = call[u].acked,
           NEW p, Dialogue(p)
    PROVE  Dialogue(p)'
  <1>1. Asks(p)
    BY AsksNext
  <1>2. Held(p)' = Held(p) /\ Put(p)' = Put(p)
    <2>1. pc'[u] = l /\ \A v \in Users : v # u => pc'[v] = pc[v]
      BY DEF UserType, Goto
    <2>2. \A v \in Users : \A x \in {"put", "process"} : pc'[v] = x <=> pc[v] = x
      BY <2>1
    <2> QED  BY <2>2 DEF Held, Put, Proto
  <1>3. Idles
    BY DEF Idles
  <1> QED  BY <1>1, <1>2, <1>3, Rests

\* No message at all.
LEMMA Silent ==
    ASSUME NEW p, Requested(p)' = {}, Answered(p)' = {}, Mine(recv_pool[p], p)'
    PROVE  Dialogue(p)'
  <1>1. /\ Put(p)' = {} /\ Of(send_queued, p)' = {} /\ Write(p)' = {} /\ Out(p)' = {}
        /\ Held(p)' = {} /\ Pool(p)' = {} /\ Hand(p)' = {} /\ Box(p)' = {} /\ Todo(p)' = {}
    BY DEF Requested, Answered
  <1>2. One(send_queued, p)'
    BY <1>1 DEF One, Of
  <1>3. Falling(recv_pool[p], p)'
    BY <1>1 DEF Falling, Pool, Fors
  <1>4. Falling(slave.todo, p)'
    BY <1>1 DEF Falling, Todo, Fors
  <1>5. Ordered(Held(p), Pool(p), Hand(p), Box(p), Todo(p))'
    BY <1>1 DEF Ordered, Above
  <1>6. Alone(Put(p), Of(send_queued, p), Write(p), Out(p))'
    BY <1>1 DEF Alone
  <1> QED  BY <1>2, <1>3, <1>4, <1>5, <1>6 DEF Dialogue, OneRequest, InOrder

\* Before a user fills its buffer there is no message for its protocol.
LEMMA Nothing ==
    ASSUME OneGateway, Turns, NEW u \in Users, NEW p, Proto(u) = p, Inside(u), pc[u] \notin Asking,
           Dialogue(p)
    PROVE  Requested(p) = {} /\ Answered(p) = {}
  <1>1. \A m \in Requested(p) \cup Answered(p) : Own(p, m)
    BY DEF Dialogue
  <1>2. \A m : ~Own(p, m)
    BY OwnIs
  <1> QED  BY <1>1, <1>2

LEMMA GetDialogue ==
    ASSUME OneGateway, UserType, Turns, NEW u \in Users, pc[u] = "get",
           NEW c, Goto(u, "put"), call' = [call EXCEPT ![u] = c],
           c.n = call[u].n, c.stage = call[u].stage, c.kind = call[u].kind,
           Confirmable => c.acked = c.stage,
           NEW m, hold' = [hold EXCEPT ![u] = m],
           m.req = Req(u), m.kind = call[u].kind, m.proto = Proto(u),
           UNCHANGED <<h, recv_pool, send_queued, slave>>, NEW p, Dialogue(p)
    PROVE  Dialogue(p)'
  <1>1. "put" \in Places /\ "put" \in Asking /\ "get" \notin Asking
    BY DEF Places, Asking
  <1>2. CASE Proto(u) # p
    <2>1. Asks(p)
      BY <1>1, <1>2, AsksNext
    <2>2. Held(p)' = Held(p) /\ Put(p)' = Put(p)
      BY <1>1, <1>2, HoldsNext
    <2> QED  BY <2>1, <2>2, Rests DEF Idles
  <1>3. CASE Proto(u) = p
    <2>1. Inside(u) /\ Requested(p) = {} /\ Answered(p) = {}
      BY <1>1, <1>3, Nothing DEF Inside
    <2>2. Held(p)' = {} /\ Put(p)' = {m}
      BY <1>1, <1>3, <2>1, HoldsNext
    <2>3. /\ Of(send_queued, p)' = {} /\ Write(p)' = {} /\ Out(p)' = {}
          /\ Pool(p)' = {} /\ Hand(p)' = {} /\ Box(p)' = {} /\ Todo(p)' = {}
      BY <2>1, PartsSame DEF Requested, Answered
    <2>4. Requested(p)' = {m} /\ Answered(p)' = {}
      BY <2>2, <2>3 DEF Requested, Answered
    <2>5. pc'[u] = "put" /\ call'[u] = c
      BY DEF UserType, Goto
    <2>6. Req(u)' = Req(u) /\ call'[u].kind = call[u].kind
      BY <2>5 DEF Req
    <2>7. Own(p, m)'
      BY <1>1, <1>3, <2>5, <2>6 DEF Own, Proto
    <2>8. One(send_queued, p)' /\ InOrder(p)'
      <3>1. One(send_queued, p) /\ InOrder(p)
        BY DEF Dialogue, OneRequest
      <3>2. Ordered(Held(p), Pool(p), Hand(p), Box(p), Todo(p))'
        BY <2>2, <2>3 DEF Ordered, Above
      <3> QED  BY <3>1, <3>2 DEF InOrder
    <2>9. OneRequest(p)'
      BY <2>2, <2>3, <2>4, <2>8 DEF OneRequest, Alone
    <2> QED  BY <1>3, <2>4, <2>7, <2>8, <2>9 DEF Dialogue
  <1> QED  BY <1>2, <1>3

LEMMA EnqueueDialogue ==
    ASSUME OneGateway, Inv, Turns, NEW u \in Users, Enqueue(u), NEW p, Dialogue(p), Dialogue(Proto(u))
    PROVE  Dialogue(p)'
  <1>1. /\ pc[u] = "put" /\ Goto(u, "post") /\ send_queued' = <<hold[u]>> \o send_queued
        /\ hold' = [hold EXCEPT ![u] = NULL] /\ UNCHANGED <<h, recv_pool, slave, call>>
    BY DEF Enqueue, PutHead, hvars
  <1>2. UserType /\ hold[u] \in Messages /\ send_queued \in Seq(Messages)
        /\ call' = [call EXCEPT ![u] = call[u]]
    BY <1>1 DEF Inv, TypeOK, UserType, UserControl, Control
  <1>3. "post" \in Places /\ "post" \in Asking /\ Inside(u)
    BY <1>1 DEF Places, Asking, Inside
  <1>4. Asks(p)
    BY <1>1, <1>2, <1>3, AsksNext
  <1>5. Put(Proto(u)) = {hold[u]}
    BY <1>1, <1>3, Holds
  <1>6. hold[u].proto = Proto(u)
    BY <1>5 DEF Dialogue, Requested
  <1>7. /\ Pool(p)' = Pool(p) /\ Hand(p)' = Hand(p) /\ Write(p)' = Write(p)
        /\ Box(p)' = Box(p) /\ Todo(p)' = Todo(p) /\ Out(p)' = Out(p)
    BY <1>1, PartsSame
  <1>8. One(send_queued, p) /\ InOrder(p) /\ Alone(Put(p), Of(send_queued, p), Write(p), Out(p))
    BY DEF Dialogue, OneRequest
  <1>9. CASE Proto(u) # p
    <2>1. Held(p)' = Held(p) /\ Put(p)' = Put(p)
      BY <1>1, <1>2, <1>3, <1>9, HoldsNext
    <2>2. Of(send_queued, p)' = Of(send_queued, p) /\ One(send_queued, p)'
      BY <1>1, <1>2, <1>6, <1>8, <1>9, ConsIs
    <2>3. InOrder(p)'
      BY <1>1, <1>7, <1>8, <2>1 DEF InOrder
    <2>4. Requested(p)' = Requested(p) /\ Answered(p)' = Answered(p)
      BY <1>7, <2>1, <2>2 DEF Requested, Answered
    <2>5. Alone(Put(p), Of(send_queued, p), Write(p), Out(p))'
      BY <1>7, <1>8, <2>1, <2>2
    <2> QED  BY <1>4, <2>2, <2>3, <2>4, <2>5, DialogueFrom
  <1>10. CASE Proto(u) = p
    <2>1. Held(p)' = {} /\ Put(p)' = {} /\ Held(p) = {} /\ Put(p) = {hold[u]}
      BY <1>1, <1>2, <1>3, <1>5, <1>10, HoldsNext, Holds
    <2>2. Of(send_queued, p) = {} /\ Write(p) = {} /\ Out(p) = {}
      BY <1>8, <2>1 DEF Alone
    <2>3. Of(send_queued, p)' = {hold[u]} /\ One(send_queued, p)'
      BY <1>1, <1>2, <1>6, <1>8, <1>10, <2>2, ConsIs
    <2>4. InOrder(p)'
      BY <1>1, <1>7, <1>8, <2>1 DEF InOrder
    <2>5. Requested(p)' \subseteq Requested(p) /\ Answered(p)' = Answered(p)
      BY <1>7, <2>1, <2>2, <2>3 DEF Requested, Answered
    <2>6. Alone(Put(p), Of(send_queued, p), Write(p), Out(p))'
      BY <1>7, <2>1, <2>2, <2>3 DEF Alone
    <2> QED  BY <1>4, <2>3, <2>4, <2>5, <2>6, DialogueFrom
  <1> QED  BY <1>9, <1>10

LEMMA ReceiveDialogue ==
    ASSUME OneGateway, Inv, Turns, NEW u \in Users, Receive(u), NEW p \in {"coe", "gw"}, Dialogue(p)
    PROVE  Dialogue(p)'
  <1> DEFINE s == recv_pool[Proto(u)]
  <1>1. /\ pc[u] = "wait" /\ Goto(u, "process") /\ s # <<>>
        /\ hold' = [hold EXCEPT ![u] = Head(s)] /\ UNCHANGED <<h, send_queued, slave, call>>
        /\ recv_pool' = [recv_pool EXCEPT ![Proto(u)] = Tail(s)]
    BY DEF Receive, hvars
  <1>2. /\ UserType /\ call' = [call EXCEPT ![u] = call[u]]
        /\ recv_pool \in [{"coe", "gw"} -> Seq(Messages)] /\ Proto(u) \in {"coe", "gw"}
    BY <1>1 DEF Inv, TypeOK, UserType, Proto
  <1>3. "process" \in Places /\ "process" \in Asking /\ Inside(u)
    BY <1>1 DEF Places, Asking, Inside
  <1>4. Asks(p)
    BY <1>1, <1>2, <1>3, AsksNext
  <1>5. /\ Hand(p)' = Hand(p) /\ Write(p)' = Write(p)
        /\ Box(p)' = Box(p) /\ Todo(p)' = Todo(p) /\ Out(p)' = Out(p)
    BY <1>1, PartsSame
  <1>6. One(send_queued, p) /\ InOrder(p) /\ Alone(Put(p), Of(send_queued, p), Write(p), Out(p))
    BY DEF Dialogue, OneRequest
  <1>7. CASE Proto(u) # p
    <2>1. Held(p)' = Held(p) /\ Put(p)' = Put(p)
      BY <1>1, <1>2, <1>3, <1>7, HoldsNext
    <2>2. recv_pool'[p] = recv_pool[p]
      BY <1>1, <1>2, <1>7
    <2>4. Pool(p)' = Pool(p)
      BY <2>2, PartsSame
    <2>5. InOrder(p)'
      BY <1>1, <1>5, <1>6, <2>1, <2>2, <2>4 DEF InOrder
    <2>6. Requested(p)' = Requested(p) /\ Answered(p)' = Answered(p)
      BY <1>1, <1>5, <2>1, <2>4 DEF Requested, Answered
    <2>7. One(send_queued, p)' /\ Alone(Put(p), Of(send_queued, p), Write(p), Out(p))'
      BY <1>1, <1>5, <1>6, <2>1
    <2> QED  BY <1>4, <2>5, <2>6, <2>7, DialogueFrom
  <1>8. CASE Proto(u) = p
    <2> DEFINE m == Head(s)
               t == Tail(s)
    <2>1. s \in Seq(Messages) /\ s # <<>> /\ s = recv_pool[p]
      BY <1>1, <1>2, <1>8
    <2>2. Mine(s, p) /\ Falling(s, p)
      BY <1>6, <2>1 DEF InOrder
    <2> HIDE DEF s
    <2>3. /\ Falling(t, p) /\ Mine(t, p) /\ Fors(t, p) \subseteq Fors(s, p) /\ For(m, p)
          /\ m \in Fors(s, p) /\ Above({m}, Fors(t, p))
      BY <2>1, <2>2, TailFalls
    <2>4. recv_pool'[p] = t /\ Pool(p) = Fors(s, p) /\ Pool(p)' = Fors(t, p)
      <3>1. recv_pool'[p] = t
        BY <1>1, <1>2, <1>8
      <3> QED  BY <2>1, <3>1 DEF Pool
    <2>5. Held(p)' = {m} /\ Put(p)' = {} /\ Held(p) = {} /\ Put(p) = {}
      BY <1>1, <1>2, <1>3, <1>8, HoldsNext, Holds, ZenonT(60)
    <2> HIDE DEF m, t
    <2>6. Ordered(Held(p), Pool(p), Hand(p), Box(p), Todo(p))'
      <3>1. Ordered(Held(p), Fors(s, p), Hand(p), Box(p), Todo(p))
        BY <1>6, <2>4 DEF InOrder
      <3>2. Ordered({m}, Fors(t, p), Hand(p), Box(p), Todo(p))
        BY <2>3, <3>1, Stations
      <3> QED  BY <1>5, <2>4, <2>5, <3>2
    <2>7. InOrder(p)'
      <3>1. Falling(slave.todo, p)'
        BY <1>1, <1>6 DEF InOrder
      <3> QED  BY <2>3, <2>4, <2>6, <3>1 DEF InOrder
    <2>8. Requested(p)' = Requested(p)
      BY <1>1, <1>5, <2>5 DEF Requested
    <2>9. Answered(p)' \subseteq Answered(p)
      <3>1. Held(p)' \subseteq Pool(p) /\ Pool(p)' \subseteq Pool(p)
        BY <2>3, <2>4, <2>5
      <3> QED  BY <1>5, <3>1 DEF Answered
    <2>10. One(send_queued, p)' /\ Alone(Put(p), Of(send_queued, p), Write(p), Out(p))'
      BY <1>1, <1>5, <1>6, <2>5
    <2> QED  BY <1>4, <2>7, <2>8, <2>9, <2>10, DialogueFrom
  <1> QED  BY <1>7, <1>8

\* Behind the last answer there is none.
LEMMA LastAnswer ==
    ASSUME OneGateway, Inv, Turns, NEW u \in Users, NEW p \in {"coe", "gw"}, Proto(u) = p,
           pc[u] = "process", Dialogue(p), hold[u].left = 0
    PROVE  /\ Requested(p) = {} /\ Answered(p) = {hold[u]}
           /\ Pool(p) = {} /\ Hand(p) = {} /\ Box(p) = {} /\ Todo(p) = {}
  <1>1. Inside(u)
    BY DEF Inside
  <1>2. Held(p) = {hold[u]}
    BY <1>1, Holds
  <1>3. Requested(p) = {}
    BY <1>2 DEF Dialogue, OneRequest, Answered
  <1> DEFINE rest == Pool(p) \cup Hand(p) \cup Box(p) \cup Todo(p)
  <1>4. \A y \in rest : y.left \in Nat
    <2>1. /\ recv_pool[p] \in Seq(Messages) /\ slave.todo \in Seq(Messages)
          /\ slave.in \in Messages \cup {NULL}
      BY DEF Inv, TypeOK
    <2>2. h.pc = "dispatch" => h.msg \in Messages
      BY DEF Inv, HandlerControl
    <2>3. \A s \in Seq(Messages) : \A i \in DOMAIN s : s[i] \in Messages
      OBVIOUS
    <2>4. Pool(p) \subseteq Messages /\ Todo(p) \subseteq Messages
      BY <2>1, <2>3 DEF Pool, Todo, Fors
    <2>5. Hand(p) \subseteq Messages /\ Box(p) \subseteq Messages
      BY <2>1, <2>2 DEF Hand, Box
    <2>6. \A y \in Messages : y.left \in Nat
      BY DEF Messages
    <2> QED  BY <2>4, <2>5, <2>6
  <1>5. Above({hold[u]}, rest)
    BY <1>2 DEF Dialogue, InOrder, Ordered
  <1>6. rest = {}
    <2>1. \A y \in rest : 0 > y.left
      BY <1>5 DEF Above
    <2> HIDE DEF rest
    <2> QED  BY <1>4, <2>1
  <1> QED  BY <1>2, <1>3, <1>6 DEF Answered

\* What u has is the answer to its request.
LEMMA HeldFits ==
    ASSUME OneGateway, Turns, NEW u \in Users, pc[u] = "process", Dialogue(Proto(u))
    PROVE  /\ hold[u].req = Req(u) /\ hold[u].kind = call[u].kind /\ Fits(hold[u])
           /\ Confirmable => call[u].acked = call[u].stage
  <1>1. Inside(u)
    BY DEF Inside
  <1>2. hold[u] \in Answered(Proto(u))
    BY <1>1, Holds DEF Answered
  <1> QED  BY <1>1, <1>2, OwnIs DEF Dialogue

\* A user gives an answer back, and leaves its request behind only with the last one.
LEMMA ProcessDialogue ==
    ASSUME OneGateway, Inv, Turns, NEW u \in Users, pc[u] = "process",
           NEW l \in {"sched", "get", "unlock"}, NEW c, Goto(u, l), call' = [call EXCEPT ![u] = c],
           hold' = [hold EXCEPT ![u] = NULL], UNCHANGED <<h, recv_pool, send_queued, slave>>,
           \/ hold[u].left = 0
           \/ /\ l = "sched" /\ c.n = call[u].n /\ c.stage = call[u].stage /\ c.kind = call[u].kind
              /\ c.acked = call[u].acked,
           NEW p \in {"coe", "gw"}, Dialogue(p)
    PROVE  Dialogue(p)'
  <1>1. UserType /\ l \in Places /\ Inside(u) /\ "sched" \in Asking
    BY DEF Inv, TypeOK, UserType, Places, Inside, Asking
  <1>2. /\ Pool(p)' = Pool(p) /\ Hand(p)' = Hand(p) /\ Write(p)' = Write(p)
        /\ Box(p)' = Box(p) /\ Todo(p)' = Todo(p) /\ Out(p)' = Out(p)
    BY PartsSame
  <1>3. CASE Proto(u) # p
    <2>1. Asks(p)
      BY <1>1, <1>3, AsksNext
    <2>2. Held(p)' = Held(p) /\ Put(p)' = Put(p)
      BY <1>1, <1>3, HoldsNext
    <2> QED  BY <2>1, <2>2, Rests DEF Idles
  <1>4. CASE Proto(u) = p
    <2>1. Held(p)' = {} /\ Put(p)' = {} /\ Held(p) = {hold[u]} /\ Put(p) = {}
      BY <1>1, <1>4, HoldsNext, Holds
    <2>2. CASE hold[u].left # 0
      <3>1. Asks(p)
        BY <1>1, <2>2, AsksNext
      <3>2. Requested(p)' = Requested(p) /\ Answered(p)' \subseteq Answered(p)
        BY <1>2, <2>1 DEF Requested, Answered
      <3>3. One(send_queued, p)' /\ Alone(Put(p), Of(send_queued, p), Write(p), Out(p))'
        BY <1>2, <2>1 DEF Dialogue, OneRequest
      <3>4. InOrder(p)'
        <4>1. InOrder(p) /\ {} \subseteq Held(p)
          BY DEF Dialogue
        <4>2. Ordered({}, Pool(p), Hand(p), Box(p), Todo(p))
          BY <4>1, Stations DEF InOrder
        <4> QED  BY <1>2, <2>1, <4>1, <4>2 DEF InOrder
      <3> QED  BY <3>1, <3>2, <3>3, <3>4, DialogueFrom
    <2>3. CASE hold[u].left = 0
      <3>1. /\ Requested(p) = {} /\ Pool(p) = {} /\ Hand(p) = {} /\ Box(p) = {} /\ Todo(p) = {}
        BY <1>4, <2>3, LastAnswer
      <3>2. Requested(p)' = {} /\ Answered(p)' = {}
        BY <1>2, <2>1, <3>1 DEF Requested, Answered
      <3>3. Mine(recv_pool[p], p)'
        BY DEF Dialogue, InOrder
      <3> QED  BY <3>2, <3>3, Silent
    <2> QED  BY <2>2, <2>3
  <1> QED  BY <1>3, <1>4


\* A client inside has the lock, and a gateway passes on what is not its own.
LEMMA TurnsNext ==
    ASSUME UserType, Turns, NEW u \in Users, NEW l, NEW c, Goto(u, l), call' = [call EXCEPT ![u] = c],
           u \in Clients /\ l \notin {"out", "lock"} => coe_lock' = u,
           \A v \in Clients : v # u /\ Inside(v) => coe_lock' = v,
           u \in Gateways /\ l # "out" => c.kind = "gateway"
    PROVE  Turns'
  <1>1. /\ pc'[u] = l /\ call'[u] = c
        /\ \A v \in Users : v # u => pc'[v] = pc[v] /\ call'[v] = call[v]
    BY DEF UserType, Goto
  <1>2. Clients \subseteq Users /\ Gateways \subseteq Users
    BY CoEAssumption DEF Clients
  <1>3. \A v \in Clients : pc'[v] \notin {"out", "lock"} => coe_lock' = v
    BY <1>1, <1>2 DEF Inside
  <1>4. \A v \in Gateways : pc'[v] # "out" => call'[v].kind = "gateway"
    BY <1>1, <1>2 DEF Turns
  <1> QED  BY <1>3, <1>4 DEF Turns, Clients

\* So do they when the user goes on inside its call.
LEMMA TurnsKept ==
    ASSUME UserType, Turns, NEW u \in Users, NEW l, NEW c, Goto(u, l), call' = [call EXCEPT ![u] = c],
           coe_lock' = coe_lock, Inside(u), c.kind = call[u].kind
    PROVE  Turns'
  <1>1. u \in Clients => coe_lock = u
    BY DEF Turns, Inside
  <1>2. \A v \in Clients : Inside(v) => coe_lock = v
    BY DEF Turns, Inside
  <1>3. u \in Gateways => c.kind = "gateway"
    BY DEF Turns, Inside
  <1> QED  BY <1>1, <1>2, <1>3, TurnsNext

\* The other accounts stay as they are.
LEMMA AccountsNext ==
    ASSUME UserType, NEW u \in Users, NEW l, NEW c, Goto(u, l), call' = [call EXCEPT ![u] = c],
           Accounts, Account(u, l, c)
    PROVE  Accounts'
  <1>1. /\ pc'[u] = l /\ call'[u] = c
        /\ \A v \in Users : v # u => pc'[v] = pc[v] /\ call'[v] = call[v]
    BY DEF UserType, Goto
  <1>2. \A v \in Users : Account(v, pc'[v], call'[v])
    BY <1>1 DEF Accounts
  <1> QED  BY <1>2 DEF Accounts, Account, Clients

\* A step of a user that none of the messages notice.
LEMMA WalksOwn ==
    ASSUME Inv, OwnInv, NEW u \in Users, NEW l \in Places, NEW c, Goto(u, l),
           call' = [call EXCEPT ![u] = c], UNCHANGED <<hold, h, recv_pool, send_queued, slave, timeouts>>,
           {l, pc[u]} \cap {"put", "process"} = {},
           \/ pc[u] \notin Asking
           \/ /\ l \in Asking /\ c.n = call[u].n /\ c.stage = call[u].stage /\ c.kind = call[u].kind
              /\ c.acked = call[u].acked,
           Turns', Accounts => Account(u, l, c)
    PROVE  OwnInv'
  <1>1. UserType
    BY DEF Inv, TypeOK, UserType
  <1>2. timeouts = 0 => \A p \in {"coe", "gw"} : Dialogue(p)'
    BY <1>1, Walks DEF OwnInv
  <1>3. timeouts = 0 /\ Confirmable => Accounts'
    BY <1>1, AccountsNext DEF OwnInv
  <1> QED  BY <1>2, <1>3 DEF OwnInv

LEMMA StartOwn ==
    ASSUME Inv, OwnInv, NEW u \in Users, Start(u)
    PROVE  OwnInv'
  <1>1. PICK k \in IF u \in Gateways THEN {"gateway"} ELSE Kinds, s \in BOOLEAN :
            call' = [call EXCEPT ![u] = NewCall(call[u].n + 1, k, s)]
    BY CoEAssumption DEF Start
  <1> DEFINE l == IF u \in Gateways THEN "get" ELSE "lock"
             c == NewCall(call[u].n + 1, k, s)
  <1>2. /\ pc[u] = "out" /\ Goto(u, l) /\ coe_lock' = coe_lock
        /\ UNCHANGED <<hold, h, recv_pool, send_queued, slave, timeouts>>
    BY DEF Start, mvars, pools
  <1>3. UserType /\ Turns
    BY DEF Inv, TypeOK, UserType, OwnInv
  <1>4. /\ l \in Places /\ {l, pc[u]} \cap {"put", "process"} = {} /\ pc[u] \notin Asking
        /\ u \in Clients => l = "lock"
    BY <1>2 DEF Places, Asking, Clients
  <1>5. u \in Gateways => c.kind = "gateway"
    BY <1>1 DEF NewCall
  <1>6. \A v \in Clients : Inside(v) => coe_lock' = v
    BY <1>2, <1>3 DEF Turns, Inside
  <1>8. Account(u, l, c)
    BY CoEAssumption DEF NewCall, Account
  <1> HIDE DEF l, c
  <1>7. Turns'
    BY <1>1, <1>2, <1>3, <1>4, <1>5, <1>6, TurnsNext DEF c
  <1> QED  BY <1>1, <1>2, <1>4, <1>7, <1>8, WalksOwn DEF c

LEMMA LockOwn ==
    ASSUME Inv, OwnInv, NEW u \in Users, Lock(u)
    PROVE  OwnInv'
  <1>1. /\ pc[u] = "lock" /\ coe_lock = NULL /\ coe_lock' = u /\ Goto(u, "get")
        /\ UNCHANGED <<hold, h, recv_pool, send_queued, slave, timeouts>>
        /\ call' = [call EXCEPT ![u] = call[u]]
    BY UserFacts DEF Lock, hvars, pools
  <1>2. UserType /\ Turns /\ u \notin Gateways
    BY <1>1, UserFacts DEF Inv, TypeOK, UserType, OwnInv, Control, Clients
  <1>3. \A v \in Clients : ~Inside(v)
    BY <1>1, <1>2, MailboxAssumption DEF Turns, Inside, Clients
  <1>4. Turns'
    BY <1>1, <1>2, <1>3, TurnsNext
  <1>5. Accounts => Account(u, "get", call[u])
    BY <1>1 DEF Accounts, Account
  <1> QED  BY <1>1, <1>4, <1>5, WalksOwn DEF Places, Asking

LEMMA WalkOwn ==
    ASSUME Inv, OwnInv, NEW u \in Users, PostSend(u) \/ SchedRead(u) \/ WaitAgain(u)
    PROVE  OwnInv'
  <1> DEFINE l == CASE pc[u] = "post"   -> IF u \in Gateways THEN "wait" ELSE "sched"
                    [] pc[u] = "sched"  -> "wait"
                    [] pc[u] = "wait"   -> "sched"
  <1>1. /\ pc[u] \in {"post", "sched", "wait"} /\ Goto(u, l) /\ coe_lock' = coe_lock
        /\ UNCHANGED <<hold, h, recv_pool, send_queued, slave, timeouts, call>>
    BY DEF PostSend, SchedRead, WaitAgain, mvars, hvars, pools
  <1>2. /\ l \in Places /\ {l, pc[u]} \cap {"put", "process"} = {} /\ l \in Asking /\ Inside(u)
        /\ call' = [call EXCEPT ![u] = call[u]]
    BY <1>1, UserFacts DEF Places, Asking, Inside
  <1>3. UserType /\ Turns
    BY DEF Inv, TypeOK, UserType, OwnInv
  <1>5. Accounts => Account(u, l, call[u])
    BY <1>1 DEF Accounts, Account
  <1> HIDE DEF l
  <1>4. Turns'
    BY <1>1, <1>2, <1>3, TurnsKept
  <1> QED  BY <1>1, <1>2, <1>4, <1>5, WalksOwn

LEMMA UnlockOwn ==
    ASSUME Inv, OwnInv, NEW u \in Users, Unlock(u)
    PROVE  OwnInv'
  <1>1. /\ pc[u] = "unlock" /\ Goto(u, "out") /\ coe_lock' = IF u \in Gateways THEN coe_lock ELSE NULL
        /\ UNCHANGED <<hold, h, recv_pool, send_queued, slave, timeouts>>
        /\ call' = [call EXCEPT ![u] = call[u]]
    BY UserFacts DEF Unlock, hvars, pools
  <1>2. UserType /\ Turns
    BY DEF Inv, TypeOK, UserType, OwnInv
  <1>3. ASSUME NEW v \in Clients, v # u, Inside(v) PROVE coe_lock' = v
    <2>1. coe_lock = v
      BY <1>2, <1>3 DEF Turns, Inside
    <2>2. u \in Clients => coe_lock = u
      BY <1>1, <1>2 DEF Turns
    <2> QED  BY <1>1, <1>3, <2>1, <2>2 DEF Clients
  <1>4. Turns'
    BY <1>1, <1>2, <1>3, TurnsNext
  <1>5. Accounts => Account(u, "out", call[u])
    BY <1>1 DEF Accounts, Account
  <1> QED  BY <1>1, <1>4, <1>5, WalksOwn DEF Places, Asking

LEMMA GetBufferOwn ==
    ASSUME OneGateway, Inv, OwnInv, NEW u \in Users, GetBuffer(u)
    PROVE  OwnInv'
  <1> DEFINE m == Msg(Proto(u), "request", call[u].kind, Req(u), 0)
             c == [call[u] EXCEPT !.ret = "timeout", !.rest = @ - 1]
             e == [call[u] EXCEPT !.ret = "no_buffer"]
  <1>1. pc[u] = "get" /\ Inside(u) /\ coe_lock' = coe_lock /\ UNCHANGED <<h, slave, timeouts>>
    BY DEF GetBuffer, hvars, Inside
  <1>2. UserType /\ Turns /\ call[u] \in Calls
    BY UserFacts DEF Inv, TypeOK, UserType, OwnInv
  <1>3. CASE send_free > 0
    <2>1. /\ hold' = [hold EXCEPT ![u] = m]
          /\ UNCHANGED <<send_queued, recv_pool>> /\ Goto(u, "put")
          /\ call' = IF call[u].stage = 0 THEN call
                     ELSE [call EXCEPT ![u].ret = "timeout", ![u].rest = @ - 1]
      BY <1>3 DEF GetBuffer, ec_mbx_get_free_send_buffer
    <2> DEFINE d == IF call[u].stage = 0 THEN call[u] ELSE c
    <2>2. call' = [call EXCEPT ![u] = d]
      BY <2>1, UserFacts DEF Inv, TypeOK
    <2>3. d.n = call[u].n /\ d.stage = call[u].stage /\ d.kind = call[u].kind /\ d.acked = call[u].acked
      BY <1>2 DEF Calls
    <2>7. timeouts = 0 /\ Confirmable => d.acked = d.stage /\ Accounts /\ Account(u, "put", d)
      BY <1>1, <2>3 DEF OwnInv, Accounts, Account
    <2>4. m.req = Req(u) /\ m.kind = call[u].kind /\ m.proto = Proto(u)
      BY DEF Msg
    <2> HIDE DEF c, d, e, m
    <2>5. timeouts = 0 => \A p \in {"coe", "gw"} : Dialogue(p)'
      BY <1>1, <1>2, <2>1, <2>2, <2>3, <2>4, <2>7, GetDialogue DEF OwnInv
    <2>6. Turns'
      BY <1>1, <1>2, <2>1, <2>2, <2>3, TurnsKept
    <2>8. timeouts = 0 /\ Confirmable => Accounts'
      BY <1>2, <2>1, <2>2, <2>7, AccountsNext
    <2> QED  BY <1>1, <2>5, <2>6, <2>8 DEF OwnInv
  <1>4. CASE send_free = 0
    <2> DEFINE d == IF u \in Gateways THEN call[u] ELSE e
    <2>1. /\ UNCHANGED <<hold, send_queued, recv_pool>> /\ Goto(u, "unlock")
          /\ call' = IF u \in Gateways THEN call ELSE [call EXCEPT ![u].ret = "no_buffer"]
      BY <1>4 DEF GetBuffer, ec_mbx_get_free_send_buffer, pools
    <2>2. call' = [call EXCEPT ![u] = d]
      BY <2>1, UserFacts DEF Inv, TypeOK
    <2>3. d.kind = call[u].kind
      BY <1>2 DEF Calls
    <2>5. Accounts => Account(u, "unlock", d)
      BY <1>2 DEF Accounts, Account, Calls, Clients
    <2> HIDE DEF d, c, e, m
    <2>4. Turns'
      BY <1>1, <1>2, <2>1, <2>2, <2>3, TurnsKept
    <2> QED  BY <1>1, <2>1, <2>2, <2>4, <2>5, WalksOwn DEF Places, Asking
  <1> QED  BY <1>3, <1>4, UserFacts DEF QueuesType

LEMMA PassOwn ==
    ASSUME OneGateway, Inv, OwnInv, NEW u \in Users, Enqueue(u) \/ Receive(u)
    PROVE  OwnInv'
  <1>1. UserType /\ Turns /\ call = [call EXCEPT ![u] = call[u]]
    BY UserFacts DEF Inv, TypeOK, UserType, OwnInv
  <1>2. coe_lock' = coe_lock /\ timeouts' = timeouts /\ call' = call /\ Inside(u)
        /\ pc[u] \in Asking /\ (Goto(u, "post") \/ Goto(u, "process"))
    BY DEF Enqueue, Receive, hvars, Inside, Asking
  <1>3. Turns'
    BY <1>1, <1>2, TurnsKept
  <1>4. Proto(u) \in {"coe", "gw"}
    BY DEF Proto
  <1>5. timeouts = 0 => \A p \in {"coe", "gw"} : Dialogue(p)'
    BY <1>1, <1>4, EnqueueDialogue, ReceiveDialogue DEF OwnInv
  <1>6. Accounts => Account(u, "post", call[u]) /\ Account(u, "process", call[u])
    BY DEF Accounts, Account
  <1>7. timeouts = 0 /\ Confirmable => Accounts'
    BY <1>1, <1>2, <1>6, AccountsNext DEF OwnInv
  <1> QED  BY <1>2, <1>3, <1>5, <1>7 DEF OwnInv

LEMMA ProcessOwn ==
    ASSUME OneGateway, Inv, OwnInv, NEW u \in Users,
           ProcessSdo(u) \/ ProcessInfo(u) \/ ProcessList(u) \/ ProcessGateway(u)
    PROVE  OwnInv'
  <1>1. /\ pc[u] = "process" /\ Inside(u) /\ hold' = [hold EXCEPT ![u] = NULL]
        /\ coe_lock' = coe_lock /\ UNCHANGED <<h, recv_pool, send_queued, slave, timeouts>>
    BY DEF ProcessSdo, ProcessInfo, ProcessList, ProcessGateway, Processed, hvars, Inside,
           ec_mbx_return_free_recv_buffer
  <1>2. UserType /\ Turns /\ call[u] \in Calls
    BY UserFacts DEF Inv, TypeOK, UserType, OwnInv
  <1>3. Proto(u) \in {"coe", "gw"}
    BY DEF Proto
  <1>4. timeouts = 0 => /\ hold[u].kind = call[u].kind /\ hold[u].req = Req(u) /\ Fits(hold[u])
                        /\ Confirmable => call[u].acked = call[u].stage
    BY <1>1, <1>2, <1>3, HeldFits DEF OwnInv
  <1>5. ASSUME NEW l \in {"sched", "get", "unlock"}, NEW c, Goto(u, l), call' = [call EXCEPT ![u] = c],
               c.n = call[u].n, c.kind = call[u].kind,
               timeouts = 0 => \/ hold[u].left = 0
                               \/ l = "sched" /\ c.stage = call[u].stage /\ c.acked = call[u].acked,
               timeouts = 0 /\ Confirmable => Account(u, l, c)
        PROVE  OwnInv'
    <2>1. Turns'
      BY <1>1, <1>2, <1>5, TurnsKept
    <2>2. timeouts = 0 => \A p \in {"coe", "gw"} : Dialogue(p)'
      BY <1>1, <1>2, <1>5, ProcessDialogue DEF OwnInv
    <2>3. timeouts = 0 /\ Confirmable => Accounts'
      BY <1>2, <1>5, AccountsNext DEF OwnInv
    <2> QED  BY <1>1, <2>1, <2>2, <2>3 DEF OwnInv
  <1>10. /\ call[u].stage \in Nat /\ call[u].rest \in Nat /\ call[u].acked \in Nat /\ Segments \in Nat
         /\ call[u].stage + call[u].rest <= Segments
    BY <1>1, <1>2, UserFacts, CoEAssumption DEF Control, Asking, Calls
  <1>11. timeouts = 0 /\ Confirmable => Account(u, "process", call[u])
    BY <1>1 DEF OwnInv, Accounts
  <1>12. /\ Acked(u) \in {call[u].acked, call[u].acked + 1}
         /\ Confirms(u, hold[u]) => Acked(u) = call[u].acked + 1
         /\ ~Confirms(u, hold[u]) => Acked(u) = call[u].acked
    BY <1>10 DEF Acked
  <1>6. CASE ProcessSdo(u)
    <2> DEFINE ret  == SdoRet(u, hold[u])
               done == [call[u] EXCEPT !.ret = ret, !.acked = Acked(u)]
               next == [done EXCEPT !.stage = @ + 1]
    <2>1. /\ done.n = call[u].n /\ done.stage = call[u].stage /\ done.kind = call[u].kind
          /\ done.rest = call[u].rest /\ done.ret = ret /\ done.acked = Acked(u)
          /\ next.n = call[u].n /\ next.kind = call[u].kind /\ next.stage = call[u].stage + 1
          /\ next.rest = call[u].rest /\ next.ret = ret /\ next.acked = Acked(u)
      BY <1>2 DEF Calls
    <2> DEFINE more == call[u].rest > 0 /\ (ret = "ok" \/ call[u].stage > 0)
    <2>2. \/ Goto(u, "sched") /\ call' = [call EXCEPT ![u] = done]
          \/ Goto(u, "unlock") /\ call' = [call EXCEPT ![u] = done] /\ ret \in {"ok", "abort"} /\ ~more
          \/ Goto(u, "get") /\ call' = [call EXCEPT ![u] = next] /\ ret \in {"ok", "abort"} /\ more
      BY <1>6 DEF ProcessSdo
    <2>3. timeouts = 0 => hold[u].left = 0
      BY <1>4, <1>6 DEF ProcessSdo, Fits
    <2>4. timeouts = 0 /\ ret = "ok" => Acked(u) = call[u].acked + 1
      BY <1>4, <1>12 DEF SdoRet, Confirms
    <2>5. timeouts = 0 /\ ret = "abort" => Refuses
      BY <1>4 DEF SdoRet, Fits
    <2> HIDE DEF ret, done, next
    <2>6. timeouts = 0 /\ Confirmable => Account(u, "sched", done)
      BY <1>11, <2>1 DEF Account
    <2>7. timeouts = 0 /\ Confirmable /\ ret \in {"ok", "abort"} /\ ~more => Account(u, "unlock", done)
      BY <1>4, <1>10, <1>11, <2>1, <2>4 DEF Account, Confirmed
    <2>8. timeouts = 0 /\ Confirmable /\ ret \in {"ok", "abort"} /\ more => Account(u, "get", next)
      <3>1. timeouts = 0 /\ Confirmable /\ ret \in {"ok", "abort"} /\ more => ret = "ok"
        BY <1>10, <2>5 DEF Confirmable
      <3> QED  BY <1>4, <1>10, <1>11, <2>1, <2>4, <3>1 DEF Account
    <2> QED  BY <1>5, <2>1, <2>2, <2>3, <2>6, <2>7, <2>8
  <1>7. CASE ProcessInfo(u)
    <2> DEFINE ret == InfoRet(u, hold[u])
               c   == [call[u] EXCEPT !.ret = ret, !.acked = Acked(u)]
    <2>1. /\ c.n = call[u].n /\ c.stage = call[u].stage /\ c.kind = call[u].kind
          /\ c.rest = call[u].rest /\ c.ret = ret /\ c.acked = Acked(u)
      BY <1>2 DEF Calls
    <2>2. call' = [call EXCEPT ![u].ret = ret, ![u].acked = Acked(u)]
          /\ (Goto(u, "sched") \/ Goto(u, "unlock")) /\ call[u].kind \in {"desc", "entry"}
      BY <1>7 DEF ProcessInfo
    <2>3. call' = [call EXCEPT ![u] = c]
      BY <1>2, <2>2 DEF UserType
    <2>4. timeouts = 0 => hold[u].left = 0
      BY <1>4, <1>7 DEF ProcessInfo, Fits
    <2>5. timeouts = 0 /\ ret = "ok" => Acked(u) = call[u].acked + 1
      BY <1>4, <1>12, <2>2, <2>4 DEF InfoRet, Confirms, Fits
    <2> HIDE DEF ret, c
    <2>6. timeouts = 0 /\ Confirmable => Account(u, "sched", c) /\ Account(u, "unlock", c)
      BY <1>4, <1>10, <1>11, <2>1, <2>2, <2>5 DEF Account, Confirmed
    <2> QED  BY <1>5, <2>1, <2>2, <2>3, <2>4, <2>6
  <1>8. CASE ProcessList(u)
    <2>1. PICK left \in IF hold[u].svc \in {"info", "info_error"} THEN {hold[u].left} ELSE 0 .. Fragments,
               ret \in ListRets(u, hold[u]) :
              /\ Goto(u, IF left = 0 THEN "unlock" ELSE "sched")
              /\ call' = [call EXCEPT ![u].left = left, ![u].acked = Acked(u), ![u].ret = ret]
      BY <1>8 DEF ProcessList
    <2> DEFINE c == [call[u] EXCEPT !.left = left, !.acked = Acked(u), !.ret = ret]
    <2>2. /\ c.n = call[u].n /\ c.stage = call[u].stage /\ c.kind = call[u].kind
          /\ c.rest = call[u].rest /\ c.acked = Acked(u)
      BY <1>2 DEF Calls
    <2>3. call' = [call EXCEPT ![u] = c]
      BY <1>2, <2>1 DEF UserType
    <2>4. timeouts = 0 => left = hold[u].left /\ (left # 0 => hold[u].svc = "info")
      BY <1>4, <1>8, <2>1 DEF ProcessList, Fits
    <2>5. timeouts = 0 /\ left # 0 => Acked(u) = call[u].acked
      BY <1>4, <1>12, <2>4 DEF Confirms
    <2>6. call[u].kind = "odlist"
      BY <1>8 DEF ProcessList
    <2> HIDE DEF c
    <2>7. timeouts = 0 /\ Confirmable => Account(u, IF left = 0 THEN "unlock" ELSE "sched", c)
      BY <1>11, <2>2, <2>6 DEF Account
    <2>8. (IF left = 0 THEN "unlock" ELSE "sched") \in {"sched", "get", "unlock"}
      OBVIOUS
    <2> QED  BY <1>5, <2>1, <2>2, <2>3, <2>4, <2>5, <2>7, <2>8
  <1>9. CASE ProcessGateway(u)
    <2> DEFINE c == [call[u] EXCEPT !.acked = Acked(u)]
    <2>1. Goto(u, "unlock") /\ call' = [call EXCEPT ![u].acked = Acked(u)] /\ u \in Gateways
      BY <1>9 DEF ProcessGateway
    <2>2. /\ c.n = call[u].n /\ c.stage = call[u].stage /\ c.kind = call[u].kind
          /\ c.rest = call[u].rest
      BY <1>2 DEF Calls
    <2>3. call' = [call EXCEPT ![u] = c]
      BY <1>2, <2>1 DEF UserType
    <2>5. timeouts = 0 /\ Confirmable => Account(u, "unlock", c)
      BY <1>11, <2>1, <2>2 DEF Account, Clients
    <2>4. timeouts = 0 => hold[u].left = 0
      <3>1. call[u].kind = "gateway"
        BY <1>1, <1>2, <2>1 DEF Turns
      <3> QED  BY <1>4, <3>1 DEF Fits
    <2> HIDE DEF c
    <2> QED  BY <1>5, <2>1, <2>2, <2>3, <2>4, <2>5
  <1> QED  BY <1>6, <1>7, <1>8, <1>9

\* Once a wait has timed out, only the turns are left.
LEMMA WaitTimeoutOwn ==
    ASSUME Inv, OwnInv, NEW u \in Users, WaitTimeout(u)
    PROVE  OwnInv'
  <1>1. pc[u] = "wait" /\ Inside(u) /\ coe_lock' = coe_lock /\ timeouts' = timeouts + 1
    BY DEF WaitTimeout, mvars, Inside
  <1>2. UserType /\ Turns /\ timeouts \in Nat /\ call[u] \in Calls
    BY UserFacts DEF Inv, TypeOK, UserType, OwnInv
  <1> DEFINE c == [call[u] EXCEPT !.stage = @ + 1]
  <1>3. /\ \E l \in Places : Goto(u, l)
        /\ \/ call' = [call EXCEPT ![u] = call[u]]
           \/ call' = [call EXCEPT ![u] = c]
    <2>1. \/ UNCHANGED call
          \/ call' = [call EXCEPT ![u].ret = call[u].ret, ![u].stage = @ + 1]
          \/ call' = [call EXCEPT ![u].ret = call[u].ret]
      BY DEF WaitTimeout, NextSegment
    <2>2. Goto(u, "sched") \/ Goto(u, "get") \/ Goto(u, "unlock")
      BY DEF WaitTimeout, NextSegment
    <2>3. \E l \in Places : Goto(u, l)
      BY <2>2 DEF Places
    <2>4. call[u] = [call[u] EXCEPT !.ret = call[u].ret]
      BY <1>2 DEF Calls
    <2>5. [call EXCEPT ![u].ret = call[u].ret] = [call EXCEPT ![u] = call[u]]
      BY <1>2, <2>4 DEF UserType
    <2>6. [call EXCEPT ![u].ret = call[u].ret, ![u].stage = @ + 1] = [call EXCEPT ![u] = c]
      BY <1>2, <2>4 DEF UserType
    <2>7. call = [call EXCEPT ![u] = call[u]]
      BY <1>2 DEF UserType
    <2> QED  BY <2>1, <2>3, <2>5, <2>6, <2>7
  <1>4. c.kind = call[u].kind
    BY <1>2 DEF Calls
  <1> HIDE DEF c
  <1>5. Turns'
    BY <1>1, <1>2, <1>3, <1>4, TurnsKept
  <1> QED  BY <1>1, <1>2, <1>5 DEF OwnInv

-----------------------------------------------------------------------------
(* The handler and the slave pass the messages on.                         *)

LEMMA StillHeld ==
    ASSUME UNCHANGED <<pc, call, hold>>, NEW p
    PROVE  Asks(p) /\ Held(p)' = Held(p) /\ Put(p)' = Put(p)
  BY DEF Asks, Held, Put, Proto, Req

LEMMA IdleDialogue ==
    ASSUME UNCHANGED <<pc, call, hold>>, Idles, NEW p, Dialogue(p)
    PROVE  Dialogue(p)'
  BY StillHeld, Rests

\* From the slave's mailbox to the handler, or to nobody.
LEMMA ReadDialogue ==
    ASSUME Inv, UNCHANGED <<pc, call, hold>>, HRead, NEW p, Dialogue(p)
    PROVE  Dialogue(p)'
  <1>1. h.pc = "read" /\ slave' = [slave EXCEPT !.in = NULL] /\ UNCHANGED <<recv_pool, send_queued>>
    BY DEF HRead
  <1>2. slave'.in = NULL /\ slave'.out = slave.out /\ slave'.todo = slave.todo
    BY <1>1, MailboxFacts DEF SlaveType
  <1>3. /\ Hand(p) = {} /\ Write(p) = {} /\ Box(p)' = {} /\ Todo(p)' = Todo(p) /\ Out(p)' = Out(p)
        /\ Pool(p)' = Pool(p)
    <2>1. Box(p)' = {}
      BY <1>2 DEF Box
    <2> QED  BY <1>1, <1>2, <2>1, PartsSame
  <1>4. h'.pc # "write" /\ Hand(p)' \subseteq Box(p)
    <2>1. CASE slave.in # NULL /\ h' = [h EXCEPT !.pc = "dispatch", !.msg = slave.in]
      <3>1. h'.pc = "dispatch" /\ h'.msg = slave.in
        BY <2>1, MailboxFacts DEF HandlerType
      <3> QED  BY <2>1, <3>1 DEF Hand, Box
    <2>2. CASE HReceived
      <3>1. h'.pc \in {"send", "wait"}
        BY <2>2 DEF HReceived
      <3> QED  BY <3>1, PartsSame
    <2> QED  BY <2>1, <2>2 DEF HRead, HGiveBack
  <1>5. Write(p)' = {} /\ Held(p)' = Held(p) /\ Put(p)' = Put(p) /\ Asks(p)
    BY <1>4, StillHeld, PartsSame
  <1>6. InOrder(p)'
    <2>1. InOrder(p)
      BY DEF Dialogue
    <2>2. Ordered(Held(p), Pool(p), Box(p), {}, Todo(p))
      BY <1>3, <2>1, Stations DEF InOrder
    <2>3. Ordered(Held(p), Pool(p), Hand(p)', {}, Todo(p))
      BY <1>4, <2>2, Stations
    <2> QED  BY <1>1, <1>2, <1>3, <1>5, <2>1, <2>3 DEF InOrder
  <1>7. Requested(p)' = Requested(p) /\ Answered(p)' \subseteq Answered(p)
    BY <1>1, <1>3, <1>4, <1>5 DEF Requested, Answered
  <1>8. One(send_queued, p)' /\ Alone(Put(p), Of(send_queued, p), Write(p), Out(p))'
    BY <1>1, <1>3, <1>5 DEF Dialogue, OneRequest
  <1> QED  BY <1>5, <1>6, <1>7, <1>8, DialogueFrom

\* From the handler to the users' pools.
LEMMA DispatchDialogue ==
    ASSUME Inv, UNCHANGED <<pc, call, hold>>, HDispatch, NEW p \in {"coe", "gw"}, Dialogue(p)
    PROVE  Dialogue(p)'
  <1>1. h.pc = "dispatch" /\ UNCHANGED <<slave, send_queued>> /\ h.msg \in Messages
    BY MailboxFacts DEF HDispatch, HandlerControl
  <1>2. h'.pc \notin {"dispatch", "write"}
    <2>1. HReceived => h'.pc \in {"send", "wait"}
      BY DEF HReceived
    <2>2. h' = [h EXCEPT !.pc = "emergency"] => h'.pc = "emergency"
      BY MailboxFacts DEF HandlerType
    <2> QED  BY <2>1, <2>2 DEF HDispatch, HGiveBack
  <1>3. /\ Hand(p)' = {} /\ Write(p)' = {} /\ Write(p) = {} /\ Held(p)' = Held(p) /\ Put(p)' = Put(p)
        /\ Asks(p) /\ Box(p)' = Box(p) /\ Todo(p)' = Todo(p) /\ Out(p)' = Out(p)
    BY <1>1, <1>2, StillHeld, PartsSame
  <1>4. /\ Falling(recv_pool[p], p) /\ Mine(recv_pool[p], p) /\ Falling(slave.todo, p)
        /\ Ordered(Held(p), Pool(p), Hand(p), Box(p), Todo(p))
    BY DEF Dialogue, InOrder
  <1>5. /\ Pool(p)' = Pool(p) \cup Hand(p) /\ Mine(recv_pool[p], p)' /\ Falling(recv_pool[p], p)'
    <2>1. CASE For(h.msg, p)
      <3>1. recv_pool' = [recv_pool EXCEPT ![p] = Append(@, h.msg)]
        BY <2>1 DEF HDispatch, For, ForUser, IsEmergency
      <3>2. recv_pool'[p] = Append(recv_pool[p], h.msg) /\ recv_pool[p] \in Seq(Messages)
        BY <3>1, MailboxFacts DEF QueuesType
      <3>3. Hand(p) = {h.msg}
        BY <1>1, <2>1 DEF Hand
      <3>4. Above(Fors(recv_pool[p], p), {h.msg})
        BY <1>4, <3>3 DEF Ordered, Above, Pool
      <3>5. LET t == Append(recv_pool[p], h.msg)
            IN  Falling(t, p) /\ Fors(t, p) = Fors(recv_pool[p], p) \cup {h.msg} /\ Mine(t, p)
        BY <1>1, <1>4, <2>1, <3>2, <3>4, AppendFalls
      <3> QED  BY <3>2, <3>3, <3>5 DEF Pool
    <2>2. CASE ~For(h.msg, p)
      <3>1. recv_pool'[p] = recv_pool[p]
        <4>1. CASE ForUser(h.msg)
          <5>1. recv_pool' = [recv_pool EXCEPT ![h.msg.proto] = Append(@, h.msg)] /\ h.msg.proto # p
            BY <2>2, <4>1 DEF HDispatch, For, ForUser, IsEmergency
          <5> QED  BY <5>1, MailboxFacts DEF QueuesType
        <4>2. CASE ~ForUser(h.msg)
          BY <4>2 DEF HDispatch
        <4> QED  BY <4>1, <4>2
      <3>2. Hand(p) = {}
        BY <2>2 DEF Hand
      <3> QED  BY <1>4, <3>1, <3>2, PartsSame
    <2> QED  BY <2>1, <2>2
  <1>6. InOrder(p)'
    <2>1. Ordered(Held(p), Pool(p) \cup Hand(p), {}, Box(p), Todo(p))
      BY <1>4, Stations
    <2> QED  BY <1>1, <1>3, <1>4, <1>5, <2>1 DEF InOrder
  <1>7. Requested(p)' = Requested(p) /\ Answered(p)' \subseteq Answered(p)
    BY <1>1, <1>3, <1>5 DEF Requested, Answered
  <1>8. One(send_queued, p)' /\ Alone(Put(p), Of(send_queued, p), Write(p), Out(p))'
    BY <1>1, <1>3 DEF Dialogue, OneRequest
  <1> QED  BY <1>3, <1>6, <1>7, <1>8, DialogueFrom

\* Steps that only move requests.
LEMMA RequestMoves ==
    ASSUME UNCHANGED <<pc, call, hold, recv_pool>>, NEW p, Dialogue(p),
           h.pc # "dispatch", h'.pc # "dispatch", slave'.in = slave.in, slave'.todo = slave.todo,
           One(send_queued, p)', Alone(Put(p), Of(send_queued, p)', Write(p)', Out(p)'),
           Of(send_queued, p)' \cup Write(p)' \cup Out(p)' \subseteq Of(send_queued, p) \cup Write(p) \cup Out(p)
    PROVE  Dialogue(p)'
  <1>1. /\ Hand(p)' = {} /\ Hand(p) = {} /\ Held(p)' = Held(p) /\ Put(p)' = Put(p)
        /\ Asks(p) /\ Box(p)' = Box(p) /\ Todo(p)' = Todo(p) /\ Pool(p)' = Pool(p)
    BY StillHeld, PartsSame
  <1>2. InOrder(p)'
    BY <1>1 DEF Dialogue, InOrder
  <1>3. Requested(p)' \subseteq Requested(p) /\ Answered(p)' = Answered(p)
    BY <1>1 DEF Requested, Answered
  <1>4. Alone(Put(p), Of(send_queued, p), Write(p), Out(p))'
    BY <1>1
  <1> QED  BY <1>1, <1>2, <1>3, <1>4, DialogueFrom

\* From the queue to the handler, ...
LEMMA SendDialogue ==
    ASSUME Inv, UNCHANGED <<pc, call, hold>>, HSend, NEW p, Dialogue(p)
    PROVE  Dialogue(p)'
  <1>1. h.pc = "send" /\ UNCHANGED <<slave, recv_pool>>
    BY DEF HSend
  <1>2. CASE send_queued = <<>>
    <2>1. h' = [h EXCEPT !.pc = "wait"] /\ UNCHANGED send_queued
      BY <1>2 DEF HSend
    <2>2. h'.pc = "wait"
      BY <2>1, MailboxFacts DEF HandlerType
    <2> QED  BY <1>1, <2>1, <2>2, IdleDialogue DEF Idles
  <1>3. CASE send_queued # <<>>
    <2> DEFINE m == Head(send_queued)
               t == Tail(send_queued)
    <2>1. h' = [h EXCEPT !.pc = "write", !.msg = m] /\ send_queued' = t
      BY <1>3 DEF HSend
    <2>2. h'.pc = "write" /\ h'.msg = m /\ send_queued \in Seq(Messages)
      BY <2>1, MailboxFacts DEF HandlerType, QueuesType
    <2>3. /\ One(send_queued, p) /\ Alone(Put(p), Of(send_queued, p), Write(p), Out(p))
          /\ Write(p) = {} /\ Out(p)' = Out(p)
      BY <1>1, PartsSame DEF Dialogue, OneRequest
    <2>4. /\ m.proto # p => Of(t, p) = Of(send_queued, p) /\ One(t, p)
          /\ m.proto = p => Of(t, p) = {} /\ Of(send_queued, p) = {m} /\ One(t, p)
      BY <1>3, <2>2, <2>3, TailIs
    <2> HIDE DEF m, t
    <2>5. Write(p)' = IF m.proto = p THEN {m} ELSE {}
      BY <2>2 DEF Write
    <2>6. /\ One(send_queued, p)' /\ Alone(Put(p), Of(send_queued, p)', Write(p)', Out(p)')
          /\ Of(send_queued, p)' \cup Write(p)' \cup Out(p)' \subseteq Of(send_queued, p) \cup Write(p) \cup Out(p)
      BY <2>1, <2>3, <2>4, <2>5 DEF Alone
    <2> QED  BY <1>1, <2>2, <2>6, RequestMoves
  <1> QED  BY <1>2, <1>3

\* ... from there to the slave, ...
LEMMA WriteDialogue ==
    ASSUME Inv, UNCHANGED <<pc, call, hold>>, HWrite, NEW p, Dialogue(p)
    PROVE  Dialogue(p)'
  <1>1. /\ h.pc = "write" /\ UNCHANGED <<send_queued, recv_pool>> /\ slave.out = NULL
        /\ slave' = [slave EXCEPT !.out = h.msg] /\ h' = [h EXCEPT !.pc = "wait", !.msg = NULL]
    BY DEF HWrite
  <1>2. /\ h'.pc = "wait" /\ slave'.in = slave.in /\ slave'.todo = slave.todo /\ slave'.out = h.msg
    BY <1>1, MailboxFacts DEF HandlerType, SlaveType
  <1>3. Out(p) = {} /\ Out(p)' \subseteq Write(p) /\ Write(p)' = {}
    BY <1>1, <1>2 DEF Out, Write
  <1>4. One(send_queued, p)' /\ Alone(Put(p), Of(send_queued, p)', Write(p)', Out(p)')
    BY <1>1, <1>3 DEF Dialogue, OneRequest, Alone
  <1>5. Of(send_queued, p)' \cup Write(p)' \cup Out(p)' \subseteq Of(send_queued, p) \cup Write(p) \cup Out(p)
    BY <1>1, <1>3
  <1> QED  BY <1>1, <1>2, <1>4, <1>5, RequestMoves

\* ... or back.
LEMMA RequeueDialogue ==
    ASSUME Inv, UNCHANGED <<pc, call, hold>>, HRequeue, NEW p, Dialogue(p)
    PROVE  Dialogue(p)'
  <1>1. /\ h.pc = "write" /\ UNCHANGED <<slave, recv_pool>>
        /\ send_queued' = <<h.msg>> \o send_queued /\ h' = [h EXCEPT !.pc = "post", !.msg = NULL]
    BY DEF HRequeue
  <1>2. h'.pc = "post" /\ h.msg \in Messages /\ send_queued \in Seq(Messages)
    BY <1>1, MailboxFacts DEF HandlerType, HandlerControl, QueuesType
  <1>3. /\ One(send_queued, p) /\ Alone(Put(p), Of(send_queued, p), Write(p), Out(p))
        /\ Write(p)' = {} /\ Out(p)' = Out(p) /\ Write(p) = IF h.msg.proto = p THEN {h.msg} ELSE {}
    <2>1. Write(p) = IF h.msg.proto = p THEN {h.msg} ELSE {}
      BY <1>1 DEF Write
    <2> QED  BY <1>1, <1>2, <2>1, PartsSame DEF Dialogue, OneRequest
  <1>4. /\ h.msg.proto # p => Of(send_queued, p)' = Of(send_queued, p) /\ One(send_queued, p)'
        /\ h.msg.proto = p => Of(send_queued, p) = {} /\ Of(send_queued, p)' = {h.msg} /\ One(send_queued, p)'
    <2>1. h.msg.proto = p => Of(send_queued, p) = {}
      BY <1>3 DEF Alone
    <2> QED  BY <1>1, <1>2, <1>3, <2>1, ConsIs, ZenonT(60)
  <1>5. /\ Alone(Put(p), Of(send_queued, p)', Write(p)', Out(p)')
        /\ Of(send_queued, p)' \cup Write(p)' \cup Out(p)' \subseteq Of(send_queued, p) \cup Write(p) \cup Out(p)
    BY <1>3, <1>4 DEF Alone
  <1> QED  BY <1>1, <1>2, <1>4, <1>5, RequestMoves

\* What a slave answers.
LEMMA AnswersFit ==
    ASSUME NEW m \in Messages, NEW a \in Answers(m), NEW p
    PROVE  /\ Falling(a, p) /\ \A i \in DOMAIN a : a[i].proto = m.proto /\ a[i].req = m.req
                                               /\ a[i].kind = m.kind /\ Fits(a[i])
  <1>1. \A s, f : LET x == Answer(m, s, f)
                  IN  /\ x.proto = m.proto /\ x.req = m.req /\ x.kind = m.kind
                      /\ x.svc = s /\ x.left = f
    BY DEF Answer, Msg
  <1>2. CASE m.kind = "odlist" /\ a = [i \in 1 .. Fragments |-> Answer(m, "info", Fragments - i)]
    <2>1. a = [i \in 1 .. Fragments |-> Answer(m, "info", Fragments - i)]
      BY <1>2
    <2>2. DOMAIN a = 1 .. Fragments /\ \A i \in DOMAIN a : a[i] = Answer(m, "info", Fragments - i)
      BY <2>1
    <2>3. \A i \in DOMAIN a : /\ a[i].left = Fragments - i /\ a[i].svc = "info"
                              /\ a[i].proto = m.proto /\ a[i].req = m.req /\ a[i].kind = m.kind
      BY <1>1, <2>2
    <2>4. Fragments \in Nat
      BY MailboxAssumption
    <2>5. \A i, j \in DOMAIN a : i < j => a[i].left > a[j].left
      BY <2>2, <2>3, <2>4
    <2>6. \A i \in DOMAIN a : Fits(a[i])
      BY <1>2, <2>3 DEF Fits
    <2> QED  BY <2>3, <2>5, <2>6 DEF Falling
  <1>4. CASE m.kind = "odlist" /\ Refuses /\ a = <<Answer(m, "info_error", 0)>>
    <2>1. DOMAIN a = {1} /\ a[1] = Answer(m, "info_error", 0)
      BY <1>4
    <2>2. Fits(a[1])
      BY <1>1, <1>4, <2>1 DEF Fits
    <2> QED  BY <1>1, <2>1, <2>2 DEF Falling
  <1>3. CASE m.kind # "odlist"
    <2>1. PICK s : /\ a = <<Answer(m, s, 0)>>
                   /\ IF m.kind \in {"desc", "entry"}
                      THEN s \in {"info"} \cup (IF Refuses THEN {"info_error"} ELSE {})
                      ELSE s \in {"sdores"} \cup (IF Refuses THEN {"abort"} ELSE {})
      BY <1>3 DEF Answers
    <2>2. DOMAIN a = {1} /\ a[1] = Answer(m, s, 0)
      BY <2>1
    <2>3. Fits(a[1])
      BY <1>1, <1>3, <2>1, <2>2 DEF Fits
    <2> QED  BY <1>1, <2>2, <2>3 DEF Falling
  <1> QED  BY <1>2, <1>3, <1>4 DEF Answers

\* From the request to its answers.
LEMMA TakeDialogue ==
    ASSUME Inv, UNCHANGED <<pc, call, hold>>, SlaveTake, NEW p \in {"coe", "gw"}, Dialogue(p)
    PROVE  Dialogue(p)'
  <1>0. PICK m : m = slave.out
    OBVIOUS
  <1>1. PICK a \in Answers(m) : slave' = [slave EXCEPT !.out = NULL, !.todo = @ \o a]
    BY <1>0 DEF SlaveTake
  <1>2. m # NULL /\ m \in Messages /\ UNCHANGED <<h, send_queued, recv_pool>>
    BY <1>0, MailboxFacts DEF SlaveTake, SlaveType, pools
  <1>3. /\ slave'.out = NULL /\ slave'.in = slave.in /\ slave'.todo = slave.todo \o a
        /\ slave.todo \in Seq(Messages)
    BY <1>1, MailboxFacts DEF SlaveType
  <1>4. a \in Seq(Messages)
    BY <1>2, AnswersType
  <1>5. /\ Hand(p)' = Hand(p) /\ Write(p)' = Write(p) /\ Held(p)' = Held(p) /\ Put(p)' = Put(p)
        /\ Asks(p) /\ Box(p)' = Box(p) /\ Out(p)' = {} /\ Pool(p)' = Pool(p)
        /\ Of(send_queued, p)' = Of(send_queued, p)
    <2>1. Out(p)' = {}
      BY <1>3 DEF Out
    <2> QED  BY <1>2, <1>3, <2>1, StillHeld, PartsSame
  <1>6. /\ Falling(a, p) /\ \A i \in DOMAIN a : a[i].proto = m.proto /\ a[i].req = m.req
                                            /\ a[i].kind = m.kind /\ Fits(a[i])
    BY <1>2, AnswersFit
  <1>7. /\ One(send_queued, p) /\ Alone(Put(p), Of(send_queued, p), Write(p), Out(p)) /\ InOrder(p)
        /\ (Requested(p) # {} => Answered(p) = {}) /\ Out(p) = IF m.proto = p THEN {m} ELSE {}
    BY <1>0, <1>2 DEF Dialogue, OneRequest, Out
  <1>8. Requested(p)' \subseteq Requested(p) /\ One(send_queued, p)'
        /\ Alone(Put(p), Of(send_queued, p), Write(p), Out(p))'
    BY <1>2, <1>5, <1>7 DEF Requested, Alone
  <1>9. CASE m.proto # p
    <2>1. Fors(a, p) = {}
      BY <1>6, <1>9 DEF Fors, For
    <2>2. Falling(slave.todo, p)
      BY <1>7 DEF InOrder
    <2>3. Falling(slave'.todo, p) /\ Fors(slave'.todo, p) = Fors(slave.todo, p)
      <3>1. Falling(slave.todo \o a, p) /\ Fors(slave.todo \o a, p) = Fors(slave.todo, p) \cup Fors(a, p)
        BY <1>3, <1>4, <1>6, <2>1, <2>2, ConcatFalls, ZenonT(60)
      <3> QED  BY <1>3, <2>1, <2>2, <3>1
    <2>4. Todo(p)' = Todo(p)
      BY <2>3 DEF Todo
    <2>5. InOrder(p)'
      BY <1>2, <1>5, <1>7, <2>3, <2>4 DEF InOrder
    <2>6. Answered(p)' = Answered(p)
      BY <1>5, <2>4 DEF Answered
    <2> QED  BY <1>5, <1>8, <2>5, <2>6, DialogueFrom
  <1>10. CASE m.proto = p
    <2>1. m \in Requested(p) /\ Answered(p) = {}
      BY <1>7, <1>10 DEF Requested
    <2>2. Put(p) = {} /\ Of(send_queued, p) = {} /\ Write(p) = {}
      BY <1>7, <1>10 DEF Alone
    <2>3. Requested(p)' = {}
      BY <1>5, <2>2 DEF Requested
    <2>4. Fors(slave.todo, p) = {} /\ Falling(slave.todo, p)
      BY <1>7, <2>1 DEF Answered, Todo, InOrder
    <2>5. Falling(slave'.todo, p) /\ Fors(slave'.todo, p) = Fors(a, p)
      <3>1. Falling(slave.todo \o a, p) /\ Fors(slave.todo \o a, p) = Fors(slave.todo, p) \cup Fors(a, p)
        BY <1>3, <1>4, <1>6, <2>4, ConcatFalls
      <3> QED  BY <1>3, <2>4, <3>1
    <2>6. /\ Held(p)' = {} /\ Pool(p)' = {} /\ Hand(p)' = {} /\ Box(p)' = {} /\ Todo(p)' = Fors(a, p)
      BY <1>5, <2>1, <2>5 DEF Answered, Todo
    <2>7. Answered(p)' = Fors(a, p)
      BY <2>6 DEF Answered
    <2>8. \A x \in Fors(a, p) : Fits(x) /\ x.req = m.req /\ x.kind = m.kind
      BY <1>6 DEF Fors
    <2>9. Own(p, m)'
      BY <1>5, <2>1, OwnKeeps DEF Dialogue
    <2>10. \A x \in Fors(a, p) : Own(p, x)'
      BY <2>8, <2>9 DEF Own
    <2>11. InOrder(p)'
      <3>1. Ordered(Held(p), Pool(p), Hand(p), Box(p), Todo(p))'
        BY <2>6 DEF Ordered, Above
      <3> QED  BY <1>2, <1>7, <2>5, <3>1 DEF InOrder
    <2>12. OneRequest(p)'
      BY <1>8, <2>3 DEF OneRequest
    <2> QED  BY <2>3, <2>7, <2>8, <2>10, <2>11, <2>12 DEF Dialogue, Fits
  <1> QED  BY <1>9, <1>10

\* From what the slave prepares to its mailbox.
LEMMA FillDialogue ==
    ASSUME Inv, UNCHANGED <<pc, call, hold>>, SlaveFill, NEW p, Dialogue(p)
    PROVE  Dialogue(p)'
  <1> DEFINE s == slave.todo
             m == Head(s)
             t == Tail(s)
  <1>1. /\ slave.in = NULL /\ s # <<>> /\ slave' = [slave EXCEPT !.in = m, !.todo = t]
        /\ UNCHANGED <<h, send_queued, recv_pool>>
    BY DEF SlaveFill, pools
  <1>2. slave'.in = m /\ slave'.todo = t /\ slave'.out = slave.out /\ s \in Seq(Messages)
    BY <1>1, MailboxFacts DEF SlaveType
  <1>3. Falling(s, p) /\ InOrder(p) /\ Ordered(Held(p), Pool(p), Hand(p), Box(p), Fors(s, p))
    BY DEF Dialogue, InOrder, Todo
  <1>4. /\ Falling(t, p) /\ Fors(t, p) \subseteq Fors(s, p)
        /\ For(m, p) => m \in Fors(s, p) /\ Above({m}, Fors(t, p))
    BY <1>1, <1>2, <1>3, TailFalls
  <1>5. /\ Hand(p)' = Hand(p) /\ Write(p)' = Write(p) /\ Held(p)' = Held(p) /\ Put(p)' = Put(p)
        /\ Asks(p) /\ Out(p)' = Out(p) /\ Pool(p)' = Pool(p) /\ Todo(p) = Fors(s, p)
        /\ Of(send_queued, p)' = Of(send_queued, p) /\ Todo(p)' = Fors(t, p)
    <2>1. Todo(p) = Fors(s, p)
      BY DEF Todo
    <2>2. Todo(p)' = Fors(t, p)
      BY <1>2 DEF Todo
    <2> QED  BY <1>1, <1>2, <2>1, <2>2, StillHeld, PartsSame
  <1> HIDE DEF s, m, t
  <1>6. Box(p) = {} /\ (For(m, p) => Box(p)' \subseteq {m}) /\ (~For(m, p) => Box(p)' = {})
    BY <1>1, <1>2 DEF Box
  <1>7. Ordered(Held(p), Pool(p), Hand(p), Box(p)', Fors(t, p))
    <2>1. CASE For(m, p)
      <3>1. Ordered(Held(p), Pool(p), Hand(p), {m}, Fors(t, p))
        BY <1>3, <1>4, <2>1, Stations
      <3> QED  BY <1>6, <2>1, <3>1, Stations
    <2>2. CASE ~For(m, p)
      BY <1>3, <1>4, <1>6, <2>2, Stations
    <2> QED  BY <2>1, <2>2
  <1>8. InOrder(p)'
    BY <1>1, <1>2, <1>3, <1>4, <1>5, <1>7 DEF InOrder
  <1>9. Requested(p)' = Requested(p) /\ Answered(p)' \subseteq Answered(p)
    BY <1>4, <1>5, <1>6 DEF Requested, Answered
  <1>10. One(send_queued, p)' /\ Alone(Put(p), Of(send_queued, p), Write(p), Out(p))'
    BY <1>1, <1>5 DEF Dialogue, OneRequest
  <1> QED  BY <1>5, <1>8, <1>9, <1>10, DialogueFrom

\* What the slave sends on its own is for none of them.
LEMMA EventDialogue ==
    ASSUME Inv, UNCHANGED <<pc, call, hold>>, SlaveEvent, NEW p, Dialogue(p)
    PROVE  Dialogue(p)'
  <1> DEFINE s == slave.todo
  <1>1. PICK m \in {Msg("coe", "emergency", NULL, NULL, events + 1),
                    Msg("other", "unknown", NULL, NULL, 0)} :
            slave' = [slave EXCEPT !.todo = Append(@, m)]
    BY DEF SlaveEvent
  <1>2. UNCHANGED <<h, send_queued, recv_pool>> /\ events \in Nat
    BY MailboxFacts DEF SlaveEvent, pools, OtherType
  <1>3. m \in Messages /\ ~For(m, p)
    BY <1>1, <1>2 DEF Msg, Messages, Protos, Services, For, ForUser
  <1> DEFINE t == Append(s, m)
  <1>4. slave'.todo = t /\ slave'.out = slave.out /\ slave'.in = slave.in /\ s \in Seq(Messages)
    BY <1>1, MailboxFacts DEF SlaveType
  <1>5. Falling(s, p) /\ InOrder(p)
    BY DEF Dialogue, InOrder
  <1>6. Falling(t, p) /\ Fors(t, p) = Fors(s, p)
    BY <1>3, <1>4, <1>5, AppendFalls
  <1>7. /\ Hand(p)' = Hand(p) /\ Write(p)' = Write(p) /\ Held(p)' = Held(p) /\ Put(p)' = Put(p)
        /\ Asks(p) /\ Out(p)' = Out(p) /\ Pool(p)' = Pool(p) /\ Todo(p)' = Todo(p) /\ Box(p)' = Box(p)
    <2>1. Todo(p)' = Todo(p)
      BY <1>4, <1>6 DEF Todo
    <2> QED  BY <1>2, <1>4, <2>1, StillHeld, PartsSame
  <1> HIDE DEF s, t
  <1>8. InOrder(p)'
    BY <1>2, <1>4, <1>5, <1>6, <1>7 DEF InOrder
  <1>9. Requested(p)' = Requested(p) /\ Answered(p)' = Answered(p)
    BY <1>2, <1>7 DEF Requested, Answered
  <1>10. One(send_queued, p)' /\ Alone(Put(p), Of(send_queued, p), Write(p), Out(p))'
    BY <1>2, <1>7 DEF Dialogue, OneRequest
  <1> QED  BY <1>7, <1>8, <1>9, <1>10, DialogueFrom

\* All steps of the mailbox.
LEMMA HandlerIdles ==
    ASSUME Inv, \/ HWait \/ HTimeout \/ HTake \/ HRecv \/ HAsk \/ HSample \/ HClear \/ HEmergency \/ HPost
                \/ Rx \/ EnterOp
    PROVE  Idles /\ UNCHANGED <<hold, coe_lock>>
  <1>1. UNCHANGED <<recv_pool, send_queued, slave, hold, coe_lock>>
    BY DEF HWait, HTimeout, HTake, HRecv, HAsk, HSample, HClear, HEmergency, HPost, HGiveBack,
           Rx, RxSample, RxSet, RxSched, EnterOp, pools
  <1>2. CASE Rx \/ EnterOp
    BY <1>1, <1>2 DEF Idles, Rx, RxSample, RxSet, RxSched, EnterOp
  <1>3. CASE HWait \/ HTimeout \/ HTake \/ HRecv \/ HAsk \/ HSample \/ HClear \/ HEmergency \/ HPost
    <2>1. h.pc \notin {"dispatch", "write"}
      BY <1>3 DEF HWait, HTimeout, HTake, HRecv, HAsk, HSample, HClear, HEmergency, HPost
    <2>2. h'.pc \notin {"dispatch", "write"}
      <3>1. \/ HReceived
            \/ \E l \in {"take", "recv", "send", "wait", "full", "read", "clear_full", "clear_empty"} :
                  h' = [h EXCEPT !.pc = l] \/ h' = [h EXCEPT !.pc = l, !.send = h'.send]
        <4>1. CASE HTake
          <5>1. \/ h' = [h EXCEPT !.pc = "recv", !.send = "send" \in sync.flags]
                \/ h' = [h EXCEPT !.pc = "send"] \/ h' = [h EXCEPT !.pc = "wait"]
            BY <4>1 DEF HTake
          <5>2. h' = [h EXCEPT !.pc = "recv", !.send = "send" \in sync.flags]
                   => h' = [h EXCEPT !.pc = "recv", !.send = h'.send]
            BY MailboxFacts DEF HandlerType
          <5> QED  BY <5>1, <5>2
        <4>2. CASE HWait \/ HTimeout \/ HRecv \/ HAsk \/ HSample
          BY <4>2 DEF HWait, HTimeout, HRecv, HAsk, HSample, HGiveBack
        <4>3. CASE HClear \/ HEmergency \/ HPost
          BY <4>3 DEF HClear, HEmergency, HPost, HGiveBack
        <4> QED  BY <1>3, <4>1, <4>2, <4>3
      <3>2. HReceived => h'.pc \in {"send", "wait"}
        BY DEF HReceived
      <3> QED  BY <3>1, <3>2, MailboxFacts DEF HandlerType
    <2> QED  BY <1>1, <2>1, <2>2 DEF Idles
  <1> QED  BY <1>1, <1>2, <1>3

LEMMA MailboxOwn ==
    ASSUME Inv, OwnInv, MNext, UNCHANGED uvars
    PROVE  OwnInv'
  <1>1. UNCHANGED <<pc, call, hold, coe_lock, timeouts>>
    <2>1. CASE HDispatch \/ HRead \/ HSend \/ HWrite \/ HRequeue \/ Slave \/ SlaveEvent
      BY <2>1 DEF HDispatch, HRead, HSend, HWrite, HRequeue, Slave, SlaveTake, SlaveFill, SlaveEvent, uvars
    <2> QED  BY <2>1, HandlerIdles DEF MNext, Handler, uvars
  <1>2. ASSUME NEW p \in {"coe", "gw"}, Dialogue(p) PROVE Dialogue(p)'
    <2>1. CASE Idles
      BY <1>1, <1>2, <2>1, IdleDialogue
    <2>2. CASE HDispatch \/ HRead \/ HSend \/ HWrite \/ HRequeue
      BY <1>1, <1>2, <2>2, DispatchDialogue, ReadDialogue, SendDialogue, WriteDialogue, RequeueDialogue
    <2>3. CASE Slave \/ SlaveEvent
      BY <1>1, <1>2, <2>3, TakeDialogue, FillDialogue, EventDialogue DEF Slave
    <2> QED  BY <2>1, <2>2, <2>3, HandlerIdles DEF MNext, Handler
  <1>3. Turns' /\ (Accounts => Accounts')
    BY <1>1 DEF OwnInv, Turns, Accounts
  <1> QED  BY <1>1, <1>2, <1>3 DEF OwnInv

LEMMA InitOwn == Init => OwnInv
  <1> SUFFICES ASSUME Init PROVE OwnInv
    OBVIOUS
  <1>1. /\ pc = [u \in Users |-> "out"] /\ timeouts = 0 /\ send_queued = <<>>
        /\ recv_pool = [p \in {"coe", "gw"} |-> <<>>] /\ h.pc = "wait"
        /\ slave.out = NULL /\ slave.in = NULL /\ slave.todo = <<>>
    BY DEF Init, MInit
  <1>2. Clients \subseteq Users /\ Gateways \subseteq Users
    BY CoEAssumption DEF Clients
  <1>3. ASSUME NEW p \in {"coe", "gw"} PROVE Dialogue(p)
    <2>1. /\ Held(p) = {} /\ Put(p) = {} /\ Hand(p) = {} /\ Write(p) = {} /\ Out(p) = {} /\ Box(p) = {}
      BY <1>1 DEF Held, Put, Hand, Write, Out, Box
    <2>2. Of(send_queued, p) = {} /\ Todo(p) = {} /\ Pool(p) = {}
      BY <1>1 DEF Of, Todo, Pool, Fors
    <2>3. /\ One(send_queued, p) /\ Mine(recv_pool[p], p)
          /\ Falling(recv_pool[p], p) /\ Falling(slave.todo, p)
      BY <1>1 DEF One, Mine, Falling
    <2> QED  BY <2>1, <2>2, <2>3 DEF Dialogue, OneRequest, InOrder, Requested, Answered, Alone, Ordered, Above
  <1>4. Accounts
    BY CoEAssumption DEF Init, NewCall, Accounts, Account
  <1> QED  BY <1>1, <1>2, <1>3, <1>4 DEF OwnInv, Turns

LEMMA NextOwn == OneGateway /\ Inv /\ OwnInv /\ [Next]_vars => OwnInv'
  <1> SUFFICES ASSUME OneGateway, Inv, OwnInv, [Next]_vars PROVE OwnInv'
    OBVIOUS
  <1>1. ASSUME NEW u \in Users, Start(u) \/ Lock(u) \/ WaitTimeout(u) \/ Step(u)
        PROVE  OwnInv'
    BY <1>1, StartOwn, LockOwn, WalkOwn, UnlockOwn, WaitTimeoutOwn, GetBufferOwn, PassOwn, ProcessOwn DEF Step
  <1>2. CASE EmergencyGetNext
    <2>1. UNCHANGED <<pc, call, hold, coe_lock, timeouts>> /\ Idles
      BY <1>2 DEF EmergencyGetNext, Idles, hvars, pools
    <2>2. \A p : Dialogue(p) => Dialogue(p)'
      BY <2>1, IdleDialogue
    <2>3. Turns' /\ (Accounts => Accounts')
      BY <2>1 DEF OwnInv, Turns, Accounts
    <2> QED  BY <2>1, <2>2, <2>3 DEF OwnInv
  <1>3. CASE MNext /\ UNCHANGED uvars
    BY <1>3, MailboxOwn
  <1>4. CASE UNCHANGED vars
    <2>1. UNCHANGED <<pc, call, hold, coe_lock, timeouts>> /\ Idles
      BY <1>4 DEF vars, mvars, uvars, pools, Idles
    <2>2. \A p : Dialogue(p) => Dialogue(p)'
      BY <2>1, IdleDialogue
    <2>3. Turns' /\ (Accounts => Accounts')
      BY <2>1 DEF OwnInv, Turns, Accounts
    <2> QED  BY <2>1, <2>2, <2>3 DEF OwnInv
  <1> QED  BY <1>1, <1>2, <1>3, <1>4 DEF Next

\* With one gateway thread, every message for a user belongs to the request that a
\* user has under way, as long as no wait has timed out.
THEOREM DialogueAlways == ASSUME OneGateway PROVE Spec => []OwnInv
  <1>1. OneGateway
    OBVIOUS
  <1>2. Inv /\ OwnInv /\ [Next]_vars => OwnInv'
    BY <1>1, NextOwn
  <1> QED  BY <1>2, InitOwn, InvAlways, PTL DEF Spec

\* While nobody has given up waiting, the message that a CoE service or the gateway takes
\* from its receive pool is an answer to its own request, although nothing in
\* ec_coe_enqueue or ec_mbx_gateway_enqueue compares the two.
THEOREM AnswersAreOwn == ASSUME OneGateway PROVE Spec => []OwnAnswer
  <1>1. OneGateway
    OBVIOUS
  <1>2. OwnInv => OwnAnswer
    <2> SUFFICES ASSUME OwnInv, NEW u \in Users, pc[u] = "process", timeouts = 0
                 PROVE  hold[u].req = Req(u)
      BY DEF OwnAnswer
    <2>1. Proto(u) \in {"coe", "gw"}
      BY DEF Proto
    <2>2. Turns /\ Dialogue(Proto(u))
      BY <2>1 DEF OwnInv
    <2> QED  BY <1>1, <2>2, HeldFits
  <1> QED  BY <1>1, <1>2, DialogueAlways, PTL

\* The step that ends an object dictionary list with EC_OK takes its last fragment, or
\* the slave's refusal.
LEMMA ListEnds ==
    ASSUME OneGateway, Inv, OwnInv, timeouts = 0, Confirmable, NEW u \in Clients, ProcessList(u), EndsOk(u)
    PROVE  Confirmed(call'[u]) \/ RefusedList(u)
  <1>1. u \in Users /\ pc[u] = "process" /\ call[u].kind = "odlist" /\ call[u] \in Calls /\ UserType
    BY UserFacts DEF Clients, ProcessList, Inv, TypeOK, UserType
  <1>2. /\ hold[u].kind = "odlist" /\ hold[u].req = Req(u) /\ Fits(hold[u])
        /\ call[u].acked = call[u].stage
    <2>1. Proto(u) \in {"coe", "gw"}
      BY DEF Proto
    <2> QED  BY <1>1, <2>1, HeldFits DEF OwnInv
  <1>3. Account(u, "process", call[u])
    BY <1>1 DEF OwnInv, Accounts
  <1>4. PICK left \in IF hold[u].svc \in {"info", "info_error"} THEN {hold[u].left} ELSE 0 .. Fragments,
             ret \in ListRets(u, hold[u]) :
            /\ Goto(u, IF left = 0 THEN "unlock" ELSE "sched")
            /\ call' = [call EXCEPT ![u].left = left, ![u].acked = Acked(u), ![u].ret = ret]
    BY DEF ProcessList
  <1>5. /\ call'[u].stage = call[u].stage /\ call'[u].rest = call[u].rest /\ call'[u].acked = Acked(u)
        /\ call[u].acked \in Nat
    BY <1>1, <1>4 DEF UserType, Calls
  <1>6. left = 0
    BY <1>1, <1>4 DEF EndsOk, Goto, UserType
  <1>7. CASE hold[u].svc = "info_error"
    BY <1>1, <1>2, <1>7 DEF RefusedList
  <1>8. CASE hold[u].svc = "info"
    <2>1. Confirms(u, hold[u])
      BY <1>2, <1>4, <1>6, <1>8 DEF Confirms
    <2>2. Acked(u) = call[u].acked + 1
      BY <1>5, <2>1 DEF Acked
    <2> QED  BY <1>1, <1>2, <1>3, <1>5, <2>2 DEF Account, Confirmed
  <1> QED  BY <1>2, <1>7, <1>8 DEF Fits

\* Nothing else ends it with EC_OK.
LEMMA ListOnly ==
    ASSUME Inv, OwnInv, [Next]_vars, timeouts' = 0, NEW u \in Clients, EndsOk(u), call'[u].kind = "odlist"
    PROVE  ProcessList(u)
  <1>1. u \in Users /\ UserType /\ timeouts \in Nat
    BY DEF Clients, Inv, TypeOK, UserType, OwnInv
  <1>2. pc'[u] # pc[u]
    BY DEF EndsOk
  <1>3. PICK v \in Users : Start(v) \/ Lock(v) \/ WaitTimeout(v) \/ Step(v)
    BY <1>2 DEF Next, vars, uvars, EmergencyGetNext
  <1>4. \E l : Goto(v, l)
    BY <1>3 DEF Start, Lock, WaitTimeout, NextSegment, Step, GetBuffer, Enqueue, PostSend, SchedRead, Receive,
                WaitAgain, ProcessSdo, ProcessInfo, ProcessList, ProcessGateway, Unlock
  <1>5. v = u
    BY <1>1, <1>2, <1>4 DEF Goto, UserType
  <1>6. ~WaitTimeout(u)
    BY <1>1 DEF WaitTimeout
  <1>7. ~GetBuffer(u)
    <2> SUFFICES ASSUME GetBuffer(u) PROVE FALSE
      OBVIOUS
    <2>1. CASE Goto(u, "put")
      BY <1>1, <2>1 DEF Goto, UserType, EndsOk
    <2>2. CASE call' = [call EXCEPT ![u].ret = "no_buffer"]
      BY <1>1, <2>2, UserFacts DEF EndsOk, UserType, Calls
    <2> QED  BY <2>1, <2>2 DEF GetBuffer, Clients
  <1>8. ~Start(u) /\ ~Lock(u) /\ ~Enqueue(u) /\ ~PostSend(u) /\ ~SchedRead(u) /\ ~Receive(u)
        /\ ~WaitAgain(u) /\ ~Unlock(u)
    BY <1>1 DEF Start, Lock, Enqueue, PostSend, SchedRead, Receive, WaitAgain, Unlock, Goto, UserType, EndsOk
  <1>9. ~ProcessGateway(u)
    BY DEF ProcessGateway, Clients
  <1>10. ~ProcessSdo(u) /\ ~ProcessInfo(u)
    <2>1. call[u] \in Calls
      BY <1>1, UserFacts
    <2>2. ASSUME ProcessSdo(u) PROVE call'[u].kind # "odlist"
      BY <1>1, <2>1, <2>2 DEF ProcessSdo, UserType, Calls
    <2>3. ASSUME ProcessInfo(u) PROVE call'[u].kind # "odlist"
      BY <1>1, <2>1, <2>3 DEF ProcessInfo, UserType, Calls
    <2> QED  BY <2>2, <2>3
  <1> QED  BY <1>3, <1>5, <1>6, <1>7, <1>8, <1>9, <1>10 DEF Step

\* A call that ends with EC_OK has been confirmed by the slave, every request of it, all
\* segments of a download included, as long as no wait has timed out and no segment in the
\* middle of a download can be refused; or the slave has refused an object dictionary
\* list, which ec_coe_odlist_read takes for the list.
THEOREM OkIsConfirmed == ASSUME OneGateway PROVE Spec => ConfirmedInTime
  <1>1. OneGateway
    OBVIOUS
  <1> DEFINE Ends == timeouts' = 0 /\ (Segments < 2 \/ ~Refuses) =>
                         \A u \in Clients : EndsOk(u) => Confirmed(call'[u]) \/ RefusedList(u)
  <1>2. Inv /\ OwnInv /\ OwnInv' /\ [Next]_vars => Ends
    <2> SUFFICES ASSUME Inv, OwnInv, OwnInv', [Next]_vars, timeouts' = 0, Confirmable,
                        NEW u \in Clients, EndsOk(u)
                 PROVE  Confirmed(call'[u]) \/ RefusedList(u)
      BY DEF Confirmable
    <2>1. CASE call'[u].kind # "odlist"
      <3>1. Account(u, pc[u], call[u])'
        BY DEF OwnInv, Accounts, Clients
      <3> QED  BY <2>1, <3>1 DEF Account, EndsOk
    <2>2. CASE call'[u].kind = "odlist"
      <3>1. ProcessList(u)
        BY <2>2, ListOnly
      <3>2. timeouts = 0
        BY <3>1 DEF ProcessList, Processed
      <3> QED  BY <1>1, <3>1, <3>2, ListEnds
    <2> QED  BY <2>1, <2>2
  <1> QED  BY <1>1, <1>2, DialogueAlways, InvAlways, PTL DEF Spec, ConfirmedInTime

-----------------------------------------------------------------------------
(* The emergencies: numbered in the order in which the slave sends them.   *)

\* Those on their way to the ring: what the handler has, in the slave's mailbox, and behind it.
Alarms(s)  == {s[i].left : i \in {j \in DOMAIN s : IsEmergency(s[j])}}
HandAlarms == IF h.pc \in {"dispatch", "emergency"} /\ IsEmergency(h.msg) THEN {h.msg.left} ELSE {}
BoxAlarms  == IF slave.in # NULL /\ IsEmergency(slave.in) THEN {slave.in.left} ELSE {}
TodoAlarms == Alarms(slave.todo)
RingAlarms == {em.slots[i] : i \in 0 .. MaxEmergencies - 1}

\* They arrive in that order.
Rising(s) == \A i, j \in DOMAIN s : i < j /\ IsEmergency(s[i]) /\ IsEmergency(s[j]) => s[i].left < s[j].left
Below(S, T) == \A x \in S, y \in T : x < y
Arriving(a, b, c, d) == Below(a, b \cup c \cup d) /\ Below(b, c \cup d) /\ Below(c, d)
Arrive == /\ Rising(slave.todo)
          /\ h.pc = "emergency" => IsEmergency(h.msg)
          /\ Arriving(RingAlarms, HandAlarms, BoxAlarms, TodoAlarms)
          /\ RingAlarms \subseteq 0 .. events
          /\ HandAlarms \cup BoxAlarms \cup TodoAlarms \subseteq 1 .. events

\* A ring that is not full yet, written at w, and read at 0, ...
Fresh(w, r, s) == /\ r = 0
                  /\ \A i \in 0 .. MaxEmergencies - 1 : s[i] > 0 <=> i < w
                  /\ \A i, j \in 0 .. MaxEmergencies - 1 : i < j /\ j < w => s[i] < s[j]

\* ... and a full one, read behind the slot that is written next, the oldest.
Earlier(w, i, j) == \/ i < j /\ (i >= w <=> j >= w)
                    \/ i >= w /\ j < w
Full(w, r, s) == /\ r = Succ(w)
                 /\ \A i \in 0 .. MaxEmergencies - 1 : s[i] > 0
                 /\ \A i, j \in 0 .. MaxEmergencies - 1 : Earlier(w, i, j) => s[i] < s[j]

RingInv == /\ Arrive
           /\ got = <<>> => Fresh(em.write, em.read, em.slots) \/ Full(em.write, em.read, em.slots)

\* The next slot.
LEMMA SuccIs ==
    ASSUME NEW i \in 0 .. MaxEmergencies - 1
    PROVE  /\ Succ(i) = (IF i + 1 = MaxEmergencies THEN 0 ELSE i + 1)
           /\ Succ(i) \in 0 .. MaxEmergencies - 1
  BY MailboxAssumption DEF Succ

\* Numbers around the ring.
LEMMA Around ==
    ASSUME NEW a \in 0 .. MaxEmergencies - 1
    PROVE  /\ a % MaxEmergencies = a
           /\ (a + MaxEmergencies) % MaxEmergencies = a
           /\ (a - MaxEmergencies) % MaxEmergencies = a
  <1>1. a % MaxEmergencies = a
    BY MailboxAssumption
  <1>2. (a + MaxEmergencies) % MaxEmergencies = a
    BY MailboxAssumption
  <1>3. (a - MaxEmergencies) % MaxEmergencies = a
    BY MailboxAssumption
  <1> QED  BY <1>1, <1>2, <1>3

\* A new emergency is put behind the others, and a full ring loses its oldest.
LEMMA RingPut ==
    ASSUME NEW w \in 0 .. MaxEmergencies - 1, NEW r, NEW s \in [0 .. MaxEmergencies - 1 -> Nat],
           NEW x \in Nat, \A i \in 0 .. MaxEmergencies - 1 : s[i] < x,
           Fresh(w, r, s) \/ Full(w, r, s)
    PROVE  LET w2 == Succ(w)
               r2 == IF Succ(w) = r THEN Succ(r) ELSE r
               t  == [s EXCEPT ![w] = x]
           IN  Fresh(w2, r2, t) \/ Full(w2, r2, t)
  <1> DEFINE w2 == Succ(w)
             r2 == IF Succ(w) = r THEN Succ(r) ELSE r
             t  == [s EXCEPT ![w] = x]
             Slots == 0 .. MaxEmergencies - 1
  <1>1. /\ w2 = (IF w + 1 = MaxEmergencies THEN 0 ELSE w + 1) /\ w2 \in Slots
        /\ MaxEmergencies \in Nat \ {0} /\ 0 \in Slots
    BY SuccIs, MailboxAssumption, SMTT(30)
  <1>2. /\ t[w] = x /\ \A i \in Slots : s[i] \in Nat /\ s[i] < x
        /\ \A i \in Slots : i # w => t[i] = s[i]
    OBVIOUS
  <1>3. x > 0
    BY <1>1, <1>2
  <1>4. r2 = IF w2 = r THEN Succ(r) ELSE r
    OBVIOUS
  <1> HIDE DEF t, w2, r2
  <1>5. CASE Fresh(w, r, s) /\ w + 1 # MaxEmergencies
    <2>1. r2 = 0 /\ w2 = w + 1
      BY <1>1, <1>4, <1>5 DEF Fresh
    <2>2. \A i \in Slots : t[i] > 0 <=> i < w2
      BY <1>1, <1>2, <1>3, <1>5, <2>1 DEF Fresh
    <2>3. ASSUME NEW i \in Slots, NEW j \in Slots, i < j, j < w2 PROVE t[i] < t[j]
      <3>1. CASE j = w
        BY <1>1, <1>2, <2>3, <3>1
      <3>2. CASE j # w
        BY <1>1, <1>2, <1>5, <2>1, <2>3, <3>2 DEF Fresh
      <3> QED  BY <3>1, <3>2
    <2> QED  BY <2>1, <2>2, <2>3 DEF Fresh, t, w2, r2
  <1>6. CASE Fresh(w, r, s) /\ w + 1 = MaxEmergencies
    <2>1. r2 = Succ(w2) /\ w2 = 0
      BY <1>1, <1>4, <1>6 DEF Fresh
    <2>2. \A i \in Slots : i = w \/ i < w
      BY <1>1, <1>6
    <2>3. \A i \in Slots : t[i] > 0
      BY <1>1, <1>2, <1>3, <1>6, <2>2 DEF Fresh
    <2>4. ASSUME NEW i \in Slots, NEW j \in Slots, Earlier(w2, i, j) PROVE t[i] < t[j]
      <3>1. i < j
        BY <1>1, <2>1, <2>4 DEF Earlier
      <3>2. CASE j = w
        BY <1>1, <1>2, <3>1, <3>2
      <3>3. CASE j # w
        BY <1>1, <1>2, <1>6, <2>2, <3>1, <3>3 DEF Fresh
      <3> QED  BY <3>2, <3>3
    <2> QED  BY <2>1, <2>3, <2>4 DEF Full, t, w2, r2
  <1>7. CASE Full(w, r, s)
    <2>1. r2 = Succ(w2)
      BY <1>4, <1>7 DEF Full, w2
    <2>2. \A i \in Slots : t[i] > 0
      BY <1>1, <1>2, <1>3, <1>7 DEF Full
    <2>3. ASSUME NEW i \in Slots, NEW j \in Slots, Earlier(w2, i, j) PROVE t[i] < t[j]
      <3>1. i # w /\ (j = w \/ Earlier(w, i, j))
        BY <1>1, <2>3 DEF Earlier
      <3>2. CASE j = w
        BY <1>2, <3>1, <3>2
      <3>3. CASE j # w
        BY <1>2, <1>7, <3>1, <3>3 DEF Full
      <3> QED  BY <3>2, <3>3
    <2> QED  BY <2>1, <2>2, <2>3 DEF Full, t, w2, r2
  <1> QED  BY <1>5, <1>6, <1>7 DEF t, w2, r2

\* Such a ring holds the newest.
LEMMA RingNewest ==
    ASSUME OtherType, Fresh(em.write, em.read, em.slots) \/ Full(em.write, em.read, em.slots), got = <<>>
    PROVE  NewestKept
  <1> DEFINE Slots == 0 .. MaxEmergencies - 1
             w == em.write
             r == em.read
             s == em.slots
             at(k) == s[(r + k) % MaxEmergencies]
  <1>1. /\ MaxEmergencies \in Nat \ {0} /\ w \in Slots /\ s \in [Slots -> Nat] /\ DOMAIN s = Slots
        /\ \A i \in Slots : s[i] \in Nat
    BY MailboxAssumption DEF OtherType
  <1>2. InSlot = {i \in Slots : s[i] > 0}
    BY <1>1 DEF InSlot
  <1>3. NewestKept <=>
            /\ InRing = Cardinality(InSlot) - (IF InSlot = Slots THEN 1 ELSE 0)
            /\ \A k \in 1 .. InRing - 1 : at(k - 1) < at(k)
            /\ InRing > 0 => \A i \in InSlot : s[i] <= at(InRing - 1)
    BY <1>1 DEF NewestKept
  <1>4. InRing = (w - r) % MaxEmergencies
    BY DEF InRing
  <1> HIDE DEF w, r, s
  <1>5. CASE Fresh(w, r, s)
    <2>1. InSlot = 0 .. w - 1 /\ InRing = w /\ InSlot # Slots
      <3>1. r = 0 /\ \A i \in Slots : s[i] > 0 <=> i < w
        BY <1>5 DEF Fresh
      <3>2. w - r = w /\ w \in Int
        BY <1>1, <3>1
      <3>3. InRing = w
        BY <1>1, <1>4, <3>2, Around
      <3>4. InSlot = {i \in Slots : i < w}
        BY <1>2, <3>1
      <3>5. {i \in Slots : i < w} = 0 .. w - 1 /\ w \in Slots /\ w \notin 0 .. w - 1
        BY <1>1
      <3> QED  BY <3>3, <3>4, <3>5
    <2>2. Cardinality(InSlot) = w
      <3>1. w - 1 \in Int /\ 0 \in Int
        BY <1>1
      <3> QED  BY <1>1, <2>1, <3>1, FS_Interval
    <2>3. \A k \in Slots : at(k) = s[k]
      BY <1>1, <1>5, Around DEF Fresh
    <2>4. ASSUME NEW k \in 1 .. w - 1 PROVE at(k - 1) < at(k)
      <3>1. k - 1 \in Slots /\ k \in Slots /\ k - 1 < k /\ k < w
        BY <1>1
      <3> QED  BY <1>5, <2>3, <3>1 DEF Fresh
    <2>5. ASSUME w > 0, NEW i \in InSlot PROVE s[i] <= at(w - 1)
      <3>1. w - 1 \in Slots /\ i \in Slots /\ (i = w - 1 \/ i < w - 1) /\ w - 1 < w
        BY <1>1, <2>1, <2>5
      <3>2. i < w - 1 => s[i] < s[w - 1]
        BY <1>5, <3>1 DEF Fresh
      <3> QED  BY <1>1, <2>3, <3>1, <3>2
    <2>6. InRing = Cardinality(InSlot) - (IF InSlot = Slots THEN 1 ELSE 0)
      BY <1>1, <2>1, <2>2
    <2> HIDE DEF at, Slots
    <2>7. \A k \in 1 .. InRing - 1 : at(k - 1) < at(k)
      BY <2>1, <2>4
    <2>8. InRing > 0 => \A i \in InSlot : s[i] <= at(InRing - 1)
      BY <2>1, <2>5
    <2> QED  BY <1>3, <2>6, <2>7, <2>8
  <1>6. CASE Full(w, r, s)
    <2>1. InSlot = Slots
      BY <1>2, <1>6 DEF Full
    <2>2. Cardinality(InSlot) = MaxEmergencies
      <3>1. MaxEmergencies - 1 \in Int /\ 0 \in Int
        BY <1>1
      <3> QED  BY <1>1, <2>1, <3>1, FS_Interval
    <2>3. r = (IF w + 1 = MaxEmergencies THEN 0 ELSE w + 1)
      BY <1>1, <1>6, SuccIs DEF Full
    <2>4. InRing = MaxEmergencies - 1
      <3>1. CASE w + 1 = MaxEmergencies
        BY <1>1, <1>4, <2>3, <3>1, Around
      <3>2. CASE w + 1 # MaxEmergencies
        <4>1. w - r = (MaxEmergencies - 1) - MaxEmergencies /\ MaxEmergencies - 1 \in Slots
          BY <1>1, <2>3, <3>2
        <4> QED  BY <1>4, <4>1, Around
      <3> QED  BY <3>1, <3>2
    <2> DEFINE idx(k) == IF r + k < MaxEmergencies THEN r + k ELSE r + k - MaxEmergencies
    <2>5. \A k \in Slots : at(k) = s[idx(k)] /\ idx(k) \in Slots
      <3> TAKE k \in Slots
      <3>1. CASE r + k < MaxEmergencies
        <4>1. r + k \in Slots
          BY <1>1, <2>3, <3>1
        <4> QED  BY <3>1, <4>1, Around
      <3>2. CASE ~(r + k < MaxEmergencies)
        <4>1. r + k - MaxEmergencies \in Slots /\ (r + k - MaxEmergencies) + MaxEmergencies = r + k
          BY <1>1, <2>3, <3>2
        <4>2. (r + k) % MaxEmergencies = r + k - MaxEmergencies
          BY <4>1, Around
        <4> QED  BY <3>2, <4>1, <4>2
      <3> QED  BY <3>1, <3>2
    <2>6. ASSUME NEW k \in 1 .. InRing - 1 PROVE at(k - 1) < at(k)
      <3>1. k \in Slots /\ k - 1 \in Slots
        BY <1>1, <2>4
      <3>2. Earlier(w, idx(k - 1), idx(k))
        BY <1>1, <2>3, <2>4 DEF Earlier
      <3> HIDE DEF idx
      <3> QED  BY <1>6, <2>5, <3>1, <3>2 DEF Full
    <2>7. ASSUME InRing > 0, NEW i \in InSlot PROVE s[i] <= at(InRing - 1)
      <3>1. InRing - 1 \in Slots /\ i \in Slots
        BY <1>1, <2>1, <2>4, <2>7
      <3>2. i = idx(InRing - 1) \/ Earlier(w, i, idx(InRing - 1))
        BY <1>1, <2>3, <2>4, <2>7, <3>1 DEF Earlier
      <3> HIDE DEF idx
      <3>3. Earlier(w, i, idx(InRing - 1)) => s[i] < s[idx(InRing - 1)]
        BY <1>6, <2>5, <3>1 DEF Full
      <3> DEFINE j == idx(InRing - 1)
      <3>4. at(InRing - 1) = s[j] /\ j \in Slots
        BY <2>5, <3>1
      <3>5. s[i] \in Nat /\ s[j] \in Nat
        BY <1>1, <3>1, <3>4
      <3>6. i = j \/ s[i] < s[j]
        BY <3>2, <3>3
      <3> HIDE DEF j, at
      <3> QED  BY <3>4, <3>5, <3>6
    <2> QED  BY <1>1, <1>3, <2>1, <2>2, <2>4, <2>6, <2>7
  <1> QED  BY <1>5, <1>6 DEF w, r, s

\* What happens to the order of the alarms.
LEMMA ArrivingNext ==
    ASSUME NEW a, NEW b, NEW c, NEW d, Arriving(a, b, c, d)
    PROVE  /\ \A a2, b2, c2, d2 : a2 \subseteq a /\ b2 \subseteq b /\ c2 \subseteq c /\ d2 \subseteq d
                                  => Arriving(a2, b2, c2, d2)
           /\ Arriving(a \cup b, {}, c, d)
           /\ b = {} => Arriving(a, c, {}, d)
           /\ c = {} => \A x, d2 : x \in d /\ d2 \subseteq d /\ Below({x}, d2) => Arriving(a, b, {x}, d2)
           /\ \A x : Below(a \cup b \cup c \cup d, {x}) => Arriving(a, b, c, d \cup {x})
  <1>1. \A a2, b2, c2, d2 : a2 \subseteq a /\ b2 \subseteq b /\ c2 \subseteq c /\ d2 \subseteq d
                            => Arriving(a2, b2, c2, d2)
    BY DEF Arriving, Below
  <1>2. Arriving(a \cup b, {}, c, d) /\ (b = {} => Arriving(a, c, {}, d))
    BY DEF Arriving, Below
  <1>3. c = {} => \A x, d2 : x \in d /\ d2 \subseteq d /\ Below({x}, d2) => Arriving(a, b, {x}, d2)
    BY DEF Arriving, Below
  <1>4. \A x : Below(a \cup b \cup c \cup d, {x}) => Arriving(a, b, c, d \cup {x})
    BY DEF Arriving, Below
  <1> QED  BY <1>1, <1>2, <1>3, <1>4

\* The first of them is below the others.
LEMMA TailRises ==
    ASSUME NEW s \in Seq(Messages), s # <<>>, Rising(s)
    PROVE  LET t == Tail(s)  m == Head(s)
           IN  /\ Rising(t) /\ Alarms(t) \subseteq Alarms(s)
               /\ IsEmergency(m) => m.left \in Alarms(s) /\ Below({m.left}, Alarms(t))
  <1> DEFINE t == Tail(s)
             m == Head(s)
  <1>1. /\ t \in Seq(Messages) /\ Len(t) = Len(s) - 1 /\ Len(s) \in Nat /\ Len(s) >= 1 /\ s[1] = m
        /\ \A i \in 1 .. Len(t) : t[i] = s[i + 1]
    OBVIOUS
  <1>2. DOMAIN s = 1 .. Len(s) /\ DOMAIN t = 1 .. Len(t)
    BY <1>1
  <1> HIDE DEF t, m
  <1>3. 1 \in DOMAIN s /\ \A i \in DOMAIN t : i + 1 \in DOMAIN s /\ t[i] = s[i + 1] /\ 1 < i + 1
    BY <1>1, <1>2
  <1>4. \A i, j \in DOMAIN t : i < j => i + 1 < j + 1
    BY <1>1, <1>2
  <1>5. Rising(t)
    BY <1>3, <1>4 DEF Rising
  <1>6. Alarms(t) \subseteq Alarms(s)
    BY <1>3 DEF Alarms
  <1>7. ASSUME IsEmergency(m) PROVE m.left \in Alarms(s) /\ Below({m.left}, Alarms(t))
    <2>1. m.left \in Alarms(s)
      BY <1>1, <1>3, <1>7 DEF Alarms
    <2>2. \A i \in DOMAIN t : IsEmergency(t[i]) => m.left < t[i].left
      BY <1>1, <1>3, <1>7 DEF Rising
    <2> QED  BY <2>1, <2>2 DEF Below, Alarms
  <1> QED  BY <1>5, <1>6, <1>7 DEF t, m

\* The last one is above the others.
LEMMA AppendRises ==
    ASSUME NEW s \in Seq(Messages), NEW m \in Messages, Rising(s),
           IsEmergency(m) => Below(Alarms(s), {m.left})
    PROVE  LET t == Append(s, m)
           IN  /\ Rising(t)
               /\ Alarms(t) = Alarms(s) \cup (IF IsEmergency(m) THEN {m.left} ELSE {})
  <1> DEFINE t == Append(s, m)
             n == Len(s) + 1
  <1>1. /\ t \in Seq(Messages) /\ Len(t) = n /\ Len(s) \in Nat /\ t[n] = m
        /\ \A i \in 1 .. Len(s) : t[i] = s[i]
    OBVIOUS
  <1>2. DOMAIN s = 1 .. Len(s) /\ DOMAIN t = 1 .. n
    BY <1>1
  <1> HIDE DEF t
  <1>3. n \in DOMAIN t /\ n \notin DOMAIN s /\ \A i \in DOMAIN s : i \in DOMAIN t /\ t[i] = s[i] /\ i < n
    BY <1>1, <1>2
  <1>4. \A i \in DOMAIN t : (i = n \/ i \in DOMAIN s) /\ ~(n < i)
    BY <1>1, <1>2
  <1> HIDE DEF n
  <1>5. Rising(t)
    <2> SUFFICES ASSUME NEW i \in DOMAIN t, NEW j \in DOMAIN t, i < j, IsEmergency(t[i]), IsEmergency(t[j])
                 PROVE  t[i].left < t[j].left
      BY DEF Rising
    <2>1. i \in DOMAIN s
      BY <1>4
    <2>2. CASE j \in DOMAIN s
      BY <1>3, <2>1, <2>2 DEF Rising
    <2>3. CASE j = n
      <3>1. IsEmergency(m) /\ t[i] = s[i] /\ t[i].left \in Alarms(s)
        BY <1>1, <1>3, <2>1, <2>3 DEF Alarms
      <3> QED  BY <1>1, <2>3, <3>1 DEF Below
    <2> QED  BY <1>4, <2>2, <2>3
  <1>6. IsEmergency(m) => Alarms(t) = Alarms(s) \cup {m.left}
    BY <1>1, <1>3, <1>4 DEF Alarms
  <1>7. ~IsEmergency(m) => Alarms(t) = Alarms(s)
    BY <1>1, <1>3, <1>4 DEF Alarms
  <1> QED  BY <1>5, <1>6, <1>7 DEF t

\* Answers are no emergencies.
LEMMA ConcatRises ==
    ASSUME NEW s \in Seq(Messages), NEW a \in Seq(Messages), Rising(s),
           \A i \in DOMAIN a : ~IsEmergency(a[i])
    PROVE  Rising(s \o a) /\ Alarms(s \o a) = Alarms(s)
  <1> DEFINE t == s \o a
             n == Len(s)
  <1>1. /\ t \in Seq(Messages) /\ Len(t) = n + Len(a) /\ n \in Nat /\ Len(a) \in Nat
        /\ \A i \in 1 .. n : t[i] = s[i]
        /\ \A i \in 1 .. Len(a) : t[n + i] = a[i]
    OBVIOUS
  <1>2. DOMAIN s = 1 .. n /\ DOMAIN a = 1 .. Len(a) /\ DOMAIN t = 1 .. n + Len(a)
    BY <1>1
  <1> HIDE DEF t, n
  <1>3. \A i \in DOMAIN s : i \in DOMAIN t /\ t[i] = s[i]
    BY <1>1, <1>2
  <1>4. \A i \in DOMAIN t : IsEmergency(t[i]) => i \in DOMAIN s /\ t[i] = s[i]
    <2>1. TAKE i \in DOMAIN t
    <2>2. CASE i > n
      <3>1. i - n \in 1 .. Len(a) /\ n + (i - n) = i
        BY <1>1, <1>2, <2>2
      <3> QED  BY <1>1, <1>2, <3>1
    <2>3. CASE i <= n
      BY <1>1, <1>2, <2>3
    <2> QED  BY <1>1, <1>2, <2>2, <2>3
  <1>5. Rising(t)
    BY <1>4 DEF Rising
  <1>6. Alarms(t) = Alarms(s)
    BY <1>3, <1>4 DEF Alarms
  <1> QED  BY <1>5, <1>6 DEF t

\* The alarms that nobody touches.
LEMMA AlarmsSame ==
    /\ h' = h => HandAlarms' = HandAlarms
    /\ h.pc \notin {"dispatch", "emergency"} => HandAlarms = {}
    /\ h'.pc \notin {"dispatch", "emergency"} => HandAlarms' = {}
    /\ slave'.in = slave.in => BoxAlarms' = BoxAlarms
    /\ slave'.todo = slave.todo => TodoAlarms' = TodoAlarms
    /\ em'.slots = em.slots => RingAlarms' = RingAlarms
  BY DEF HandAlarms, BoxAlarms, TodoAlarms, RingAlarms

\* Nothing happens to them.
LEMMA AlarmsStay ==
    ASSUME RingInv, UNCHANGED <<slave, em, events, got>>,
           h' = h \/ h'.pc \notin {"dispatch", "emergency"}
    PROVE  RingInv'
  <1>1. /\ HandAlarms' \subseteq HandAlarms /\ BoxAlarms' = BoxAlarms
        /\ TodoAlarms' = TodoAlarms /\ RingAlarms' = RingAlarms
    BY AlarmsSame
  <1>2. Arriving(RingAlarms', HandAlarms', BoxAlarms', TodoAlarms')
    BY <1>1, ArrivingNext DEF RingInv, Arrive
  <1>3. Arrive'
    BY <1>1, <1>2 DEF RingInv, Arrive
  <1> QED  BY <1>3 DEF RingInv

LEMMA ReadRing ==
    ASSUME Inv, RingInv, HRead, UNCHANGED got
    PROVE  RingInv'
  <1>1. h.pc = "read" /\ slave' = [slave EXCEPT !.in = NULL] /\ UNCHANGED <<em, events>>
    BY DEF HRead
  <1>2. slave'.in = NULL /\ slave'.todo = slave.todo
    BY <1>1, MailboxFacts DEF SlaveType
  <1>3. h'.pc # "emergency" /\ HandAlarms' \subseteq BoxAlarms
    <2>1. CASE slave.in # NULL /\ h' = [h EXCEPT !.pc = "dispatch", !.msg = slave.in]
      <3>1. h'.pc = "dispatch" /\ h'.msg = slave.in
        BY <2>1, MailboxFacts DEF HandlerType
      <3> QED  BY <2>1, <3>1 DEF HandAlarms, BoxAlarms
    <2>2. CASE HReceived
      <3>1. h'.pc \in {"send", "wait"}
        BY <2>2 DEF HReceived
      <3> QED  BY <3>1, AlarmsSame
    <2> QED  BY <2>1, <2>2 DEF HRead, HGiveBack
  <1>4. HandAlarms = {} /\ BoxAlarms' = {} /\ TodoAlarms' = TodoAlarms /\ RingAlarms' = RingAlarms
    <2>1. BoxAlarms' = {}
      BY <1>2 DEF BoxAlarms
    <2> QED  BY <1>1, <1>2, <2>1, AlarmsSame
  <1>5. Arriving(RingAlarms', HandAlarms', BoxAlarms', TodoAlarms')
    <2>1. Arriving(RingAlarms, BoxAlarms, {}, TodoAlarms)
      BY <1>4, ArrivingNext DEF RingInv, Arrive
    <2> QED  BY <1>3, <1>4, <2>1, ArrivingNext
  <1>6. Arrive'
    BY <1>1, <1>2, <1>3, <1>4, <1>5 DEF RingInv, Arrive
  <1> QED  BY <1>1, <1>6 DEF RingInv

LEMMA DispatchRing ==
    ASSUME Inv, RingInv, HDispatch, UNCHANGED got
    PROVE  RingInv'
  <1>1. h.pc = "dispatch" /\ UNCHANGED <<slave, em, events>>
    BY DEF HDispatch
  <1>2. CASE HReceived
    <2>1. h'.pc \in {"send", "wait"}
      BY <1>2 DEF HReceived
    <2> QED  BY <1>1, <2>1, AlarmsStay
  <1>3. CASE IsEmergency(h.msg) /\ h' = [h EXCEPT !.pc = "emergency"]
    <2>1. h'.pc = "emergency" /\ h'.msg = h.msg
      BY <1>3, MailboxFacts DEF HandlerType
    <2>2. /\ HandAlarms' = HandAlarms /\ BoxAlarms' = BoxAlarms
          /\ TodoAlarms' = TodoAlarms /\ RingAlarms' = RingAlarms
      <3>1. HandAlarms' = HandAlarms
        BY <1>1, <1>3, <2>1 DEF HandAlarms
      <3> QED  BY <1>1, <3>1, AlarmsSame
    <2>3. Arrive'
      BY <1>1, <1>3, <2>1, <2>2 DEF RingInv, Arrive
    <2> QED  BY <1>1, <2>3 DEF RingInv
  <1> QED  BY <1>2, <1>3 DEF HDispatch, HGiveBack

LEMMA EmergencyRing ==
    ASSUME Inv, RingInv, HEmergency, UNCHANGED got
    PROVE  RingInv'
  <1> DEFINE x == h.msg.left
             Slots == 0 .. MaxEmergencies - 1
  <1>1. /\ h.pc = "emergency" /\ UNCHANGED <<slave, events>> /\ HReceived
        /\ em' = [em EXCEPT !.slots[em.write] = x,
                        !.write = Succ(em.write),
                        !.read = IF Succ(em.write) = @ THEN Succ(@) ELSE @]
    BY DEF HEmergency, HGiveBack
  <1>2. /\ em \in [write : Slots, read : Nat, slots : [Slots -> Nat]]
        /\ h.msg \in Messages /\ events \in Nat
    BY <1>1, MailboxFacts DEF OtherType, HandlerControl
  <1>3. /\ em'.write = Succ(em.write) /\ em'.read = IF Succ(em.write) = em.read THEN Succ(em.read) ELSE em.read
        /\ em'.slots = [em.slots EXCEPT ![em.write] = x]
    BY <1>1, <1>2
  <1>4. IsEmergency(h.msg) /\ HandAlarms = {x}
    BY <1>1 DEF RingInv, Arrive, HandAlarms
  <1>5. \A i \in Slots : em.slots[i] < x
    BY <1>4 DEF RingInv, Arrive, Arriving, Below, RingAlarms
  <1>6. h'.pc \in {"send", "wait"}
    BY <1>1 DEF HReceived
  <1>7. HandAlarms' = {} /\ BoxAlarms' = BoxAlarms /\ TodoAlarms' = TodoAlarms
    BY <1>1, <1>6, AlarmsSame
  <1>8. RingAlarms' \subseteq RingAlarms \cup HandAlarms
    <2>1. \A i \in Slots : em'.slots[i] = x \/ em'.slots[i] = em.slots[i]
      BY <1>2, <1>3
    <2> QED  BY <1>4, <2>1 DEF RingAlarms
  <1>9. Arriving(RingAlarms', HandAlarms', BoxAlarms', TodoAlarms')
    <2>1. Arriving(RingAlarms \cup HandAlarms, {}, BoxAlarms, TodoAlarms)
      BY ArrivingNext DEF RingInv, Arrive
    <2> QED  BY <1>7, <1>8, <2>1, ArrivingNext
  <1>10. Arrive'
    <2>1. 1 .. events \subseteq 0 .. events
      BY <1>2
    <2>2. RingAlarms' \subseteq 0 .. events
      BY <1>8, <2>1 DEF RingInv, Arrive
    <2> QED  BY <1>1, <1>6, <1>7, <1>9, <2>2 DEF RingInv, Arrive
  <1>11. got = <<>> => Fresh(em.write, em.read, em.slots)' \/ Full(em.write, em.read, em.slots)'
    <2>1. x \in Nat
      BY <1>2 DEF Messages
    <2>2. /\ em.write \in Slots /\ em.slots \in [Slots -> Nat]
      BY <1>2
    <2> DEFINE w2 == Succ(em.write)
               r2 == IF Succ(em.write) = em.read THEN Succ(em.read) ELSE em.read
               t  == [em.slots EXCEPT ![em.write] = x]
    <2>3. got = <<>> => Fresh(w2, r2, t) \/ Full(w2, r2, t)
      BY <1>5, <2>1, <2>2, RingPut DEF RingInv
    <2>4. em'.write = w2 /\ em'.read = r2 /\ em'.slots = t
      BY <1>3
    <2> HIDE DEF w2, r2, t
    <2> QED  BY <2>3, <2>4
  <1> QED  BY <1>10, <1>11 DEF RingInv

LEMMA SlaveRing ==
    ASSUME Inv, RingInv, Slave \/ SlaveEvent, UNCHANGED got
    PROVE  RingInv'
  <1>1. UNCHANGED <<h, em>> /\ slave.todo \in Seq(Messages) /\ events \in Nat /\ Rising(slave.todo)
    BY MailboxFacts DEF Slave, SlaveTake, SlaveFill, SlaveEvent, SlaveType, OtherType, RingInv, Arrive
  <1>2. HandAlarms' = HandAlarms /\ RingAlarms' = RingAlarms
    BY <1>1, AlarmsSame
  <1>3. CASE SlaveTake
    <2>1. PICK m : m = slave.out
      OBVIOUS
    <2>2. PICK a \in Answers(m) : slave' = [slave EXCEPT !.out = NULL, !.todo = @ \o a]
      BY <1>3, <2>1 DEF SlaveTake
    <2>3. m \in Messages /\ events' = events
      BY <1>3, <2>1, MailboxFacts DEF SlaveTake, SlaveType
    <2>4. slave'.in = slave.in /\ slave'.todo = slave.todo \o a
      BY <2>2, MailboxFacts DEF SlaveType
    <2>5. a \in Seq(Messages)
      BY <2>3, AnswersType
    <2>6. \A i \in DOMAIN a : ~IsEmergency(a[i])
      BY <2>3, AnswersFit DEF Fits, IsEmergency
    <2>7. Rising(slave.todo \o a) /\ Alarms(slave.todo \o a) = Alarms(slave.todo)
      BY <1>1, <2>5, <2>6, ConcatRises
    <2>8. BoxAlarms' = BoxAlarms /\ TodoAlarms' = TodoAlarms /\ Rising(slave.todo)'
      <3>1. TodoAlarms' = TodoAlarms
        BY <2>4, <2>7 DEF TodoAlarms
      <3> QED  BY <2>4, <2>7, <3>1, AlarmsSame
    <2>9. Arrive'
      BY <1>1, <1>2, <2>3, <2>8 DEF RingInv, Arrive
    <2> QED  BY <1>1, <2>9 DEF RingInv
  <1>4. CASE SlaveFill
    <2> DEFINE m == Head(slave.todo)
               t == Tail(slave.todo)
    <2>1. /\ slave.in = NULL /\ slave.todo # <<>> /\ slave' = [slave EXCEPT !.in = m, !.todo = t]
          /\ events' = events
      BY <1>4 DEF SlaveFill
    <2>2. slave'.in = m /\ slave'.todo = t
      BY <2>1, MailboxFacts DEF SlaveType
    <2>3. /\ Rising(t) /\ Alarms(t) \subseteq Alarms(slave.todo)
          /\ IsEmergency(m) => m.left \in Alarms(slave.todo) /\ Below({m.left}, Alarms(t))
      BY <1>1, <2>1, TailRises
    <2>4. /\ TodoAlarms' = Alarms(t) /\ TodoAlarms = Alarms(slave.todo) /\ BoxAlarms = {}
          /\ BoxAlarms' \subseteq IF IsEmergency(m) THEN {m.left} ELSE {}
      BY <2>1, <2>2 DEF TodoAlarms, BoxAlarms
    <2>5. Rising(slave.todo)'
      BY <2>2, <2>3
    <2> HIDE DEF m, t
    <2>6. Arriving(RingAlarms', HandAlarms', BoxAlarms', TodoAlarms')
      <3>1. CASE IsEmergency(m)
        <4>1. Arriving(RingAlarms, HandAlarms, {m.left}, Alarms(t))
          BY <2>3, <2>4, <3>1, ArrivingNext DEF RingInv, Arrive
        <4> QED  BY <1>2, <2>4, <3>1, <4>1, ArrivingNext
      <3>2. CASE ~IsEmergency(m)
        BY <1>2, <2>3, <2>4, <3>2, ArrivingNext DEF RingInv, Arrive
      <3> QED  BY <3>1, <3>2
    <2>7. HandAlarms' \cup BoxAlarms' \cup TodoAlarms' \subseteq HandAlarms \cup TodoAlarms
      BY <1>2, <2>3, <2>4
    <2>8. Arrive'
      BY <1>1, <1>2, <2>1, <2>5, <2>6, <2>7 DEF RingInv, Arrive
    <2> QED  BY <1>1, <2>8 DEF RingInv
  <1>5. CASE SlaveEvent
    <2>1. PICK m \in {Msg("coe", "emergency", NULL, NULL, events + 1),
                      Msg("other", "unknown", NULL, NULL, 0)} :
              slave' = [slave EXCEPT !.todo = Append(@, m)]
      BY <1>5 DEF SlaveEvent
    <2>2. events' = events + 1
      BY <1>5 DEF SlaveEvent
    <2>3. m \in Messages /\ (IsEmergency(m) => m.left = events + 1)
      BY <1>1, <2>1 DEF Msg, Messages, Protos, Services, IsEmergency
    <2> DEFINE t == Append(slave.todo, m)
    <2>4. slave'.todo = t /\ slave'.in = slave.in
      BY <2>1, MailboxFacts DEF SlaveType
    <2>5. Below(RingAlarms \cup HandAlarms \cup BoxAlarms \cup TodoAlarms, {events + 1})
      BY <1>1 DEF RingInv, Arrive, Below
    <2>6. /\ Rising(t)
          /\ Alarms(t) = Alarms(slave.todo) \cup (IF IsEmergency(m) THEN {m.left} ELSE {})
      <3>1. IsEmergency(m) => Below(Alarms(slave.todo), {m.left})
        BY <2>3, <2>5 DEF Below, TodoAlarms
      <3> QED  BY <1>1, <2>3, <3>1, AppendRises
    <2>7. /\ BoxAlarms' = BoxAlarms /\ Rising(slave.todo)'
          /\ TodoAlarms' = TodoAlarms \cup (IF IsEmergency(m) THEN {events + 1} ELSE {})
      <3>1. TodoAlarms' = TodoAlarms \cup (IF IsEmergency(m) THEN {events + 1} ELSE {})
        BY <2>3, <2>4, <2>6 DEF TodoAlarms
      <3> QED  BY <2>4, <2>6, <3>1, AlarmsSame
    <2> HIDE DEF t
    <2>8. Arriving(RingAlarms', HandAlarms', BoxAlarms', TodoAlarms')
      BY <1>2, <2>5, <2>7, ArrivingNext DEF RingInv, Arrive
    <2>9. /\ RingAlarms' \subseteq 0 .. events'
          /\ HandAlarms' \cup BoxAlarms' \cup TodoAlarms' \subseteq 1 .. events'
      <3>1. 0 .. events \subseteq 0 .. events' /\ 1 .. events \subseteq 1 .. events' /\ events + 1 \in 1 .. events'
        BY <1>1, <2>2
      <3> QED  BY <1>2, <2>7, <3>1 DEF RingInv, Arrive
    <2>10. Arrive'
      BY <1>1, <2>7, <2>8, <2>9 DEF RingInv, Arrive
    <2> QED  BY <1>1, <2>10 DEF RingInv
  <1> QED  BY <1>3, <1>4, <1>5 DEF Slave

LEMMA InitRing == Init => RingInv
  <1> SUFFICES ASSUME Init PROVE RingInv
    OBVIOUS
  <1>1. /\ em = [write |-> 0, read |-> 0, slots |-> [i \in 0 .. MaxEmergencies - 1 |-> 0]]
        /\ events = 0 /\ h.pc = "wait" /\ slave.in = NULL /\ slave.todo = <<>>
    BY DEF Init, MInit
  <1>2. MaxEmergencies \in Nat \ {0}
    BY MailboxAssumption
  <1>3. HandAlarms = {} /\ BoxAlarms = {} /\ TodoAlarms = {} /\ RingAlarms \subseteq {0}
    BY <1>1 DEF HandAlarms, BoxAlarms, TodoAlarms, Alarms, RingAlarms
  <1>4. Arrive
    BY <1>1, <1>3 DEF Arrive, Arriving, Below, Rising
  <1>5. Fresh(em.write, em.read, em.slots)
    BY <1>1, <1>2 DEF Fresh
  <1> QED  BY <1>4, <1>5 DEF RingInv

LEMMA NextRing == Inv /\ RingInv /\ [Next]_vars => RingInv'
  <1> SUFFICES ASSUME Inv, RingInv, [Next]_vars PROVE RingInv'
    OBVIOUS
  <1>1. ASSUME NEW u \in Users, Start(u) \/ Lock(u) \/ WaitTimeout(u) \/ Step(u)
        PROVE  RingInv'
    <2>1. CASE Start(u) \/ Lock(u) \/ WaitTimeout(u) \/ WaitAgain(u)
      BY <2>1, AlarmsStay DEF Start, Lock, WaitTimeout, WaitAgain, mvars, hvars
    <2>2. CASE GetBuffer(u) \/ Enqueue(u) \/ PostSend(u) \/ SchedRead(u) \/ Receive(u) \/ Unlock(u)
      BY <2>2, AlarmsStay DEF GetBuffer, Enqueue, PostSend, SchedRead, Receive, Unlock, hvars
    <2>3. CASE ProcessSdo(u) \/ ProcessInfo(u) \/ ProcessList(u) \/ ProcessGateway(u)
      BY <2>3, AlarmsStay DEF ProcessSdo, ProcessInfo, ProcessList, ProcessGateway, Processed, hvars
    <2> QED  BY <1>1, <2>1, <2>2, <2>3 DEF Step
  <1>2. CASE EmergencyGetNext
    <2>1. /\ UNCHANGED <<h, slave, events>> /\ em' = [em EXCEPT !.read = @ + 1] 
          /\ got' = Append(got, IF em.read < MaxEmergencies THEN em.slots[em.read] ELSE 0)
      BY <1>2 DEF EmergencyGetNext, hvars
    <2>2. em'.slots = em.slots
      BY <2>1, MailboxFacts DEF OtherType
    <2>3. got' # <<>>
      <3>1. got \in Seq(Nat) /\ \A x \in Nat : Append(got, x) # <<>>
        <4>1. got \in Seq(Nat)
          BY DEF Inv, TypeOK
        <4>2. \A x \in Nat, s \in Seq(Nat) : Append(s, x) # <<>>
          <5> TAKE x \in Nat, s \in Seq(Nat)
          <5>1. Len(Append(s, x)) = Len(s) + 1 /\ Len(s) \in Nat /\ Len(<<>>) = 0
            OBVIOUS
          <5> QED  BY <5>1
        <4> QED  BY <4>1, <4>2
      <3>2. (IF em.read < MaxEmergencies THEN em.slots[em.read] ELSE 0) \in Nat
        BY MailboxAssumption, MailboxFacts, SMTT(30) DEF OtherType
      <3> QED  BY <2>1, <3>1, <3>2
    <2>4. /\ HandAlarms' = HandAlarms /\ BoxAlarms' = BoxAlarms
          /\ TodoAlarms' = TodoAlarms /\ RingAlarms' = RingAlarms
      BY <2>1, <2>2, AlarmsSame
    <2>5. Arrive'
      BY <2>1, <2>4 DEF RingInv, Arrive
    <2> QED  BY <2>3, <2>5 DEF RingInv
  <1>3. CASE MNext /\ UNCHANGED uvars
    <2>1. UNCHANGED got
      BY <1>3 DEF uvars
    <2>2. CASE HWait \/ HTimeout \/ HTake \/ HRecv \/ HAsk \/ HSample \/ HClear \/ HPost
      <3>1. UNCHANGED <<slave, em, events>>
        BY <2>2 DEF HWait, HTimeout, HTake, HRecv, HAsk, HSample, HClear, HPost
      <3>2. h'.pc \in {"take", "recv", "send", "wait", "full", "read", "clear_full", "clear_empty"}
        <4>1. \/ HReceived
              \/ \E b : \E l \in {"take", "recv", "send", "wait", "full", "read", "clear_full", "clear_empty"} :
                    h' = [h EXCEPT !.pc = l] \/ h' = [h EXCEPT !.pc = l, !.send = b]
          <5>1. CASE HTake
            BY <5>1 DEF HTake
          <5>2. CASE HWait \/ HTimeout \/ HRecv \/ HAsk
            BY <5>2 DEF HWait, HTimeout, HRecv, HAsk, HGiveBack
          <5>3. CASE HSample \/ HClear \/ HPost
            BY <5>3 DEF HSample, HClear, HPost, HGiveBack
          <5> QED  BY <2>2, <5>1, <5>2, <5>3
        <4>2. HReceived => h'.pc \in {"send", "wait"}
          BY DEF HReceived
        <4> QED  BY <4>1, <4>2, MailboxFacts DEF HandlerType
      <3> QED  BY <2>1, <3>1, <3>2, AlarmsStay
    <2>3. CASE HSend \/ HWrite \/ HRequeue
      <3>1. UNCHANGED <<em, events>> /\ slave'.in = slave.in /\ slave'.todo = slave.todo
        <4>1. UNCHANGED slave \/ slave' = [slave EXCEPT !.out = h.msg]
          BY <2>3 DEF HSend, HWrite, HRequeue
        <4> QED  BY <2>3, <4>1, MailboxFacts DEF HSend, HWrite, HRequeue, SlaveType
      <3>2. h'.pc \in {"write", "wait", "post"}
        BY <2>3, MailboxFacts DEF HSend, HWrite, HRequeue, HandlerType
      <3>3. /\ HandAlarms' = {} /\ BoxAlarms' = BoxAlarms
            /\ TodoAlarms' = TodoAlarms /\ RingAlarms' = RingAlarms
        BY <3>1, <3>2, AlarmsSame
      <3>4. Arriving(RingAlarms', HandAlarms', BoxAlarms', TodoAlarms')
        BY <3>3, ArrivingNext DEF RingInv, Arrive
      <3>5. Arrive'
        BY <3>1, <3>2, <3>3, <3>4 DEF RingInv, Arrive
      <3> QED  BY <2>1, <3>1, <3>5 DEF RingInv
    <2>4. CASE Rx \/ EnterOp
      BY <2>1, <2>4, AlarmsStay DEF Rx, RxSample, RxSet, RxSched, EnterOp
    <2> QED  BY <1>3, <2>1, <2>2, <2>3, <2>4, ReadRing, DispatchRing, EmergencyRing, SlaveRing DEF MNext, Handler
  <1>4. CASE UNCHANGED vars
    BY <1>4, AlarmsStay DEF vars, mvars, uvars
  <1> QED  BY <1>1, <1>2, <1>3, <1>4 DEF Next

\* As long as the application has fetched none, ec_coe_emergency_enqueue keeps the newest
\* emergencies in the order of their arrival, however many slots the ring has, and loses
\* one only when all slots are in use.
THEOREM NewestAlways == Spec => []NewestKept
  <1>1. Inv /\ RingInv => NewestKept
    <2>1. got # <<>> => NewestKept
      BY DEF NewestKept
    <2> QED  BY <2>1, RingNewest, MailboxFacts DEF RingInv
  <1> QED  BY <1>1, InitRing, NextRing, InvAlways, PTL DEF Spec
================================================================================
