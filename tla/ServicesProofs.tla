----------------------------- MODULE ServicesProofs -----------------------------
(***************************************************************************)
(* No service loses a buffer of the mailbox, and none is in two places:    *)
(* for every number of buffers, every sequence of calls, and whatever the  *)
(* slave says.                                                             *)
(* The slave's network gets the frames EoE sends it, whole and in order.   *)
(***************************************************************************)
EXTENDS Services, QueueLemmas

\* Every element of S is in one of the sequences of P, and there once.
Once(P, S) ==
    /\ \A x, y \in DOMAIN P : \A j \in DOMAIN P[x], k \in DOMAIN P[y] :
          P[x][j] = P[y][k] => x = y /\ j = k
    /\ \A b \in S : \E x \in DOMAIN P : \E j \in DOMAIN P[x] : P[x][j] = b

\* Q is P with the first n elements of the sequence at x put behind the one at y.
Moved(P, Q, x, y, n) ==
    /\ x \in DOMAIN P /\ y \in DOMAIN P /\ x # y /\ n \in 1 .. Len(P[x])
    /\ DOMAIN Q = DOMAIN P
    /\ Q[x] = SubSeq(P[x], n + 1, Len(P[x]))
    /\ Q[y] = P[y] \o SubSeq(P[x], 1, n)
    /\ \A z \in DOMAIN P \ {x, y} : Q[z] = P[z]

LEMMA MoveKeeps ==
    ASSUME NEW X, NEW S, NEW P \in [X -> Seq(S)], NEW Q, NEW x, NEW y, NEW n,
           Moved(P, Q, x, y, n), Once(P, S)
    PROVE  Once(Q, S)
<1>1. /\ x \in X /\ y \in X /\ x # y /\ n \in 1 .. Len(P[x])
      /\ DOMAIN P = X /\ DOMAIN Q = X
      /\ P[x] \in Seq(S) /\ P[y] \in Seq(S)
      /\ Len(P[x]) \in Nat /\ Len(P[y]) \in Nat
  BY DEF Moved
<1>2. /\ DOMAIN Q[x] = 1 .. Len(P[x]) - n
      /\ \A j \in DOMAIN Q[x] : j + n \in DOMAIN P[x] /\ Q[x][j] = P[x][j + n]
  BY <1>1, SMTT(30) DEF Moved
<1>3. /\ DOMAIN Q[y] = 1 .. Len(P[y]) + n
      /\ \A j \in 1 .. Len(P[y]) : j \in DOMAIN P[y] /\ Q[y][j] = P[y][j]
      /\ \A j \in 1 .. n : j \in DOMAIN P[x] /\ Q[y][Len(P[y]) + j] = P[x][j]
  <2>1. /\ Q[y] = P[y] \o SubSeq(P[x], 1, n)
        /\ SubSeq(P[x], 1, n) \in Seq(S) /\ Len(SubSeq(P[x], 1, n)) = n
        /\ \A j \in 1 .. n : SubSeq(P[x], 1, n)[j] = P[x][j]
    BY <1>1 DEF Moved
  <2>2. QED
    BY <1>1, <2>1
<1>4. \A z \in X \ {x, y} : Q[z] = P[z]
  BY <1>1 DEF Moved
\* Where an element of Q was in P.
<1> DEFINE at(z, j) == CASE z = x -> x
                         [] z = y -> IF j <= Len(P[y]) THEN y ELSE x
                         [] OTHER -> z
           nr(z, j) == CASE z = x -> j + n
                         [] z = y -> IF j <= Len(P[y]) THEN j ELSE j - Len(P[y])
                         [] OTHER -> j
<1>5. ASSUME NEW z \in X, NEW j \in DOMAIN Q[z]
      PROVE  at(z, j) \in X /\ nr(z, j) \in DOMAIN P[at(z, j)] /\ Q[z][j] = P[at(z, j)][nr(z, j)]
  <2>1. CASE z = x
    BY <2>1, <1>1, <1>2
  <2>2. CASE z = y /\ j <= Len(P[y])
    BY <2>2, <1>1, <1>3
  <2>3. CASE z = y /\ ~(j <= Len(P[y]))
    <3>1. j - Len(P[y]) \in 1 .. n /\ j = Len(P[y]) + (j - Len(P[y]))
      BY <2>3, <1>1, <1>3
    <3>2. QED
      BY <2>3, <3>1, <1>1, <1>3
  <2>4. CASE z \notin {x, y}
    BY <2>4, <1>1, <1>4
  <2>5. QED
    BY <2>1, <2>2, <2>3, <2>4
<1>6. ASSUME NEW v \in X, NEW w \in X, NEW j \in DOMAIN Q[v], NEW k \in DOMAIN Q[w],
             at(v, j) = at(w, k), nr(v, j) = nr(w, k)
      PROVE  v = w /\ j = k
  <2>1. v \in {x, y} => j \in Nat /\ j >= 1
    BY <1>1, <1>2, <1>3, SMTT(30)
  <2>2. w \in {x, y} => k \in Nat /\ k >= 1
    BY <1>1, <1>2, <1>3, SMTT(30)
  <2>3. (v = y => j <= Len(P[y]) + n) /\ (w = y => k <= Len(P[y]) + n)
    BY <1>1, <1>3
  <2>4. QED
    BY <1>1, <1>6, <2>1, <2>2, <2>3
<1>7. ASSUME NEW v \in X, NEW w \in X, NEW j \in DOMAIN Q[v], NEW k \in DOMAIN Q[w],
             Q[v][j] = Q[w][k]
      PROVE  v = w /\ j = k
  <2>1. at(v, j) = at(w, k) /\ nr(v, j) = nr(w, k)
    <3> HIDE DEF at, nr
    <3>1. QED
      BY <1>1, <1>5, <1>7 DEF Once
  <2>2. QED
    BY <2>1, <1>6
<1>8. ASSUME NEW b \in S
      PROVE  \E z \in X : \E j \in DOMAIN Q[z] : Q[z][j] = b
  <2>1. PICK z \in X : \E k \in DOMAIN P[z] : P[z][k] = b
    BY <1>1 DEF Once
  <2>2. PICK k \in DOMAIN P[z] : P[z][k] = b
    BY <2>1
  <2>3. CASE z = x /\ k > n
    <3>1. k - n \in DOMAIN Q[x] /\ (k - n) + n = k
      BY <2>3, <1>1, <1>2
    <3>2. QED
      BY <3>1, <2>2, <2>3, <1>1, <1>2
  <2>4. CASE z = x /\ ~(k > n)
    <3>1. k \in 1 .. n
      BY <2>4, <1>1
    <3>2. Len(P[y]) + k \in DOMAIN Q[y] /\ Q[y][Len(P[y]) + k] = b
      BY <3>1, <2>2, <2>4, <1>1, <1>3
    <3>3. QED
      BY <3>2, <1>1
  <2>5. CASE z = y
    <3>1. k \in 1 .. Len(P[y]) /\ P[y][k] = b
      BY <2>2, <2>5, <1>1
    <3>2. k \in DOMAIN Q[y] /\ Q[y][k] = b
      BY <3>1, <1>1, <1>3
    <3>3. QED
      BY <3>2, <1>1
  <2>6. CASE z \notin {x, y}
    BY <2>2, <2>6, <1>4
  <2>7. QED
    BY <2>3, <2>4, <2>5, <2>6
<1>9. QED
  BY <1>1, <1>7, <1>8 DEF Once

\* TAILQ_REMOVE of the first element and TAILQ_INSERT_TAIL of it elsewhere move one.
LEMMA FirstMoved ==
    ASSUME NEW S, NEW s \in Seq(S), s # <<>>, NEW t \in Seq(S)
    PROVE  /\ 1 \in 1 .. Len(s) /\ Head(s) \in S
           /\ Tail(s) \in Seq(S) /\ Tail(s) = SubSeq(s, 1 + 1, Len(s))
           /\ Append(t, Head(s)) \in Seq(S) /\ Append(t, Head(s)) = t \o SubSeq(s, 1, 1)
<1>1. Len(s) \in Nat /\ Len(s) >= 1
  OBVIOUS
<1>2. Head(s) = s[1] /\ Head(s) \in S
  BY <1>1
<1>3. Tail(s) \in Seq(S) /\ Tail(s) = SubSeq(s, 1 + 1, Len(s))
  BY <1>1
<1>4. SubSeq(s, 1, 1) = <<Head(s)>>
  <2>1. /\ SubSeq(s, 1, 1) \in Seq(S) /\ Len(SubSeq(s, 1, 1)) = 1
        /\ SubSeq(s, 1, 1)[1] = Head(s)
    BY <1>1, <1>2
  <2>2. <<Head(s)>> \in Seq(S) /\ Len(<<Head(s)>>) = 1 /\ <<Head(s)>>[1] = Head(s)
    BY <1>2
  <2>3. \A i \in 1 .. 1 : SubSeq(s, 1, 1)[i] = <<Head(s)>>[i]
    BY <2>1, <2>2
  <2>4. QED
    BY <2>1, <2>2, <2>3, SeqEqual
<1>5. Append(t, Head(s)) \in Seq(S) /\ Append(t, Head(s)) = t \o <<Head(s)>>
  BY <1>2
<1>6. QED
  BY <1>1, <1>2, <1>3, <1>4, <1>5

-----------------------------------------------------------------------------
\* Where the receive buffers are.
RecvInv == /\ recv_free \in Seq(Buffers)
           /\ recv_pool \in [Pools -> Seq(Buffers)]
           /\ handler.does = "receive" => handler.with \in Buffers
           /\ Once(Place, Buffers)

LEMMA PlaceType ==
    ASSUME recv_free \in Seq(Buffers), recv_pool \in [Pools -> Seq(Buffers)],
           handler.does = "receive" => handler.with \in Buffers
    PROVE  Place \in [Places -> Seq(Buffers)]
BY DEF Place, Places, Pools

\* The places of the buffers before and after a step.
LEMMA PlaceIs ==
    /\ DOMAIN Place = Places
    /\ \A p \in Pools : Place[p] = recv_pool[p]
    /\ Place["free"] = recv_free
    /\ Place["hand"] = IF handler.does = "receive" THEN <<handler.with>> ELSE <<>>
BY DEF Place, Places, Pools

LEMMA PlaceIsNext ==
    /\ DOMAIN Place' = Places
    /\ \A p \in Pools : Place'[p] = recv_pool'[p]
    /\ Place'["free"] = recv_free'
    /\ Place'["hand"] = IF handler'.does = "receive" THEN <<handler'.with>> ELSE <<>>
BY DEF Place, Places, Pools

LEMMA TakeKeeps ==
    ASSUME RecvInv, NEW p \in Pools, TakeAndReturn(p)
    PROVE  RecvInv'
<1>1. recv_pool[p] # <<>> /\ recv_pool[p] \in Seq(Buffers) /\ recv_free \in Seq(Buffers)
  BY DEF RecvInv, TakeAndReturn, Arrived
<1>2. /\ recv_pool' = [recv_pool EXCEPT ![p] = Tail(@)]
      /\ recv_free' = Append(recv_free, Head(recv_pool[p]))
      /\ UNCHANGED <<data, handler>>
  BY DEF TakeAndReturn, ec_mbx_return_free_recv_buffer, Oldest
<1>3. /\ 1 \in 1 .. Len(recv_pool[p])
      /\ Tail(recv_pool[p]) \in Seq(Buffers)
      /\ Tail(recv_pool[p]) = SubSeq(recv_pool[p], 1 + 1, Len(recv_pool[p]))
      /\ recv_free' \in Seq(Buffers) /\ recv_free' = recv_free \o SubSeq(recv_pool[p], 1, 1)
  BY <1>1, <1>2, FirstMoved
<1>4. recv_pool' \in [Pools -> Seq(Buffers)] /\ recv_pool'[p] = Tail(recv_pool[p])
  BY <1>2, <1>3 DEF RecvInv
<1>5. Moved(Place, Place', p, "free", 1)
  BY <1>2, <1>3, <1>4, PlaceIs, PlaceIsNext DEF Moved, Places, Pools, RecvInv
<1>6. Once(Place', Buffers)
  BY <1>5, PlaceType, MoveKeeps DEF RecvInv
<1>7. QED
  BY <1>2, <1>3, <1>4, <1>6 DEF RecvInv

LEMMA BufferKeeps == RecvInv /\ HandlerBuffer => RecvInv'
<1> SUFFICES ASSUME RecvInv, HandlerBuffer PROVE RecvInv'
  OBVIOUS
<1>1. /\ recv_free # <<>> /\ recv_free \in Seq(Buffers)
      /\ recv_free' = Tail(recv_free) /\ recv_pool' = recv_pool
      /\ handler.does = "nothing" /\ handler'.does = "receive" /\ handler'.with = Head(recv_free)
  BY DEF RecvInv, HandlerBuffer, Idle
<1>2. <<>> \in Seq(Buffers) /\ Append(<<>>, Head(recv_free)) = <<Head(recv_free)>>
  OBVIOUS
<1>3. /\ 1 \in 1 .. Len(recv_free) /\ Head(recv_free) \in Buffers
      /\ recv_free' \in Seq(Buffers) /\ recv_free' = SubSeq(recv_free, 1 + 1, Len(recv_free))
      /\ <<Head(recv_free)>> = <<>> \o SubSeq(recv_free, 1, 1)
  BY <1>1, <1>2, FirstMoved
<1>4. Moved(Place, Place', "free", "hand", 1)
  BY <1>1, <1>3, PlaceIs, PlaceIsNext DEF Moved, Places, Pools
<1>5. Once(Place', Buffers)
  BY <1>4, PlaceType, MoveKeeps DEF RecvInv
<1>6. QED
  BY <1>1, <1>3, <1>5 DEF RecvInv

\* The handler puts its buffer behind those at place y.
LEMMA HandKeeps ==
    ASSUME RecvInv, handler.does = "receive", handler'.does # "receive",
           NEW y \in Pools \cup {"free"},
           recv_free' = IF y = "free" THEN Append(recv_free, handler.with) ELSE recv_free,
           recv_pool' = IF y = "free" THEN recv_pool
                        ELSE [recv_pool EXCEPT ![y] = Append(@, handler.with)]
    PROVE  RecvInv'
<1>1. handler.with \in Buffers /\ recv_free \in Seq(Buffers) /\ recv_pool \in [Pools -> Seq(Buffers)]
  BY DEF RecvInv
<1> DEFINE s == <<handler.with>>
           t == Place[y]
<1>2. s \in Seq(Buffers) /\ s # <<>> /\ Head(s) = handler.with /\ Tail(s) = <<>> /\ Len(s) = 1
  BY <1>1
<1>3. t \in Seq(Buffers) /\ Place["hand"] = s
  BY <1>1, PlaceIs
<1>4. /\ <<>> = SubSeq(s, 1 + 1, Len(s)) /\ Append(t, handler.with) \in Seq(Buffers)
      /\ Append(t, handler.with) = t \o SubSeq(s, 1, 1)
  <2> HIDE DEF s, t
  <2>1. QED
    BY <1>2, <1>3, FirstMoved
<1>5. Place'[y] = Append(t, handler.with) /\ Place'["hand"] = <<>>
  BY <1>1, PlaceIs, PlaceIsNext DEF Pools
<1>6. \A z \in Places \ {"hand", y} : Place'[z] = Place[z]
  BY <1>1, PlaceIs, PlaceIsNext DEF Places, Pools
<1>7. Moved(Place, Place', "hand", y, 1)
  <2> HIDE DEF s, t
  <2>1. "hand" # y /\ y \in Places /\ "hand" \in Places /\ 1 \in 1 .. Len(s)
    BY <1>2 DEF Places, Pools
  <2>2. Place[y] = t
    BY DEF t
  <2>3. QED
    BY <1>3, <1>4, <1>5, <1>6, <2>1, <2>2, PlaceIs, PlaceIsNext DEF Moved
<1>8. Once(Place', Buffers)
  BY <1>7, PlaceType, MoveKeeps DEF RecvInv
<1>9. recv_free' \in Seq(Buffers) /\ recv_pool' \in [Pools -> Seq(Buffers)]
  <2>1. CASE y = "free"
    BY <2>1, <1>1
  <2>2. CASE y \in Pools
    BY <2>2, <1>1 DEF Pools
  <2>3. QED
    BY <2>1, <2>2
<1>10. QED
  BY <1>8, <1>9 DEF RecvInv

\* ec_eoe_process_recv returns the first n buffers of the pool.
LEMMA ReleaseKeeps ==
    ASSUME RecvInv, Processing, handler'.does # "receive",
           NEW n \in 1 .. Len(recv_pool["eoe"]), EoeReleases(n)
    PROVE  RecvInv'
<1>1. /\ recv_free \in Seq(Buffers) /\ recv_pool \in [Pools -> Seq(Buffers)]
      /\ recv_pool["eoe"] \in Seq(Buffers) /\ "eoe" \in Pools
      /\ Len(recv_pool["eoe"]) \in Nat
  BY DEF RecvInv, Pools
<1>2. /\ recv_pool' = [recv_pool EXCEPT !["eoe"] = SubSeq(@, n + 1, Len(@))]
      /\ recv_free' = recv_free \o SubSeq(recv_pool["eoe"], 1, n)
  BY DEF EoeReleases
<1>3. /\ SubSeq(recv_pool["eoe"], n + 1, Len(recv_pool["eoe"])) \in Seq(Buffers)
      /\ SubSeq(recv_pool["eoe"], 1, n) \in Seq(Buffers)
  BY <1>1
<1>4. recv_pool' \in [Pools -> Seq(Buffers)] /\ recv_free' \in Seq(Buffers)
  BY <1>1, <1>2, <1>3
<1>5. Moved(Place, Place', "eoe", "free", n)
  BY <1>1, <1>2, PlaceIs, PlaceIsNext DEF Moved, Places, Pools, Processing
<1>6. Once(Place', Buffers)
  BY <1>5, PlaceType, MoveKeeps DEF RecvInv
<1>7. QED
  BY <1>4, <1>6 DEF RecvInv

LEMMA SameKeeps ==
    ASSUME RecvInv, UNCHANGED <<recv_free, recv_pool>>,
           handler' = handler \/ (handler.does # "receive" /\ handler'.does # "receive")
    PROVE  RecvInv'
<1>1. \A x \in Places : Place'[x] = Place[x]
  BY PlaceIs, PlaceIsNext DEF Places, Pools
<1>2. Once(Place', Buffers)
  BY <1>1, PlaceIs, PlaceIsNext DEF RecvInv, Once
<1>3. QED
  BY <1>2 DEF RecvInv

\* A step of a service: what it does with the buffers.
Returns1 == \/ UNCHANGED <<recv_free, recv_pool>>
            \/ \E p \in Pools : TakeAndReturn(p)

Queues1 == \/ UNCHANGED sends
           \/ \E m : SendHead(m) \/ SendTail(m)

LEMMA FoeSteps == FoeThread => Returns1 /\ Queues1 /\ UNCHANGED <<handler, others>>
<1> SUFFICES ASSUME FoeThread PROVE Returns1 /\ Queues1 /\ UNCHANGED <<handler, others>>
  OBVIOUS
<1> USE DEF FoeThread, Lives, Returns1, Queues1, Pools, recvs, sends, port, FoeSend
<1>1. CASE FoeCall
  BY <1>1 DEF FoeCall
<1>2. CASE FoeReadData
  BY <1>2 DEF FoeReadData, TakeAndReturn
<1>3. CASE FoeReadOther
  BY <1>3 DEF FoeReadOther, TakeAndReturn
<1>4. CASE FoeWriteAnswer
  BY <1>4 DEF FoeWriteAnswer, TakeAndReturn
<1>5. CASE FoeWritePacket
  BY <1>5 DEF FoeWritePacket
<1>6. CASE FoeTimeout
  BY <1>6 DEF FoeTimeout, Expires
<1>7. QED
  BY <1>1, <1>2, <1>3, <1>4, <1>5, <1>6 DEF FoeNext

LEMMA SoeSteps ==
    SoeThread => (Returns1 \/ SoeReturnsAgain) /\ Queues1 /\ UNCHANGED <<handler, others>>
<1> SUFFICES ASSUME SoeThread
             PROVE  (Returns1 \/ SoeReturnsAgain) /\ Queues1 /\ UNCHANGED <<handler, others>>
  OBVIOUS
<1> USE DEF SoeThread, Lives, Returns1, Queues1, Pools, recvs, sends, port, SoeSend
<1>1. CASE SoeCall
  BY <1>1 DEF SoeCall
<1>2. CASE SoeReadFragment
  BY <1>2 DEF SoeReadFragment, TakeAndReturn
<1>3. CASE SoeReadMore
  BY <1>3 DEF SoeReadMore
<1>4. CASE SoeReadSpins
  BY <1>4 DEF SoeReadSpins, TakeAndReturn
<1>5. CASE SoeWriteFragment
  BY <1>5 DEF SoeWriteFragment
<1>6. CASE SoeWriteAnswer
  BY <1>6 DEF SoeWriteAnswer, TakeAndReturn
<1>7. CASE SoeTimeout
  BY <1>7 DEF SoeTimeout, Expires
<1>8. CASE SoeReturnsAgain
  BY <1>8 DEF SoeReturnsAgain
<1>9. QED
  BY <1>1, <1>2, <1>3, <1>4, <1>5, <1>6, <1>7, <1>8 DEF SoeNext

LEMMA EoeSteps == EoeThread => Returns1 /\ Queues1 /\ UNCHANGED <<handler, others>>
<1> SUFFICES ASSUME EoeThread PROVE Returns1 /\ Queues1 /\ UNCHANGED <<handler, others>>
  OBVIOUS
<1> USE DEF EoeThread, Lives, Returns1, Queues1, Pools, recvs, sends, port
<1>1. CASE EoeCall
  BY <1>1 DEF EoeCall
<1>2. CASE EoeFragment
  BY <1>2 DEF EoeFragment
<1>3. CASE EoeSynced
  BY <1>3 DEF EoeSynced
<1>4. CASE EoeIpAnswer
  BY <1>4 DEF EoeIpAnswer, TakeAndReturn
<1>5. CASE EoeTimeout
  BY <1>5 DEF EoeTimeout, Expires
<1>6. CASE EoeNoBuffer
  BY <1>6 DEF EoeNoBuffer
<1>7. QED
  BY <1>1, <1>2, <1>3, <1>4, <1>5, <1>6 DEF EoeNext

\* The slave has nothing to do with the buffers.
LEMMA SlaveSteps ==
    Slave \/ (DriveSpeaks /\ Lives(<<fvars, evars>>)) \/ (NodeSends /\ Lives(<<fvars, sevars>>))
    => UNCHANGED <<sends, recvs, others>>
BY DEF Slave, Lives, SlaveFoe, SlaveSoe, SlaveEoe, SlaveTakes, SlaveAnswers, SlaveSpeaks,
       DriveSpeaks, NodeSends

-----------------------------------------------------------------------------
LEMMA RecvBegins ==
    ASSUME NEW held, PortInit(held)
    PROVE  RecvInv
<1>1. /\ recv_free = SetToSeq(Buffers) /\ handler = Idle
      /\ recv_pool = [p \in Pools |-> <<>>]
  BY DEF PortInit
<1>2. handler.does # "receive"
  BY <1>1 DEF Idle
<1>3. /\ recv_free \in Seq(Buffers) /\ Distinct(recv_free) /\ Elems(recv_free) = Buffers
      /\ DOMAIN recv_free = 1 .. Len(recv_free)
  BY <1>1, FullQueue, MbxPortAssumption
<1>4. \A x \in Places : Place[x] = IF x = "free" THEN recv_free ELSE <<>>
  BY <1>1, <1>2, PlaceIs DEF Places, Pools
<1>5. Once(Place, Buffers)
  <2>1. ASSUME NEW x \in Places, NEW j \in DOMAIN Place[x] PROVE x = "free" /\ j \in 1 .. Len(recv_free)
    BY <1>3, <1>4, <2>1
  <2>2. \A x, y \in Places : \A j \in DOMAIN Place[x], k \in DOMAIN Place[y] :
           Place[x][j] = Place[y][k] => x = y /\ j = k
    BY <1>3, <1>4, <2>1 DEF Distinct
  <2>3. "free" \in Places /\ Place["free"] = recv_free
    BY PlaceIs DEF Places
  <2>4. \A b \in Buffers : \E j \in DOMAIN recv_free : recv_free[j] = b
    BY <1>3 DEF Elems
  <2>5. QED
    BY <2>2, <2>3, <2>4, PlaceIs DEF Once
<1>6. <<>> \in Seq(Buffers) /\ recv_pool \in [Pools -> Seq(Buffers)]
  BY <1>1
<1>7. QED
  BY <1>2, <1>3, <1>5, <1>6 DEF RecvInv

LEMMA FramesKeep == RecvInv /\ HandlerFrames => RecvInv'
<1> SUFFICES ASSUME RecvInv, HandlerFrames PROVE RecvInv'
  OBVIOUS
<1>1. recv_pool["eoe"] \in Seq(Buffers)
  BY DEF RecvInv, Pools
<1>2. CASE EoeNoFrame
  BY <1>2, SameKeeps DEF EoeNoFrame, Processing, HandlerLeaves, Idle
<1>3. ASSUME Processing, Arrived("eoe"), EoeReleases(1), handler'.does # "receive"
      PROVE  RecvInv'
  <2>1. 1 \in 1 .. Len(recv_pool["eoe"])
    BY <1>1, <1>3 DEF Arrived
  <2>2. QED
    BY <1>3, <2>1, ReleaseKeeps
<1>4. CASE EoeNoMemory
  BY <1>3, <1>4 DEF EoeNoMemory, HandlerLeaves, Idle
<1>5. CASE EoeNoStart
  BY <1>3, <1>5 DEF EoeNoStart, Processing
<1>6. CASE EoeFrame
  <2>1. PICK n \in DOMAIN recv_pool["eoe"] : EoeReleases(n)
    BY <1>6 DEF EoeFrame
  <2>2. n \in 1 .. Len(recv_pool["eoe"]) /\ Processing /\ handler'.does # "receive"
    BY <1>1, <1>6 DEF EoeFrame, Processing
  <2>3. QED
    BY <2>1, <2>2, ReleaseKeeps
<1>7. QED
  BY <1>2, <1>4, <1>5, <1>6 DEF HandlerFrames

LEMMA HandlerKeeps ==
    RecvInv /\ (HandlerPop \/ HandlerBuffer \/ HandlerEmpty \/ HandlerRead \/ HandlerRequeue
                \/ HandlerSends \/ HandlerFrames)
    => RecvInv'
<1> SUFFICES ASSUME RecvInv, HandlerPop \/ HandlerBuffer \/ HandlerEmpty \/ HandlerRead
                             \/ HandlerRequeue \/ HandlerSends \/ HandlerFrames
             PROVE  RecvInv'
  OBVIOUS
<1>1. CASE HandlerPop
  BY <1>1, SameKeeps DEF HandlerPop, Idle
<1>2. CASE HandlerBuffer
  BY <1>2, BufferKeeps
<1>3. CASE HandlerEmpty
  <2>1. /\ handler.does = "receive" /\ handler'.does # "receive" /\ recv_pool' = recv_pool
        /\ recv_free' = Append(recv_free, handler.with)
    BY <1>3 DEF HandlerEmpty, ec_mbx_return_free_recv_buffer, Idle
  <2>2. QED
    BY <2>1, HandKeeps
<1>4. CASE HandlerRead
  <2>1. handler.does = "receive" /\ handler'.does # "receive"
    BY <1>4 DEF HandlerRead, Idle
  <2>2. CASE full.pool \notin Pools
    <3>1. recv_pool' = recv_pool /\ recv_free' = Append(recv_free, handler.with)
      BY <1>4, <2>2 DEF HandlerRead, ec_mbx_return_free_recv_buffer
    <3>2. QED
      BY <2>1, <3>1, HandKeeps
  <2>3. CASE full.pool \in Pools
    <3>1. /\ recv_free' = recv_free /\ full.pool # "free"
          /\ recv_pool' = [recv_pool EXCEPT ![full.pool] = Append(@, handler.with)]
      BY <1>4, <2>3 DEF HandlerRead, Pools
    <3>2. QED
      BY <2>1, <2>3, <3>1, HandKeeps
  <2>4. QED
    BY <2>2, <2>3
<1>5. CASE HandlerRequeue
  BY <1>5, SameKeeps DEF HandlerRequeue, Idle
<1>6. CASE HandlerSends
  BY <1>6, SameKeeps DEF HandlerSends, HandlerSend, Idle
<1>7. CASE HandlerFrames
  BY <1>7, FramesKeep
<1>8. QED
  BY <1>1, <1>2, <1>3, <1>4, <1>5, <1>6, <1>7

\* Every step but the one that returns a buffer twice leaves each in one place.
LEMMA RecvKeeps == RecvInv /\ [Next]_vars /\ ~SoeReturnsAgain => RecvInv'
<1> SUFFICES ASSUME RecvInv, [Next]_vars, ~SoeReturnsAgain PROVE RecvInv'
  OBVIOUS
<1>1. ASSUME Returns1, UNCHANGED handler PROVE RecvInv'
  <2>1. CASE UNCHANGED <<recv_free, recv_pool>>
    BY <1>1, <2>1, SameKeeps
  <2>2. CASE \E p \in Pools : TakeAndReturn(p)
    BY <2>2, TakeKeeps
  <2>3. QED
    BY <1>1, <2>1, <2>2 DEF Returns1
<1>2. CASE FoeThread \/ SoeThread \/ EoeThread
  BY <1>1, <1>2, FoeSteps, SoeSteps, EoeSteps
<1>3. CASE Pops \/ Takes \/ Ends \/ Sends \/ Frames
  BY <1>3, HandlerKeeps DEF Pops, Takes, Ends, Sends, Frames, Handler
<1>4. CASE Slave \/ (DriveSpeaks /\ Lives(<<fvars, evars>>)) \/ (NodeSends /\ Lives(<<fvars, sevars>>))
  BY <1>4, SlaveSteps, SameKeeps DEF recvs
<1>5. CASE UNCHANGED vars
  BY <1>5, SameKeeps DEF vars, port, recvs
<1>6. QED
  BY <1>2, <1>3, <1>4, <1>5 DEF Next

\* That step is told from the others by where it leaves the thread.
HasPc == "pc" \in DOMAIN soe

LEMMA PcStays == HasPc /\ [Next]_vars => HasPc'
<1> SUFFICES ASSUME HasPc, [Next]_vars PROVE HasPc'
  OBVIOUS
<1>1. CASE UNCHANGED sevars
  BY <1>1 DEF HasPc, sevars
<1>2. CASE SoeThread
  <2> USE DEF HasPc
  <2>1. CASE SoeCall
    <3> DEFINE call == soe_calls[soe.call + 1]
               next == [pc |-> call.op, call |-> soe.call + 1, ret |-> "timeout", got |-> <<>>,
                        left |-> IF call.op = "read" THEN call.len ELSE Len(call.value),
                        first |-> TRUE, buffer |-> NULL]
    <3>1. \/ \E m : SoeSend(m, next)
          \/ soe' = [next EXCEPT !.pc = IF call.value = <<>> THEN "idle" ELSE "fragment"]
      BY <2>1 DEF SoeCall
    <3>2. "pc" \in DOMAIN next
      OBVIOUS
    <3> HIDE DEF next
    <3>3. QED
      BY <3>1, <3>2 DEF SoeSend
  <2>2. CASE SoeReadFragment \/ SoeReadMore \/ SoeReadSpins \/ SoeReturnsAgain
    BY <2>2 DEF SoeReadFragment, SoeReadMore, SoeReadSpins, SoeReturnsAgain
  <2>3. CASE SoeWriteFragment
    BY <2>3 DEF SoeWriteFragment, SoeSend
  <2>4. CASE SoeWriteAnswer \/ SoeTimeout
    BY <2>4 DEF SoeWriteAnswer, SoeTimeout, SoeGoOn, SoeReturn
  <2>5. QED
    BY <1>2, <2>1, <2>2, <2>3, <2>4 DEF SoeThread, SoeNext
<1>3. CASE Slave \/ (DriveSpeaks /\ Lives(<<fvars, evars>>))
  BY <1>3 DEF Slave, SlaveSoe, DriveSpeaks, Lives, sevars, HasPc
<1>4. QED
  BY <1>1, <1>2, <1>3
  DEF Next, FoeThread, EoeThread, Pops, Takes, Ends, Sends, Frames, Handler, Lives, vars

LEMMA TwiceIs == HasPc /\ SoeReturnsAgain => ReturnedTwice'
BY DEF HasPc, SoeReturnsAgain, ReturnedTwice

LEMMA AgainIs == HasPc /\ [Next]_vars /\ SoeReturnsAgain => UNCHANGED <<fvars, evars>>
<1> SUFFICES ASSUME HasPc, [Next]_vars, SoeReturnsAgain PROVE UNCHANGED <<fvars, evars>>
  OBVIOUS
<1>1. soe.pc = "spin" /\ soe'.pc = "twice"
  BY DEF HasPc, SoeReturnsAgain
<1>2. soe' # soe
  BY <1>1
<1>3. SoeThread
  BY <1>2 DEF Next, FoeThread, EoeThread, Pops, Takes, Ends, Sends, Frames, Slave, Handler, Lives,
              SlaveSoe, DriveSpeaks, sevars, vars
<1>4. QED
  BY <1>3 DEF SoeThread, Lives

\* Nothing follows it.
LEMMA TwiceStays == ReturnedTwice /\ [Next]_vars => UNCHANGED vars
BY DEF Next, FoeThread, SoeThread, EoeThread, Pops, Takes, Ends, Sends, Frames, Slave, Handler,
       Lives, Broken

BuffersInv == HasPc /\ (~ReturnedTwice => RecvInv)

\* The receive buffers of the mailbox: every one of them is free, with the handler or in
\* the pool of one protocol, and nowhere else, until a read of SoE returns one a second
\* time (mbx.c:543-611, foe.c, soe.c, eoe.c).
THEOREM BuffersAreOnce ==
    ASSUME NEW CONSTANT calls, NEW CONSTANT sizes, NEW CONSTANT frames,
           NEW CONSTANT device, NEW CONSTANT held
    PROVE  ServicesInit(calls, sizes, frames, device, held) /\ [][Next]_vars => []BuffersOnce
<1>1. ServicesInit(calls, sizes, frames, device, held) => BuffersInv
  BY RecvBegins DEF ServicesInit, SoeInit, BuffersInv, HasPc
<1>2. BuffersInv /\ [Next]_vars => BuffersInv'
  <2> SUFFICES ASSUME BuffersInv, [Next]_vars PROVE BuffersInv'
    OBVIOUS
  <2>1. HasPc /\ HasPc'
    BY PcStays DEF BuffersInv
  <2>2. CASE ReturnedTwice
    BY <2>1, <2>2, TwiceStays DEF BuffersInv, ReturnedTwice, vars, sevars
  <2>3. CASE ~ReturnedTwice
    BY <2>1, <2>3, TwiceIs, RecvKeeps DEF BuffersInv
  <2>4. QED
    BY <2>2, <2>3
<1>3. BuffersInv => BuffersOnce
  BY PlaceIs DEF BuffersInv, RecvInv, Once, BuffersOnce
<1>4. QED
  BY <1>1, <1>2, <1>3, PTL

-----------------------------------------------------------------------------
\* The send buffers, and what their sum needs.
SendsInv == /\ SendsKept
            /\ send_free \in Nat /\ others \in Nat
            /\ \E S : send_queued \in Seq(S)

LEMMA QueuesKeep == SendsInv /\ Queues1 /\ UNCHANGED <<handler, others>> => SendsInv'
<1> SUFFICES ASSUME SendsInv, Queues1, UNCHANGED <<handler, others>> PROVE SendsInv'
  OBVIOUS
<1>1. CASE UNCHANGED sends
  BY <1>1 DEF SendsInv, SendsKept, sends
<1>2. ASSUME NEW m, SendHead(m) \/ SendTail(m) PROVE SendsInv'
  <2>1. PICK S : send_queued \in Seq(S)
    BY DEF SendsInv
  <2>2. send_queued \in Seq(S \cup {m}) /\ m \in S \cup {m}
    BY <2>1, SeqMonotonic
  <2>3. send_queued' \in Seq(S \cup {m}) /\ Len(send_queued') = Len(send_queued) + 1
    BY <1>2, <2>2, SMTT(30) DEF SendHead, SendTail
  <2>4. send_free' = send_free - 1 /\ send_free > 0
    BY <1>2 DEF SendHead, SendTail
  <2>5. Len(send_queued) \in Nat
    BY <2>1
  <2>6. SendsKept' /\ send_free' \in Nat
    BY <2>3, <2>4, <2>5 DEF SendsInv, SendsKept
  <2>7. QED
    BY <2>3, <2>6 DEF SendsInv
<1>3. QED
  BY <1>1, <1>2 DEF Queues1

LEMMA HandlerQueuesKeep ==
    SendsInv /\ UNCHANGED others
    /\ (HandlerPop \/ HandlerBuffer \/ HandlerEmpty \/ HandlerRead \/ HandlerRequeue
        \/ HandlerSends \/ HandlerFrames)
    => SendsInv'
<1> SUFFICES ASSUME SendsInv, UNCHANGED others,
                    HandlerPop \/ HandlerBuffer \/ HandlerEmpty \/ HandlerRead
                    \/ HandlerRequeue \/ HandlerSends \/ HandlerFrames
             PROVE  SendsInv'
  OBVIOUS
<1>1. PICK S : send_queued \in Seq(S)
  BY DEF SendsInv
<1>2. Len(send_queued) \in Nat /\ send_free \in Nat /\ others \in Nat
  BY <1>1 DEF SendsInv
<1>3. CASE HandlerPop
  <2>1. /\ send_queued # <<>> /\ send_queued' = Tail(send_queued) /\ send_free' = send_free
        /\ handler.does # "send" /\ handler'.does = "send"
    BY <1>3 DEF HandlerPop, Idle
  <2>2. send_queued' \in Seq(S) /\ Len(send_queued') = Len(send_queued) - 1
    BY <1>1, <2>1
  <2>3. QED
    BY <1>2, <2>1, <2>2 DEF SendsInv, SendsKept
<1>4. ASSUME UNCHANGED sends, handler.does # "send", handler'.does # "send" PROVE SendsInv'
  BY <1>1, <1>4 DEF SendsInv, SendsKept, sends
<1>5. CASE HandlerBuffer \/ HandlerEmpty \/ HandlerRead
  BY <1>4, <1>5 DEF HandlerBuffer, HandlerEmpty, HandlerRead, Idle
<1>6. CASE HandlerFrames
  <2>1. UNCHANGED sends /\ handler.does = "frames" /\ handler'.does \in {"nothing", "frames"}
    BY <1>6 DEF HandlerFrames, EoeNoFrame, EoeNoMemory, EoeNoStart, EoeFrame, Processing,
                HandlerLeaves, Idle
  <2>2. QED
    BY <1>4, <2>1
<1>7. CASE HandlerRequeue
  <2>1. /\ send_queued' = <<handler.with>> \o send_queued /\ send_free' = send_free
        /\ handler.does = "send" /\ handler'.does # "send"
    BY <1>7 DEF HandlerRequeue, Idle
  <2>2. send_queued \in Seq(S \cup {handler.with}) /\ handler.with \in S \cup {handler.with}
    BY <1>1, SeqMonotonic
  <2>3. send_queued' \in Seq(S \cup {handler.with}) /\ Len(send_queued') = Len(send_queued) + 1
    BY <2>1, <2>2
  <2>4. QED
    BY <1>2, <2>1, <2>3 DEF SendsInv, SendsKept
<1>8. CASE HandlerSends
  <2>1. /\ send_queued' = send_queued /\ send_free' = send_free + 1
        /\ handler.does = "send" /\ handler'.does # "send"
    BY <1>8 DEF HandlerSends, HandlerSend, Idle
  <2>2. QED
    BY <1>1, <1>2, <2>1 DEF SendsInv, SendsKept
<1>9. QED
  BY <1>3, <1>5, <1>6, <1>7, <1>8

LEMMA SendsKeep == SendsInv /\ [Next]_vars => SendsInv'
<1> SUFFICES ASSUME SendsInv, [Next]_vars PROVE SendsInv'
  OBVIOUS
<1>1. CASE FoeThread \/ SoeThread \/ EoeThread
  BY <1>1, FoeSteps, SoeSteps, EoeSteps, QueuesKeep
<1>2. CASE Pops \/ Takes \/ Ends \/ Sends \/ Frames
  BY <1>2, HandlerQueuesKeep DEF Pops, Takes, Ends, Sends, Frames, Handler, Lives
<1>3. ASSUME UNCHANGED <<sends, recvs, others>> PROVE SendsInv'
  BY <1>3, QueuesKeep DEF recvs, Queues1
<1>4. CASE Slave \/ (DriveSpeaks /\ Lives(<<fvars, evars>>)) \/ (NodeSends /\ Lives(<<fvars, sevars>>))
  BY <1>3, <1>4, SlaveSteps
<1>5. CASE UNCHANGED vars
  BY <1>3, <1>5 DEF vars, port
<1>6. QED
  BY <1>1, <1>2, <1>3, <1>4, <1>5 DEF Next

\* The send buffers that all slaves share: each is free, queued, with the handler or with
\* the mailbox of another slave; none is lost or returned twice (mbx.c:613-640).
THEOREM SendsAreKept ==
    ASSUME NEW CONSTANT calls, NEW CONSTANT sizes, NEW CONSTANT frames,
           NEW CONSTANT device, NEW CONSTANT held \in 0 .. SendBufs
    PROVE  ServicesInit(calls, sizes, frames, device, held) /\ [][Next]_vars => []SendsKept
<1>1. ServicesInit(calls, sizes, frames, device, held) => SendsInv
  <2> SUFFICES ASSUME ServicesInit(calls, sizes, frames, device, held) PROVE SendsInv
    OBVIOUS
  <2>1. /\ send_free = SendBufs - held /\ others = held /\ SendBufs \in Nat /\ handler.does # "send"
        /\ send_queued = <<>>
    BY MbxPortAssumption DEF ServicesInit, PortInit, Idle
  <2>2. send_queued \in Seq({}) /\ Len(send_queued) = 0
    BY <2>1
  <2>3. QED
    BY <2>1, <2>2 DEF SendsInv, SendsKept
<1>2. SendsInv => SendsKept
  BY DEF SendsInv
<1>3. QED
  BY <1>1, <1>2, SendsKeep, PTL

-----------------------------------------------------------------------------
(* Sequences.                                                              *)

IsSeq(s) == \E S : s \in Seq(S)

LEMMA NoneIs ==
    ASSUME NEW s, s = <<>>
    PROVE  IsSeq(s) /\ Len(s) = 0 /\ DOMAIN s = {}
<1>1. <<>> \in Seq({})
  OBVIOUS
<1>2. IsSeq(s)
  BY <1>1, Zenon DEF IsSeq
<1>3. Len(s) = 0 /\ DOMAIN s = {}
  OBVIOUS
<1>4. QED
  BY <1>2, <1>3, Zenon

LEMMA OneIs ==
    ASSUME NEW m
    PROVE  IsSeq(<<m>>) /\ Len(<<m>>) = 1 /\ DOMAIN <<m>> = {1} /\ <<m>>[1] = m
<1>1. <<m>> \in Seq({m}) /\ Len(<<m>>) = 1 /\ <<m>>[1] = m
  OBVIOUS
<1>2. DOMAIN <<m>> = 1 .. 1
  BY <1>1
<1>3. IsSeq(<<m>>)
  BY <1>1, Zenon DEF IsSeq
<1>4. QED
  BY <1>1, <1>2, <1>3

LEMMA SeqLen ==
    ASSUME NEW s, IsSeq(s)
    PROVE  Len(s) \in Nat /\ DOMAIN s = 1 .. Len(s)
BY DEF IsSeq

LEMMA CatIs ==
    ASSUME NEW s, IsSeq(s), NEW t, IsSeq(t)
    PROVE  /\ IsSeq(s \o t)
           /\ Len(s \o t) = Len(s) + Len(t)
           /\ \A i \in 1 .. Len(s) : (s \o t)[i] = s[i]
           /\ \A i \in 1 .. Len(t) : (s \o t)[Len(s) + i] = t[i]
           /\ \A i \in Len(s) + 1 .. Len(s) + Len(t) : (s \o t)[i] = t[i - Len(s)]
<1>1. PICK S : s \in Seq(S)
  BY DEF IsSeq
<1>2. PICK T : t \in Seq(T)
  BY DEF IsSeq
<1>3. s \in Seq(S \cup T) /\ t \in Seq(S \cup T)
  BY <1>1, <1>2, SeqMonotonic
<1>4. s \o t \in Seq(S \cup T)
  BY <1>3
<1>5. QED
  BY <1>3, <1>4 DEF IsSeq

\* An element of the first, and of the second of them.
LEMMA CatLeft ==
    ASSUME NEW s, IsSeq(s), NEW t, IsSeq(t), NEW i \in 1 .. Len(s)
    PROVE  (s \o t)[i] = s[i]
BY CatIs

LEMMA CatRight ==
    ASSUME NEW s, IsSeq(s), NEW t, IsSeq(t), NEW i \in 1 .. Len(t)
    PROVE  (s \o t)[Len(s) + i] = t[i]
BY CatIs

LEMMA CatBehind ==
    ASSUME NEW s, IsSeq(s), NEW t, IsSeq(t), NEW i \in Len(s) + 1 .. Len(s) + Len(t)
    PROVE  (s \o t)[i] = t[i - Len(s)]
BY CatIs

LEMMA SameSeq ==
    ASSUME NEW s, IsSeq(s), NEW t, IsSeq(t), Len(s) = Len(t),
           \A i \in 1 .. Len(s) : s[i] = t[i]
    PROVE  s = t
<1>1. PICK S : s \in Seq(S)
  BY DEF IsSeq
<1>2. PICK T : t \in Seq(T)
  BY DEF IsSeq
<1>3. s \in Seq(S \cup T) /\ t \in Seq(S \cup T)
  BY <1>1, <1>2, SeqMonotonic
<1>4. QED
  BY <1>3, SeqEqual

LEMMA CatAssoc ==
    ASSUME NEW s, IsSeq(s), NEW t, IsSeq(t), NEW u, IsSeq(u)
    PROVE  (s \o t) \o u = s \o (t \o u)
<1> DEFINE a == s \o t
           b == t \o u
           v == a \o u
           w == s \o b
<1>1. IsSeq(a) /\ IsSeq(b) /\ IsSeq(v) /\ IsSeq(w)
  BY CatIs
<1>2. Len(s) \in Nat /\ Len(t) \in Nat /\ Len(u) \in Nat
  BY SeqLen
<1>3. Len(a) = Len(s) + Len(t) /\ Len(b) = Len(t) + Len(u)
  BY CatIs
<1>4. Len(v) = Len(a) + Len(u) /\ Len(w) = Len(s) + Len(b)
  BY <1>1, CatIs
<1>5. ASSUME NEW i \in 1 .. Len(v)
      PROVE  v[i] = w[i]
  <2>1. CASE i <= Len(s)
    <3>1. i \in 1 .. Len(s) /\ i \in 1 .. Len(a)
      BY <1>2, <1>3, <2>1
    <3>2. v[i] = a[i] /\ a[i] = s[i] /\ w[i] = s[i]
      BY <1>1, <3>1, CatIs
    <3>3. QED
      BY <3>2
  <2>2. CASE i > Len(s) /\ i <= Len(a)
    <3>1. PICK k \in 1 .. Len(t) : i = Len(s) + k
      <4>1. i - Len(s) \in 1 .. Len(t) /\ i = Len(s) + (i - Len(s))
        BY <1>2, <1>3, <2>2
      <4>2. QED
        BY <4>1
    <3>2. i \in 1 .. Len(a) /\ k \in 1 .. Len(b)
      BY <1>2, <1>3, <2>2
    <3>3. v[i] = a[i] /\ a[i] = t[k]
      BY <1>1, <3>1, <3>2, CatIs, SMTT(30)
    <3>4. w[i] = b[k] /\ b[k] = t[k]
      BY <1>1, <3>1, <3>2, CatIs
    <3>5. QED
      BY <3>3, <3>4
  <2>3. CASE i > Len(a)
    <3>1. PICK k \in 1 .. Len(u) : i = Len(a) + k
      <4>1. i - Len(a) \in 1 .. Len(u) /\ i = Len(a) + (i - Len(a))
        BY <1>2, <1>3, <1>4, <2>3
      <4>2. QED
        BY <4>1
    <3>2. Len(t) + k \in 1 .. Len(b) /\ i = Len(s) + (Len(t) + k)
      BY <1>2, <1>3, <3>1
    <3>3. v[i] = u[k]
      BY <1>1, <3>1, CatIs
    <3>4. w[i] = b[Len(t) + k] /\ b[Len(t) + k] = u[k]
      <4>1. w[Len(s) + (Len(t) + k)] = b[Len(t) + k]
        BY <1>1, <3>2, CatRight
      <4>2. b[Len(t) + k] = u[k]
        BY CatRight
      <4> QED  BY <3>2, <4>1, <4>2
    <3>5. QED
      BY <3>3, <3>4
  <2>4. QED
    BY <1>2, <1>3, <1>4, <2>1, <2>2, <2>3
<1>6. Len(v) = Len(w)
  BY <1>2, <1>3, <1>4
<1> HIDE DEF v, w
<1>7. v = w
  BY <1>1, <1>5, <1>6, SameSeq
<1>8. QED
  BY <1>7 DEF v, w

LEMMA CatEmpty ==
    ASSUME NEW s, IsSeq(s)
    PROVE  s \o <<>> = s /\ <<>> \o s = s
<1>1. PICK S : s \in Seq(S)
  BY DEF IsSeq
<1>2. QED
  BY <1>1

LEMMA ConsIs ==
    ASSUME NEW h, IsSeq(h), Len(h) = 1, NEW t, IsSeq(t), NEW s, IsSeq(s),
           Len(s) = Len(t) + 1, s[1] = h[1], \A i \in 1 .. Len(t) : t[i] = s[i + 1]
    PROVE  s = h \o t
<1>1. Len(t) \in Nat
  BY SeqLen
<1>2. IsSeq(h \o t) /\ Len(h \o t) = Len(h) + Len(t)
  BY CatIs
<1>3. ASSUME NEW i \in 1 .. Len(s) PROVE s[i] = (h \o t)[i]
  <2>1. CASE i = 1
    <3>1. i \in 1 .. Len(h)
      BY <2>1
    <3>2. (h \o t)[i] = h[i]
      BY <3>1, CatIs
    <3>3. QED
      BY <2>1, <3>2
  <2>2. CASE i # 1
    <3>1. i \in Len(h) + 1 .. Len(h) + Len(t) /\ i - 1 \in 1 .. Len(t) /\ (i - 1) + 1 = i
      BY <2>2, <1>1
    <3>2. (h \o t)[i] = t[i - Len(h)]
      BY <3>1, CatBehind
    <3>3. t[i - 1] = s[(i - 1) + 1]
      BY <3>1
    <3>4. QED
      BY <3>1, <3>2, <3>3
  <2>3. QED
    BY <2>1, <2>2
<1>4. Len(s) = Len(h \o t)
  BY <1>1, <1>2
<1>5. QED
  BY <1>2, <1>3, <1>4, SameSeq, Zenon

\* A queue that is not empty.
LEMMA HeadTailIs ==
    ASSUME NEW s, IsSeq(s), s # <<>>
    PROVE  /\ IsSeq(Tail(s)) /\ s = <<Head(s)>> \o Tail(s)
           /\ Len(s) \in Nat /\ Len(s) >= 1 /\ 1 \in DOMAIN s /\ Head(s) = s[1]
           /\ Len(Tail(s)) = Len(s) - 1
           /\ \A i \in 1 .. Len(Tail(s)) : Tail(s)[i] = s[i + 1]
<1>1. PICK S : s \in Seq(S)
  BY DEF IsSeq
<1>2. Len(s) \in Nat /\ Len(s) >= 1 /\ 1 \in DOMAIN s /\ Head(s) = s[1]
  BY <1>1
<1>3. /\ Tail(s) \in Seq(S) /\ Len(Tail(s)) = Len(s) - 1
      /\ \A i \in 1 .. Len(Tail(s)) : Tail(s)[i] = s[i + 1]
  BY <1>1, <1>2
<1>4. IsSeq(Tail(s))
  BY <1>3 DEF IsSeq
<1> DEFINE h == <<Head(s)>>
           t == Tail(s)
<1>5. IsSeq(h) /\ Len(h) = 1 /\ h[1] = s[1] /\ IsSeq(t)
  BY <1>2, <1>4, OneIs
<1>6. Len(s) = Len(t) + 1 /\ \A i \in 1 .. Len(t) : t[i] = s[i + 1]
  BY <1>2, <1>3
<1> HIDE DEF h, t
<1>7. s = h \o t
  <2>1. Len(s) = Len(t) + 1 /\ s[1] = h[1]
    BY <1>5, <1>6
  <2> QED  BY <1>5, <1>6, <2>1, ConsIs, Zenon
<1>8. QED
  BY <1>2, <1>3, <1>4, <1>7 DEF h, t

LEMMA AppendIs ==
    ASSUME NEW s, IsSeq(s), NEW m
    PROVE  Append(s, m) = s \o <<m>>
<1>1. PICK S : s \in Seq(S)
  BY DEF IsSeq
<1>2. s \in Seq(S \cup {m}) /\ m \in S \cup {m}
  BY <1>1, SeqMonotonic
<1>3. QED
  BY <1>2

-----------------------------------------------------------------------------
(* What EoE sends.  A fragment is queued when the one before it has been   *)
(* written, so that one at most is in the queue or in the hands of the     *)
(* handler, and the frames of the network are known but for that one.      *)

\* What the slave's network has put together when it has taken the write mailbox.
Joined(partial, m) == IF m.nr = 0 THEN m.payload ELSE partial \o m.payload

InMailbox == wrote # NULL /\ wrote.pool = "eoe"

Partial == IF ~InMailbox THEN node.partial
           ELSE IF wrote.more THEN Joined(node.partial, wrote) ELSE <<>>
Has     == IF InMailbox /\ ~wrote.more THEN Append(node.has, Joined(node.partial, wrote)) ELSE node.has

\* No message of EoE is behind it, ...
EoeIn(s)    == {i \in DOMAIN s : s[i].pool = "eoe"}
NoneIn(s)   == EoeIn(s) = {}
OneIn(s, m) == \E i \in DOMAIN s : EoeIn(s) = {i} /\ s[i] = m

InHand     == handler.does = "send" /\ handler.with.pool = "eoe"
NoneBehind == ~InHand /\ NoneIn(send_queued)

\* ... or just m.
Behind(m) == \/ InHand /\ handler.with = m /\ NoneIn(send_queued)
             \/ ~InHand /\ OneIn(send_queued, m)

\* The frames h are those of the first k calls.
FramesAre(h, k) ==
    /\ IsSeq(h) /\ Len(h) = FrameNr(k)
    /\ \A i \in DOMAIN h : \E c \in FrameCalls : FrameNr(c) = i /\ h[i] = eoe_calls[c].frame

\* A place in the frame of the call where a fragment begins, all before it has come.
Begun(p, h, a) == /\ a < Len(EoeOp.frame) /\ \E k \in Nat : a = k * room.write
                  /\ FramesAre(h, eoe.call - 1)
                  /\ a # 0 => p = SubSeq(EoeOp.frame, 1, a)

\* The fragment there, and the place behind it.
FragmentAt(m, a) ==
    LET part == Part(EoeOp.frame, a, room.write)
    IN  /\ m # NULL /\ m.pool = "eoe" /\ m.payload = part
        /\ m.nr = 0 <=> a = 0
        /\ m.more <=> Len(part) = room.write
        /\ eoe.pos = a + Len(part)

Coming == \E m, a : Behind(m) /\ FragmentAt(m, a) /\ Begun(Partial, Has, a)

EoePlace ==
    /\ IsSeq(node.has)
    /\ eoe.pc \in {"idle", "ip"} => NoneBehind /\ send_sync = 0 /\ FramesAre(Has, eoe.call)
    /\ eoe.pc \in {"frame", "crash"} =>
          /\ NoneBehind /\ send_sync = 0
          /\ Begun(Partial, Has, eoe.pos) /\ (eoe.nr = 0 <=> eoe.pos = 0)
    /\ eoe.pc = "sync" =>
          /\ eoe.nr # 0 /\ eoe.pos # 0
          /\ \/ /\ NoneBehind /\ send_sync = 1
                /\ IF eoe.pos < Len(EoeOp.frame) THEN Begun(Partial, Has, eoe.pos) ELSE FramesAre(Has, eoe.call)
             \/ send_sync = 0 /\ Coming

EoeTypes ==
    /\ {"pc", "call", "ret", "pos", "nr"} \subseteq DOMAIN eoe
    /\ {"partial", "has", "frames", "sent"} \subseteq DOMAIN node
    /\ IsSeq(eoe_calls)
    /\ \A c \in DOMAIN eoe_calls : eoe_calls[c].op \in {"frame", "ip"} /\ IsSeq(eoe_calls[c].frame)
    /\ IsSeq(send_queued)
    /\ room.write \in Nat \ {0}
    /\ eoe.pc \in {"idle", "ip", "frame", "sync", "crash"} /\ eoe.call \in 0 .. Len(eoe_calls)
    /\ eoe.nr \in Nat /\ eoe.pos \in Nat
    /\ eoe.pc # "idle" => eoe.call >= 1 /\ EoeOp.op = IF eoe.pc = "ip" THEN "ip" ELSE "frame"

\* No frame fills its last fragment.
Ending == \A c \in FrameCalls : Len(eoe_calls[c].frame) % room.write # 0

EoeInv == EoeTypes /\ (Ending => EoePlace)

-----------------------------------------------------------------------------
LEMMA QueuePut ==
    ASSUME NEW s, IsSeq(s), NEW m, NEW t, t = <<m>> \o s \/ t = Append(s, m)
    PROVE  /\ IsSeq(t)
           /\ m.pool # "eoe" => /\ NoneIn(s) => NoneIn(t)
                                /\ \A x : OneIn(s, x) => OneIn(t, x)
           /\ m.pool = "eoe" /\ NoneIn(s) => OneIn(t, m)
<1> DEFINE h == <<m>>
<1>1. IsSeq(h) /\ Len(h) = 1 /\ h[1] = m
  BY OneIs
<1>2. t = h \o s \/ t = s \o h
  BY AppendIs
<1> HIDE DEF h
<1>3. Len(s) \in Nat /\ DOMAIN s = 1 .. Len(s)
  BY SeqLen
<1>4. IsSeq(t) /\ Len(t) = Len(s) + 1
  <2>1. CASE t = h \o s
    BY <1>1, <1>3, <2>1, CatIs
  <2>2. CASE t = s \o h
    BY <1>1, <1>3, <2>2, CatIs
  <2> QED  BY <1>2, <2>1, <2>2
<1>5. DOMAIN t = 1 .. Len(s) + 1
  BY <1>4, SeqLen
\* Where m is, and where the others have gone.
<1>6. \E p \in DOMAIN t : /\ t[p] = m
                          /\ \A i \in DOMAIN s : \E j \in DOMAIN t \ {p} : t[j] = s[i]
                                /\ \A k \in DOMAIN t \ {p} : (k = j <=> (IF p = 1 THEN k = i + 1 ELSE k = i))
                          /\ \A j \in DOMAIN t \ {p} : (IF p = 1 THEN j - 1 ELSE j) \in DOMAIN s
                                                       /\ t[j] = s[IF p = 1 THEN j - 1 ELSE j]
  <2>1. CASE t = h \o s
    <3>1. t[1] = m
      <4>1. 1 \in 1 .. Len(h)
        BY <1>1
      <4> QED  BY <1>1, <2>1, <4>1, CatIs
    <3>2. \A i \in 1 .. Len(s) : t[i + 1] = s[i]
      <4>1. \A i \in 1 .. Len(s) : t[Len(h) + i] = s[i]
        BY <1>1, <2>1, CatIs
      <4>2. \A i \in 1 .. Len(s) : Len(h) + i = i + 1
        BY <1>1, <1>3
      <4> QED  BY <4>1, <4>2
    <3>3. \A i \in DOMAIN s : i + 1 \in DOMAIN t \ {1} /\ t[i + 1] = s[i]
      BY <1>3, <1>5, <3>2
    <3>4. \A j \in DOMAIN t \ {1} : j - 1 \in DOMAIN s /\ t[j] = s[j - 1]
      <4>1. \A j \in DOMAIN t \ {1} : j - 1 \in DOMAIN s /\ (j - 1) + 1 = j
        BY <1>3, <1>5
      <4> QED  BY <4>1, <3>3
    <3>5. 1 \in DOMAIN t
      BY <1>3, <1>5
    <3> QED  BY <3>1, <3>3, <3>4, <3>5
  <2>2. CASE t = s \o h /\ s # <<>>
    <3> DEFINE p == Len(s) + 1
    <3>1. p \in DOMAIN t /\ p # 1
      <4>1. s # <<>>
        BY <2>2
      <4>2. Len(s) # 0
        BY <4>1, HeadTailIs
      <4> QED  BY <4>2, <1>3, <1>5
    <3>2. t[p] = m
      <4>1. p \in Len(s) + 1 .. Len(s) + Len(h) /\ p - Len(s) = 1
        BY <1>1, <1>3
      <4> HIDE DEF p
      <4>2. t[p] = h[p - Len(s)]
        BY <1>1, <2>2, <4>1, CatIs
      <4> QED  BY <1>1, <4>1, <4>2
    <3>3. \A i \in DOMAIN s : i \in DOMAIN t \ {p} /\ t[i] = s[i]
      <4>1. \A i \in 1 .. Len(s) : t[i] = s[i]
        BY <1>1, <2>2, CatIs
      <4> QED  BY <4>1, <1>3, <1>5
    <3>4. \A j \in DOMAIN t \ {p} : j \in DOMAIN s
      BY <1>3, <1>5
    <3> HIDE DEF p
    <3> QED  BY <3>1, <3>2, <3>3, <3>4
  <2>3. CASE t = s \o h /\ s = <<>>
    <3>1. t = h \o s
      BY <1>1, <2>3, CatEmpty
    <3> QED  BY <2>1, <3>1
  <2> QED  BY <1>2, <2>1, <2>2, <2>3
<1>7. PICK p \in DOMAIN t :
         /\ t[p] = m
         /\ \A i \in DOMAIN s : \E j \in DOMAIN t \ {p} : t[j] = s[i]
               /\ \A k \in DOMAIN t \ {p} : (k = j <=> (IF p = 1 THEN k = i + 1 ELSE k = i))
         /\ \A j \in DOMAIN t \ {p} : (IF p = 1 THEN j - 1 ELSE j) \in DOMAIN s
                                      /\ t[j] = s[IF p = 1 THEN j - 1 ELSE j]
  BY <1>6
<1>8. ASSUME m.pool # "eoe", NoneIn(s) PROVE NoneIn(t)
  BY <1>7, <1>8 DEF NoneIn, EoeIn
<1>9. ASSUME m.pool # "eoe", NEW x, OneIn(s, x) PROVE OneIn(t, x)
  <2>1. PICK i \in DOMAIN s : EoeIn(s) = {i} /\ s[i] = x
    BY <1>9 DEF OneIn
  <2>2. PICK j \in DOMAIN t \ {p} :
           t[j] = x /\ \A k \in DOMAIN t \ {p} : (k = j <=> (IF p = 1 THEN k = i + 1 ELSE k = i))
    BY <1>7, <2>1
  <2>3. x.pool = "eoe"
    BY <2>1 DEF EoeIn
  <2>4. ASSUME NEW k \in EoeIn(t) PROVE k = j
    <3>1. k \in DOMAIN t \ {p} /\ t[k].pool = "eoe"
      BY <1>7, <1>9 DEF EoeIn
    <3>2. (IF p = 1 THEN k - 1 ELSE k) \in EoeIn(s)
      BY <3>1, <1>7 DEF EoeIn
    <3>3. (IF p = 1 THEN k - 1 ELSE k) = i
      BY <3>2, <2>1
    <3>4. k \in Int
      BY <3>1, <1>5
    <3> QED  BY <3>1, <3>3, <3>4, <2>2
  <2> QED  BY <2>2, <2>3, <2>4 DEF OneIn, EoeIn
<1>10. ASSUME m.pool = "eoe", NoneIn(s) PROVE OneIn(t, m)
  <2>1. \A j \in DOMAIN t \ {p} : t[j].pool # "eoe"
    BY <1>7, <1>10 DEF NoneIn, EoeIn
  <2> QED  BY <1>7, <1>10, <2>1 DEF OneIn, EoeIn
<1> QED  BY <1>4, <1>8, <1>9, <1>10

LEMMA QueueTake ==
    ASSUME NEW s, IsSeq(s), s # <<>>
    PROVE  /\ IsSeq(Tail(s))
           /\ NoneIn(s) => Head(s).pool # "eoe" /\ NoneIn(Tail(s))
           /\ \A x : OneIn(s, x) => IF Head(s).pool = "eoe" THEN x = Head(s) /\ NoneIn(Tail(s))
                                    ELSE OneIn(Tail(s), x)
<1> DEFINE t == Tail(s)
<1>1. /\ IsSeq(t) /\ Len(s) \in Nat /\ Len(s) >= 1 /\ 1 \in DOMAIN s /\ Head(s) = s[1]
      /\ Len(t) = Len(s) - 1 /\ \A i \in 1 .. Len(t) : t[i] = s[i + 1]
  BY HeadTailIs
<1>2. DOMAIN s = 1 .. Len(s) /\ DOMAIN t = 1 .. Len(t)
  BY <1>1, SeqLen
<1> HIDE DEF t
<1>3. \A i \in DOMAIN t : i + 1 \in DOMAIN s /\ i + 1 # 1 /\ t[i] = s[i + 1]
  BY <1>1, <1>2
<1>4. \A i \in DOMAIN s : i # 1 => i - 1 \in DOMAIN t /\ (i - 1) + 1 = i
  BY <1>1, <1>2
<1>5. ASSUME NoneIn(s) PROVE Head(s).pool # "eoe" /\ NoneIn(t)
  BY <1>1, <1>3, <1>5 DEF NoneIn, EoeIn
<1>6. ASSUME NEW x, OneIn(s, x)
      PROVE  IF Head(s).pool = "eoe" THEN x = Head(s) /\ NoneIn(t) ELSE OneIn(t, x)
  <2>1. PICK i \in DOMAIN s : EoeIn(s) = {i} /\ s[i] = x
    BY <1>6 DEF OneIn
  <2>2. CASE Head(s).pool = "eoe"
    <3>1. i = 1
      BY <1>1, <2>1, <2>2 DEF EoeIn
    <3>2. \A j \in DOMAIN t : t[j].pool # "eoe"
      BY <1>3, <2>1, <3>1 DEF EoeIn
    <3> QED  BY <1>1, <2>1, <2>2, <3>1, <3>2 DEF NoneIn, EoeIn
  <2>3. CASE Head(s).pool # "eoe"
    <3>1. i # 1 /\ x.pool = "eoe"
      BY <1>1, <2>1, <2>3 DEF EoeIn
    <3>2. i - 1 \in DOMAIN t /\ (i - 1) + 1 = i
      BY <1>4, <3>1
    <3>3. t[i - 1] = x
      BY <1>3, <2>1, <3>2
    <3>4. ASSUME NEW j \in DOMAIN t, t[j].pool = "eoe" PROVE j = i - 1
      <4>1. j + 1 \in EoeIn(s)
        BY <1>3, <3>4 DEF EoeIn
      <4>2. j + 1 = i /\ j \in Int
        BY <4>1, <2>1, <1>2
      <4> QED  BY <4>2
    <3> QED  BY <2>3, <3>1, <3>2, <3>3, <3>4 DEF OneIn, EoeIn
  <2> QED  BY <2>2, <2>3
<1> QED  BY <1>1, <1>5, <1>6 DEF t

-----------------------------------------------------------------------------
(* Frames and their fragments.                                             *)

LEMMA CallsCounted ==
    ASSUME EoeTypes
    PROVE  /\ FrameNr(0) = 0
           /\ \A c \in 0 .. Len(eoe_calls) : FrameNr(c) \in Nat
           /\ \A c \in DOMAIN eoe_calls : FrameNr(c) = FrameNr(c - 1) + (IF eoe_calls[c].op = "frame" THEN 1 ELSE 0)
<1> DEFINE Upto(c) == {d \in FrameCalls : d <= c}
<1>1. Len(eoe_calls) \in Nat /\ DOMAIN eoe_calls = 1 .. Len(eoe_calls)
  BY SeqLen DEF EoeTypes
<1>2. FrameCalls \subseteq 1 .. Len(eoe_calls)
  BY <1>1 DEF FrameCalls
<1>3. IsFiniteSet(FrameCalls)
  <2>1. IsFiniteSet(1 .. Len(eoe_calls))
    BY <1>1, FS_Interval
  <2> QED  BY <1>2, <2>1, FS_Subset
<1>4. \A c : IsFiniteSet(Upto(c)) /\ Cardinality(Upto(c)) \in Nat
  BY <1>3, FS_Subset, FS_CardinalityType
<1>5. FrameNr(0) = 0
  <2>1. \A d \in FrameCalls : ~(d <= 0)
    BY <1>1, <1>2
  <2>2. Upto(0) = {}
    BY <2>1
  <2> QED  BY <2>2, FS_EmptySet DEF FrameNr
<1>6. ASSUME NEW c \in DOMAIN eoe_calls
      PROVE  FrameNr(c) = FrameNr(c - 1) + (IF eoe_calls[c].op = "frame" THEN 1 ELSE 0)
  <2>1. c \in Nat /\ \A d \in FrameCalls : d \in Nat
    BY <1>1, <1>2
  <2>2. CASE eoe_calls[c].op = "frame"
    <3>1. c \in FrameCalls
      BY <2>2 DEF FrameCalls
    <3>2. Upto(c) = Upto(c - 1) \cup {c} /\ c \notin Upto(c - 1)
      BY <2>1, <3>1
    <3>3. Cardinality(Upto(c)) = Cardinality(Upto(c - 1)) + 1
      <4> HIDE DEF Upto
      <4> QED  BY <1>4, <3>2, FS_AddElement
    <3> QED  BY <2>2, <3>3 DEF FrameNr
  <2>3. CASE eoe_calls[c].op # "frame"
    <3>1. c \notin FrameCalls
      BY <2>3 DEF FrameCalls
    <3>2. Upto(c) = Upto(c - 1)
      BY <2>1, <3>1
    <3>3. Cardinality(Upto(c - 1)) \in Nat
      BY <1>4
    <3>4. FrameNr(c) = FrameNr(c - 1) /\ FrameNr(c - 1) \in Nat
      BY <3>2, <3>3 DEF FrameNr
    <3> QED  BY <2>3, <3>4
  <2> QED  BY <2>2, <2>3
<1> QED  BY <1>4, <1>5, <1>6 DEF FrameNr

LEMMA NextMultiple ==
    ASSUME NEW k \in Nat, NEW r \in Nat \ {0}
    PROVE  (k + 1) * r = k * r + r /\ k * r \in Nat /\ (k * r) % r = 0
<1>1. k * r \in Nat
  OBVIOUS
<1>2. (k + 1) * r = k * r + r
  OBVIOUS
<1>3. (k * r) % r = 0
  OBVIOUS
<1>4. QED
  BY <1>1, <1>2, <1>3

\* What SubSeq makes of a sequence.
LEMMA SliceIs ==
    ASSUME NEW f, IsSeq(f), NEW a \in Nat, NEW b \in Nat, a <= b, b <= Len(f)
    PROVE  /\ IsSeq(SubSeq(f, a + 1, b)) /\ Len(SubSeq(f, a + 1, b)) = b - a
           /\ \A i \in 1 .. b - a : SubSeq(f, a + 1, b)[i] = f[a + i]
<1>1. PICK S : f \in Seq(S)
  BY DEF IsSeq
<1>2. Len(f) \in Nat
  BY SeqLen
<1>3. SubSeq(f, a + 1, b) \in Seq(S)
  BY <1>1, <1>2
<1>4. Len(SubSeq(f, a + 1, b)) = b - a
  BY <1>1, <1>2
<1>5. \A i \in 1 .. b - a : SubSeq(f, a + 1, b)[i] = f[a + i]
  BY <1>1, <1>2
<1>6. IsSeq(SubSeq(f, a + 1, b))
  BY <1>3 DEF IsSeq
<1> QED  BY <1>4, <1>5, <1>6

LEMMA PartsJoin ==
    ASSUME NEW f, IsSeq(f), NEW a \in Nat, NEW b \in Nat, a <= b, b <= Len(f)
    PROVE  /\ SubSeq(f, 1, a) \o SubSeq(f, a + 1, b) = SubSeq(f, 1, b)
           /\ SubSeq(f, 1, Len(f)) = f
<1> DEFINE p == SubSeq(f, 0 + 1, a)
           q == SubSeq(f, a + 1, b)
           r == SubSeq(f, 0 + 1, b)
           w == SubSeq(f, 0 + 1, Len(f))
<1>1. Len(f) \in Nat
  BY SeqLen
<1>2. IsSeq(p) /\ Len(p) = a /\ \A i \in 1 .. a : p[i] = f[i]
  <2>1. IsSeq(p) /\ Len(p) = a - 0 /\ \A i \in 1 .. a - 0 : p[i] = f[0 + i]
    BY <1>1, SliceIs
  <2> HIDE DEF p
  <2> QED  BY <2>1
<1>3. IsSeq(q) /\ Len(q) = b - a /\ \A i \in 1 .. b - a : q[i] = f[a + i]
  BY SliceIs
<1>4. IsSeq(r) /\ Len(r) = b /\ \A i \in 1 .. b : r[i] = f[i]
  <2>1. IsSeq(r) /\ Len(r) = b - 0 /\ \A i \in 1 .. b - 0 : r[i] = f[0 + i]
    BY <1>1, SliceIs
  <2> HIDE DEF r
  <2> QED  BY <2>1
<1>5. IsSeq(w) /\ Len(w) = Len(f) /\ \A i \in 1 .. Len(f) : w[i] = f[i]
  <2>1. IsSeq(w) /\ Len(w) = Len(f) - 0 /\ \A i \in 1 .. Len(f) - 0 : w[i] = f[0 + i]
    BY <1>1, SliceIs, SMTT(30)
  <2> HIDE DEF w
  <2> QED  BY <1>1, <2>1
<1>6. p = SubSeq(f, 1, a) /\ r = SubSeq(f, 1, b) /\ w = SubSeq(f, 1, Len(f))
  OBVIOUS
<1> HIDE DEF p, q, r, w
<1>7. w = f
  BY <1>5, SameSeq
<1>8. IsSeq(p \o q) /\ Len(p \o q) = b
  BY <1>2, <1>3, CatIs
<1>9. ASSUME NEW i \in 1 .. Len(p \o q) PROVE (p \o q)[i] = r[i]
  <2>1. CASE i <= a
    <3>1. i \in 1 .. Len(p) /\ i \in 1 .. a /\ i \in 1 .. b
      BY <1>2, <1>8, <2>1
    <3>2. (p \o q)[i] = p[i]
      BY <1>2, <1>3, <3>1, CatIs
    <3> QED  BY <1>2, <1>4, <3>1, <3>2
  <2>2. CASE ~(i <= a)
    <3>1. i \in Len(p) + 1 .. Len(p) + Len(q) /\ i - a \in 1 .. b - a /\ a + (i - a) = i /\ i \in 1 .. b
      BY <1>2, <1>3, <1>8, <2>2
    <3>2. (p \o q)[i] = q[i - Len(p)]
      BY <1>2, <1>3, <3>1, CatBehind, ZenonT(60)
    <3>3. q[i - a] = f[a + (i - a)]
      BY <1>3, <3>1
    <3> QED  BY <1>2, <1>4, <3>1, <3>2, <3>3
  <2> QED  BY <2>1, <2>2
<1>10. p \o q = r
  BY <1>4, <1>8, <1>9, SameSeq
<1> QED  BY <1>6, <1>7, <1>10 DEF q

\* A fragment in its place brings the frame to the next one, or completes it.
LEMMA FragmentJoins ==
    ASSUME EoeTypes, Ending, eoe.pc \in {"frame", "sync"},
           NEW p, NEW h, NEW m, NEW a, Begun(p, h, a), FragmentAt(m, a)
    PROVE  /\ eoe.pos \in Nat \ {0}
           /\ eoe.pos < Len(EoeOp.frame) => m.more /\ Begun(Joined(p, m), h, eoe.pos)
           /\ ~(eoe.pos < Len(EoeOp.frame)) => ~m.more /\ FramesAre(Append(h, Joined(p, m)), eoe.call)
<1> DEFINE f == EoeOp.frame
           n == room.write
           b == Least(a + n, Len(f))
<1>1. /\ eoe.call \in FrameCalls /\ eoe.call \in DOMAIN eoe_calls /\ EoeOp = eoe_calls[eoe.call]
      /\ EoeOp.op = "frame"
  <2>1. eoe.call \in 1 .. Len(eoe_calls) /\ EoeOp.op = "frame"
    <3>1. Len(eoe_calls) \in Nat
      BY SeqLen DEF EoeTypes
    <3> QED  BY <3>1 DEF EoeTypes
  <2>2. eoe.call \in DOMAIN eoe_calls
    BY <2>1, SeqLen DEF EoeTypes
  <2> QED  BY <2>1, <2>2 DEF FrameCalls, EoeOp
<1>2. IsSeq(f) /\ Len(f) \in Nat /\ n \in Nat \ {0} /\ Len(f) % n # 0
  <2>1. IsSeq(f) /\ n \in Nat \ {0}
    BY <1>1 DEF EoeTypes
  <2>2. Len(f) \in Nat
    BY <2>1, SeqLen
  <2> QED  BY <1>1, <2>1, <2>2 DEF Ending
<1>3. a \in Nat /\ a < Len(f) /\ (\E k \in Nat : a + n = k * n) /\ (a + n) % n = 0
  <2>1. PICK k \in Nat : a = k * n
    BY DEF Begun
  <2>2. n \in Nat \ {0} /\ k + 1 \in Nat
    BY <1>2
  <2> HIDE DEF n
  <2>3. (k + 1) * n = k * n + n /\ k * n \in Nat
    BY <2>2, NextMultiple
  <2>4. ((k + 1) * n) % n = 0
    BY <2>2, NextMultiple
  <2>5. a \in Nat /\ a + n = (k + 1) * n
    BY <2>1, <2>3
  <2>6. a < Len(f)
    BY DEF Begun
  <2> QED  BY <2>2, <2>4, <2>5, <2>6
<1>4. /\ b \in Nat /\ a <= b /\ b <= Len(f) /\ b > a
      /\ IF a + n < Len(f) THEN b = a + n ELSE b = Len(f) /\ b - a < n
  <2>1. a + n # Len(f)
    BY <1>2, <1>3
  <2>2. b = IF a + n < Len(f) THEN a + n ELSE Len(f)
    BY DEF Least
  <2>3. a \in Nat /\ n \in Nat \ {0} /\ Len(f) \in Nat /\ a < Len(f)
    BY <1>2, <1>3
  <2> HIDE DEF b, n, f
  <2> QED  BY <2>1, <2>2, <2>3
<1>5. /\ m.payload = SubSeq(f, a + 1, b) /\ (m.nr = 0 <=> a = 0)
      /\ (m.more <=> Len(SubSeq(f, a + 1, b)) = n) /\ eoe.pos = a + Len(SubSeq(f, a + 1, b))
  BY DEF FragmentAt, Part
<1> HIDE DEF b, f, n
<1>6. Len(SubSeq(f, a + 1, b)) = b - a
  BY <1>2, <1>3, <1>4, SliceIs
<1>7. eoe.pos = b /\ (m.more <=> a + n < Len(f)) /\ (b < Len(f) <=> a + n < Len(f))
  <2>1. a \in Nat /\ n \in Nat \ {0} /\ Len(f) \in Nat
    BY <1>2, <1>3
  <2> QED  BY <1>4, <1>5, <1>6, <2>1
<1>8. Joined(p, m) = SubSeq(f, 1, b)
  <2>1. CASE a = 0
    <3>1. m.payload = SubSeq(f, 1, b) /\ m.nr = 0
      BY <1>5, <2>1
    <3> QED  BY <3>1 DEF Joined
  <2>2. CASE a # 0
    <3>1. p = SubSeq(f, 1, a) /\ m.nr # 0
      BY <1>5, <2>2 DEF Begun, f
    <3>2. SubSeq(f, 1, a) \o SubSeq(f, a + 1, b) = SubSeq(f, 1, b)
      BY <1>2, <1>3, <1>4, PartsJoin
    <3> QED  BY <1>5, <3>1, <3>2 DEF Joined
  <2> QED  BY <2>1, <2>2
<1>9. ASSUME eoe.pos < Len(f) PROVE m.more /\ Begun(Joined(p, m), h, eoe.pos)
  BY <1>3, <1>4, <1>7, <1>8, <1>9 DEF Begun, f, n
<1>10. ASSUME ~(eoe.pos < Len(f)) PROVE ~m.more /\ FramesAre(Append(h, Joined(p, m)), eoe.call)
  <2>1. ~m.more /\ b = Len(f)
    BY <1>4, <1>7, <1>10
  <2>2. Joined(p, m) = f
    BY <1>2, <1>8, <2>1, PartsJoin
  <2>3. FramesAre(h, eoe.call - 1) /\ IsSeq(h)
    BY DEF Begun, FramesAre
  <2>4. FrameNr(eoe.call) = FrameNr(eoe.call - 1) + 1
    BY <1>1, CallsCounted
  <2> DEFINE t == <<f>>
  <2>5. IsSeq(t) /\ Len(t) = 1 /\ t[1] = f /\ Append(h, f) = h \o t
    BY <2>3, OneIs, AppendIs
  <2> HIDE DEF t
  <2>6. IsSeq(h \o t) /\ Len(h \o t) = Len(h) + 1 /\ Len(h) \in Nat
    BY <2>3, <2>5, CatIs, SeqLen
  <2>7. \A i \in 1 .. Len(h) : (h \o t)[i] = h[i]
    BY <2>3, <2>5, CatIs
  <2>8. (h \o t)[Len(h) + 1] = f
    <3>1. 1 \in 1 .. Len(t)
      BY <2>5
    <3> QED  BY <2>3, <2>5, <3>1, CatIs
  <2>9. ASSUME NEW i \in DOMAIN (h \o t)
        PROVE  \E c \in FrameCalls : FrameNr(c) = i /\ (h \o t)[i] = eoe_calls[c].frame
    <3>1. i \in 1 .. Len(h) + 1
      BY <2>6, SeqLen
    <3>2. CASE i = Len(h) + 1
      BY <1>1, <2>3, <2>4, <2>8, <3>2 DEF FramesAre, f
    <3>3. CASE i # Len(h) + 1
      <4>1. i \in 1 .. Len(h)
        BY <2>6, <3>1, <3>3
      <4>2. i \in DOMAIN h
        BY <2>3, <4>1, SeqLen
      <4> QED  BY <2>3, <2>7, <4>1, <4>2 DEF FramesAre
    <3> QED  BY <3>2, <3>3
  <2> QED  BY <2>1, <2>2, <2>3, <2>4, <2>5, <2>6, <2>9 DEF FramesAre
<1>11. eoe.pos \in Nat \ {0}
  BY <1>3, <1>4, <1>7
<1> QED  BY <1>9, <1>10, <1>11 DEF f

-----------------------------------------------------------------------------
(* Steps that EoE has no part in, or only the network.                     *)

\* NULL is no message.
NoMessage == \A pool, op, nr, payload, more : Message(pool, op, nr, payload, more) # NULL

QueueStays == /\ IsSeq(send_queued')
              /\ NoneBehind => NoneBehind'
              /\ \A m : Behind(m) => Behind(m)'

NetStays == /\ Partial' = Partial /\ Has' = Has
            /\ IsSeq(node.has) /\ IsSeq(Has) => IsSeq(node'.has)
            /\ {"partial", "has", "frames", "sent"} \subseteq DOMAIN node'

LEMMA StaysKeep ==
    ASSUME EoeInv, QueueStays, NetStays, UNCHANGED <<eoe, eoe_calls, send_sync, room>>
    PROVE  EoeInv'
<1>1. EoeTypes'
  <2>1. EoeOp' = EoeOp
    BY DEF EoeOp
  <2> QED  BY <2>1 DEF EoeInv, EoeTypes, QueueStays, NetStays
<1>2. ASSUME Ending' PROVE EoePlace'
  <2>1. EoePlace /\ EoeTypes
    BY <1>2 DEF EoeInv, Ending, FrameCalls
  <2>2. /\ EoeOp' = EoeOp
        /\ \A h, k : FramesAre(h, k) => FramesAre(h, k)'
        /\ \A m, a : FragmentAt(m, a) => FragmentAt(m, a)'
    BY DEF EoeOp, FramesAre, FrameNr, FrameCalls, FragmentAt
  <2>4. \A k : FramesAre(Has, k) => FramesAre(Has, k)'
    BY DEF NetStays, FramesAre, FrameNr, FrameCalls
  <2>5. \A a : Begun(Partial, Has, a) => Begun(Partial, Has, a)'
    BY <2>4 DEF NetStays, Begun, EoeOp, FramesAre, FrameNr, FrameCalls
  <2>6. Coming => Coming'
    BY <2>2, <2>5 DEF Coming, QueueStays
  <2>7. IsSeq(node'.has)
    <3>1. IsSeq(Has)
      BY <2>1 DEF EoePlace, FramesAre, Begun, Coming, EoeTypes
    <3> QED  BY <3>1, <2>1 DEF EoePlace, NetStays
  <2>8. eoe.pc \in {"idle", "ip"} => NoneBehind' /\ send_sync' = 0 /\ FramesAre(Has, eoe.call)'
    BY <2>1, <2>4 DEF EoePlace, QueueStays
  <2>9. eoe.pc \in {"frame", "crash"} =>
           /\ NoneBehind' /\ send_sync' = 0
           /\ Begun(Partial, Has, eoe.pos)' /\ (eoe.nr = 0 <=> eoe.pos = 0)
    BY <2>1, <2>5 DEF EoePlace, QueueStays
  <2>10. eoe.pc = "sync" =>
           /\ eoe.nr # 0 /\ eoe.pos # 0
           /\ \/ /\ NoneBehind' /\ send_sync' = 1
                 /\ IF eoe.pos < Len(EoeOp.frame) THEN Begun(Partial, Has, eoe.pos)' ELSE FramesAre(Has, eoe.call)'
              \/ send_sync' = 0 /\ Coming'
    BY <2>1, <2>4, <2>5, <2>6 DEF EoePlace, QueueStays
  <2> QED  BY <2>2, <2>7, <2>8, <2>9, <2>10 DEF EoePlace
<1> QED  BY <1>1, <1>2 DEF EoeInv

LEMMA QueueSame ==
    ASSUME IsSeq(send_queued), UNCHANGED send_queued,
           UNCHANGED handler \/ (~InHand /\ handler'.does # "send")
    PROVE  QueueStays
<1>1. CASE UNCHANGED handler
  BY <1>1 DEF QueueStays, NoneBehind, Behind, InHand
<1>2. CASE ~InHand /\ handler'.does # "send"
  <2>1. ~InHand /\ ~InHand'
    BY <1>2 DEF InHand
  <2> QED  BY <2>1 DEF QueueStays, NoneBehind, Behind
<1> QED  BY <1>1, <1>2

LEMMA QueueOther ==
    ASSUME IsSeq(send_queued), UNCHANGED handler,
           NEW m, m.pool # "eoe", SendHead(m) \/ SendTail(m)
    PROVE  QueueStays
<1>1. send_queued' = <<m>> \o send_queued \/ send_queued' = Append(send_queued, m)
  BY DEF SendHead, SendTail
<1>2. /\ IsSeq(send_queued')
      /\ NoneIn(send_queued) => NoneIn(send_queued')
      /\ \A x : OneIn(send_queued, x) => OneIn(send_queued', x)
  BY <1>1, QueuePut
<1>3. InHand' = InHand
  BY DEF InHand
<1> QED  BY <1>2, <1>3 DEF QueueStays, NoneBehind, Behind

LEMMA QueueHandler ==
    ASSUME IsSeq(send_queued), HandlerPop \/ HandlerRequeue
    PROVE  QueueStays
<1>1. CASE HandlerPop
  <2>1. /\ ~InHand /\ send_queued # <<>> /\ send_queued' = Tail(send_queued)
        /\ handler'.does = "send" /\ handler'.with = Head(send_queued)
    BY <1>1 DEF HandlerPop, InHand, Idle
  <2>2. InHand' <=> Head(send_queued).pool = "eoe"
    BY <2>1 DEF InHand
  <2>3. /\ IsSeq(send_queued')
        /\ NoneIn(send_queued) => Head(send_queued).pool # "eoe" /\ NoneIn(send_queued')
        /\ \A x : OneIn(send_queued, x) =>
              IF Head(send_queued).pool = "eoe" THEN x = Head(send_queued) /\ NoneIn(send_queued')
              ELSE OneIn(send_queued', x)
    BY <2>1, QueueTake
  <2> QED  BY <2>1, <2>2, <2>3 DEF QueueStays, NoneBehind, Behind
<1>2. CASE HandlerRequeue
  <2> DEFINE m == handler.with
  <2>1. send_queued' = <<m>> \o send_queued /\ handler.does = "send" /\ handler'.does # "send"
    BY <1>2 DEF HandlerRequeue, Idle
  <2>2. ~InHand' /\ (InHand <=> m.pool = "eoe")
    BY <2>1 DEF InHand
  <2>3. /\ IsSeq(send_queued')
        /\ m.pool # "eoe" => /\ NoneIn(send_queued) => NoneIn(send_queued')
                             /\ \A x : OneIn(send_queued, x) => OneIn(send_queued', x)
        /\ m.pool = "eoe" /\ NoneIn(send_queued) => OneIn(send_queued', m)
    <3> DEFINE q == send_queued'
    <3>1. q = <<m>> \o send_queued
      BY <2>1
    <3> HIDE DEF m, q
    <3>2. /\ IsSeq(q)
          /\ m.pool # "eoe" => /\ NoneIn(send_queued) => NoneIn(q)
                               /\ \A x : OneIn(send_queued, x) => OneIn(q, x)
          /\ m.pool = "eoe" /\ NoneIn(send_queued) => OneIn(q, m)
      BY <3>1, QueuePut
    <3> QED  BY <3>2 DEF q
  <2> QED  BY <2>2, <2>3 DEF QueueStays, NoneBehind, Behind
<1> QED  BY <1>1, <1>2

LEMMA NetSame ==
    ASSUME {"partial", "has", "frames", "sent"} \subseteq DOMAIN node, DOMAIN node' = DOMAIN node,
           node'.partial = node.partial, node'.has = node.has,
           wrote' = wrote \/ (~InMailbox /\ ~InMailbox')
    PROVE  NetStays
<1>1. InMailbox' = InMailbox
  BY DEF InMailbox
<1>2. Partial' = Partial
  BY <1>1 DEF Partial, Joined, InMailbox
<1>3. Has' = Has
  BY <1>1 DEF Has, Joined, InMailbox
<1> QED  BY <1>2, <1>3 DEF NetStays

LEMMA NetTakes ==
    ASSUME {"partial", "has", "frames", "sent"} \subseteq DOMAIN node,
           InMailbox, wrote' = NULL, node' = NodeReceives(wrote)
    PROVE  NetStays
<1>1. ~InMailbox'
  BY DEF InMailbox
<1>2. DOMAIN node' = DOMAIN node /\ node'.partial = Partial /\ node'.has = Has
  BY DEF NodeReceives, Partial, Has, Joined
<1>3. Partial' = node'.partial /\ Has' = node'.has
  BY <1>1 DEF Partial, Has
<1> QED  BY <1>2, <1>3 DEF NetStays

\* The services beside EoE.
LEMMA FoeApart ==
    ASSUME FoeThread
    PROVE  /\ UNCHANGED <<handler, slave, evars, room>>
           /\ UNCHANGED sends \/ \E m : m.pool = "foe" /\ (SendHead(m) \/ SendTail(m))
<1> USE DEF FoeThread, Lives, recvs, port, FoeOnly
<1>1. \A op, nr, payload : FoeMessage(op, nr, payload).pool = "foe"
  BY DEF FoeMessage, Message
<1>2. ASSUME NEW op, NEW nr, NEW payload, NEW next, FoeSend(FoeMessage(op, nr, payload), next)
      PROVE  UNCHANGED sends \/ \E m : m.pool = "foe" /\ (SendHead(m) \/ SendTail(m))
  BY <1>1, <1>2 DEF FoeSend
<1>3. CASE FoeCall
  BY <1>2, <1>3 DEF FoeCall
<1>4. CASE FoeReadData
  BY <1>2, <1>4 DEF FoeReadData, TakeAndReturn
<1>5. CASE FoeReadOther
  BY <1>5 DEF FoeReadOther, TakeAndReturn
<1>6. CASE FoeWriteAnswer
  BY <1>6 DEF FoeWriteAnswer, TakeAndReturn
<1>7. CASE FoeWritePacket
  BY <1>2, <1>7 DEF FoeWritePacket
<1>8. CASE FoeTimeout
  BY <1>8 DEF FoeTimeout, Expires
<1> QED  BY <1>3, <1>4, <1>5, <1>6, <1>7, <1>8 DEF FoeNext

LEMMA SoeApart ==
    ASSUME SoeThread
    PROVE  /\ UNCHANGED <<handler, slave, fvars, evars>>
           /\ UNCHANGED sends \/ \E m : m.pool = "soe" /\ (SendHead(m) \/ SendTail(m))
<1> USE DEF SoeThread, Lives, recvs, port
<1>1. \A op, left, payload, more : SoeMessage(op, left, payload, more).pool = "soe"
  BY DEF SoeMessage, Message
<1>2. ASSUME NEW op, NEW left, NEW payload, NEW more, NEW next,
             SoeSend(SoeMessage(op, left, payload, more), next)
      PROVE  UNCHANGED sends \/ \E m : m.pool = "soe" /\ (SendHead(m) \/ SendTail(m))
  BY <1>1, <1>2 DEF SoeSend
<1>3. CASE SoeCall
  BY <1>2, <1>3 DEF SoeCall
<1>4. CASE SoeReadFragment
  BY <1>4 DEF SoeReadFragment, TakeAndReturn
<1>5. CASE SoeReadMore
  BY <1>5 DEF SoeReadMore
<1>6. CASE SoeReadSpins
  BY <1>6 DEF SoeReadSpins, TakeAndReturn
<1>7. CASE SoeWriteFragment
  BY <1>2, <1>7 DEF SoeWriteFragment
<1>8. CASE SoeWriteAnswer
  BY <1>8 DEF SoeWriteAnswer, TakeAndReturn
<1>9. CASE SoeTimeout
  BY <1>9 DEF SoeTimeout, Expires
<1>10. CASE SoeReturnsAgain
  BY <1>10 DEF SoeReturnsAgain
<1> QED  BY <1>3, <1>4, <1>5, <1>6, <1>7, <1>8, <1>9, <1>10 DEF SoeNext

\* Everything but the thread of EoE and the writing of what it sends.
LEMMA EoeApart ==
    ASSUME EoeInv, [Next]_vars, ~EoeThread, Sends => ~InHand
    PROVE  EoeInv'
<1>1. IsSeq(send_queued) /\ {"partial", "has", "frames", "sent"} \subseteq DOMAIN node
  BY DEF EoeInv, EoeTypes
<1>2. ASSUME UNCHANGED <<handler, wrote, evars, room>>,
             UNCHANGED sends \/ \E m : m.pool # "eoe" /\ (SendHead(m) \/ SendTail(m))
      PROVE  EoeInv'
  <2>1. QueueStays
    <3>1. CASE UNCHANGED sends
      BY <1>1, <1>2, <3>1, QueueSame DEF sends
    <3>2. CASE \E m : m.pool # "eoe" /\ (SendHead(m) \/ SendTail(m))
      BY <1>1, <1>2, <3>2, QueueOther
    <3> QED  BY <1>2, <3>1, <3>2
  <2>2. NetStays
    BY <1>1, <1>2, NetSame DEF evars
  <2> QED  BY <1>2, <2>1, <2>2, StaysKeep DEF evars
<1>3. CASE FoeThread
  <2>1. \A m : m.pool = "foe" => m.pool # "eoe"
    OBVIOUS
  <2> QED  BY <1>2, <1>3, <2>1, FoeApart DEF slave
<1>4. CASE SoeThread
  <2>1. \A m : m.pool = "soe" => m.pool # "eoe"
    OBVIOUS
  <2> QED  BY <1>2, <1>4, <2>1, SoeApart DEF slave, fvars
<1>5. ASSUME QueueStays, UNCHANGED <<wrote, eoe, eoe_calls, send_sync, node, room>> PROVE EoeInv'
  BY <1>1, <1>5, NetSame, StaysKeep
<1>6. CASE Pops
  BY <1>1, <1>5, <1>6, QueueHandler DEF Pops, Handler, Lives, HandlerPop, evars, fvars, slave
<1>7. CASE Takes
  <2>1. ~InHand /\ handler'.does # "send" /\ UNCHANGED send_queued
    BY <1>7 DEF Takes, Handler, HandlerBuffer, InHand, Idle, sends
  <2>2. QueueStays
    BY <1>1, <2>1, QueueSame
  <2> QED  BY <1>5, <1>7, <2>2 DEF Takes, Handler, Lives, HandlerBuffer, evars, fvars, slave
<1>8. CASE Ends
  <2>1. CASE HandlerRequeue
    <3>1. QueueStays
      BY <1>1, <2>1, QueueHandler
    <3> QED  BY <1>5, <1>8, <2>1, <3>1 DEF Ends, Handler, Lives, HandlerRequeue, evars, fvars, slave
  <2>2. CASE HandlerEmpty \/ HandlerRead
    <3>1. ~InHand /\ handler'.does # "send" /\ UNCHANGED <<send_queued, wrote>>
      BY <2>2 DEF HandlerEmpty, HandlerRead, InHand, Idle, sends
    <3>2. QueueStays
      BY <1>1, <3>1, QueueSame
    <3> QED  BY <1>5, <1>8, <3>1, <3>2 DEF Ends, Handler, Lives, evars, fvars
  <2> QED  BY <1>8, <2>1, <2>2 DEF Ends, Handler
<1>9. CASE Frames
  <2>1. ~InHand /\ handler'.does # "send" /\ UNCHANGED <<send_queued, wrote, eoe, eoe_calls, send_sync, node, room>>
    BY <1>9 DEF Frames, Lives, HandlerFrames, EoeNoFrame, EoeNoMemory, EoeNoStart, EoeFrame,
                Processing, HandlerLeaves, Idle, InHand, sends, slave, fvars
  <2> QED  BY <1>1, <1>5, <2>1, QueueSame
<1>10. CASE Sends
  <2>1. /\ handler.does = "send" /\ wrote = NULL /\ wrote' = handler.with /\ ~InHand
        /\ handler'.does # "send" /\ UNCHANGED <<send_queued, eoe, eoe_calls, node, room>>
    BY <1>10 DEF Sends, Lives, HandlerSends, HandlerSend, Idle, fvars
  <2>2. handler.with.pool # "eoe" /\ ~InMailbox /\ ~InMailbox'
    BY <2>1 DEF InHand, InMailbox
  <2>3. UNCHANGED send_sync
    BY <1>10, <2>2 DEF Sends, HandlerSends
  <2>4. QueueStays
    BY <1>1, <2>1, QueueSame
  <2>5. NetStays
    BY <1>1, <2>1, <2>2, NetSame
  <2> QED  BY <2>1, <2>3, <2>4, <2>5, StaysKeep
<1>11. ASSUME UNCHANGED <<send_queued, handler, eoe, eoe_calls, send_sync, room>>, NetStays
       PROVE  EoeInv'
  BY <1>1, <1>11, QueueSame, StaysKeep
<1>12. CASE Slave
  <2>1. UNCHANGED <<send_queued, handler, eoe, eoe_calls, send_sync, room>>
    BY <1>12, SlaveSteps DEF Slave, Lives, SlaveFoe, SlaveSoe, SlaveEoe, SlaveAnswers, evars, fvars,
                             sends, recvs
  <2>2. NetStays
    <3>1. CASE SlaveFoe /\ Lives(<<sevars, evars>>)
      BY <1>1, <3>1, NetSame DEF SlaveFoe, Lives, SlaveTakes, evars, InMailbox
    <3>2. CASE SlaveSoe /\ Lives(<<fvars, evars>>)
      BY <1>1, <3>2, NetSame DEF SlaveSoe, Lives, SlaveTakes, evars, InMailbox
    <3>3. CASE SlaveEoe
      <4>1. CASE wrote.pool = "eoe"
        BY <1>1, <3>3, <4>1, NetTakes DEF SlaveEoe, SlaveTakes, InMailbox
      <4>2. CASE wrote.pool = "ip"
        BY <1>1, <3>3, <4>2, NetSame DEF SlaveEoe, SlaveTakes, InMailbox
      <4> QED  BY <3>3, <4>1, <4>2 DEF SlaveEoe
    <3>4. CASE SlaveAnswers /\ Lives(<<fvars, sevars, evars>>)
      BY <1>1, <3>4, NetSame DEF SlaveAnswers, Lives, evars
    <3> QED  BY <1>12, <3>1, <3>2, <3>3, <3>4 DEF Slave
  <2> QED  BY <1>11, <2>1, <2>2
<1>13. CASE DriveSpeaks /\ Lives(<<fvars, evars>>)
  <2>1. UNCHANGED <<send_queued, handler, wrote, eoe, eoe_calls, send_sync, node, room>>
    BY <1>13 DEF DriveSpeaks, SlaveSpeaks, Lives, evars, fvars, sends, recvs
  <2> QED  BY <1>1, <1>11, <2>1, NetSame
<1>14. CASE NodeSends /\ Lives(<<fvars, sevars>>)
  <2>1. /\ UNCHANGED <<send_queued, handler, wrote, eoe, eoe_calls, send_sync, room>>
        /\ node' = [node EXCEPT !.sent = @ + 1]
    BY <1>14 DEF NodeSends, SlaveSpeaks, Lives, fvars, sends, recvs
  <2>2. DOMAIN node' = DOMAIN node /\ node'.partial = node.partial /\ node'.has = node.has
    BY <1>1, <2>1
  <2> QED  BY <1>1, <1>11, <2>1, <2>2, NetSame
<1>15. CASE UNCHANGED vars
  BY <1>2, <1>15 DEF vars, port, recvs, slave, fvars
<1> QED
  BY <1>3, <1>4, <1>6, <1>7, <1>8, <1>9, <1>10, <1>12, <1>13, <1>14, <1>15 DEF Next

-----------------------------------------------------------------------------
(* The thread of EoE, and the writing of what it sends.                    *)

\* The handler writes the fragment that is behind the frames.
LEMMA FragmentWritten ==
    ASSUME EoeInv, Sends, InHand
    PROVE  EoeInv'
<1> DEFINE m == handler.with
<1>1. /\ wrote = NULL /\ wrote' = m /\ m.pool = "eoe" /\ handler'.does # "send"
      /\ send_sync' = send_sync + 1
      /\ UNCHANGED <<send_queued, eoe, eoe_calls, node, room>>
  BY DEF Sends, Lives, HandlerSends, HandlerSend, InHand, Idle, fvars
<1>2. EoeTypes'
  BY <1>1 DEF EoeInv, EoeTypes, EoeOp
<1>3. ASSUME Ending' PROVE EoePlace'
  <2>1. Ending /\ EoePlace /\ EoeTypes
    BY <1>1, <1>3 DEF EoeInv, Ending, FrameCalls
  <2>2. ~NoneBehind
    BY DEF NoneBehind
  <2>3. eoe.pc = "sync" /\ send_sync = 0 /\ Coming /\ eoe.nr # 0 /\ eoe.pos # 0
    BY <2>1, <2>2 DEF EoePlace, EoeTypes
  <2>4. PICK x, a : Behind(x) /\ FragmentAt(x, a) /\ Begun(Partial, Has, a)
    BY <2>3 DEF Coming
  <2>5. x = m /\ NoneIn(send_queued)
    BY <2>4 DEF Behind
  <2>6. m # NULL
    BY <2>4, <2>5 DEF FragmentAt
  <2>7. ~InMailbox /\ Partial = node.partial /\ Has = node.has
    BY <1>1 DEF InMailbox, Partial, Has
  <2>8. InMailbox' /\ wrote'.more = m.more /\ Joined(node.partial, wrote)' = Joined(Partial, m)
    BY <1>1, <2>6, <2>7 DEF InMailbox, Joined
  <2>9. /\ m.more => Partial' = Joined(Partial, m) /\ Has' = Has
        /\ ~m.more => Has' = Append(Has, Joined(Partial, m))
    BY <1>1, <2>7, <2>8 DEF Partial, Has
  <2>10. /\ eoe.pos < Len(EoeOp.frame) => m.more /\ Begun(Joined(Partial, m), Has, eoe.pos)
         /\ ~(eoe.pos < Len(EoeOp.frame)) => ~m.more /\ FramesAre(Append(Has, Joined(Partial, m)), eoe.call)
    BY <2>1, <2>3, <2>4, <2>5, FragmentJoins
  <2>11. NoneBehind'
    BY <1>1, <2>5 DEF NoneBehind, InHand
  <2>12. ASSUME eoe.pos < Len(EoeOp.frame) PROVE Begun(Partial, Has, eoe.pos)'
    <3>1. Begun(Partial', Has', eoe.pos)
      BY <2>9, <2>10, <2>12
    <3> QED  BY <1>1, <3>1 DEF Begun, EoeOp, FramesAre, FrameNr, FrameCalls
  <2>13. ASSUME ~(eoe.pos < Len(EoeOp.frame)) PROVE FramesAre(Has, eoe.call)'
    <3>1. FramesAre(Has', eoe.call)
      BY <2>9, <2>10, <2>13
    <3> QED  BY <1>1, <3>1 DEF FramesAre, FrameNr, FrameCalls
  <2>14. EoeOp' = EoeOp /\ send_sync' = 1 /\ IsSeq(node'.has)
    BY <1>1, <2>1, <2>3 DEF EoeOp, EoePlace
  <2> QED  BY <1>1, <2>3, <2>11, <2>12, <2>13, <2>14 DEF EoePlace
<1> QED  BY <1>2, <1>3 DEF EoeInv

\* The frames after a step that leaves the calls alone.
LEMMA SentLater ==
    ASSUME UNCHANGED eoe_calls
    PROVE  /\ FramesAre(Has', eoe'.call) => FramesAre(Has, eoe.call)'
           /\ FramesAre(Has', eoe'.call - 1) => FramesAre(Has, eoe.call - 1)'
<1>1. FrameCalls' = FrameCalls
  BY DEF FrameCalls
<1>2. \A k : FrameNr(k)' = FrameNr(k)
  BY <1>1 DEF FrameNr
<1>3. \A h, k : FramesAre(h, k) => /\ IsSeq(h) /\ Len(h) = FrameNr(k)'
                             /\ \A i \in DOMAIN h : \E c \in FrameCalls' :
                                   FrameNr(c)' = i /\ h[i] = eoe_calls'[c].frame
  BY <1>1, <1>2 DEF FramesAre
<1>4. \A k : Len(Has') = FrameNr(k)' /\ k = eoe'.call => Len(Has)' = FrameNr(eoe.call)'
  BY DEF FrameNr
<1>5. \A k : Len(Has') = FrameNr(k)' /\ k = eoe'.call - 1 => Len(Has)' = FrameNr(eoe.call - 1)'
  BY DEF FrameNr
<1>6. ASSUME FramesAre(Has', eoe'.call) PROVE FramesAre(Has, eoe.call)'
  BY <1>3, <1>4, <1>6 DEF FramesAre
<1>7. ASSUME FramesAre(Has', eoe'.call - 1) PROVE FramesAre(Has, eoe.call - 1)'
  BY <1>3, <1>5, <1>7 DEF FramesAre
<1> QED  BY <1>6, <1>7

\* A call: of a frame, or of ec_eoe_set_ip_parameter.
LEMMA EoeCalls ==
    ASSUME EoeInv, EoeCall, QueueStays, NetStays, UNCHANGED <<handler, node, eoe_calls, room>>
    PROVE  EoeInv'
<1> DEFINE c == eoe.call + 1
<1>1. /\ EoeTypes /\ IsSeq(eoe_calls) /\ Len(eoe_calls) \in Nat
      /\ DOMAIN eoe_calls = 1 .. Len(eoe_calls) /\ room.write \in Nat \ {0}
  BY SeqLen DEF EoeInv, EoeTypes
<1>2. eoe.pc = "idle" /\ c \in 1 .. Len(eoe_calls) /\ c - 1 = eoe.call
  BY <1>1 DEF EoeCall, EoeTypes
<1>3. /\ eoe'.call = c /\ eoe'.pos = 0 /\ eoe'.nr = 0 /\ send_sync' = send_sync
      /\ DOMAIN eoe' = {"pc", "call", "ret", "pos", "nr"}
      /\ \/ eoe'.pc = "frame" /\ eoe_calls[c].op = "frame"
         \/ eoe'.pc \in {"ip", "idle"} /\ eoe_calls[c].op = "ip"
  <2>1. send_sync' = send_sync
    BY DEF EoeCall
  <2> DEFINE call == eoe_calls[c]
             next == [pc |-> call.op, call |-> c, ret |-> "timeout", pos |-> 0, nr |-> 0]
  <2>2. \/ call.op = "frame" /\ eoe' = next
        \/ call.op = "ip" /\ eoe' = next
        \/ call.op = "ip" /\ eoe' = [next EXCEPT !.pc = "idle", !.ret = "no_buffer"]
    BY DEF EoeCall
  <2> HIDE DEF call, c
  <2>3. /\ eoe'.call = c /\ eoe'.pos = 0 /\ eoe'.nr = 0
        /\ DOMAIN eoe' = {"pc", "call", "ret", "pos", "nr"}
        /\ eoe'.pc = call.op \/ (eoe'.pc = "idle" /\ call.op = "ip")
    <3>1. CASE eoe' = next
      BY <3>1
    <3>2. CASE call.op = "ip" /\ eoe' = [next EXCEPT !.pc = "idle", !.ret = "no_buffer"]
      BY <3>2
    <3> QED  BY <2>2, <3>1, <3>2
  <2>4. \/ eoe'.pc = "frame" /\ call.op = "frame"
        \/ eoe'.pc \in {"ip", "idle"} /\ call.op = "ip"
    BY <2>2, <2>3
  <2> QED  BY <2>1, <2>3, <2>4 DEF call
<1>4. EoeOp' = eoe_calls[c] /\ c \in DOMAIN eoe_calls
  BY <1>1, <1>2, <1>3 DEF EoeOp
<1> HIDE DEF c
<1>5. EoeTypes'
  <2>1. /\ eoe'.pc \in {"idle", "ip", "frame", "sync"} /\ eoe'.call \in 0 .. Len(eoe_calls)
        /\ eoe'.nr \in Nat /\ eoe'.pos \in Nat /\ eoe'.call >= 1
        /\ eoe'.pc # "idle" => EoeOp'.op = IF eoe'.pc = "ip" THEN "ip" ELSE "frame"
    BY <1>1, <1>2, <1>3, <1>4
  <2> QED  BY <1>1, <1>3, <2>1 DEF EoeTypes, QueueStays, NetStays
<1>6. ASSUME Ending' PROVE EoePlace'
  <2>1. Ending /\ EoePlace
    BY <1>6 DEF Ending, FrameCalls, EoeInv
  <2>2. FramesAre(Has, c - 1) /\ NoneBehind /\ send_sync = 0 /\ IsSeq(node.has)
    BY <1>2, <2>1 DEF EoePlace
  <2>3. FramesAre(Has', c - 1) /\ NoneBehind' /\ send_sync' = 0 /\ IsSeq(node'.has)
    BY <1>3, <2>2 DEF QueueStays, NetStays
  <2>4. CASE eoe_calls[c].op = "frame"
    <3>1. c \in FrameCalls /\ IsSeq(eoe_calls[c].frame)
      BY <1>1, <1>4, <2>4 DEF FrameCalls, EoeTypes
    <3>2. Len(eoe_calls[c].frame) \in Nat /\ Len(eoe_calls[c].frame) # 0
      <4>1. Len(eoe_calls[c].frame) % room.write # 0
        BY <2>1, <3>1 DEF Ending
      <4> DEFINE n == room.write
      <4>2. n \in Nat \ {0}
        BY <1>1
      <4> HIDE DEF n
      <4>3. 0 * n = 0 /\ (0 * n) % n = 0
        BY <4>2, NextMultiple
      <4>4. 0 % n = 0
        BY <4>3
      <4> QED  BY <3>1, <4>1, <4>4, SeqLen DEF n
    <3>3. \E k \in Nat : 0 = k * room'.write
      <4>1. 0 = 0 * room'.write
        BY <1>1
      <4> QED  BY <4>1
    <3>4. FramesAre(Has, eoe.call - 1)'
      BY <1>3, <2>3, SentLater
    <3>5. Begun(Partial, Has, eoe.pos)'
      BY <1>3, <1>4, <3>2, <3>3, <3>4 DEF Begun
    <3> QED  BY <1>3, <2>3, <2>4, <3>5 DEF EoePlace
  <2>5. CASE eoe_calls[c].op # "frame"
    <3>1. FrameNr(c) = FrameNr(c - 1)
      <4>1. c - 1 \in 0 .. Len(eoe_calls)
        BY <1>1, <1>2
      <4>2. FrameNr(c - 1) \in Nat
        BY <1>1, <4>1, CallsCounted
      <4>3. FrameNr(c) = FrameNr(c - 1) + 0
        BY <1>1, <1>4, <2>5, CallsCounted
      <4> QED  BY <4>2, <4>3
    <3>2. FramesAre(Has', c)
      BY <2>3, <3>1 DEF FramesAre
    <3>3. FramesAre(Has, eoe.call)'
      BY <1>3, <3>2, SentLater
    <3> QED  BY <1>3, <2>3, <2>5, <3>3 DEF EoePlace
  <2> QED  BY <2>4, <2>5
<1> QED  BY <1>5, <1>6 DEF EoeInv

\* The next fragment is queued.
LEMMA EoeFragments ==
    ASSUME NoMessage, EoeInv, EoeFragment, NetStays, UNCHANGED <<handler, node, eoe_calls, room>>
    PROVE  EoeInv'
<1> DEFINE part == Part(EoeOp.frame, eoe.pos, room.write)
           m == EoeMessage(eoe.nr, part, Len(part) = room.write)
<1>1. EoeTypes /\ IsSeq(send_queued) /\ DOMAIN eoe_calls = 1 .. Len(eoe_calls)
  BY SeqLen DEF EoeInv, EoeTypes
<1>2. /\ eoe.pc = "frame" /\ eoe'.pc = "sync" /\ eoe'.call = eoe.call /\ eoe'.nr = eoe.nr + 1
      /\ eoe'.pos = eoe.pos + Len(part) /\ DOMAIN eoe' = DOMAIN eoe
      /\ send_sync' = send_sync /\ send_queued' = Append(send_queued, m)
  BY <1>1 DEF EoeFragment, SendTail, EoeTypes
<1>3. EoeOp' = EoeOp
  BY <1>2 DEF EoeOp
<1>4. m # NULL /\ m.pool = "eoe" /\ m.payload = part /\ m.nr = eoe.nr /\ (m.more <=> Len(part) = room.write)
  <2>1. m # NULL
    BY DEF EoeMessage, NoMessage
  <2>2. m.pool = "eoe" /\ m.payload = part /\ m.nr = eoe.nr /\ m.more = (Len(part) = room.write)
    <3> HIDE DEF part
    <3> QED  BY DEF EoeMessage, Message
  <2> HIDE DEF m, part
  <2> QED  BY <2>1, <2>2
<1>5. IsSeq(send_queued') /\ (NoneIn(send_queued) => OneIn(send_queued', m))
  <2> DEFINE q == send_queued'
  <2>1. q = Append(send_queued, m)
    BY <1>2
  <2> HIDE DEF m, q
  <2>2. IsSeq(q) /\ (m.pool = "eoe" /\ NoneIn(send_queued) => OneIn(q, m))
    BY <1>1, <2>1, QueuePut
  <2> QED  BY <1>4, <2>2 DEF q
<1>6. IsSeq(EoeOp.frame) /\ eoe.pos \in Nat /\ room.write \in Nat \ {0} /\ EoeOp.op = "frame"
  <2>1. eoe.call \in DOMAIN eoe_calls
    BY <1>1, <1>2 DEF EoeTypes
  <2> QED  BY <1>1, <1>2, <2>1 DEF EoeTypes, EoeOp
<1>7. Len(part) \in Nat
  <2>1. PICK S : EoeOp.frame \in Seq(S)
    BY <1>6 DEF IsSeq
  <2>2. Least(eoe.pos + room.write, Len(EoeOp.frame)) \in Nat
    BY <1>6, <2>1 DEF Least
  <2> DEFINE f == EoeOp.frame
             b == Least(eoe.pos + room.write, Len(EoeOp.frame))
  <2>3. part = SubSeq(f, eoe.pos + 1, b)
    BY DEF Part
  <2>4. f \in Seq(S) /\ Len(f) \in Nat /\ b <= Len(f) /\ b \in Nat
    BY <1>6, <2>1, <2>2 DEF Least
  <2> HIDE DEF part, f, b
  <2>5. eoe.pos + 1 \in Nat \ {0}
    BY <1>6
  <2>6. \A i \in eoe.pos + 1 .. b : f[i] \in S
    BY <1>6, <2>4
  <2>7. part \in Seq(S)
    BY <1>6, <2>3, <2>4, <2>5, <2>6
  <2> QED  BY <2>7
<1> HIDE DEF m, part
<1>8. EoeTypes'
  <2>1. eoe'.nr \in Nat /\ eoe'.pos \in Nat /\ eoe.call >= 1
    BY <1>1, <1>2, <1>6, <1>7 DEF EoeTypes
  <2> QED  BY <1>1, <1>2, <1>3, <1>5, <1>6, <2>1 DEF EoeTypes, NetStays
<1>9. ASSUME Ending' PROVE EoePlace'
  <2>1. Ending /\ EoePlace
    BY <1>9 DEF Ending, FrameCalls, EoeInv
  <2>2. /\ NoneBehind /\ send_sync = 0 /\ Begun(Partial, Has, eoe.pos) /\ (eoe.nr = 0 <=> eoe.pos = 0)
        /\ IsSeq(node.has)
    BY <1>2, <2>1 DEF EoePlace
  <2>10. PICK x, a : x = m /\ a = eoe.pos
    OBVIOUS
  <2>3. Behind(x)'
    <3>1. ~InHand' /\ NoneIn(send_queued)
      BY <2>2 DEF NoneBehind, InHand
    <3>2. OneIn(send_queued', x)
      BY <1>5, <2>10, <3>1
    <3>3. OneIn(send_queued, x)'
      BY <3>2 DEF OneIn, EoeIn
    <3> QED  BY <3>1, <3>3 DEF Behind
  <2>4. FragmentAt(x, a)'
    BY <1>2, <1>3, <1>4, <2>2, <2>10 DEF FragmentAt, part
  <2>6. Begun(Partial, Has, a)'
    <3>1. Begun(Partial', Has', a)
      BY <2>2, <2>10 DEF NetStays
    <3> QED  BY <1>2, <1>3, <3>1 DEF Begun, FramesAre, FrameNr, FrameCalls
  <2>7. Coming'
    BY <2>3, <2>4, <2>6 DEF Coming
  <2>8. eoe'.nr # 0 /\ eoe'.pos # 0
    <3>1. eoe'.nr # 0
      BY <1>1, <1>2 DEF EoeTypes
    <3>2. Len(part) # 0
      <4>1. /\ eoe.pos < Len(EoeOp.frame) /\ Len(EoeOp.frame) \in Nat
        BY <1>6, <2>2, SeqLen DEF Begun
      <4> DEFINE b == Least(eoe.pos + room.write, Len(EoeOp.frame))
      <4>2. b \in Nat /\ eoe.pos <= b /\ b <= Len(EoeOp.frame) /\ b - eoe.pos # 0
        BY <1>6, <4>1 DEF Least
      <4>3. part = SubSeq(EoeOp.frame, eoe.pos + 1, b)
        BY DEF part, Part
      <4> HIDE DEF b
      <4>4. Len(part) = b - eoe.pos
        BY <1>6, <4>2, <4>3, SliceIs
      <4> QED  BY <4>2, <4>4
    <3> QED  BY <1>2, <1>6, <1>7, <3>1, <3>2
  <2> QED  BY <1>2, <2>2, <2>7, <2>8 DEF EoePlace
<1> QED  BY <1>8, <1>9 DEF EoeInv

\* The fragment was written.
LEMMA EoeSyncs ==
    ASSUME EoeInv, EoeSynced, QueueStays, NetStays, UNCHANGED <<handler, node, eoe_calls, room>>
    PROVE  EoeInv'
<1>1. EoeTypes
  BY DEF EoeInv
<1>2. /\ eoe.pc = "sync" /\ eoe'.call = eoe.call /\ eoe'.nr = eoe.nr /\ eoe'.pos = eoe.pos
      /\ DOMAIN eoe' = DOMAIN eoe /\ send_sync > 0 /\ send_sync' = send_sync - 1
      /\ eoe'.pc = IF eoe.pos < Len(EoeOp.frame) THEN "frame" ELSE "idle"
  BY <1>1 DEF EoeSynced, EoeTypes
<1>3. EoeOp' = EoeOp
  BY <1>2 DEF EoeOp
<1>4. EoeTypes'
  BY <1>1, <1>2, <1>3 DEF EoeTypes, QueueStays, NetStays
<1>5. ASSUME Ending' PROVE EoePlace'
  <2>1. Ending /\ EoePlace
    BY <1>5 DEF Ending, FrameCalls, EoeInv
  <2>2. /\ NoneBehind /\ send_sync = 1 /\ IsSeq(node.has) /\ eoe.nr # 0 /\ eoe.pos # 0
        /\ IF eoe.pos < Len(EoeOp.frame) THEN Begun(Partial, Has, eoe.pos) ELSE FramesAre(Has, eoe.call)
    BY <1>2, <2>1 DEF EoePlace
  <2>3. NoneBehind' /\ send_sync' = 0 /\ IsSeq(node'.has)
    BY <1>2, <2>2 DEF QueueStays
  <2>4. CASE eoe.pos < Len(EoeOp.frame)
    <3>1. Begun(Partial, Has, eoe.pos)'
      BY <1>2, <1>3, <2>2, <2>4 DEF Begun, FramesAre, FrameNr, FrameCalls, NetStays
    <3> QED  BY <1>2, <2>2, <2>3, <2>4, <3>1 DEF EoePlace
  <2>5. CASE ~(eoe.pos < Len(EoeOp.frame))
    <3>1. FramesAre(Has, eoe.call)'
      <4>1. FramesAre(Has', eoe'.call)
        BY <1>2, <2>2, <2>5 DEF NetStays
      <4> QED  BY <4>1, SentLater
    <3> QED  BY <1>2, <2>3, <2>5, <3>1 DEF EoePlace
  <2> QED  BY <2>4, <2>5
<1> QED  BY <1>4, <1>5 DEF EoeInv

\* A call of ec_eoe_set_ip_parameter ends.
LEMMA EoeEnds ==
    ASSUME EoeInv, EoeIpAnswer \/ EoeTimeout, QueueStays, NetStays,
           UNCHANGED <<handler, node, eoe_calls, room>>
    PROVE  EoeInv'
<1>1. EoeTypes
  BY DEF EoeInv
<1>2. /\ eoe.pc = "ip" /\ eoe'.call = eoe.call /\ eoe'.nr = eoe.nr /\ eoe'.pos = eoe.pos
      /\ DOMAIN eoe' = DOMAIN eoe /\ send_sync' = send_sync /\ eoe'.pc = "idle"
  BY <1>1 DEF EoeIpAnswer, EoeTimeout, EoeTypes
<1>3. EoeOp' = EoeOp
  BY <1>2 DEF EoeOp
<1>4. EoeTypes'
  BY <1>1, <1>2, <1>3 DEF EoeTypes, QueueStays, NetStays
<1>5. ASSUME Ending' PROVE EoePlace'
  <2>1. Ending /\ EoePlace
    BY <1>5 DEF Ending, FrameCalls, EoeInv
  <2>2. FramesAre(Has', eoe'.call) /\ NoneBehind' /\ send_sync' = 0 /\ IsSeq(node'.has)
    BY <1>2, <2>1 DEF EoePlace, QueueStays, NetStays
  <2>3. FramesAre(Has, eoe.call)'
    BY <2>2, SentLater
  <2> QED  BY <1>2, <2>2, <2>3 DEF EoePlace
<1> QED  BY <1>4, <1>5 DEF EoeInv

\* There is no send buffer for a fragment.
LEMMA EoeCrashes ==
    ASSUME EoeInv, EoeNoBuffer, QueueStays, NetStays, UNCHANGED <<handler, node, eoe_calls, room>>
    PROVE  EoeInv'
<1>1. EoeTypes
  BY DEF EoeInv
<1>2. /\ eoe.pc = "frame" /\ eoe'.call = eoe.call /\ eoe'.nr = eoe.nr /\ eoe'.pos = eoe.pos
      /\ DOMAIN eoe' = DOMAIN eoe /\ send_sync' = send_sync /\ eoe'.pc = "crash"
  BY <1>1 DEF EoeNoBuffer, EoeTypes
<1>3. EoeOp' = EoeOp
  BY <1>2 DEF EoeOp
<1>4. EoeTypes'
  BY <1>1, <1>2, <1>3 DEF EoeTypes, QueueStays, NetStays
<1>5. ASSUME Ending' PROVE EoePlace'
  <2>1. Ending /\ EoePlace
    BY <1>5 DEF Ending, FrameCalls, EoeInv
  <2>2. NoneBehind' /\ send_sync' = 0 /\ IsSeq(node'.has) /\ (eoe'.nr = 0 <=> eoe'.pos = 0)
    BY <1>2, <2>1 DEF EoePlace, QueueStays
  <2>3. Begun(Partial, Has, eoe.pos)'
    BY <1>2, <1>3, <2>1 DEF EoePlace, Begun, FramesAre, FrameNr, FrameCalls, NetStays
  <2> QED  BY <1>2, <2>2, <2>3 DEF EoePlace
<1> QED  BY <1>4, <1>5 DEF EoeInv

LEMMA EoeMoves ==
    ASSUME NoMessage, EoeInv, EoeThread
    PROVE  EoeInv'
<1>1. UNCHANGED <<handler, wrote, node, eoe_calls, room>>
  <2> USE DEF EoeThread, Lives, EoeOnly, recvs, slave, fvars, port
  <2>1. CASE EoeCall
    BY <2>1 DEF EoeCall
  <2>2. CASE EoeFragment
    BY <2>2 DEF EoeFragment
  <2>3. CASE EoeSynced
    BY <2>3 DEF EoeSynced
  <2>4. CASE EoeIpAnswer
    BY <2>4 DEF EoeIpAnswer, TakeAndReturn
  <2>5. CASE EoeTimeout
    BY <2>5 DEF EoeTimeout, Expires
  <2>6. CASE EoeNoBuffer
    BY <2>6 DEF EoeNoBuffer
  <2> QED  BY <2>1, <2>2, <2>3, <2>4, <2>5, <2>6 DEF EoeNext
<1>2. IsSeq(send_queued) /\ NetStays
  BY <1>1, NetSame DEF EoeInv, EoeTypes
<1>3. ASSUME UNCHANGED sends PROVE QueueStays
  BY <1>1, <1>2, <1>3, QueueSame DEF sends
<1>4. CASE EoeCall
  <2>1. QueueStays
    <3>1. Message("ip", "SET_IP", 0, <<>>, FALSE).pool # "eoe"
      BY DEF Message
    <3>2. UNCHANGED sends \/ SendTail(Message("ip", "SET_IP", 0, <<>>, FALSE))
      BY <1>4 DEF EoeCall
    <3> QED  BY <1>1, <1>2, <1>3, <3>1, <3>2, QueueOther
  <2> QED  BY <1>1, <1>2, <1>4, <2>1, EoeCalls
<1>5. CASE EoeFragment
  BY <1>1, <1>2, <1>5, EoeFragments
<1>6. CASE EoeSynced
  <2>1. UNCHANGED sends
    BY <1>6 DEF EoeSynced, port
  <2> QED  BY <1>1, <1>2, <1>3, <1>6, <2>1, EoeSyncs
<1>7. CASE EoeIpAnswer \/ EoeTimeout
  <2>1. UNCHANGED sends
    BY <1>7 DEF EoeIpAnswer, EoeTimeout, Expires
  <2> QED  BY <1>1, <1>2, <1>3, <1>7, <2>1, EoeEnds
<1>8. CASE EoeNoBuffer
  <2>1. UNCHANGED sends
    BY <1>8 DEF EoeNoBuffer, port
  <2> QED  BY <1>1, <1>2, <1>3, <1>8, <2>1, EoeCrashes
<1> QED  BY <1>4, <1>5, <1>6, <1>7, <1>8 DEF EoeThread, EoeNext

LEMMA NextEoe == NoMessage /\ EoeInv /\ [Next]_vars => EoeInv'
  BY EoeApart, EoeMoves, FragmentWritten

\* The calls of EoE are calls, and something fits into the write mailbox.
Sendable(calls, sizes) ==
    /\ IsSeq(calls.eoe) /\ sizes.write \in Nat \ {0}
    /\ \A c \in DOMAIN calls.eoe : calls.eoe[c].op \in {"frame", "ip"} /\ IsSeq(calls.eoe[c].frame)

LEMMA EoeBegins ==
    ASSUME NEW calls, NEW sizes, NEW frames, NEW device, NEW held,
           Sendable(calls, sizes), ServicesInit(calls, sizes, frames, device, held)
    PROVE  EoeInv
<1>1. /\ eoe = [pc |-> "idle", call |-> 0, ret |-> NULL, pos |-> 0, nr |-> 0]
      /\ eoe_calls = calls.eoe /\ send_sync = 0 /\ room = sizes
      /\ node = [partial |-> <<>>, has |-> <<>>, frames |-> frames, sent |-> 0]
      /\ send_queued = <<>> /\ wrote = NULL /\ handler = Idle
  BY DEF ServicesInit, EoeInit, FoeInit, PortInit
<1>2. IsSeq(send_queued) /\ DOMAIN send_queued = {}
  BY <1>1, NoneIs
<1>3. IsSeq(node.has) /\ Len(node.has) = 0 /\ DOMAIN node.has = {}
  BY <1>1, NoneIs
<1>4. EoeTypes
  <2>1. Len(eoe_calls) \in Nat
    BY <1>1, SeqLen DEF Sendable
  <2> QED  BY <1>1, <1>2, <2>1 DEF EoeTypes, Sendable
<1>5. NoneBehind
  BY <1>1, <1>2 DEF NoneBehind, InHand, Idle, NoneIn, EoeIn
<1>6. Has = node.has
  BY <1>1 DEF Has, InMailbox
<1>7. FramesAre(Has, 0)
  BY <1>3, <1>4, <1>6, CallsCounted DEF FramesAre
<1> QED  BY <1>1, <1>3, <1>4, <1>5, <1>7 DEF EoeInv, EoePlace

\* The slave's network gets the master's frames, each whole and in their order, however the
\* fragments lie between messages of FoE and SoE and however often one is put back because
\* the slave's mailbox is not empty (ec_eoe_send_frame, eoe.c:441-514, mbx.c:613-640).
THEOREM EoeIsSent ==
    ASSUME NEW CONSTANT calls, NEW CONSTANT sizes, NEW CONSTANT frames,
           NEW CONSTANT device, NEW CONSTANT held, NoMessage, Sendable(calls, sizes)
    PROVE  ServicesInit(calls, sizes, frames, device, held) /\ [][Next]_vars => []EoeSent
<1>1. ServicesInit(calls, sizes, frames, device, held) => EoeInv
  BY EoeBegins
<1>2. EoeInv /\ [Next]_vars => EoeInv'
  BY NextEoe
<1>3. EoeInv => EoeSent
  <2> SUFFICES ASSUME EoeInv, Ending PROVE \A i \in DOMAIN node.has :
                   \E c \in FrameCalls : FrameNr(c) = i /\ node.has[i] = eoe_calls[c].frame
    BY DEF EoeSent, Ending
  <2>1. IsSeq(node.has) /\ \E k : FramesAre(Has, k)
    BY DEF EoeInv, EoeTypes, EoePlace, Begun, Coming
  <2>2. IsSeq(Has) /\ \A i \in DOMAIN Has : \E c \in FrameCalls : FrameNr(c) = i /\ Has[i] = eoe_calls[c].frame
    BY <2>1 DEF FramesAre
  <2>3. DOMAIN node.has \subseteq DOMAIN Has /\ \A i \in DOMAIN node.has : Has[i] = node.has[i]
    <3>1. CASE Has = node.has
      BY <3>1
    <3>2. CASE Has # node.has
      <4> DEFINE f == Joined(node.partial, wrote)
                 t == <<f>>
      <4>1. Has = Append(node.has, f)
        BY <3>2 DEF Has
      <4>2. Has = node.has \o t /\ IsSeq(t)
        BY <2>1, <4>1, AppendIs, OneIs
      <4> HIDE DEF f, t
      <4>3. Len(Has) = Len(node.has) + Len(t) /\ \A i \in 1 .. Len(node.has) : Has[i] = node.has[i]
        BY <2>1, <4>2, CatIs
      <4>4. Len(t) \in Nat /\ Len(node.has) \in Nat /\ DOMAIN node.has = 1 .. Len(node.has) /\ DOMAIN Has = 1 .. Len(Has)
        BY <2>1, <2>2, <4>2, SeqLen
      <4> QED  BY <4>3, <4>4
    <3> QED  BY <3>1, <3>2
  <2> QED  BY <2>2, <2>3
<1> QED
  BY <1>1, <1>2, <1>3, PTL
=============================================================================
