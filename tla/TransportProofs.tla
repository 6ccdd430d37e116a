--------------------------- MODULE TransportProofs ---------------------------
(***************************************************************************)
(* Proofs about Transport, for every number of indices, entries, callers   *)
(* and cyclic datagrams, with frames lost, late and sent in any order.     *)
(***************************************************************************)
EXTENDS Transport, QueueLemmas

\* Where a caller holds an entry, and the cyclic task an index.
WithEntry == {"enqueue", "tx", "sending", "wait", "read", "remove", "expire", "put"}
InSto     == {"sto_pool", "sto_iput", "sto_put"}

CallerControl == \A c \in Clients :
    /\ pc[c] = "out" <=> p_idx[c] = NULL
    /\ pc[c] # "out" => calls[c] # 0
    /\ pc[c] \in WithEntry => p_entry[c] # NULL
    /\ hw.owner = c => pc[c] = "sending"

CycleControl ==
    /\ cyc.pc \in {"lock", "pool", "iput", "enqueue"} => cyc.k \in 1 .. Len(CycleSeq)
    /\ cyc.pc \in {"pool", "iput", "enqueue"} => p_idx[cdg] # NULL
    /\ cyc.pc = "enqueue" => p_entry[cdg] # NULL

RxControl ==
    /\ rx.pc # "idle" => rx.frame # <<>>
    /\ rx.pc \in {"cb", "post", "iput"} => rx.entry # NULL
    /\ rx.pc \in {"post", "iput"} => ent[rx.entry].p_idx # NULL
    /\ rx.pc \in InSto => p_idx["sto"] # NULL
    /\ rx.pc = "sto_put" => p_entry["sto"] # NULL

EntryControl ==
    /\ \A e \in Entries : ent[e].cb # NULL => ent[e].p_idx # NULL
    /\ \A o \in Owners : p_entry[o] # NULL => ent[p_entry[o]].p_idx # NULL

\* What keeps the types: who has which index and entry at which step.
Inv == TypeOK /\ CallerControl /\ CycleControl /\ RxControl /\ EntryControl

-----------------------------------------------------------------------------
(* Facts about the data. *)

\* The roles of an owner are apart.
LEMMA Names ==
    /\ Cdgs \subseteq CdgNames /\ Cdgs \subseteq Owners /\ Clients \subseteq Owners
    /\ "sto" \in Owners /\ "sto" \notin Cdgs /\ "sto" \notin Clients
    /\ "cyc" \notin Clients /\ Clients \cap Cdgs = {}
  <1>1. Cdgs \subseteq CdgNames
    BY TransportAssumption DEF Cdgs
  <1> QED  BY <1>1, TransportAssumption DEF Owners, CdgNames

\* A callback that is set is not NULL.
LEMMA CallbackSet == NULL \notin Callbacks
  BY Names, TransportAssumption DEF Callbacks

\* The datagram the cyclic task is at.
LEMMA CdgType ==
    ASSUME cyc.k \in 1 .. Len(CycleSeq)
    PROVE  cdg \in Cdgs
  BY DEF cdg, Cdgs

\* Datagrams and entries are put together from their parts.
LEMMA DatagramType ==
    ASSUME NEW i \in Indices, NEW r \in Requests
    PROVE  Datagram(i, r) \in Datagrams /\ Datagram(i, r).idx = i
  BY DEF Datagram, Datagrams

LEMMA ContentType ==
    ASSUME NEW i \in Indices, NEW cb \in Callbacks, NEW d \in Datagrams
    PROVE  /\ Content(i, cb, d) \in Contents
           /\ Content(i, cb, d).p_idx = i /\ Content(i, cb, d).cb = cb
  BY DEF Content, Contents

\* A received datagram.
LEMMA AnswerType ==
    ASSUME NEW d \in Datagrams
    PROVE  [d EXCEPT !.ans = TRUE] \in Datagrams
  BY DEF Datagrams

\* The TAILQ operations keep the shape of the links, also when the entry is
\* not in the queue it is removed from.
LEMMA RemoveType ==
    ASSUME NEW l \in Tq!Links, NEW h \in Heads, NEW e \in Entries
    PROVE  Tq!TAILQ_REMOVE(l, h, e) \in Tq!Links
  <1>1. /\ l.cell \in [Tq!Cells -> Entries \cup {NULL}] /\ l.last \in [Heads -> Tq!Cells]
        /\ l.prev \in [Entries -> Tq!Cells] /\ e \in Tq!Cells /\ h \in Tq!Cells
    BY DEF Tq!Links, Tq!Cells
  <1> QED  BY <1>1 DEF Tq!Links, Tq!TAILQ_REMOVE

LEMMA InsertType ==
    ASSUME NEW l \in Tq!Links, NEW h \in Heads, NEW e \in Entries
    PROVE  Tq!TAILQ_INSERT_TAIL(l, h, e) \in Tq!Links
  <1>1. /\ l.cell \in [Tq!Cells -> Entries \cup {NULL}] /\ l.last \in [Heads -> Tq!Cells]
        /\ l.prev \in [Entries -> Tq!Cells] /\ e \in Tq!Cells /\ h \in Tq!Cells
    BY DEF Tq!Links, Tq!Cells
  <1> QED  BY <1>1 DEF Tq!Links, Tq!TAILQ_INSERT_TAIL

LEMMA FirstType ==
    ASSUME NEW l \in Tq!Links, NEW h \in Heads
    PROVE  Tq!TAILQ_FIRST(l, h) \in Entries \cup {NULL}
  BY DEF Tq!Links, Tq!Cells, Tq!TAILQ_FIRST

\* hw_open and pool_open: the initial queues.
LEMMA FilledType == Tq!Filled("pool", SetToSeq(Entries)) \in Tq!Links
  <1> DEFINE s      == SetToSeq(Entries)
             n      == Len(s)
             pos(e) == CHOOSE k \in 1 .. n : s[k] = e
             at(k)  == IF k = 0 THEN "pool" ELSE s[k]
             to(k)  == IF k = n THEN NULL ELSE s[k + 1]
  <1>1. s \in Seq(Entries) /\ Elems(s) = Entries /\ n \in Nat
    BY FullQueue, TransportAssumption
  <1> HIDE DEF s
  <1>2. ASSUME NEW e \in Entries PROVE pos(e) \in 1 .. n
    <2>1. \E k \in 1 .. n : s[k] = e
      BY <1>1 DEF Elems
    <2> QED  BY <2>1
  <1> HIDE DEF pos
  <1>3. \A k \in 0 .. n : at(k) \in Tq!Cells /\ to(k) \in Entries \cup {NULL}
    <2>1. \A k \in 1 .. n : s[k] \in Entries
      BY <1>1
    <2> QED  BY <1>1, <2>1 DEF Tq!Cells, Heads
  <1>4. [x \in Tq!Cells |-> IF x \in Entries THEN to(pos(x))
                            ELSE IF x = "pool" THEN to(0) ELSE NULL]
          \in [Tq!Cells -> Entries \cup {NULL}]
    BY <1>1, <1>2, <1>3
  <1>5. [x \in Heads |-> IF x = "pool" THEN at(n) ELSE x] \in [Heads -> Tq!Cells]
    BY <1>1, <1>3 DEF Tq!Cells
  <1>6. [e \in Entries |-> at(pos(e) - 1)] \in [Entries -> Tq!Cells]
    BY <1>1, <1>2, <1>3
  <1> QED  BY <1>4, <1>5, <1>6 DEF Tq!Links, Tq!Filled, s, pos

-----------------------------------------------------------------------------
(* The invariant. *)

\* ec_open establishes it.
LEMMA InitInv == Init => Inv
  <1> SUFFICES ASSUME Init PROVE Inv
    OBVIOUS
  <1>1. Zeroed \in Contents /\ Zeroed.cb = NULL
    <2>1. <<"none", 0>> \in Requests /\ Idx0 \in Indices
      BY TransportAssumption DEF Requests
    <2> QED  BY <2>1, DatagramType DEF Zeroed, Content, Contents
  <1>2. TypeOK
    <2>1. idxq \in Seq(Indices)
      BY FullQueue, TransportAssumption DEF Init
    <2>2. q \in Tq!Links
      BY FilledType DEF Init
    <2>3. hw \in HwStates /\ rx \in RxStates /\ cyc \in CycStates
      BY DEF Init, HwStates, RxStates, CycStates
    <2>4. wire \in Seq(Frames) /\ 0 \in 0 .. MaxLoss /\ 0 \in 0 .. MaxTimeouts
            /\ 0 \in 0 .. MaxCalls
      BY TransportAssumption DEF Init
    <2> QED  BY <1>1, <2>1, <2>2, <2>3, <2>4 DEF Init, TypeOK, Steps
  <1>3. CallerControl /\ CycleControl
    BY TransportAssumption, Names DEF Init, CallerControl, CycleControl, WithEntry
  <1>4. RxControl /\ EntryControl
    BY <1>1 DEF Init, RxControl, EntryControl, InSto
  <1> QED  BY <1>2, <1>3, <1>4 DEF Inv

\* The steps of a caller that change neither an index nor an entry.
LEMMA CallerMoves ==
    ASSUME Inv, NEW c \in Clients,
           TcTx(c) \/ TcWaitOk(c) \/ TcWaitTimeout(c) \/ TcRemove(c) \/ TcGiveUp(c) \/ TcExpired(c)
    PROVE  Inv'
  <1> USE DEF Inv, qvars, evars, hvars, cvars, bounds
  <1>1. CASE TcTx(c)
    <2>1. ASSUME op /\ c \notin Pingers PROVE TypeOK' /\ CallerControl'
      <3>1. TypeOK'
        BY <1>1, <2>1 DEF TypeOK, TcTx, Goto, Steps
      <3>2. CallerControl'
        BY <1>1, <2>1 DEF TypeOK, CallerControl, TcTx, Goto, WithEntry
      <3> QED  BY <3>1, <3>2
    <2>2. ASSUME ~(op /\ c \notin Pingers) PROVE TypeOK' /\ CallerControl'
      <3>1. /\ hw.owner = NULL /\ hw'.owner = c /\ hw' \in HwStates
            /\ pc' = [pc EXCEPT ![c] = "sending"]
        <4>1. hw \in HwStates
          BY DEF TypeOK
        <4>2. /\ hw.owner = NULL /\ pc' = [pc EXCEPT ![c] = "sending"]
              /\ \E h \in {"high", "low"} : hw' = [hw EXCEPT !.owner = c, !.queue = h]
          BY <1>1, <2>2 DEF TcTx, Goto, hw_lock
        <4> QED  BY <4>1, <4>2 DEF HwStates
      <3>2. TypeOK'
        BY <1>1, <3>1 DEF TypeOK, TcTx, Steps
      <3>3. CallerControl'
        BY <1>1, <3>1, TransportAssumption DEF TypeOK, CallerControl, TcTx, WithEntry
      <3> QED  BY <3>2, <3>3
    <2>3. CycleControl' /\ RxControl' /\ EntryControl'
      BY <1>1 DEF CycleControl, RxControl, EntryControl, TcTx, cdg
    <2> QED  BY <2>1, <2>2, <2>3
  <1>2. CASE TcWaitOk(c)
    <2>1. TypeOK'
      BY <1>2 DEF TypeOK, TcWaitOk, Goto, Steps
    <2>2. CallerControl'
      BY <1>2 DEF TypeOK, CallerControl, TcWaitOk, Goto, WithEntry
    <2>3. CycleControl' /\ RxControl' /\ EntryControl'
      BY <1>2 DEF CycleControl, RxControl, EntryControl, TcWaitOk, cdg
    <2> QED  BY <2>1, <2>2, <2>3
  <1>3. CASE TcWaitTimeout(c)
    <2>1. TypeOK'
      BY <1>3, TransportAssumption, SMTT(30) DEF TypeOK, TcWaitTimeout, Goto, Steps
    <2>2. CallerControl'
      BY <1>3 DEF TypeOK, CallerControl, TcWaitTimeout, Goto, WithEntry
    <2>3. CycleControl' /\ RxControl' /\ EntryControl'
      BY <1>3 DEF CycleControl, RxControl, EntryControl, TcWaitTimeout, cdg
    <2> QED  BY <2>1, <2>2, <2>3
  <1>4. CASE TcRemove(c)
    <2>1. q' \in Tq!Links
      <3>1. p_entry[c] \in Entries
        BY <1>4, Names DEF TypeOK, CallerControl, TcRemove, WithEntry
      <3> QED  BY <1>4, <3>1, RemoveType DEF TypeOK, TcRemove, pool_remove, Heads
    <2>2. TypeOK'
      BY <1>4, <2>1 DEF TypeOK, TcRemove, Goto, Steps
    <2>3. CallerControl'
      BY <1>4 DEF TypeOK, CallerControl, TcRemove, Goto, WithEntry
    <2>4. CycleControl' /\ RxControl' /\ EntryControl'
      BY <1>4 DEF CycleControl, RxControl, EntryControl, TcRemove, cdg
    <2> QED  BY <2>2, <2>3, <2>4
  <1>5. CASE TcGiveUp(c)
    <2>1. TypeOK'
      BY <1>5 DEF TypeOK, TcGiveUp, Goto, Steps
    <2>2. CallerControl'
      BY <1>5 DEF TypeOK, CallerControl, TcGiveUp, Goto, WithEntry
    <2>3. CycleControl' /\ RxControl' /\ EntryControl'
      BY <1>5 DEF CycleControl, RxControl, EntryControl, TcGiveUp, cdg
    <2> QED  BY <2>1, <2>2, <2>3
  <1>6. CASE TcExpired(c)
    <2>1. TypeOK'
      BY <1>6 DEF TypeOK, TcExpired, Goto, Steps
    <2>2. CallerControl'
      BY <1>6 DEF TypeOK, CallerControl, TcExpired, Goto, WithEntry
    <2>3. CycleControl' /\ RxControl' /\ EntryControl'
      BY <1>6 DEF CycleControl, RxControl, EntryControl, TcExpired, cdg
    <2> QED  BY <2>1, <2>2, <2>3
  <1> QED  BY <1>1, <1>2, <1>3, <1>4, <1>5, <1>6

\* An owner's index and entry are what pool_get writes into the entry.
LEMMA PoolGetInv ==
    ASSUME Inv, NEW o \in Owners, NEW cb \in Callbacks, NEW d \in Datagrams,
           p_idx[o] \in Indices, pool_get(o, cb, d), UNCHANGED p_idx
    PROVE  /\ q' \in Tq!Links
           /\ ent' \in [Entries -> Contents]
           /\ p_entry' \in [Owners -> Entries \cup {NULL}]
           /\ p_entry'[o] # NULL
           /\ \A u \in Owners : p_entry[u] # NULL => p_entry'[u] # NULL
           /\ EntryControl'
           /\ rx.pc \in {"post", "iput"} => ent'[rx.entry].p_idx # NULL
  <1> DEFINE e == Tq!TAILQ_FIRST(q, "pool")
             x == Content(p_idx[o], cb, d)
  <1>1. e \in Entries
    BY FirstType DEF Inv, TypeOK, pool_get, Heads
  <1>2. q' \in Tq!Links
    BY <1>1, RemoveType DEF Inv, TypeOK, pool_get, Heads
  <1>3. x \in Contents /\ x.p_idx \in Indices
    BY ContentType
  <1>4. ent' = [ent EXCEPT ![e] = x] /\ p_entry' = [p_entry EXCEPT ![o] = e]
    BY DEF pool_get
  <1> HIDE DEF e, x
  <1>5. ent' \in [Entries -> Contents] /\ p_entry' \in [Owners -> Entries \cup {NULL}]
    BY <1>1, <1>3, <1>4 DEF Inv, TypeOK
  <1>6. p_entry'[o] # NULL /\ \A u \in Owners : p_entry[u] # NULL => p_entry'[u] # NULL
    BY <1>1, <1>4, TransportAssumption DEF Inv, TypeOK
  <1>7. \A f \in Entries : /\ ent[f].cb # NULL => ent'[f].p_idx # NULL
                           /\ ent[f].p_idx # NULL => ent'[f].p_idx # NULL
                           /\ ent'[f].cb # NULL => ent'[f].p_idx # NULL
    BY <1>1, <1>3, <1>4, TransportAssumption DEF Inv, TypeOK, EntryControl
  <1>8. EntryControl'
    <2>1. ent'[e].p_idx # NULL
      BY <1>1, <1>3, <1>4, TransportAssumption DEF Inv, TypeOK
    <2>2. \A u \in Owners : p_entry'[u] # NULL => ent'[p_entry'[u]].p_idx # NULL
      BY <1>1, <1>4, <1>7, <2>1 DEF Inv, TypeOK, EntryControl
    <2> QED  BY <1>7, <2>2 DEF EntryControl
  <1>9. rx.pc \in {"post", "iput"} => ent'[rx.entry].p_idx # NULL
    BY <1>7 DEF Inv, TypeOK, RxControl, RxStates
  <1> QED  BY <1>2, <1>5, <1>6, <1>8, <1>9

\* ec_index_get on a non-empty queue.
LEMMA IndexGetInv ==
    ASSUME Inv, NEW o \in Owners, ec_index_get(o)
    PROVE  /\ idxq' \in Seq(Indices) /\ waiter' \in [Indices -> BOOLEAN]
           /\ p_idx' \in [Owners -> Indices \cup {NULL}]
           /\ p_idx'[o] # NULL
           /\ \A u \in Owners : u # o => p_idx'[u] = p_idx[u]
  <1>1. Head(idxq) \in Indices /\ Tail(idxq) \in Seq(Indices)
    BY DEF Inv, TypeOK, ec_index_get
  <1> QED  BY <1>1, TransportAssumption DEF Inv, TypeOK, ec_index_get

\* The steps of a caller that take or give back an index or an entry.
LEMMA CallerTakes ==
    ASSUME Inv, NEW c \in Clients,
           TcIndexGet(c) \/ TcPoolGet(c) \/ TcEnqueue(c) \/ TcPoolPut(c) \/ TcIndexPut(c)
    PROVE  Inv'
  <1> USE DEF Inv, qvars, evars, hvars, cvars, bounds
  <1>0. c \in Owners /\ c # NULL /\ c # "sto" /\ c \notin Cdgs
    BY Names, TransportAssumption
  <1>1. CASE TcIndexGet(c)
    <2>1. calls' = [calls EXCEPT ![c] = calls[c] + 1] /\ calls[c] + 1 \in 1 .. MaxCalls
      BY <1>1, TransportAssumption DEF TypeOK, TcIndexGet
    <2>2. CASE ec_index_get(c) /\ Goto(c, "pool")
      <3>1. /\ idxq' \in Seq(Indices) /\ waiter' \in [Indices -> BOOLEAN]
            /\ p_idx' \in [Owners -> Indices \cup {NULL}]
            /\ p_idx'[c] # NULL
            /\ \A u \in Owners : u # c => p_idx'[u] = p_idx[u]
        BY <1>0, <2>2, IndexGetInv
      <3>2. TypeOK'
        BY <1>1, <2>1, <2>2, <3>1 DEF TypeOK, TcIndexGet, Goto, Steps
      <3>3. CallerControl'
        BY <1>1, <2>1, <2>2, <3>1, Names
           DEF TypeOK, CallerControl, TcIndexGet, Goto, WithEntry
      <3>4. CycleControl'
        BY <1>0, <1>1, <3>1, Names DEF CycleControl, TcIndexGet, cdg, Cdgs
      <3>5. RxControl' /\ EntryControl'
        BY <1>0, <1>1, <3>1, Names DEF RxControl, EntryControl, TcIndexGet, InSto
      <3> QED  BY <3>2, <3>3, <3>4, <3>5
    <2>3. CASE idxq = <<>> /\ UNCHANGED <<qvars, pc>>
      <3>1. TypeOK'
        BY <1>1, <2>1, <2>3 DEF TypeOK, TcIndexGet
      <3>2. CallerControl'
        BY <1>1, <2>1, <2>3 DEF TypeOK, CallerControl, TcIndexGet, WithEntry
      <3>3. CycleControl' /\ RxControl' /\ EntryControl'
        BY <1>1, <2>3 DEF CycleControl, RxControl, EntryControl, TcIndexGet, cdg
      <3> QED  BY <3>1, <3>2, <3>3
    <2> QED  BY <1>1, <2>2, <2>3 DEF TcIndexGet
  <1>2. CASE TcPoolGet(c)
    <2> DEFINE cb == IF c \in Pingers THEN "anon" ELSE "block"
               i  == IF c \in Pingers THEN Idx0 ELSE p_idx[c]
               d  == Datagram(i, <<c, calls[c]>>)
    <2>1. /\ cb \in Callbacks /\ d \in Datagrams /\ p_idx[c] \in Indices
      <3>1. <<c, calls[c]>> \in Requests
        BY <1>2 DEF TypeOK, CallerControl, TcPoolGet, Requests
      <3>2. i \in Indices /\ p_idx[c] \in Indices
        BY <1>0, <1>2, TransportAssumption DEF TypeOK, CallerControl, TcPoolGet
      <3>3. d \in Datagrams
        BY <3>1, <3>2, DatagramType
      <3> QED  BY <3>2, <3>3 DEF Callbacks
    <2>2. CASE pool_get(c, cb, d) /\ Goto(c, "enqueue")
      <3> HIDE DEF cb, d
      <3>1. /\ q' \in Tq!Links
            /\ ent' \in [Entries -> Contents]
            /\ p_entry' \in [Owners -> Entries \cup {NULL}]
            /\ p_entry'[c] # NULL
            /\ \A u \in Owners : p_entry[u] # NULL => p_entry'[u] # NULL
            /\ EntryControl'
            /\ rx.pc \in {"post", "iput"} => ent'[rx.entry].p_idx # NULL
        BY <1>0, <1>2, <2>1, <2>2, PoolGetInv DEF TcPoolGet
      <3>2. TypeOK'
        BY <1>2, <2>2, <3>1 DEF TypeOK, TcPoolGet, Goto, Steps
      <3>3. CallerControl'
        BY <1>2, <2>2, <3>1, Names DEF TypeOK, CallerControl, TcPoolGet, Goto, WithEntry
      <3>4. CycleControl' /\ RxControl'
        BY <1>2, <3>1, Names DEF CycleControl, RxControl, TcPoolGet, cdg, Cdgs, InSto
      <3> QED  BY <3>1, <3>2, <3>3, <3>4
    <2>3. CASE PoolEmpty /\ Goto(c, "iput") /\ UNCHANGED evars
      <3>1. TypeOK'
        BY <1>2, <2>3 DEF TypeOK, TcPoolGet, Goto, Steps
      <3>2. CallerControl'
        BY <1>2, <2>3 DEF TypeOK, CallerControl, TcPoolGet, Goto, WithEntry
      <3>3. CycleControl' /\ RxControl' /\ EntryControl'
        BY <1>2, <2>3 DEF CycleControl, RxControl, EntryControl, TcPoolGet, cdg
      <3> QED  BY <3>1, <3>2, <3>3
    <2> QED  BY <1>2, <2>2, <2>3 DEF TcPoolGet, Request
  <1>3. CASE TcEnqueue(c)
    <2>1. p_entry[c] \in Entries /\ ent[p_entry[c]].p_idx \in Indices
      BY <1>0, <1>3 DEF TypeOK, CallerControl, EntryControl, TcEnqueue, WithEntry, Contents
    <2>2. q' \in Tq!Links
      BY <1>3, <2>1, InsertType DEF TypeOK, TcEnqueue, hw_enqueue, pool_put, Heads
    <2>3. tx_send' \in [Indices -> Entries \cup {NULL}]
      BY <1>3, <2>1 DEF TypeOK, TcEnqueue, hw_enqueue
    <2>4. TypeOK'
      BY <1>3, <2>2, <2>3 DEF TypeOK, TcEnqueue, Goto, Steps
    <2>5. CallerControl'
      BY <1>3 DEF TypeOK, CallerControl, TcEnqueue, Goto, WithEntry
    <2>6. CycleControl' /\ RxControl' /\ EntryControl'
      BY <1>3 DEF CycleControl, RxControl, EntryControl, TcEnqueue, cdg
    <2> QED  BY <2>4, <2>5, <2>6
  <1>4. CASE TcPoolPut(c)
    <2>1. p_entry[c] \in Entries
      BY <1>0, <1>4 DEF TypeOK, CallerControl, TcPoolPut, WithEntry
    <2>2. q' \in Tq!Links
      BY <1>4, <2>1, InsertType DEF TypeOK, TcPoolPut, pool_put, Heads
    <2>3. /\ p_entry' \in [Owners -> Entries \cup {NULL}]
          /\ p_entry'[c] = NULL /\ \A u \in Owners : u # c => p_entry'[u] = p_entry[u]
      BY <1>0, <1>4 DEF TypeOK, TcPoolPut
    <2>4. TypeOK'
      BY <1>4, <2>2, <2>3 DEF TypeOK, TcPoolPut, Goto, Steps
    <2>5. CallerControl'
      BY <1>4, <2>3, Names DEF TypeOK, CallerControl, TcPoolPut, Goto, WithEntry
    <2>6. CycleControl' /\ RxControl' /\ EntryControl'
      BY <1>0, <1>4, <2>3, Names DEF CycleControl, RxControl, EntryControl, TcPoolPut, cdg, Cdgs
    <2> QED  BY <2>4, <2>5, <2>6
  <1>5. CASE TcIndexPut(c)
    <2>1. p_idx[c] \in Indices
      BY <1>0, <1>5 DEF TypeOK, CallerControl, TcIndexPut
    <2>2. idxq' \in Seq(Indices)
      BY <1>5, <2>1 DEF TypeOK, TcIndexPut, ec_index_put
    <2>3. /\ p_idx' \in [Owners -> Indices \cup {NULL}]
          /\ p_idx'[c] = NULL /\ \A u \in Owners : u # c => p_idx'[u] = p_idx[u]
      BY <1>0, <1>5 DEF TypeOK, TcIndexPut
    <2>4. TypeOK'
      BY <1>5, <2>2, <2>3 DEF TypeOK, TcIndexPut, Goto, Steps
    <2>5. CallerControl'
      BY <1>5, <2>3, Names DEF TypeOK, CallerControl, TcIndexPut, Goto, WithEntry
    <2>6. CycleControl' /\ RxControl' /\ EntryControl'
      BY <1>0, <1>5, <2>3, Names
         DEF CycleControl, RxControl, EntryControl, TcIndexPut, cdg, Cdgs, InSto
    <2> QED  BY <2>4, <2>5, <2>6
  <1> QED  BY <1>1, <1>2, <1>3, <1>4, <1>5

\* A frame that is sent has datagrams in it.
LEMMA SentType ==
    ASSUME Inv, NEW f \in Seq(Datagrams)
    PROVE  Sent(f) \in Seq(Frames)
  BY DEF Inv, TypeOK, Sent, Frames

\* hw_tx_pool.
LEMMA TxInv ==
    ASSUME Inv, Tx
    PROVE  Inv'
  <1> USE DEF Inv, qvars, evars, hvars, cvars, bounds
  <1>0. /\ hw.queue \in Heads /\ hw.frame \in Seq(Datagrams) /\ hw.entry \in Entries \cup {NULL}
        /\ hw.queue \in {"high", "low"} /\ hw.owner \in Clients \cup {"cyc", NULL}
        /\ Tq!TAILQ_FIRST(q, hw.queue) \in Entries \cup {NULL}
    BY FirstType DEF TypeOK, HwStates, Heads
  <1>1. CASE TxPop
    <2>1. q' \in Tq!Links
      BY <1>0, <1>1, RemoveType DEF TypeOK, TxPop
    <2>2. hw' \in HwStates /\ hw'.owner = hw.owner
      <3> DEFINE e == Tq!TAILQ_FIRST(q, hw.queue)
                 f == IF Len(hw.frame) >= MaxDg THEN <<>> ELSE hw.frame
      <3>1. e \in Entries /\ f \in Seq(Datagrams)
        BY <1>0, <1>1 DEF TxPop
      <3>2. hw' = [hw EXCEPT !.entry = e, !.frame = f]
        BY <1>1 DEF TxPop
      <3> HIDE DEF e, f
      <3> QED  BY <3>1, <3>2 DEF TypeOK, HwStates
    <2>3. wire' \in Seq(Frames)
      BY <1>0, <1>1, SentType DEF TypeOK, TxPop
    <2>4. TypeOK'
      BY <1>1, <2>1, <2>2, <2>3 DEF TypeOK, TxPop
    <2>5. CallerControl'
      BY <1>1, <2>2 DEF CallerControl, TxPop
    <2>6. CycleControl' /\ RxControl' /\ EntryControl'
      BY <1>1 DEF CycleControl, RxControl, EntryControl, TxPop, cdg
    <2> QED  BY <2>4, <2>5, <2>6
  <1>2. CASE TxCopy
    <2> DEFINE d == ent[hw.entry].dg
    <2>1. hw.entry \in Entries /\ d \in Datagrams /\ d.idx \in Indices
      BY <1>0, <1>2 DEF TypeOK, TxCopy, Contents, Datagrams
    <2>2. hw' \in HwStates /\ hw'.owner = hw.owner
      <3>1. Append(hw.frame, d) \in Seq(Datagrams)
        BY <1>0, <2>1
      <3> HIDE DEF d
      <3> QED  BY <1>0, <1>2, <3>1 DEF TypeOK, TxCopy, HwStates, d
    <2>3. tx_send' \in [Indices -> Entries \cup {NULL}]
      BY <1>2, <2>1 DEF TypeOK, TxCopy
    <2>4. TypeOK'
      BY <1>2, <2>2, <2>3 DEF TypeOK, TxCopy
    <2>5. CallerControl'
      BY <1>2, <2>2 DEF CallerControl, TxCopy
    <2>6. CycleControl' /\ RxControl' /\ EntryControl'
      BY <1>2 DEF CycleControl, RxControl, EntryControl, TxCopy, cdg
    <2> QED  BY <2>4, <2>5, <2>6
  <1>3. CASE TxDone
    <2>1. /\ hw' \in HwStates
          /\ (hw'.owner = hw.owner /\ hw.queue = "high") \/ hw'.owner = NULL
      <3> DEFINE o == IF hw.queue = "high" THEN hw.owner ELSE NULL
      <3>1. hw' = [hw EXCEPT !.frame = <<>>, !.queue = "low", !.owner = o]
        BY <1>3 DEF TxDone
      <3>2. o \in Clients \cup {"cyc", NULL}
        BY <1>0
      <3>3. (o = hw.owner /\ hw.queue = "high") \/ o = NULL
        OBVIOUS
      <3> HIDE DEF o
      <3>4. hw'.owner = o /\ hw' \in HwStates
        <4> DEFINE f == <<>>
        <4>1. f \in Seq(Datagrams) /\ hw' = [hw EXCEPT !.frame = f, !.queue = "low", !.owner = o]
          BY <3>1
        <4> HIDE DEF f
        <4> QED  BY <3>2, <4>1 DEF TypeOK, HwStates
      <3> QED  BY <3>3, <3>4
    <2>2. wire' \in Seq(Frames)
      BY <1>0, <1>3, SentType DEF TxDone
    <2>3. pc' \in [Clients -> Steps] /\ cyc' \in CycStates
      BY <1>3 DEF TypeOK, TxDone, Steps, CycStates
    <2>4. TypeOK'
      BY <1>3, <2>1, <2>2, <2>3 DEF TypeOK, TxDone
    <2>5. CallerControl'
      <3>1. CASE hw.queue = "high"
        BY <1>3, <2>1, <3>1, TransportAssumption DEF CallerControl, TxDone
      <3>2. CASE hw.queue = "low" /\ hw.owner \in Clients
        <4>1. hw'.owner = NULL /\ pc' = [pc EXCEPT ![hw.owner] = "wait"] /\ pc[hw.owner] = "sending"
          BY <1>3, <2>1, <3>2 DEF CallerControl, TxDone
        <4> QED  BY <1>3, <3>2, <4>1, TransportAssumption
                 DEF TypeOK, CallerControl, TxDone, WithEntry
      <3>3. CASE hw.queue = "low" /\ hw.owner \notin Clients
        BY <1>3, <2>1, <3>3, TransportAssumption DEF CallerControl, TxDone
      <3> QED  BY <1>0, <3>1, <3>2, <3>3
    <2>6. CycleControl'
      BY <1>3 DEF TypeOK, CycStates, CycleControl, TxDone, cdg
    <2>7. RxControl' /\ EntryControl'
      BY <1>3 DEF RxControl, EntryControl, TxDone
    <2> QED  BY <2>4, <2>5, <2>6, <2>7
  <1> QED  BY <1>1, <1>2, <1>3 DEF Tx

\* The wire loses a frame; ec_set_state changes the master state.
LEMMA OutsideInv ==
    ASSUME Inv, LoseFrame \/ EnterOp
    PROVE  Inv'
  <1> USE DEF Inv, qvars, evars, hvars, cvars, bounds
  <1>1. CASE LoseFrame
    <2>1. PICK k \in 1 .. Len(wire) : wire' = RemoveAt(wire, k)
      BY <1>1 DEF LoseFrame
    <2>2. wire' \in Seq(Frames)
      BY <2>1, Removed DEF TypeOK
    <2>3. TypeOK'
      BY <1>1, <2>2, TransportAssumption, SMTT(30) DEF TypeOK, LoseFrame
    <2> QED  BY <1>1, <2>3
             DEF LoseFrame, CallerControl, CycleControl, RxControl, EntryControl, cdg
  <1>2. CASE EnterOp
    BY <1>2 DEF EnterOp, TypeOK, CallerControl, CycleControl, RxControl, EntryControl, cdg
  <1> QED  BY <1>1, <1>2

\* On to the next cyclic datagram or to hw_tx.
LEMMA NextCdgInv ==
    ASSUME Inv, cyc.k \in 1 .. Len(CycleSeq), NEW r \in BOOLEAN, NextCdg(r)
    PROVE  cyc' \in CycStates /\ CycleControl'
  <1>1. Len(CycleSeq) \in Nat
    BY TransportAssumption
  <1>2. CASE cyc.k < Len(CycleSeq)
    <2> DEFINE b == r \/ ~({cdg, CycleSeq[cyc.k + 1]} \subseteq Group)
    <2>1. cyc' = [pc |-> "lock", k |-> cyc.k + 1, ret |-> b] /\ b \in BOOLEAN
      BY <1>2 DEF NextCdg
    <2> HIDE DEF b
    <2> QED  BY <1>1, <1>2, <2>1 DEF CycStates, CycleControl
  <1>3. CASE ~(cyc.k < Len(CycleSeq))
    BY <1>1, <1>3 DEF NextCdg, CycStates, CycleControl
  <1> QED  BY <1>2, <1>3

\* The steps of the cyclic task.
LEMMA CycInv ==
    ASSUME Inv, Cyc
    PROVE  Inv'
  <1> USE DEF Inv, qvars, evars, hvars, cvars, bounds
  <1>0. ASSUME cyc.pc \in {"lock", "pool", "iput", "enqueue"}
        PROVE  /\ cyc.k \in 1 .. Len(CycleSeq) /\ cdg \in Cdgs /\ cdg \in Owners
               /\ cdg \notin Clients /\ cdg # "sto" /\ <<cdg, 0>> \in Requests
               /\ cdg \in Callbacks
    <2>1. cyc.k \in 1 .. Len(CycleSeq) /\ cdg \in Cdgs
      BY <1>0, CdgType DEF CycleControl
    <2> QED  BY <2>1, Names DEF Requests, Callbacks
  <1>1. CASE CycStart
    <2>1. cyc' \in CycStates /\ CycleControl'
      <3>1. 1 \in 1 .. Len(CycleSeq)
        BY <1>1, TransportAssumption DEF CycStart
      <3> QED  BY <1>1, <3>1 DEF CycStart, CycStates, CycleControl
    <2> QED  BY <1>1, <2>1 DEF CycStart, TypeOK, CallerControl, RxControl, EntryControl
  <1>2. CASE CycIndexGet
    <2>0. cyc.pc = "lock"
      BY <1>2 DEF CycIndexGet
    <2>1. ASSUME CycHasIndex, p_idx'[cdg] # NULL
          PROVE  cyc' \in CycStates /\ CycleControl'
      <3>1. CASE cyc.ret
        <4>1. cyc' = [cyc EXCEPT !.pc = "pool"]
          BY <2>1, <3>1 DEF CycHasIndex
        <4>2. cyc' \in CycStates /\ cyc'.pc = "pool" /\ cyc'.k = cyc.k
          BY <4>1 DEF TypeOK, CycStates
        <4> QED  BY <1>0, <2>0, <2>1, <4>2 DEF CycleControl, cdg
      <3>2. CASE ~cyc.ret
        BY <1>0, <2>0, <2>1, <3>2, NextCdgInv DEF CycHasIndex
      <3> QED  BY <3>1, <3>2
    <2>2. CASE p_idx[cdg] # NULL /\ CycHasIndex /\ UNCHANGED qvars
      <3>1. cyc' \in CycStates /\ CycleControl'
        BY <2>1, <2>2
      <3> QED  BY <1>2, <2>2, <3>1
               DEF CycIndexGet, TypeOK, CallerControl, RxControl, EntryControl
    <2>3. CASE p_idx[cdg] = NULL /\ CycHasIndex /\ ec_index_get(cdg)
      <3>1. /\ idxq' \in Seq(Indices) /\ waiter' \in [Indices -> BOOLEAN]
            /\ p_idx' \in [Owners -> Indices \cup {NULL}]
            /\ p_idx'[cdg] # NULL
            /\ \A u \in Owners : u # cdg => p_idx'[u] = p_idx[u]
        BY <1>0, <2>0, <2>3, IndexGetInv
      <3>2. cyc' \in CycStates /\ CycleControl'
        BY <2>1, <2>3, <3>1
      <3>3. TypeOK'
        BY <1>2, <3>1, <3>2 DEF CycIndexGet, TypeOK
      <3>4. CallerControl'
        BY <1>0, <1>2, <2>0, <3>1, Names DEF CycIndexGet, CallerControl
      <3>5. RxControl' /\ EntryControl'
        BY <1>0, <1>2, <2>0, <3>1, Names DEF CycIndexGet, RxControl, EntryControl
      <3> QED  BY <3>2, <3>3, <3>4, <3>5
    <2>4. CASE p_idx[cdg] = NULL /\ idxq = <<>> /\ NextCdg(FALSE) /\ UNCHANGED qvars
      <3>1. cyc' \in CycStates /\ CycleControl'
        BY <1>0, <2>0, <2>4, NextCdgInv
      <3> QED  BY <1>2, <2>4, <3>1
               DEF CycIndexGet, TypeOK, CallerControl, RxControl, EntryControl
    <2> QED  BY <1>2, <2>2, <2>3, <2>4 DEF CycIndexGet
  <1>3. CASE CycPoolGet
    <2>0. cyc.pc = "pool" /\ UNCHANGED qvars
      BY <1>3 DEF CycPoolGet
    <2>1. ASSUME NEW l \in {"enqueue", "iput"}, cyc' = [cyc EXCEPT !.pc = l],
                 l = "enqueue" => p_entry'[cdg] # NULL
          PROVE  cyc' \in CycStates /\ CycleControl'
      <3>1. cyc' \in CycStates /\ cyc'.pc = l /\ cyc'.k = cyc.k
        BY <2>1 DEF TypeOK, CycStates
      <3> QED  BY <1>0, <2>0, <2>1, <3>1 DEF CycleControl, cdg
    <2>2. CASE p_entry[cdg] # NULL /\ UNCHANGED evars /\ cyc' = [cyc EXCEPT !.pc = "enqueue"]
      <3>1. cyc' \in CycStates /\ CycleControl'
        BY <2>1, <2>2
      <3> QED  BY <1>3, <2>2, <3>1
               DEF CycPoolGet, TypeOK, CallerControl, RxControl, EntryControl
    <2>3. CASE /\ pool_get(cdg, cdg, Datagram(p_idx[cdg], <<cdg, 0>>))
               /\ cyc' = [cyc EXCEPT !.pc = "enqueue"]
      <3> DEFINE d == Datagram(p_idx[cdg], <<cdg, 0>>)
      <3>1. p_idx[cdg] \in Indices /\ d \in Datagrams
        BY <1>0, <2>0, DatagramType DEF TypeOK, CycleControl
      <3> HIDE DEF d
      <3>2. /\ q' \in Tq!Links
            /\ ent' \in [Entries -> Contents]
            /\ p_entry' \in [Owners -> Entries \cup {NULL}]
            /\ p_entry'[cdg] # NULL
            /\ \A u \in Owners : p_entry[u] # NULL => p_entry'[u] # NULL
            /\ EntryControl'
            /\ rx.pc \in {"post", "iput"} => ent'[rx.entry].p_idx # NULL
        BY <1>0, <2>0, <2>3, <3>1, PoolGetInv DEF d
      <3>3. cyc' \in CycStates /\ CycleControl'
        BY <2>1, <2>3, <3>2
      <3>4. TypeOK'
        BY <1>3, <3>2, <3>3 DEF CycPoolGet, TypeOK
      <3>5. CallerControl' /\ RxControl'
        BY <1>3, <3>2, Names DEF CycPoolGet, CallerControl, RxControl
      <3> QED  BY <3>2, <3>3, <3>4, <3>5
    <2>4. CASE PoolEmpty /\ UNCHANGED evars /\ cyc' = [cyc EXCEPT !.pc = "iput"]
      <3>1. cyc' \in CycStates /\ CycleControl'
        BY <2>1, <2>4
      <3> QED  BY <1>3, <2>4, <3>1
               DEF CycPoolGet, TypeOK, CallerControl, RxControl, EntryControl
    <2> QED  BY <1>3, <2>2, <2>3, <2>4 DEF CycPoolGet
  <1>4. CASE CycIndexPut
    <2>0. cyc.pc = "iput"
      BY <1>4 DEF CycIndexPut
    <2>1. cyc' \in CycStates /\ CycleControl'
      BY <1>0, <1>4, <2>0, NextCdgInv DEF CycIndexPut
    <2>2. p_idx[cdg] \in Indices
      BY <1>0, <2>0 DEF TypeOK, CycleControl
    <2>3. idxq' \in Seq(Indices)
      BY <1>4, <2>2 DEF TypeOK, CycIndexPut, ec_index_put
    <2>4. /\ p_idx' \in [Owners -> Indices \cup {NULL}]
          /\ \A u \in Owners : u # cdg => p_idx'[u] = p_idx[u]
      BY <1>0, <1>4, <2>0 DEF TypeOK, CycIndexPut
    <2>5. TypeOK'
      BY <1>4, <2>1, <2>3, <2>4 DEF CycIndexPut, TypeOK
    <2>6. CallerControl' /\ RxControl' /\ EntryControl'
      BY <1>0, <1>4, <2>0, <2>4, Names DEF CycIndexPut, CallerControl, RxControl, EntryControl
    <2> QED  BY <2>1, <2>5, <2>6
  <1>5. CASE CycEnqueue
    <2>0. cyc.pc = "enqueue"
      BY <1>5 DEF CycEnqueue
    <2> DEFINE e == p_entry[cdg]
               d == Datagram(p_idx[cdg], <<cdg, 0>>)
    <2>1. e \in Entries /\ ent[e].p_idx \in Indices /\ d \in Datagrams
      <3>1. p_idx[cdg] \in Indices /\ e \in Entries
        BY <1>0, <2>0 DEF TypeOK, CycleControl
      <3>2. d \in Datagrams
        BY <1>0, <2>0, <3>1, DatagramType
      <3>3. ent[e].p_idx \in Indices
        BY <1>0, <2>0, <3>1, TransportAssumption DEF TypeOK, EntryControl, Contents
      <3> QED  BY <3>1, <3>2, <3>3
    <2>2. cyc' \in CycStates /\ CycleControl'
      BY <1>0, <1>5, <2>0, NextCdgInv DEF CycEnqueue
    <2>3. q' \in Tq!Links /\ tx_send' \in [Indices -> Entries \cup {NULL}]
      BY <1>5, <2>1, InsertType DEF TypeOK, CycEnqueue, hw_enqueue, pool_put, Heads
    <2> HIDE DEF d, e
    <2>4. ent' = [ent EXCEPT ![e] = [ent[e] EXCEPT !.dg = d]]
      BY <1>5 DEF CycEnqueue, d, e
    <2>5. /\ ent' \in [Entries -> Contents]
          /\ \A x \in Entries : ent'[x].p_idx = ent[x].p_idx /\ ent'[x].cb = ent[x].cb
      <3> DEFINE m == [ent[e] EXCEPT !.dg = d]
      <3>1. ent \in [Entries -> Contents]
        BY DEF TypeOK
      <3>2. m \in Contents /\ m.p_idx = ent[e].p_idx /\ m.cb = ent[e].cb
        BY <2>1, <3>1 DEF Contents
      <3>3. ent' = [ent EXCEPT ![e] = m]
        BY <2>4
      <3> HIDE DEF m
      <3> QED  BY <2>1, <3>1, <3>2, <3>3
    <2>6. TypeOK'
      BY <1>5, <2>2, <2>3, <2>5 DEF CycEnqueue, TypeOK
    <2>7. CallerControl'
      BY <1>5 DEF CycEnqueue, CallerControl
    <2>8. EntryControl' /\ RxControl'
      BY <1>5, <2>5 DEF CycEnqueue, EntryControl, RxControl, TypeOK, RxStates
    <2> QED  BY <2>2, <2>6, <2>7, <2>8
  <1>6. CASE CycTx
    <2>1. hw' \in HwStates /\ hw'.owner = "cyc"
      BY <1>6 DEF CycTx, hw_lock, TypeOK, HwStates
    <2>2. cyc' \in CycStates /\ cyc'.pc = "sending"
      BY <1>6 DEF CycTx, TypeOK, CycStates
    <2>3. TypeOK'
      BY <1>6, <2>1, <2>2 DEF CycTx, TypeOK
    <2>4. CallerControl' /\ CycleControl' /\ RxControl' /\ EntryControl'
      BY <1>6, <2>1, <2>2, Names DEF CycTx, CallerControl, CycleControl, RxControl, EntryControl
    <2> QED  BY <2>3, <2>4
  <1> QED  BY <1>1, <1>2, <1>3, <1>4, <1>5, <1>6 DEF Cyc

\* The receive thread goes on to the next datagram or waits for a frame.
LEMMA RxNextInv ==
    ASSUME Inv, rx.pc # "idle", RxNext
    PROVE  rx' \in RxStates /\ RxControl'
  <1> DEFINE l == IF Len(rx.frame) > 1 THEN "slot" ELSE "idle"
             f == Tail(rx.frame)
  <1>1. rx.frame \in Seq(Datagrams) /\ rx.frame # <<>>
    BY DEF Inv, TypeOK, RxStates, RxControl
  <1>2. f \in Seq(Datagrams) /\ l \in {"slot", "idle"} /\ (l = "slot" => f # <<>>)
    <2>1. f \in Seq(Datagrams) /\ Len(f) = Len(rx.frame) - 1 /\ Len(rx.frame) \in Nat
      BY <1>1, HeadTailProperties, LenProperties, Zenon
    <2> HIDE DEF f
    <2>2. f = <<>> => Len(f) = 0
      OBVIOUS
    <2> QED  BY <2>1, <2>2
  <1>3. rx' = [pc |-> l, frame |-> f, entry |-> NULL]
    BY DEF RxNext
  <1> HIDE DEF l, f
  <1> QED  BY <1>2, <1>3 DEF RxStates, RxControl, InSto

\* The step of the receive thread from one place to the next, same datagram.
LEMMA RxGoto ==
    ASSUME Inv, NEW l \in {"cb", "post", "iput", "sto_pool", "sto_iput", "sto_put"},
           rx' = [rx EXCEPT !.pc = l]
    PROVE  rx' \in RxStates /\ rx'.pc = l /\ rx'.frame = rx.frame /\ rx'.entry = rx.entry
  BY DEF Inv, TypeOK, RxStates

\* The steps of hw_process_rx_frame.
LEMMA RxFrameInv ==
    ASSUME Inv, RxFrame \/ RxSlot \/ RxClear
    PROVE  Inv'
  <1> USE DEF Inv, qvars, evars, hvars, cvars, bounds
  <1>0. ASSUME rx.pc # "idle"
        PROVE  rx.frame \in Seq(Datagrams) /\ rx.frame # <<>> /\ RxDg \in Datagrams
                 /\ RxDg.idx \in Indices
    <2>1. rx.frame \in Seq(Datagrams) /\ rx.frame # <<>>
      BY <1>0 DEF TypeOK, RxStates, RxControl
    <2>2. RxDg \in Datagrams
      BY <2>1 DEF RxDg
    <2> QED  BY <2>1, <2>2 DEF Datagrams
  <1>1. CASE RxFrame
    <2>1. Head(wire) \in Frames /\ wire' \in Seq(Frames)
      BY <1>1 DEF TypeOK, RxFrame
    <2>2. rx' \in RxStates /\ RxControl'
      BY <1>1, <2>1 DEF RxFrame, RxStates, RxControl, Frames, InSto
    <2>3. TypeOK'
      BY <1>1, <2>1, <2>2 DEF TypeOK, RxFrame
    <2> QED  BY <1>1, <2>2, <2>3 DEF RxFrame, CallerControl, CycleControl, EntryControl, cdg
  <1>2. CASE RxSlot
    <2> DEFINE e == tx_send[RxDg.idx]
    <2>1. rx.pc = "slot" /\ e \in Entries \cup {NULL} /\ rx' = [rx EXCEPT !.pc = "clear", !.entry = e]
      BY <1>0, <1>2 DEF TypeOK, RxSlot
    <2> HIDE DEF e
    <2>2. rx' \in RxStates /\ rx'.pc = "clear" /\ rx'.frame = rx.frame
      BY <2>1 DEF TypeOK, RxStates
    <2>3. RxControl'
      BY <1>0, <2>1, <2>2 DEF RxControl, InSto
    <2>4. TypeOK'
      BY <1>2, <2>2 DEF TypeOK, RxSlot
    <2> QED  BY <1>2, <2>3, <2>4 DEF RxSlot, CallerControl, CycleControl, EntryControl, cdg
  <1>3. CASE RxClear
    <2>1. rx.pc = "clear" /\ tx_send' \in [Indices -> Entries \cup {NULL}]
      BY <1>0, <1>3 DEF TypeOK, RxClear
    <2>2. rx' \in RxStates /\ RxControl'
      <3>1. CASE RxIgnored
        BY <1>3, <2>1, <3>1, RxNextInv DEF RxClear
      <3>2. CASE ~RxIgnored
        <4>1. rx' = [rx EXCEPT !.pc = "cb"]
          BY <1>3, <3>2 DEF RxClear
        <4>2. /\ rx' \in RxStates /\ rx'.pc = "cb" /\ rx'.frame = rx.frame
              /\ rx'.entry = rx.entry
          BY <4>1, RxGoto
        <4> QED  BY <1>0, <2>1, <3>2, <4>2 DEF RxControl, InSto, RxIgnored
      <3> QED  BY <3>1, <3>2
    <2>3. TypeOK'
      BY <1>3, <2>1, <2>2 DEF TypeOK, RxClear
    <2> QED  BY <1>3, <2>2, <2>3 DEF RxClear, CallerControl, CycleControl, EntryControl, cdg
  <1> QED  BY <1>1, <1>2, <1>3

\* The callbacks.
LEMMA CallbackInv ==
    ASSUME Inv, cb_block \/ RxPost \/ cb_no_reply \/ RxIndexPut \/ RxCyclic
    PROVE  Inv'
  <1> USE DEF Inv, qvars, evars, hvars, cvars, bounds
  <1>0. ASSUME rx.pc \in {"cb", "post", "iput"}
        PROVE  /\ rx.pc # "idle" /\ rx.frame # <<>> /\ RxDg \in Datagrams
               /\ rx.entry \in Entries
               /\ rx.pc = "cb" /\ ent[rx.entry].cb \in Callbacks => ent[rx.entry].p_idx \in Indices
               /\ rx.pc # "cb" => ent[rx.entry].p_idx \in Indices
    <2>1. rx.frame \in Seq(Datagrams) /\ rx.frame # <<>> /\ rx.entry \in Entries
      BY <1>0 DEF TypeOK, RxStates, RxControl
    <2>2. RxDg \in Datagrams
      BY <2>1 DEF RxDg
    <2>3. ent[rx.entry].p_idx \in Indices \cup {NULL}
      BY <2>1 DEF TypeOK, Contents
    <2>4. ent[rx.entry].cb \in Callbacks => ent[rx.entry].p_idx # NULL
      BY <2>1, CallbackSet DEF EntryControl
    <2>5. rx.pc # "cb" => ent[rx.entry].p_idx # NULL
      BY <1>0 DEF RxControl
    <2> QED  BY <1>0, <2>1, <2>2, <2>3, <2>4, <2>5
  <1>1. CASE cb_block
    <2> DEFINE d == [RxDg EXCEPT !.ans = TRUE]
               e == rx.entry
    <2>1. rx.pc = "cb" /\ e \in Entries /\ ent[e].p_idx \in Indices /\ d \in Datagrams
      BY <1>0, <1>1, AnswerType DEF cb_block, Calling, Callbacks
    <2>2. ent' = [ent EXCEPT ![e] = [ent[e] EXCEPT !.dg = d]]
      BY <1>1 DEF cb_block
    <2> HIDE DEF d, e
    <2>3. /\ ent' \in [Entries -> Contents]
          /\ \A x \in Entries : ent'[x].p_idx = ent[x].p_idx /\ ent'[x].cb = ent[x].cb
      BY <2>1, <2>2 DEF TypeOK, Contents
    <2>4. rx' \in RxStates /\ rx'.pc = "post" /\ rx'.frame = rx.frame /\ rx'.entry = rx.entry
      BY <1>1, RxGoto DEF cb_block
    <2>5. RxControl'
      BY <1>0, <2>1, <2>3, <2>4, TransportAssumption DEF RxControl, InSto, e
    <2>6. TypeOK'
      BY <1>1, <2>3, <2>4 DEF TypeOK, cb_block
    <2>7. EntryControl'
      BY <1>1, <2>3 DEF TypeOK, EntryControl, cb_block
    <2> QED  BY <1>1, <2>5, <2>6, <2>7 DEF cb_block, CallerControl, CycleControl, cdg
  <1>2. CASE RxPost
    <2>1. rx.pc \in {"cb", "post"} /\ ent[rx.entry].p_idx \in Indices
      BY <1>0, <1>2 DEF RxPost, Calling, Callbacks
    <2>2. waiter' \in [Indices -> BOOLEAN]
      BY <1>2, <2>1 DEF TypeOK, RxPost
    <2>3. rx' \in RxStates /\ RxControl'
      BY <1>2, <2>1, RxNextInv DEF RxPost
    <2>4. TypeOK'
      BY <1>2, <2>2, <2>3 DEF TypeOK, RxPost
    <2> QED  BY <1>2, <2>3, <2>4 DEF RxPost, CallerControl, CycleControl, EntryControl, cdg
  <1>3. CASE cb_no_reply
    <2>1. rx.pc = "cb" /\ rx.entry \in Entries /\ ent[rx.entry].p_idx \in Indices
      BY <1>0, <1>3 DEF cb_no_reply, Calling, Callbacks
    <2>2. q' \in Tq!Links
      BY <1>3, <2>1, InsertType DEF TypeOK, cb_no_reply, pool_put, Heads
    <2>3. rx' \in RxStates /\ rx'.pc = "iput" /\ rx'.frame = rx.frame /\ rx'.entry = rx.entry
      BY <1>3, RxGoto DEF cb_no_reply
    <2>4. RxControl'
      BY <1>0, <1>3, <2>1, <2>3, TransportAssumption DEF RxControl, InSto, cb_no_reply
    <2>5. TypeOK'
      BY <1>3, <2>2, <2>3 DEF TypeOK, cb_no_reply
    <2> QED  BY <1>3, <2>4, <2>5 DEF cb_no_reply, CallerControl, CycleControl, EntryControl, cdg
  <1>4. CASE RxIndexPut
    <2>1. rx.pc = "iput" /\ ent[rx.entry].p_idx \in Indices
      BY <1>0, <1>4 DEF RxIndexPut
    <2>2. idxq' \in Seq(Indices)
      BY <1>4, <2>1 DEF TypeOK, RxIndexPut, ec_index_put
    <2>3. rx' \in RxStates /\ RxControl'
      BY <1>4, <2>1, RxNextInv DEF RxIndexPut
    <2>4. TypeOK'
      BY <1>4, <2>2, <2>3 DEF TypeOK, RxIndexPut
    <2> QED  BY <1>4, <2>3, <2>4 DEF RxIndexPut, CallerControl, CycleControl, EntryControl, cdg
  <1>5. CASE RxCyclic
    <2>1. rx' \in RxStates /\ RxControl'
      BY <1>5, RxNextInv DEF RxCyclic, Calling
    <2>2. TypeOK'
      BY <1>5, <2>1 DEF TypeOK, RxCyclic
    <2> QED  BY <1>5, <2>1, <2>2 DEF RxCyclic, CallerControl, CycleControl, EntryControl, cdg
  <1> QED  BY <1>1, <1>2, <1>3, <1>4, <1>5

\* The distributed clocks callback that sends a datagram of its own.
LEMMA StoInv ==
    ASSUME Inv, cb_distributed_clocks \/ StoPoolGet \/ StoIndexPut \/ StoPut
    PROVE  Inv'
  <1> USE DEF Inv, qvars, evars, hvars, cvars, bounds
  <1>1. CASE cb_distributed_clocks
    <2>1. /\ idxq' \in Seq(Indices) /\ waiter' \in [Indices -> BOOLEAN]
          /\ p_idx' \in [Owners -> Indices \cup {NULL}]
          /\ p_idx'["sto"] # NULL
          /\ \A u \in Owners : u # "sto" => p_idx'[u] = p_idx[u]
      BY <1>1, Names, IndexGetInv DEF cb_distributed_clocks
    <2>2. rx' \in RxStates /\ rx'.pc = "sto_pool" /\ rx'.frame = rx.frame
      BY <1>1, RxGoto DEF cb_distributed_clocks
    <2>3. RxControl'
      BY <1>1, <2>1, <2>2 DEF RxControl, cb_distributed_clocks, Calling
    <2>4. TypeOK'
      BY <1>1, <2>1, <2>2 DEF TypeOK, cb_distributed_clocks
    <2>5. CallerControl' /\ CycleControl' /\ EntryControl'
      BY <1>1, <2>1, Names
         DEF cb_distributed_clocks, CallerControl, CycleControl, EntryControl, cdg, Cdgs
    <2> QED  BY <2>3, <2>4, <2>5
  <1>2. CASE StoPoolGet
    <2>0. rx.pc = "sto_pool" /\ p_idx["sto"] \in Indices /\ rx.frame # <<>>
      BY <1>2, Names DEF TypeOK, StoPoolGet, RxControl, InSto
    <2>1. CASE /\ pool_get("sto", "no_reply", Datagram(p_idx["sto"], <<"sto", 0>>))
               /\ rx' = [rx EXCEPT !.pc = "sto_put"]
      <3> DEFINE d == Datagram(p_idx["sto"], <<"sto", 0>>)
      <3>1. d \in Datagrams /\ "no_reply" \in Callbacks
        <4>1. <<"sto", 0>> \in Requests
          BY DEF Requests
        <4> QED  BY <2>0, <4>1, DatagramType DEF Callbacks
      <3> HIDE DEF d
      <3>2. /\ q' \in Tq!Links
            /\ ent' \in [Entries -> Contents]
            /\ p_entry' \in [Owners -> Entries \cup {NULL}]
            /\ p_entry'["sto"] # NULL
            /\ \A u \in Owners : p_entry[u] # NULL => p_entry'[u] # NULL
            /\ EntryControl'
        BY <1>2, <2>0, <2>1, <3>1, Names, PoolGetInv DEF StoPoolGet, d
      <3>3. rx' \in RxStates /\ rx'.pc = "sto_put" /\ rx'.frame = rx.frame
        BY <2>1, RxGoto
      <3>4. RxControl'
        BY <1>2, <2>0, <3>2, <3>3, TransportAssumption DEF RxControl, InSto, StoPoolGet
      <3>5. TypeOK'
        BY <1>2, <3>2, <3>3 DEF TypeOK, StoPoolGet
      <3>6. CallerControl' /\ CycleControl'
        BY <1>2, <3>2, Names DEF StoPoolGet, CallerControl, CycleControl, cdg, Cdgs
      <3> QED  BY <3>2, <3>4, <3>5, <3>6
    <2>2. CASE PoolEmpty /\ rx' = [rx EXCEPT !.pc = "sto_iput"] /\ UNCHANGED evars
      <3>1. rx' \in RxStates /\ rx'.pc = "sto_iput" /\ rx'.frame = rx.frame
        BY <2>2, RxGoto
      <3>2. RxControl'
        BY <1>2, <2>0, <3>1, TransportAssumption DEF RxControl, InSto, StoPoolGet
      <3>3. TypeOK'
        BY <1>2, <2>2, <3>1 DEF TypeOK, StoPoolGet
      <3> QED  BY <1>2, <2>2, <3>2, <3>3
               DEF StoPoolGet, CallerControl, CycleControl, EntryControl, cdg
    <2> QED  BY <1>2, <2>1, <2>2 DEF StoPoolGet
  <1>3. CASE StoIndexPut
    <2>1. rx.pc = "sto_iput" /\ p_idx["sto"] \in Indices
      BY <1>3, Names DEF TypeOK, StoIndexPut, RxControl, InSto
    <2>2. idxq' \in Seq(Indices)
      BY <1>3, <2>1 DEF TypeOK, StoIndexPut, ec_index_put
    <2>3. /\ p_idx' \in [Owners -> Indices \cup {NULL}]
          /\ \A u \in Owners : u # "sto" => p_idx'[u] = p_idx[u]
      BY <1>3, Names DEF TypeOK, StoIndexPut
    <2>4. rx' \in RxStates /\ RxControl'
      BY <1>3, <2>1, RxNextInv DEF StoIndexPut
    <2>5. TypeOK'
      BY <1>3, <2>2, <2>3, <2>4 DEF TypeOK, StoIndexPut
    <2>6. CallerControl' /\ CycleControl' /\ EntryControl'
      BY <1>3, <2>3, Names DEF StoIndexPut, CallerControl, CycleControl, EntryControl, cdg, Cdgs
    <2> QED  BY <2>4, <2>5, <2>6
  <1>4. CASE StoPut
    <2>1. rx.pc = "sto_put" /\ p_entry["sto"] \in Entries
      BY <1>4, Names DEF TypeOK, StoPut, RxControl
    <2>2. q' \in Tq!Links
      BY <1>4, <2>1, InsertType DEF TypeOK, StoPut, pool_put, Heads
    <2>3. /\ p_idx' \in [Owners -> Indices \cup {NULL}]
          /\ p_entry' \in [Owners -> Entries \cup {NULL}] /\ p_entry'["sto"] = NULL
          /\ \A u \in Owners : u # "sto" => p_idx'[u] = p_idx[u] /\ p_entry'[u] = p_entry[u]
      BY <1>4, Names DEF TypeOK, StoPut
    <2>4. rx' \in RxStates /\ RxControl'
      BY <1>4, <2>1, RxNextInv DEF StoPut
    <2>5. TypeOK'
      BY <1>4, <2>2, <2>3, <2>4 DEF TypeOK, StoPut
    <2>6. CallerControl' /\ CycleControl' /\ EntryControl'
      BY <1>4, <2>3, Names DEF StoPut, CallerControl, CycleControl, EntryControl, cdg, Cdgs
    <2> QED  BY <2>4, <2>5, <2>6
  <1> QED  BY <1>1, <1>2, <1>3, <1>4

\* Every step keeps the invariant.
LEMMA NextInv == Inv /\ [Next]_vars => Inv'
  <1> SUFFICES ASSUME Inv, [Next]_vars PROVE Inv'
    OBVIOUS
  <1>1. CASE UNCHANGED vars
    BY <1>1 DEF Inv, TypeOK, CallerControl, CycleControl, RxControl, EntryControl, cdg,
                vars, qvars, evars, hvars, cvars, bounds
  <1>2. ASSUME NEW c \in Clients, TcIndexGet(c) \/ TcWaitTimeout(c) \/ Tc(c)
        PROVE  Inv'
    BY <1>2, CallerMoves, CallerTakes DEF Tc
  <1>3. CASE Rx
    BY <1>3, RxFrameInv, CallbackInv, StoInv DEF Rx
  <1> QED  BY <1>1, <1>2, <1>3, TxInv, CycInv, OutsideInv DEF Next

\* Type correctness, with what it needs to know about the control.
LEMMA Invariant == Spec => []Inv
  BY InitInv, NextInv, PTL DEF Spec

\* Every access of the transport stays in range: no owner enqueues or returns
\* an entry or index it does not have, no semaphore or sent mark is indexed by
\* NULL, and the links of the queues never leave the entries and the heads,
\* also after pool_remove of an entry that is in no queue.
THEOREM TypeCorrect == Spec => []TypeOK
  <1>1. Inv => TypeOK
    BY DEF Inv
  <1> QED  BY <1>1, Invariant, PTL

-----------------------------------------------------------------------------
(* The indices, when the master is not in master clock mode: no datagram   *)
(* then carries an index without an owner.                                 *)
NoReplies == /\ \A e \in Entries : ent[e].cb # "no_reply"
             /\ rx.pc \notin InSto \cup {"iput"}

\* A datagram is allocated with the callback of its sender.
LEMMA PoolGetNoReplies ==
    ASSUME Inv, NoReplies, NEW o, NEW cb, NEW d, cb # "no_reply", pool_get(o, cb, d)
    PROVE  \A e \in Entries : ent'[e].cb # "no_reply"
  <1> DEFINE x == Content(p_idx[o], cb, d)
             e == Tq!TAILQ_FIRST(q, "pool")
  <1>1. x.cb = cb /\ ent' = [ent EXCEPT ![e] = x]
    BY DEF Content, pool_get
  <1> HIDE DEF x, e
  <1> QED  BY <1>1 DEF Inv, TypeOK, NoReplies

\* No step makes a no-reply datagram.
LEMMA NoRepliesKept ==
    ASSUME Inv, NoReplies, MasterClock = FALSE, [Next]_vars
    PROVE  NoReplies'
  <1> USE DEF qvars, evars, hvars, cvars, bounds
  <1>1. CASE UNCHANGED <<ent, rx>>
    BY <1>1 DEF NoReplies
  <1>2. ASSUME NEW c \in Clients, TcPoolGet(c) PROVE NoReplies'
    <2>1. CASE UNCHANGED evars
      BY <1>2, <2>1 DEF TcPoolGet, NoReplies
    <2>2. CASE ~UNCHANGED evars
      <3> DEFINE cb == IF c \in Pingers THEN "anon" ELSE "block"
                 d  == Request(c)
      <3>1. pool_get(c, cb, d) /\ cb # "no_reply" /\ rx' = rx
        BY <1>2, <2>2 DEF TcPoolGet
      <3> HIDE DEF cb, d
      <3> QED  BY <3>1, PoolGetNoReplies DEF NoReplies
    <2> QED  BY <2>1, <2>2
  <1>3. CASE CycPoolGet
    <2>1. CASE UNCHANGED evars
      BY <1>3, <2>1 DEF CycPoolGet, NoReplies
    <2>2. CASE ~UNCHANGED evars
      <3> DEFINE d  == Datagram(p_idx[cdg], <<cdg, 0>>)
      <3>1. pool_get(cdg, cdg, d) /\ rx' = rx /\ cyc.pc = "pool"
        BY <1>3, <2>2 DEF CycPoolGet
      <3>2. cdg # "no_reply"
        BY <3>1, CdgType, Names DEF Inv, CycleControl, CdgNames
      <3> HIDE DEF d
      <3> QED  BY <3>1, <3>2, PoolGetNoReplies DEF NoReplies
    <2> QED  BY <2>1, <2>2
  <1>4. ASSUME NEW e, NEW d, ent' = [ent EXCEPT ![e] = [ent[e] EXCEPT !.dg = d]]
        PROVE  \A x \in Entries : ent'[x].cb # "no_reply"
    BY <1>4 DEF Inv, TypeOK, Contents, NoReplies
  <1>5. CASE CycEnqueue
    BY <1>4, <1>5 DEF CycEnqueue, NoReplies
  <1>6. CASE cb_block
    <2>1. rx'.pc = "post"
      BY <1>6, RxGoto DEF cb_block
    <2> QED  BY <1>4, <1>6, <2>1 DEF cb_block, NoReplies, InSto
  <1>7. ASSUME rx'.pc \in {"idle", "slot", "clear", "cb"}, UNCHANGED ent PROVE NoReplies'
    BY <1>7 DEF NoReplies, InSto
  <1>8. RxNext => rx'.pc \in {"idle", "slot"}
    BY DEF RxNext
  <1>9. CASE Rx
    <2>1. CASE RxFrame \/ RxSlot
      <3> DEFINE e == tx_send[RxDg.idx]
      <3>1. CASE rx' = [rx EXCEPT !.pc = "clear", !.entry = e] /\ UNCHANGED ent
        <4> HIDE DEF e
        <4> QED  BY <1>7, <3>1 DEF Inv, TypeOK, RxStates
      <3> QED  BY <1>7, <2>1, <3>1 DEF RxFrame, RxSlot
    <2>2. CASE RxClear
      BY <1>7, <1>8, <2>2, RxGoto DEF RxClear
    <2>3. CASE RxPost \/ RxCyclic
      BY <1>7, <1>8, <2>3 DEF RxPost, RxCyclic
    <2>4. CASE cb_no_reply
      BY <2>4 DEF cb_no_reply, Calling, NoReplies, Inv, TypeOK, RxControl, RxStates
    <2>5. CASE RxIndexPut \/ StoPoolGet \/ StoIndexPut \/ StoPut \/ cb_distributed_clocks
      BY <2>5 DEF RxIndexPut, StoPoolGet, StoIndexPut, StoPut, cb_distributed_clocks,
                  NoReplies, InSto
    <2> QED  BY <1>6, <1>9, <2>1, <2>2, <2>3, <2>4, <2>5 DEF Rx
  <1>10. CASE Tx
    BY <1>1, <1>10 DEF Tx, TxPop, TxCopy, TxDone
  <1>11. ASSUME NEW c \in Clients, TcIndexGet(c) \/ TcWaitTimeout(c) \/ Tc(c)
         PROVE  NoReplies'
    BY <1>1, <1>2, <1>11 DEF TcIndexGet, TcWaitTimeout, Tc, TcEnqueue, TcTx, TcWaitOk,
                       TcRemove, TcGiveUp, TcExpired, TcPoolPut, TcIndexPut
  <1>12. CASE Cyc
    BY <1>1, <1>3, <1>5, <1>12 DEF Cyc, CycStart, CycIndexGet, CycIndexPut, CycTx
  <1>13. CASE EnterOp \/ LoseFrame
    BY <1>1, <1>13 DEF EnterOp, LoseFrame
  <1>14. CASE UNCHANGED vars
    BY <1>1, <1>14 DEF vars
  <1> QED  BY <1>9, <1>10, <1>11, <1>12, <1>13, <1>14 DEF Next

\* The only ways an index moves: an owner without one takes the head of the
\* queue, or an owner appends the one it has and forgets it, which the state
\* and dc senders do not do when the pool is empty.
IndexTaken(o)    == p_idx[o] = NULL /\ ec_index_get(o)
IndexReturned(o) == /\ p_idx[o] \in Indices
                    /\ ec_index_put(p_idx[o])
                    /\ p_idx' = [p_idx EXCEPT ![o] = NULL]
IndexKept(o)     == /\ p_idx[o] \in Indices
                    /\ ec_index_put(p_idx[o])
                    /\ p_idx' = p_idx
                    /\ cyc.pc = "iput" /\ cdg \notin Group

LEMMA IndexMoves ==
    ASSUME Inv, NoReplies, MasterClock = FALSE, [Next]_vars
    PROVE  \/ UNCHANGED <<idxq, p_idx>>
           \/ \E o \in Owners : IndexTaken(o) \/ IndexReturned(o) \/ IndexKept(o)
  <1> USE DEF qvars, evars, hvars, cvars, bounds
  <1> DEFINE Goal == \/ UNCHANGED <<idxq, p_idx>>
                     \/ \E o \in Owners : IndexTaken(o) \/ IndexReturned(o) \/ IndexKept(o)
  <1>1. ASSUME NEW c \in Clients, TcIndexGet(c) \/ TcWaitTimeout(c) \/ Tc(c)
        PROVE  Goal
    <2>1. CASE TcIndexGet(c)
      BY <2>1, Names DEF TcIndexGet, IndexTaken, Inv, CallerControl
    <2>2. CASE TcIndexPut(c)
      BY <2>2, Names DEF TcIndexPut, IndexReturned, Inv, CallerControl, TypeOK
    <2> QED  BY <1>1, <2>1, <2>2 DEF TcWaitTimeout, Tc, TcPoolGet, TcEnqueue, TcTx, TcWaitOk,
                       TcRemove, TcGiveUp, TcExpired, TcPoolPut
  <1>2. CASE Tx
    BY <1>2 DEF Tx, TxPop, TxCopy, TxDone
  <1>3. CASE Cyc
    <2>1. cyc.pc \in {"lock", "iput"} => cdg \in Owners
      BY CdgType, Names DEF Inv, CycleControl
    <2>2. CASE CycIndexGet
      BY <2>1, <2>2 DEF CycIndexGet, IndexTaken
    <2>3. CASE CycIndexPut
      <3>1. p_idx[cdg] \in Indices /\ cyc.pc = "iput"
        BY <2>1, <2>3 DEF CycIndexPut, Inv, TypeOK, CycleControl
      <3> QED  BY <2>1, <2>3, <3>1 DEF CycIndexPut, IndexReturned, IndexKept
    <2> QED  BY <1>3, <2>2, <2>3 DEF Cyc, CycStart, CycPoolGet, CycEnqueue, CycTx
  <1>4. CASE Rx
    <2>1. ~(RxIndexPut \/ StoIndexPut \/ StoPut \/ cb_distributed_clocks)
      BY DEF RxIndexPut, StoIndexPut, StoPut, cb_distributed_clocks, NoReplies, InSto
    <2> QED  BY <1>4, <2>1 DEF Rx, RxFrame, RxSlot, RxClear, cb_block, RxPost, cb_no_reply,
                               RxCyclic, StoPoolGet
  <1>5. CASE EnterOp \/ LoseFrame \/ UNCHANGED vars
    BY <1>5 DEF EnterOp, LoseFrame, vars
  <1> QED  BY <1>1, <1>2, <1>3, <1>4, <1>5 DEF Next

-----------------------------------------------------------------------------
\* No index is lost: it is in the queue or somebody has it.
NoneLost == \A i \in Indices : i \in Elems(idxq) \/ \E o \in Owners : p_idx[o] = i

\* Nobody has an index that is in the queue or that somebody else has.
Apart == /\ Distinct(idxq)
         /\ \A o \in Owners : p_idx[o] # NULL => p_idx[o] \notin Elems(idxq)
         /\ \A o, u \in Owners : o # u /\ p_idx[o] # NULL => p_idx[o] # p_idx[u]

\* The two in the terms of Transport.
LEMMA IndexForms == (NoneLost => NoIndexLost) /\ (Apart => IndexOwnership)
  BY DEF NoneLost, NoIndexLost, Apart, IndexOwnership, Free, Elems, Distinct

\* The queue of free indices after a move.
LEMMA QueueMoves ==
    ASSUME Inv, NEW o \in Owners
    PROVE  /\ IndexTaken(o) =>
                /\ p_idx' = [p_idx EXCEPT ![o] = Head(idxq)] /\ p_idx[o] = NULL
                /\ Head(idxq) \in Elems(idxq) /\ Elems(idxq) = Elems(idxq') \cup {Head(idxq)}
                /\ Distinct(idxq) => Distinct(idxq') /\ Elems(idxq') = Elems(idxq) \ {Head(idxq)}
           /\ IndexReturned(o) \/ IndexKept(o) =>
                /\ Elems(idxq') = Elems(idxq) \cup {p_idx[o]}
                /\ Distinct(idxq) /\ p_idx[o] \notin Elems(idxq) => Distinct(idxq')
  <1>1. idxq \in Seq(Indices)
    BY DEF Inv, TypeOK
  <1>2. ASSUME IndexTaken(o)
        PROVE  /\ p_idx' = [p_idx EXCEPT ![o] = Head(idxq)] /\ p_idx[o] = NULL
               /\ Head(idxq) \in Elems(idxq) /\ Elems(idxq) = Elems(idxq') \cup {Head(idxq)}
               /\ Distinct(idxq) => Distinct(idxq') /\ Elems(idxq') = Elems(idxq) \ {Head(idxq)}
    <2>1. /\ idxq # <<>> /\ idxq' = Tail(idxq) /\ p_idx[o] = NULL
          /\ p_idx' = [p_idx EXCEPT ![o] = Head(idxq)]
      BY <1>2 DEF IndexTaken, ec_index_get
    <2>2. Elems(idxq) = Elems(Tail(idxq)) \cup {Head(idxq)}
      BY <1>1, <2>1, ElemsOf
    <2>3. Distinct(idxq) =>
            Distinct(Tail(idxq)) /\ Elems(Tail(idxq)) = Elems(idxq) \ {Head(idxq)}
      BY <1>1, <2>1, HeadTaken
    <2> QED  BY <2>1, <2>2, <2>3
  <1>3. ASSUME IndexReturned(o) \/ IndexKept(o)
        PROVE  /\ Elems(idxq') = Elems(idxq) \cup {p_idx[o]}
               /\ Distinct(idxq) /\ p_idx[o] \notin Elems(idxq) => Distinct(idxq')
    <2>1. idxq' = Append(idxq, p_idx[o]) /\ p_idx[o] \in Indices
      BY <1>3 DEF IndexReturned, IndexKept, ec_index_put
    <2>2. Elems(Append(idxq, p_idx[o])) = Elems(idxq) \cup {p_idx[o]}
      BY <1>1, <2>1, ElemsOf
    <2>3. Distinct(idxq) /\ p_idx[o] \notin Elems(idxq) => Distinct(Append(idxq, p_idx[o]))
      BY <1>1, <2>1, Put
    <2> QED  BY <2>1, <2>2, <2>3
  <1> QED  BY <1>2, <1>3

\* Primed, Elems and Distinct are those of the new queue.
LEMMA PrimedQueue == Elems(idxq)' = Elems(idxq') /\ (Distinct(idxq))' = Distinct(idxq')
  BY DEF Elems, Distinct

\* Every move of an index keeps it.
LEMMA NoneLostKept ==
    ASSUME Inv, NoReplies, NoneLost, MasterClock = FALSE, [Next]_vars
    PROVE  NoneLost'
  <1>1. CASE UNCHANGED <<idxq, p_idx>>
    BY <1>1 DEF NoneLost, Elems
  <1>2. ASSUME NEW o \in Owners, IndexTaken(o) \/ IndexReturned(o) \/ IndexKept(o),
               NEW i \in Indices
        PROVE  i \in Elems(idxq') \/ \E u \in Owners : p_idx'[u] = i
    <2>1. CASE IndexTaken(o)
      <3>1. /\ p_idx[o] = NULL /\ Elems(idxq) = Elems(idxq') \cup {Head(idxq)}
            /\ p_idx' = [p_idx EXCEPT ![o] = Head(idxq)]
        BY <1>2, <2>1, QueueMoves
      <3>2. p_idx'[o] = Head(idxq) /\ \A u \in Owners : u # o => p_idx'[u] = p_idx[u]
        BY <1>2, <3>1 DEF Inv, TypeOK
      <3> QED  BY <1>2, <3>1, <3>2, TransportAssumption DEF NoneLost
    <2>2. CASE IndexReturned(o)
      <3>1. Elems(idxq') = Elems(idxq) \cup {p_idx[o]}
        BY <1>2, <2>2, QueueMoves
      <3>2. \A u \in Owners : u # o => p_idx'[u] = p_idx[u]
        BY <1>2, <2>2 DEF Inv, TypeOK, IndexReturned
      <3> QED  BY <1>2, <3>1, <3>2 DEF NoneLost
    <2>3. CASE IndexKept(o)
      BY <1>2, <2>3, QueueMoves DEF NoneLost, IndexKept
    <2> QED  BY <1>2, <2>1, <2>2, <2>3
  <1> QED  BY <1>1, <1>2, IndexMoves, PrimedQueue DEF NoneLost

\* The state and dc senders find an entry whenever they need one.
ClockHasEntry == cyc.pc = "iput" => cdg \in Group

\* Every move of an index leaves it with one owner.
LEMMA ApartKept ==
    ASSUME Inv, NoReplies, Apart, ClockHasEntry, MasterClock = FALSE, [Next]_vars
    PROVE  Apart'
  <1>1. CASE UNCHANGED <<idxq, p_idx>>
    BY <1>1 DEF Apart, Elems, Distinct
  <1>2. ASSUME NEW o \in Owners, IndexTaken(o) \/ IndexReturned(o)
        PROVE  Apart'
    <2>1. CASE IndexTaken(o)
      <3>1. Distinct(idxq') /\ Elems(idxq') = Elems(idxq) \ {Head(idxq)}
        BY <1>2, <2>1, QueueMoves DEF Apart
      <3>2. /\ p_idx'[o] = Head(idxq) /\ Head(idxq) \in Elems(idxq)
            /\ \A u \in Owners : u # o => p_idx'[u] = p_idx[u]
        BY <1>2, <2>1, QueueMoves DEF Inv, TypeOK
      <3> QED  BY <1>2, <3>1, <3>2, PrimedQueue DEF Apart
    <2>2. CASE IndexReturned(o)
      <3>1. p_idx[o] # NULL
        BY <2>2, TransportAssumption DEF IndexReturned
      <3>2. Distinct(idxq') /\ Elems(idxq') = Elems(idxq) \cup {p_idx[o]}
        BY <1>2, <2>2, <3>1, QueueMoves DEF Apart
      <3>3. p_idx'[o] = NULL /\ \A u \in Owners : u # o => p_idx'[u] = p_idx[u]
        BY <1>2, <2>2 DEF Inv, TypeOK, IndexReturned
      <3> QED  BY <1>2, <3>1, <3>2, <3>3, PrimedQueue DEF Apart
    <2> QED  BY <1>2, <2>1, <2>2
  <1>3. \A o \in Owners : ~IndexKept(o)
    BY DEF IndexKept, ClockHasEntry
  <1> QED  BY <1>1, <1>2, <1>3, IndexMoves

\* ec_index_init.
LEMMA InitIndices == Init => NoReplies /\ NoneLost /\ Apart
  <1> SUFFICES ASSUME Init PROVE NoReplies /\ NoneLost /\ Apart
    OBVIOUS
  <1>1. Distinct(idxq) /\ Elems(idxq) = Indices
    BY FullQueue, TransportAssumption DEF Init
  <1>2. NoneLost /\ Apart
    BY <1>1 DEF NoneLost, Apart, Init
  <1>3. Zeroed.cb = NULL
    BY DEF Zeroed, Content
  <1>4. NoReplies
    BY <1>3, TransportAssumption DEF NoReplies, Init, InSto
  <1> QED  BY <1>2, <1>4

\* No error path of ec_transceive, of get_packet_duration or of a cyclic sender
\* loses an index, whatever is lost, late or exhausted, unless the master is
\* in master clock mode (there a lost no-reply datagram takes its index along).
THEOREM IndicesKept ==
    ASSUME MasterClock = FALSE
    PROVE  Spec => []NoIndexLost
  <1>1. Inv /\ NoReplies /\ [Next]_vars => NoReplies'
    BY NoRepliesKept
  <1>2. Inv /\ NoReplies /\ NoneLost /\ [Next]_vars => NoneLost'
    BY NoneLostKept
  <1>3. Spec => []NoneLost
    BY <1>1, <1>2, InitIndices, Invariant, PTL DEF Spec
  <1>4. NoneLost => NoIndexLost
    BY IndexForms
  <1> QED  BY <1>3, <1>4, PTL

\* An index has one owner at a time, for any number of callers, indices and
\* entries and any wire, outside master clock mode, as long as the dc and the
\* state sender never find the pool empty (then they return the index and keep
\* using it).
THEOREM IndicesOwned ==
    ASSUME MasterClock = FALSE
    PROVE  Spec /\ []ClockHasEntry => []IndexOwnership
  <1>1. Inv /\ NoReplies /\ [Next]_vars => NoReplies'
    BY NoRepliesKept
  <1>2. Inv /\ NoReplies /\ Apart /\ ClockHasEntry /\ [Next]_vars => Apart'
    BY ApartKept
  <1>3. Spec /\ []ClockHasEntry => []Apart
    BY <1>1, <1>2, InitIndices, Invariant, PTL DEF Spec
  <1>4. Apart => IndexOwnership
    BY IndexForms
  <1> QED  BY <1>3, <1>4, PTL

-----------------------------------------------------------------------------
(* The entry queues.  What TAILQ_INSERT_TAIL and TAILQ_REMOVE do to their  *)
(* pointers is what putting and taking an element does to sequences, as    *)
(* long as the entry put is in no queue and the one removed is the first.  *)

\* Following the links of a queue from its head finds its entries.
LEMMA WalkIs ==
    ASSUME NEW l \in Tq!Links, NEW h \in Heads, NEW s \in Seq(Entries), Tq!IsQueue(l, h, s),
           NEW n \in Nat, Len(s) <= n
    PROVE  Tq!Walk(l, h, n) = s
<1> DEFINE F(g) == [k \in 0 .. n |-> IF k = 0 THEN l.cell[h]
                                     ELSE IF g[k - 1] = NULL THEN NULL ELSE l.cell[g[k - 1]]]
           g == [k \in 0 .. n |-> IF k < Len(s) THEN s[k + 1] ELSE NULL]
           f == CHOOSE x : x = F(x)
           at(k) == IF k = 0 THEN h ELSE s[k]
<1>1. /\ \A k \in 1 .. Len(s) : l.cell[at(k - 1)] = s[k] /\ s[k] \in Entries
      /\ l.cell[at(Len(s))] = NULL /\ Len(s) \in Nat
  BY DEF Tq!IsQueue
<1>2. ASSUME NEW k \in 0 .. n PROVE g[k] = F(g)[k]
  <2>1. CASE k = 0
    <3>1. CASE Len(s) = 0
      BY <1>1, <2>1, <3>1
    <3>2. CASE Len(s) # 0
      <4>1. 1 \in 1 .. Len(s)
        BY <1>1, <3>2
      <4> QED  BY <1>1, <2>1, <3>2, <4>1
    <3> QED  BY <3>1, <3>2
  <2>2. CASE k # 0 /\ k - 1 < Len(s)
    <3>1. k \in 1 .. Len(s) /\ k - 1 \in 0 .. n /\ g[k - 1] = s[k] /\ s[k] # NULL
      BY <1>1, <2>2, TransportAssumption
    <3>2. F(g)[k] = l.cell[s[k]]
      BY <2>2, <3>1
    <3>3. CASE k < Len(s)
      <4>1. k + 1 \in 1 .. Len(s) /\ at((k + 1) - 1) = s[k]
        BY <1>1, <3>1, <3>3
      <4>2. l.cell[s[k]] = s[k + 1]
        BY <1>1, <4>1
      <4> QED  BY <3>2, <3>3, <4>2
    <3>4. CASE ~(k < Len(s))
      <4>1. k = Len(s) /\ at(Len(s)) = s[k]
        BY <1>1, <3>1, <3>4
      <4> QED  BY <1>1, <3>2, <3>4, <4>1
    <3> QED  BY <3>3, <3>4
  <2>3. CASE k # 0 /\ ~(k - 1 < Len(s))
    <3>1. k - 1 \in 0 .. n /\ g[k - 1] = NULL /\ ~(k < Len(s))
      BY <1>1, <2>3
    <3> QED  BY <2>3, <3>1
  <2> QED  BY <2>1, <2>2, <2>3
<1>3. g = F(g)
  <2>1. DOMAIN g = 0 .. n /\ DOMAIN F(g) = 0 .. n /\ g = [k \in 0 .. n |-> g[k]] /\ F(g) = [k \in 0 .. n |-> F(g)[k]]
    OBVIOUS
  <2> QED  BY <1>2, <2>1
<1>4. f = F(f)
  <2> HIDE DEF F, g
  <2> QED  BY <1>3
<1>5. \A k \in 0 .. n : f[k] = g[k]
  <2> DEFINE T == {k \in 0 .. n : f[k] # g[k]}
  <2> SUFFICES ASSUME T # {} PROVE FALSE
    OBVIOUS
  <2>1. PICK k \in T : \A m \in T : k <= m
    <3>1. T \subseteq Nat
      OBVIOUS
    <3> HIDE DEF T
    <3> QED  BY <3>1, LeastOf
  <2> HIDE DEF f, g
  <2>2. f[k] = F(f)[k] /\ g[k] = F(g)[k]
    BY <1>3, <1>4
  <2>3. k # 0 => f[k - 1] = g[k - 1]
    BY <2>1
  <2>4. k \in 0 .. n
    OBVIOUS
  <2>5. F(f)[k] = F(g)[k]
    BY <2>3, <2>4
  <2> QED  BY <2>2, <2>5, <2>1
<1>6. {j \in 1 .. n + 1 : f[j - 1] # NULL} = 1 .. Len(s)
  <2>1. \A j \in 0 .. n : g[j] # NULL <=> j < Len(s)
    BY <1>1, TransportAssumption
  <2> HIDE DEF f, g
  <2>2. ASSUME NEW j \in 1 .. n + 1 PROVE f[j - 1] # NULL <=> j <= Len(s)
    <3>1. j - 1 \in 0 .. n
      OBVIOUS
    <3>2. f[j - 1] = g[j - 1] /\ (g[j - 1] # NULL <=> j - 1 < Len(s))
      BY <1>5, <2>1, <3>1
    <3> QED  BY <1>1, <3>1, <3>2
  <2> QED  BY <1>1, <2>2
<1>7. Tq!Walk(l, h, n) = [k \in {j \in 1 .. n + 1 : f[j - 1] # NULL} |-> f[k - 1]]
  BY DEF Tq!Walk
<1>8. [k \in 1 .. Len(s) |-> f[k - 1]] = s
  <2>1. \A k \in 1 .. Len(s) : k - 1 \in 0 .. n /\ g[k - 1] = s[k]
    BY <1>1
  <2>2. s = [k \in 1 .. Len(s) |-> s[k]]
    OBVIOUS
  <2> HIDE DEF f, g
  <2>3. \A k \in 1 .. Len(s) : f[k - 1] = s[k]
    <3> TAKE k \in 1 .. Len(s)
    <3>1. k - 1 \in 0 .. n
      BY <2>1
    <3> QED  BY <1>5, <2>1, <3>1
  <2> QED  BY <2>2, <2>3
<1> HIDE DEF f
<1> QED  BY <1>6, <1>7, <1>8

\* The cell behind which the element at place k + 1 hangs.
At(h, s, k) == IF k = 0 THEN h ELSE s[k]

\* The queues hold the sequences Q, and every entry is in them once at most.
Linked(l, Q) ==
    /\ l \in Tq!Links /\ DOMAIN Q = Heads
    /\ \A h \in Heads : Q[h] \in Seq(Entries) /\ Tq!IsQueue(l, h, Q[h])
    /\ \A g, h \in Heads : \A j \in 1 .. Len(Q[g]), k \in 1 .. Len(Q[h]) :
          Q[g][j] = Q[h][k] => g = h /\ j = k

LEMMA LinkedIs ==
    ASSUME NEW l, NEW Q, Linked(l, Q)
    PROVE  /\ l.cell \in [Heads \cup Entries -> Entries \cup {NULL}]
           /\ l.last \in [Heads -> Heads \cup Entries] /\ l.prev \in [Entries -> Heads \cup Entries]
           /\ l = [cell |-> l.cell, last |-> l.last, prev |-> l.prev]
           /\ \A h \in Heads :
                 /\ Len(Q[h]) \in Nat /\ Distinct(Q[h]) /\ Q[h] \in Seq(Entries)
                 /\ \A k \in 1 .. Len(Q[h]) : /\ Q[h][k] \in Entries \ Heads
                                              /\ l.cell[At(h, Q[h], k - 1)] = Q[h][k]
                                              /\ l.prev[Q[h][k]] = At(h, Q[h], k - 1)
                 /\ l.cell[At(h, Q[h], Len(Q[h]))] = NULL
                 /\ l.last[h] = At(h, Q[h], Len(Q[h]))
           /\ \A g, h \in Heads : \A j \in 0 .. Len(Q[g]), k \in 0 .. Len(Q[h]) :
                 At(g, Q[g], j) = At(h, Q[h], k) => g = h /\ j = k
<1>1. ASSUME NEW h \in Heads
      PROVE  /\ Len(Q[h]) \in Nat /\ Distinct(Q[h]) /\ Q[h] \in Seq(Entries)
             /\ \A k \in 1 .. Len(Q[h]) : Q[h][k] \in Entries \ Heads
  BY TransportAssumption DEF Linked, Distinct
<1>2. ASSUME NEW h \in Heads
      PROVE  /\ \A k \in 1 .. Len(Q[h]) : /\ l.cell[At(h, Q[h], k - 1)] = Q[h][k]
                                          /\ l.prev[Q[h][k]] = At(h, Q[h], k - 1)
             /\ l.cell[At(h, Q[h], Len(Q[h]))] = NULL
             /\ l.last[h] = At(h, Q[h], Len(Q[h]))
  BY DEF Linked, Tq!IsQueue, At
<1>3. ASSUME NEW g \in Heads, NEW h \in Heads, NEW j \in 0 .. Len(Q[g]), NEW k \in 0 .. Len(Q[h]),
             At(g, Q[g], j) = At(h, Q[h], k)
      PROVE  g = h /\ j = k
  <2>1. CASE j = 0 \/ k = 0
    BY <1>1, <1>3, <2>1 DEF At
  <2>2. CASE j # 0 /\ k # 0
    <3>1. j \in 1 .. Len(Q[g]) /\ k \in 1 .. Len(Q[h]) /\ Q[g][j] = Q[h][k]
      BY <1>1, <1>3, <2>2 DEF At
    <3> QED  BY <3>1 DEF Linked
  <2> QED  BY <2>1, <2>2
<1>4. /\ l.cell \in [Heads \cup Entries -> Entries \cup {NULL}]
      /\ l.last \in [Heads -> Heads \cup Entries] /\ l.prev \in [Entries -> Heads \cup Entries]
      /\ l = [cell |-> l.cell, last |-> l.last, prev |-> l.prev]
  BY DEF Linked, Tq!Links, Tq!Cells
<1> QED  BY <1>1, <1>2, <1>3, <1>4

\* TAILQ_INSERT_TAIL of an entry that is in no queue.
LEMMA PutLinked ==
    ASSUME NEW l, NEW Q, Linked(l, Q), NEW h \in Heads, NEW e \in Entries,
           \A g \in Heads : e \notin Elems(Q[g])
    PROVE  LET m == Tq!TAILQ_INSERT_TAIL(l, h, e)
           IN  /\ Linked(m, [Q EXCEPT ![h] = Append(@, e)])
               /\ \A x \in Entries : x # e /\ x \notin Elems(Q[h]) =>
                     m.cell[x] = l.cell[x] /\ m.prev[x] = l.prev[x]
               /\ Q[h] = <<>> => m.prev[e] = h /\ m.cell[e] = NULL
<1> DEFINE m == Tq!TAILQ_INSERT_TAIL(l, h, e)
           z == l.last[h]
           n == Len(Q[h])
           t == Append(Q[h], e)
           R == [Q EXCEPT ![h] = t]
<1>1. /\ m = [cell |-> [l.cell EXCEPT ![e] = NULL, ![z] = e], last |-> [l.last EXCEPT ![h] = e],
              prev |-> [l.prev EXCEPT ![e] = z]]
  BY DEF Tq!TAILQ_INSERT_TAIL
<1>2. /\ n \in Nat /\ z = At(h, Q[h], n) /\ e \notin Heads /\ z # e /\ z \in Heads \cup Entries
      /\ \A g \in Heads : \A k \in 0 .. Len(Q[g]) : At(g, Q[g], k) # e /\ At(g, Q[g], k) \in Heads \cup Entries
  <2>1. \A g \in Heads : \A k \in 0 .. Len(Q[g]) : At(g, Q[g], k) # e /\ At(g, Q[g], k) \in Heads \cup Entries
    <3> TAKE g \in Heads
    <3> TAKE k \in 0 .. Len(Q[g])
    <3>1. CASE k = 0
      BY <3>1, TransportAssumption DEF At
    <3>2. CASE k # 0
      <4>1. k \in 1 .. Len(Q[g]) /\ Q[g][k] \in Elems(Q[g]) /\ Q[g][k] \in Entries
        BY <3>2, LinkedIs DEF Elems
      <4> QED  BY <3>2, <4>1 DEF At
    <3> QED  BY <3>1, <3>2
  <2>2. n \in Nat /\ z = At(h, Q[h], n) /\ n \in 0 .. Len(Q[h])
    BY LinkedIs
  <2> QED  BY <2>1, <2>2, TransportAssumption
<1>3. /\ m.cell \in [Heads \cup Entries -> Entries \cup {NULL}]
      /\ m.last \in [Heads -> Heads \cup Entries] /\ m.prev \in [Entries -> Heads \cup Entries]
      /\ m.cell[z] = e /\ m.cell[e] = NULL /\ m.last[h] = e /\ m.prev[e] = z
      /\ \A x \in Heads \cup Entries : x # z /\ x # e => m.cell[x] = l.cell[x]
      /\ \A g \in Heads : g # h => m.last[g] = l.last[g]
      /\ \A x \in Entries : x # e => m.prev[x] = l.prev[x]
      /\ m \in Tq!Links
  <2> HIDE DEF m, z
  <2>1. /\ l.cell \in [Heads \cup Entries -> Entries \cup {NULL}] /\ l.last \in [Heads -> Heads \cup Entries]
        /\ l.prev \in [Entries -> Heads \cup Entries]
    BY LinkedIs
  <2>2. /\ m.cell = [l.cell EXCEPT ![e] = NULL, ![z] = e] /\ m.last = [l.last EXCEPT ![h] = e]
        /\ m.prev = [l.prev EXCEPT ![e] = z]
    BY <1>1
  <2>3. m \in Tq!Links
    BY <2>1, <2>2, <1>1, <1>2 DEF Tq!Links, Tq!Cells
  <2> QED  BY <2>1, <2>2, <2>3, <1>2
<1>4. /\ t \in Seq(Entries) /\ Len(t) = n + 1 /\ t[n + 1] = e /\ \A k \in 1 .. n : t[k] = Q[h][k]
      /\ R[h] = t /\ DOMAIN R = Heads /\ \A g \in Heads : g # h => R[g] = Q[g]
  BY <1>2, LinkedIs DEF Linked
<1> HIDE DEF m, z, t, R
<1>5. ASSUME NEW g \in Heads PROVE R[g] \in Seq(Entries) /\ Tq!IsQueue(m, g, R[g])
  <2>1. CASE g # h
    <3>1. ASSUME NEW k \in 0 .. Len(Q[g])
          PROVE  m.cell[At(g, Q[g], k)] = l.cell[At(g, Q[g], k)]
      <4>1. At(g, Q[g], k) # z
        BY <1>2, <2>1, LinkedIs
      <4> QED  BY <1>2, <1>3, <4>1
    <3>2. \A k \in 1 .. Len(Q[g]) : k - 1 \in 0 .. Len(Q[g]) /\ k \in 0 .. Len(Q[g])
      BY LinkedIs
    <3>3. ASSUME NEW k \in 1 .. Len(Q[g])
          PROVE  m.cell[At(g, Q[g], k - 1)] = Q[g][k] /\ m.prev[Q[g][k]] = At(g, Q[g], k - 1)
      <4>1. Q[g][k] # e /\ Q[g][k] \in Entries
        BY LinkedIs DEF Elems
      <4>2. l.cell[At(g, Q[g], k - 1)] = Q[g][k] /\ l.prev[Q[g][k]] = At(g, Q[g], k - 1)
        BY LinkedIs
      <4> QED  BY <1>3, <3>1, <3>2, <4>1, <4>2
    <3>4. m.cell[At(g, Q[g], Len(Q[g]))] = NULL /\ m.last[g] = At(g, Q[g], Len(Q[g]))
      BY <1>3, <2>1, <3>1, LinkedIs
    <3> QED  BY <1>4, <2>1, <3>3, <3>4, LinkedIs DEF Tq!IsQueue, At
  <2>2. CASE g = h
    <3>1. \A k \in 0 .. n : At(h, t, k) = At(h, Q[h], k)
      BY <1>2, <1>4 DEF At
    <3>2. At(h, t, n + 1) = e
      BY <1>2, <1>4 DEF At
    <3>3. ASSUME NEW k \in 1 .. n + 1
          PROVE  m.cell[At(h, t, k - 1)] = t[k] /\ m.prev[t[k]] = At(h, t, k - 1)
      <4>1. CASE k = n + 1
        BY <1>2, <1>3, <1>4, <3>1, <4>1
      <4>2. CASE k # n + 1
        <5>1. k \in 1 .. n /\ k - 1 \in 0 .. n /\ n \in 0 .. n /\ k - 1 # n
          BY <1>2, <4>2
        <5>2. At(h, Q[h], k - 1) # z
          BY <1>2, <5>1, LinkedIs, SMTT(30)
        <5>3. m.cell[At(h, Q[h], k - 1)] = l.cell[At(h, Q[h], k - 1)]
          BY <1>2, <1>3, <5>1, <5>2
        <5>4. l.cell[At(h, Q[h], k - 1)] = Q[h][k] /\ l.prev[Q[h][k]] = At(h, Q[h], k - 1)
          BY <5>1, LinkedIs
        <5>5. Q[h][k] # e /\ Q[h][k] \in Entries
          BY <5>1, LinkedIs DEF Elems
        <5> QED  BY <1>3, <1>4, <3>1, <5>1, <5>3, <5>4, <5>5
      <4> QED  BY <4>1, <4>2
    <3> QED  BY <1>3, <1>4, <2>2, <3>2, <3>3 DEF Tq!IsQueue, At
  <2> QED  BY <2>1, <2>2
<1>6. ASSUME NEW f \in Heads, NEW g \in Heads, NEW j \in 1 .. Len(R[f]), NEW k \in 1 .. Len(R[g]),
             R[f][j] = R[g][k]
      PROVE  f = g /\ j = k
  <2>1. ASSUME NEW x \in Heads, NEW i \in 1 .. Len(R[x])
        PROVE  \/ x = h /\ i = n + 1 /\ R[x][i] = e
               \/ i \in 1 .. Len(Q[x]) /\ R[x][i] = Q[x][i] /\ Q[x][i] # e
    <3>1. CASE x = h /\ i = n + 1
      BY <1>4, <3>1
    <3>2. CASE ~(x = h /\ i = n + 1)
      <4>1. i \in 1 .. Len(Q[x]) /\ R[x][i] = Q[x][i]
        BY <1>2, <1>4, <3>2
      <4> QED  BY <4>1 DEF Elems
    <3> QED  BY <3>1, <3>2
  <2>2. \/ f = h /\ j = n + 1 /\ R[f][j] = e
        \/ j \in 1 .. Len(Q[f]) /\ R[f][j] = Q[f][j] /\ Q[f][j] # e
    BY <2>1
  <2>3. \/ g = h /\ k = n + 1 /\ R[g][k] = e
        \/ k \in 1 .. Len(Q[g]) /\ R[g][k] = Q[g][k] /\ Q[g][k] # e
    BY <2>1
  <2> QED  BY <1>6, <2>2, <2>3 DEF Linked
<1>7. Linked(m, R)
  BY <1>3, <1>4, <1>5, <1>6 DEF Linked
<1>8. ASSUME NEW x \in Entries, x # e, x \notin Elems(Q[h])
      PROVE  m.cell[x] = l.cell[x] /\ m.prev[x] = l.prev[x]
  <2>1. x # z
    <3>1. CASE n = 0
      BY <1>2, <3>1, TransportAssumption DEF At
    <3>2. CASE n # 0
      <4>1. z = Q[h][n] /\ n \in 1 .. Len(Q[h])
        BY <1>2, <3>2 DEF At
      <4> QED  BY <1>8, <4>1 DEF Elems
    <3> QED  BY <3>1, <3>2
  <2> QED  BY <1>3, <1>8, <2>1
<1>9. Q[h] = <<>> => m.prev[e] = h /\ m.cell[e] = NULL
  BY <1>2, <1>3 DEF At
<1> QED  BY <1>7, <1>8, <1>9 DEF m, R, t

\* SecondPlace in a queue of at least two entries.
LEMMA SecondPlace ==
    ASSUME NEW n \in Nat, n # 0
    PROVE  /\ n # 1 => 2 \in 1 .. n /\ n - 1 \in 1 .. n - 1 /\ (n - 1) + 1 = n
           /\ \A k \in 1 .. n - 1 : k # 1 =>
                 /\ k - 1 \in 1 .. n - 1 /\ k + 1 \in 1 .. n /\ 2 \in 1 .. n
                 /\ (k + 1) - 1 = (k - 1) + 1 /\ k + 1 # 2 /\ n # 1
  OBVIOUS

\* TAILQ_REMOVE of the first entry of a queue.
LEMMA TakeLinked ==
    ASSUME NEW l, NEW Q, Linked(l, Q), NEW h \in Heads, NEW e \in Entries,
           Tq!TAILQ_FIRST(l, h) = e
    PROVE  LET m == Tq!TAILQ_REMOVE(l, h, e)
           IN  /\ Linked(m, [Q EXCEPT ![h] = Tail(@)])
               /\ Q[h] # <<>> /\ Head(Q[h]) = e
               /\ \A x \in Entries : m.cell[x] = l.cell[x]
               /\ \A x \in Entries : x \notin Elems(Q[h]) => m.prev[x] = l.prev[x]
               /\ m.prev[e] = l.prev[e]
<1> DEFINE m    == Tq!TAILQ_REMOVE(l, h, e)
           next == l.cell[e]
           n    == Len(Q[h])
           t    == Tail(Q[h])
           R    == [Q EXCEPT ![h] = t]
<1>1. n \in Nat /\ n # 0 /\ n = Len(Q[h]) /\ Q[h][1] = e /\ l.prev[e] = h /\ e \notin Heads /\ 1 \in 1 .. n
  <2>1. n \in Nat /\ l.cell[h] = e /\ e # NULL
    BY LinkedIs, TransportAssumption DEF Tq!TAILQ_FIRST
  <2>2. n # 0
    BY <2>1, LinkedIs DEF At
  <2>3. 1 \in 1 .. n /\ At(h, Q[h], 1 - 1) = h
    BY <2>1, <2>2 DEF At
  <2> QED  BY <2>1, <2>2, <2>3, LinkedIs
<1>2. Q[h] # <<>> /\ Head(Q[h]) = e
  BY <1>1, LinkedIs
<1>0. n # 1 => 2 \in 1 .. n
  <2> HIDE DEF n
  <2> QED  BY <1>1, SecondPlace
<1>3. /\ t \in Seq(Entries) /\ Len(t) = n - 1 /\ \A k \in 1 .. n - 1 : t[k] = Q[h][k + 1]
      /\ R[h] = t /\ DOMAIN R = Heads /\ \A g \in Heads : g # h => R[g] = Q[g]
  BY <1>1, <1>2, LinkedIs DEF Linked
<1>4. next = IF n = 1 THEN NULL ELSE Q[h][2]
  <2>1. CASE n = 1
    BY <1>1, <2>1, LinkedIs DEF At
  <2>2. CASE n # 1
    <3>1. At(h, Q[h], 2 - 1) = e
      BY <1>1, <2>2 DEF At
    <3> QED  BY <1>0, <2>2, <3>1, LinkedIs, SMTT(30)
  <2> QED  BY <2>1, <2>2
<1>5. n # 1 => Q[h][2] \in Entries /\ Q[h][2] # NULL /\ Q[h][2] # e
  <2> SUFFICES ASSUME n # 1 PROVE Q[h][2] \in Entries /\ Q[h][2] # NULL /\ Q[h][2] # e
    OBVIOUS
  <2>1. 2 \in 1 .. Len(Q[h]) /\ 1 \in 1 .. Len(Q[h])
    BY <1>0, <1>1
  <2>2. Distinct(Q[h]) /\ Q[h][2] \in Entries
    BY <2>1, LinkedIs
  <2> HIDE DEF n
  <2>3. Q[h][2] # Q[h][1]
    BY <2>1, <2>2 DEF Distinct
  <2> QED  BY <1>1, <2>2, <2>3, TransportAssumption
<1>6. /\ m.cell = [l.cell EXCEPT ![h] = next]
      /\ m.last = IF next = NULL THEN [l.last EXCEPT ![h] = h] ELSE l.last
      /\ m.prev = IF next = NULL THEN l.prev ELSE [l.prev EXCEPT ![next] = h]
      /\ m = [cell |-> m.cell, last |-> m.last, prev |-> m.prev]
  BY <1>1 DEF Tq!TAILQ_REMOVE
<1> HIDE DEF m, next, t, R
<1>7. /\ m.cell[h] = next /\ \A x \in Heads \cup Entries : x # h => m.cell[x] = l.cell[x]
      /\ m.last[h] = (IF n = 1 THEN h ELSE l.last[h]) /\ \A g \in Heads : g # h => m.last[g] = l.last[g]
      /\ n # 1 => m.prev[Q[h][2]] = h
      /\ \A x \in Entries : (n # 1 => x # Q[h][2]) => m.prev[x] = l.prev[x]
      /\ m \in Tq!Links
  <2>1. /\ l.cell \in [Heads \cup Entries -> Entries \cup {NULL}] /\ l.last \in [Heads -> Heads \cup Entries]
        /\ l.prev \in [Entries -> Heads \cup Entries]
    BY LinkedIs
  <2>2. m \in Tq!Links
    BY <1>4, <1>5, <1>6, <2>1 DEF Tq!Links, Tq!Cells
  <2> QED  BY <1>4, <1>5, <1>6, <2>1, <2>2
<1>8. ASSUME NEW g \in Heads PROVE R[g] \in Seq(Entries) /\ Tq!IsQueue(m, g, R[g])
  <2>1. CASE g # h
    <3>1. ASSUME NEW k \in 0 .. Len(Q[g])
          PROVE  m.cell[At(g, Q[g], k)] = l.cell[At(g, Q[g], k)]
      <4>1. At(h, Q[h], 0) = h /\ 0 \in 0 .. n
        BY <1>1 DEF At
      <4>2. At(g, Q[g], k) # h
        <5>1. k \in 0 .. Len(Q[g]) /\ 0 \in 0 .. Len(Q[h])
          BY <4>1
        <5> HIDE DEF n
        <5>2. At(g, Q[g], k) = At(h, Q[h], 0) => g = h
          BY <5>1, LinkedIs, Zenon
        <5> QED  BY <2>1, <4>1, <5>2
      <4>3. At(g, Q[g], k) \in Heads \cup Entries
        <5>1. CASE k = 0
          BY <5>1 DEF At
        <5>2. CASE k # 0
          <6>1. k \in 1 .. Len(Q[g])
            BY <5>2, LinkedIs
          <6> QED  BY <5>2, <6>1, LinkedIs DEF At
        <5> QED  BY <5>1, <5>2
      <4> QED  BY <1>7, <4>2, <4>3
    <3>2. \A k \in 1 .. Len(Q[g]) : k - 1 \in 0 .. Len(Q[g]) /\ k \in 0 .. Len(Q[g])
      BY LinkedIs
    <3>3. ASSUME NEW k \in 1 .. Len(Q[g])
          PROVE  m.cell[At(g, Q[g], k - 1)] = Q[g][k] /\ m.prev[Q[g][k]] = At(g, Q[g], k - 1)
      <4>1. Q[g][k] \in Entries
        BY LinkedIs
      <4>2. n # 1 => Q[g][k] # Q[h][2]
        <5> QED  BY <1>0, <1>1, <2>1 DEF Linked
      <4>3. l.cell[At(g, Q[g], k - 1)] = Q[g][k] /\ l.prev[Q[g][k]] = At(g, Q[g], k - 1)
        BY LinkedIs
      <4> QED  BY <1>7, <3>1, <3>2, <4>1, <4>2, <4>3
    <3>4. m.cell[At(g, Q[g], Len(Q[g]))] = NULL /\ m.last[g] = At(g, Q[g], Len(Q[g]))
      BY <1>7, <2>1, <3>1, LinkedIs
    <3> QED  BY <1>3, <2>1, <3>3, <3>4, LinkedIs DEF Tq!IsQueue, At
  <2>2. CASE g = h
    <3>1. \A k \in 1 .. n - 1 : At(h, t, k) = At(h, Q[h], k + 1) /\ At(h, t, k) # h /\ At(h, t, k) \in Entries
      <4> TAKE k \in 1 .. n - 1
      <4>1. k + 1 \in 1 .. n /\ t[k] = Q[h][k + 1] /\ Q[h][k + 1] \in Entries \ Heads
        BY <1>1, <1>3, LinkedIs
      <4> QED  BY <1>1, <4>1 DEF At
    <3>2. ASSUME NEW k \in 1 .. n - 1
          PROVE  m.cell[At(h, t, k - 1)] = t[k] /\ m.prev[t[k]] = At(h, t, k - 1)
      <4>1. CASE k = 1
        BY <1>1, <1>3, <1>4, <1>7, <4>1 DEF At
      <4>2. CASE k # 1
        <5>1. k - 1 \in 1 .. n - 1 /\ k + 1 \in 1 .. n /\ 2 \in 1 .. n /\ (k + 1) - 1 = (k - 1) + 1
              /\ k + 1 # 2 /\ n # 1
          <6> HIDE DEF n
          <6> QED  BY <1>1, <4>2, SecondPlace
        <5>2. m.cell[At(h, t, k - 1)] = l.cell[At(h, t, k - 1)]
          BY <1>7, <3>1, <5>1
        <5>3. At(h, t, k - 1) = At(h, Q[h], (k + 1) - 1)
          BY <3>1, <5>1
        <5>4. l.cell[At(h, Q[h], (k + 1) - 1)] = Q[h][k + 1]
              /\ l.prev[Q[h][k + 1]] = At(h, Q[h], (k + 1) - 1) /\ Q[h][k + 1] \in Entries
          BY <5>1, LinkedIs
        <5>5. Q[h][k + 1] # Q[h][2]
          <6>1. Distinct(Q[h])
            BY LinkedIs
          <6> HIDE DEF n
          <6>2. k + 1 \in 1 .. Len(Q[h]) /\ 2 \in 1 .. Len(Q[h])
            BY <5>1 DEF n
          <6> QED  BY <5>1, <6>1, <6>2 DEF Distinct
        <5> QED  BY <1>3, <1>7, <5>1, <5>2, <5>3, <5>4, <5>5
      <4> QED  BY <4>1, <4>2
    <3>3. m.cell[At(h, t, n - 1)] = NULL /\ m.last[h] = At(h, t, n - 1)
      <4>1. CASE n = 1
        BY <1>4, <1>7, <4>1 DEF At
      <4>2. CASE n # 1
        <5>1. n - 1 \in 1 .. n - 1 /\ (n - 1) + 1 = n
          <6> HIDE DEF n
          <6> QED  BY <1>1, <4>2, SecondPlace
        <5>2. At(h, t, n - 1) = At(h, Q[h], n)
          BY <3>1, <5>1
        <5> QED  BY <1>7, <3>1, <4>2, <5>1, <5>2, LinkedIs
      <4> QED  BY <4>1, <4>2
    <3> QED  BY <1>3, <2>2, <3>2, <3>3 DEF Tq!IsQueue, At
  <2> QED  BY <2>1, <2>2
<1>9. ASSUME NEW f \in Heads, NEW g \in Heads, NEW j \in 1 .. Len(R[f]), NEW k \in 1 .. Len(R[g]),
             R[f][j] = R[g][k]
      PROVE  f = g /\ j = k
  <2>1. ASSUME NEW x \in Heads, NEW i \in 1 .. Len(R[x])
        PROVE  LET p == IF x = h THEN i + 1 ELSE i IN p \in 1 .. Len(Q[x]) /\ R[x][i] = Q[x][p]
    <3>1. CASE x = h
      <4>1. i \in 1 .. n - 1
        BY <1>3, <3>1
      <4>2. i + 1 \in 1 .. n
        <5> HIDE DEF n
        <5> QED  BY <1>1, <4>1
      <4> QED  BY <1>1, <1>3, <3>1, <4>1, <4>2
    <3>2. CASE x # h
      BY <1>3, <3>2
    <3> QED  BY <3>1, <3>2
  <2> DEFINE p == IF f = h THEN j + 1 ELSE j
             r == IF g = h THEN k + 1 ELSE k
  <2>2. p \in 1 .. Len(Q[f]) /\ R[f][j] = Q[f][p] /\ r \in 1 .. Len(Q[g]) /\ R[g][k] = Q[g][r]
    BY <2>1
  <2>3. f = g /\ p = r
    <3> HIDE DEF p, r
    <3>1. Q[f][p] = Q[g][r]
      BY <1>9, <2>2
    <3> QED  BY <2>2, <3>1 DEF Linked
  <2>4. j \in Int /\ k \in Int
    BY <1>1, <1>3
  <2> QED  BY <2>3, <2>4
<1>10. Linked(m, R)
  BY <1>3, <1>7, <1>8, <1>9 DEF Linked
<1>11. /\ \A x \in Entries : m.cell[x] = l.cell[x]
       /\ \A x \in Entries : x \notin Elems(Q[h]) => m.prev[x] = l.prev[x]
       /\ m.prev[e] = l.prev[e]
  <2>1. n # 1 => Q[h][2] \in Elems(Q[h])
    <3> QED  BY <1>0, <1>1 DEF Elems
  <2> QED  BY <1>5, <1>7, <2>1, TransportAssumption
<1> QED  BY <1>2, <1>10, <1>11 DEF m, R, t

-----------------------------------------------------------------------------
(* What the entries carry.  The thread of the argument: an index is handed *)
(* out when nothing with it is under way, its holder puts one datagram     *)
(* with it under way at a time, so whatever comes back with it was asked   *)
(* for by that holder and finds that holder's entry.                       *)

\* Either no wait times out, or there is one caller and the wire is faster
\* than a round through the queues; all callers call ec_transceive, and the
\* master is not in master clock mode.
Orderly == /\ MasterClock = FALSE /\ Pingers = {}
           /\ MaxTimeouts = 0 \/ (~Recycle /\ \A c, d \in Clients : c = d)

Senders     == Clients \cup Cdgs
Asked(o)    == Datagram(p_idx[o], <<o, IF o \in Clients THEN calls[o] ELSE 0>>)
Answered(d) == [d EXCEPT !.ans = TRUE]

\* The datagrams under way: frame 0 is being filled, -1 received, the others
\* are on the wire.
Flight(f, r, w) == [j \in -1 .. Len(w) |-> IF j = 0 THEN f ELSE IF j = -1 THEN r ELSE w[j]]
Slots(F)       == UNION {{j} \X (1 .. Len(F[j])) : j \in DOMAIN F}
FlyOf(F)        == {F[x[1]][x[2]] : x \in Slots(F)}
OnceIn(F, i)    == \A x, y \in Slots(F) :
                      F[x[1]][x[2]].idx = i /\ F[y[1]][y[2]].idx = i => x = y
Within(F, G)    == FlyOf(F) \subseteq FlyOf(G) /\ \A i \in Indices : OnceIn(G, i) => OnceIn(F, i)

Now       == Flight(hw.frame, rx.frame, wire)
Fly       == FlyOf(Now)
Once(i)   == OnceIn(Now, i)
Flying(i) == \E d \in Fly : d.idx = i
Popped(i) == hw.entry # NULL /\ ent[hw.entry].dg.idx = i
UnderWay(i) == Flying(i) \/ Popped(i)

Line(h) == Tq!Walk(q, h, Cardinality(Entries))
Lines   == [h \in Heads |-> Line(h)]
In(h)   == Elems(Line(h))

\* The steps of a caller during which its entry may be in tx_low, and those
\* after which its datagram may be under way.
Queuing    == {"tx", "sending", "wait", "remove"}
Started(o) == IF o \in Clients THEN pc[o] \notin {"out", "pool", "enqueue"}
                               ELSE p_entry[o] # NULL

\* Where the threads are.
Threads ==
    /\ hw.owner = "cyc" => cyc.pc = "sending"
    /\ hw.queue = "high" => hw.owner = "cyc"
    /\ p_entry["sto"] = NULL /\ p_idx["sto"] = NULL
    /\ cyc.pc = "iput" => p_entry[cdg] = NULL
    /\ \A c \in Clients : p_entry[c] = NULL <=> pc[c] \in {"out", "pool", "iput"}
    /\ MaxTimeouts = 0 => \A c \in Clients : pc[c] \notin {"remove", "expire", "put"}
    /\ rx.pc \in {"idle", "slot"} => rx.entry = NULL
    /\ rx.pc = "idle" => rx.frame = <<>>
    /\ rx.pc = "post" => ent[rx.entry].cb = "block"
    /\ \A e \in Entries : ent[e].cb # "anon"

\* The queues are linked lists without a common entry, and every entry is in
\* the pool or with an owner.  An entry in tx_low waits to be sent for the
\* first time; one in tx_high belongs to a cyclic datagram of this cycle.
InHigh(e) == \E j \in 1 .. Len(CycleSeq) :
    /\ p_entry[CycleSeq[j]] = e
    /\ \/ cyc.pc \in {"lock", "pool", "iput", "enqueue"} /\ j < cyc.k
       \/ cyc.pc = "tx"
       \/ cyc.pc = "sending" /\ hw.owner = "cyc" /\ hw.queue = "high"
InLow(e)  == \E c \in Clients :
    /\ p_entry[c] = e /\ pc[c] \in Queuing
    /\ ent[e].dg = Asked(c) /\ ~UnderWay(p_idx[c])

Queued ==
    /\ Linked(q, Lines)
    /\ \A o, u \in Owners : o # u /\ p_entry[o] # NULL => p_entry[o] # p_entry[u]
    /\ \A o \in Owners : p_entry[o] # NULL => p_entry[o] \notin In("pool")
    /\ \A e \in Entries : e \in In("pool") \/ \E o \in Owners : p_entry[o] = e
    /\ \A e \in In("low") : InLow(e)

Cycled == \A e \in In("high") : InHigh(e)

\* A caller whose wait may time out has its entry, in tx_low or not, with the
\* links of the only element of tx_low: TAILQ_REMOVE then does no harm.
Loose == MaxTimeouts # 0 => \A c \in Clients : pc[c] \in Queuing =>
    q.prev[p_entry[c]] = "low" /\ q.cell[p_entry[c]] = NULL

\* An entry that has an owner holds the owner's index, callback and request.
Loaded ==
    /\ \A o \in Senders : p_entry[o] # NULL =>
          /\ p_idx[o] # NULL /\ ent[p_entry[o]].p_idx = p_idx[o]
          /\ ent[p_entry[o]].cb = (IF o \in Clients THEN "block" ELSE o)
          /\ \/ ent[p_entry[o]].dg = Asked(o)
             \/ o \in Clients /\ ent[p_entry[o]].dg = Answered(Asked(o))
    /\ \A c \in Clients : pc[c] = "enqueue" => ent[p_entry[c]].dg = Asked(c)

\* Entry e, or NULL, goes with datagram d: if its index has a holder, d is the
\* holder's request and e its entry.
Right(e, d) ==
    /\ \A o \in Senders : p_idx[o] = d.idx =>
          /\ Started(o) /\ d = Asked(o)
          /\ p_entry[o] # NULL => e \in {NULL, p_entry[o]}
    /\ e # NULL => ent[e].p_idx = d.idx

Sending ==
    /\ \A d \in Fly : Right(tx_send[d.idx], d)
    /\ hw.entry # NULL => Right(hw.entry, ent[hw.entry].dg)
    /\ rx.entry # NULL => Right(rx.entry, RxDg)

\* A caller's datagram is under way once.
Single == \A c \in Clients : p_idx[c] # NULL =>
    Once(p_idx[c]) /\ (Popped(p_idx[c]) => ~Flying(p_idx[c]))

\* A posted semaphore and a callback that is about to post it mean an answer.
Answers ==
    /\ \A c \in Clients : p_idx[c] # NULL /\ waiter[p_idx[c]] =>
          Started(c) /\ (p_entry[c] # NULL => ent[p_entry[c]].dg = Answered(Asked(c)))
    /\ \A c \in Clients : pc[c] = "read" => ent[p_entry[c]].dg = Answered(Asked(c))
    /\ rx.pc = "post" => \A c \in Clients : p_entry[c] = rx.entry =>
          ent[rx.entry].dg = Answered(Asked(c))

\* Without timeouts an index comes back when nothing with it is under way.
Quiet == MaxTimeouts = 0 =>
    /\ \A i \in Elems(idxq) : ~UnderWay(i)
    /\ \A c \in Clients :
          p_idx[c] # NULL /\ (pc[c] \in {"read", "iput"} \/ waiter[p_idx[c]]) => ~UnderWay(p_idx[c])

Carried == Threads /\ Queued /\ Cycled /\ Loose /\ Loaded /\ Sending /\ Single /\ Answers /\ Quiet

-----------------------------------------------------------------------------
(* What is under way, as frames move. *)

LEMMA FlightIs ==
    ASSUME NEW f, NEW r, NEW w, Len(w) \in Nat
    PROVE  /\ DOMAIN Flight(f, r, w) = -1 .. Len(w)
           /\ Flight(f, r, w)[0] = f /\ Flight(f, r, w)[-1] = r
           /\ \A j \in 1 .. Len(w) : Flight(f, r, w)[j] = w[j]
  BY DEF Flight

LEMMA SlotsAre ==
    ASSUME NEW F
    PROVE  /\ \A x \in Slots(F) : x[1] \in DOMAIN F /\ x[2] \in 1 .. Len(F[x[1]]) /\ x = <<x[1], x[2]>>
           /\ \A j \in DOMAIN F : \A k \in 1 .. Len(F[j]) : <<j, k>> \in Slots(F) /\ F[j][k] \in FlyOf(F)
<1>1. ASSUME NEW x \in Slots(F)
      PROVE  x[1] \in DOMAIN F /\ x[2] \in 1 .. Len(F[x[1]]) /\ x = <<x[1], x[2]>>
  <2>1. PICK j \in DOMAIN F : x \in {j} \X (1 .. Len(F[j]))
    BY DEF Slots
  <2>2. x[1] = j /\ x[2] \in 1 .. Len(F[j]) /\ x = <<x[1], x[2]>>
    BY <2>1
  <2> QED  BY <2>1, <2>2
<1>2. ASSUME NEW j \in DOMAIN F, NEW k \in 1 .. Len(F[j])
      PROVE  <<j, k>> \in Slots(F) /\ F[j][k] \in FlyOf(F)
  <2>1. <<j, k>> \in {j} \X (1 .. Len(F[j]))
    BY <1>2
  <2>2. <<j, k>> \in Slots(F)
    BY <2>1 DEF Slots
  <2>3. <<j, k>>[1] = j /\ <<j, k>>[2] = k
    OBVIOUS
  <2> QED  BY <2>2, <2>3 DEF FlyOf
<1> QED  BY <1>1, <1>2

\* Datagrams only change their places.
LEMMA Moved ==
    ASSUME NEW F, NEW G, NEW M,
           \A x \in Slots(F) : M[x] \in Slots(G) /\ G[M[x][1]][M[x][2]] = F[x[1]][x[2]],
           \A x, y \in Slots(F) : M[x] = M[y] => x = y
    PROVE  Within(F, G)
<1>1. FlyOf(F) \subseteq FlyOf(G)
  <2> SUFFICES ASSUME NEW x \in Slots(F) PROVE F[x[1]][x[2]] \in FlyOf(G)
    BY DEF FlyOf
  <2>1. M[x] \in Slots(G) /\ G[M[x][1]][M[x][2]] = F[x[1]][x[2]]
    OBVIOUS
  <2> QED  BY <2>1 DEF FlyOf
<1>2. ASSUME NEW i \in Indices, OnceIn(G, i), NEW x \in Slots(F), NEW y \in Slots(F),
             F[x[1]][x[2]].idx = i, F[y[1]][y[2]].idx = i
      PROVE  x = y
  <2>1. /\ M[x] \in Slots(G) /\ G[M[x][1]][M[x][2]].idx = i
        /\ M[y] \in Slots(G) /\ G[M[y][1]][M[y][2]].idx = i
    BY <1>2
  <2>2. M[x] = M[y]
    BY <1>2, <2>1 DEF OnceIn
  <2> QED  BY <2>2
<1> QED  BY <1>1, <1>2 DEF Within, OnceIn

\* phw->send
LEMMA FlightSent ==
    ASSUME NEW f \in Seq(Datagrams), NEW r \in Seq(Datagrams), NEW w \in Seq(Frames),
           NEW v, v = (IF f = <<>> THEN w ELSE Append(w, f))
    PROVE  Within(Flight(<<>>, r, v), Flight(f, r, w))
<1> DEFINE F == Flight(<<>>, r, v)
           G == Flight(f, r, w)
           M == [x \in Slots(F) |-> IF x[1] = Len(w) + 1 THEN <<0, x[2]>> ELSE x]
<1>1. /\ Len(w) \in Nat /\ Len(v) \in Nat
      /\ \A j \in 1 .. Len(w) : v[j] = w[j]
      /\ \A j \in 1 .. Len(v) : j \notin 1 .. Len(w) => j = Len(w) + 1 /\ v[j] = f
  BY DEF Frames
<1>2. /\ DOMAIN F = -1 .. Len(v) /\ F[0] = <<>> /\ F[-1] = r
      /\ \A j \in 1 .. Len(v) : F[j] = v[j]
      /\ DOMAIN G = -1 .. Len(w) /\ G[0] = f /\ G[-1] = r
      /\ \A j \in 1 .. Len(w) : G[j] = w[j]
  <2>1. /\ DOMAIN F = -1 .. Len(v) /\ F[0] = <<>> /\ F[-1] = r
        /\ \A j \in 1 .. Len(v) : F[j] = v[j]
    BY <1>1 DEF Flight
  <2>2. /\ DOMAIN G = -1 .. Len(w) /\ G[0] = f /\ G[-1] = r
        /\ \A j \in 1 .. Len(w) : G[j] = w[j]
    BY <1>1 DEF Flight
  <2> QED  BY <2>1, <2>2
<1>3. ASSUME NEW x \in Slots(F)
      PROVE  /\ M[x] \in Slots(G) /\ G[M[x][1]][M[x][2]] = F[x[1]][x[2]]
             /\ M[x] = (IF x[1] = Len(w) + 1 THEN <<0, x[2]>> ELSE x)
             /\ x = <<x[1], x[2]>> /\ x[1] # 0
  <2>1. x[1] \in DOMAIN F /\ x[2] \in 1 .. Len(F[x[1]]) /\ x = <<x[1], x[2]>>
    BY SlotsAre
  <2>2. M[x] = (IF x[1] = Len(w) + 1 THEN <<0, x[2]>> ELSE x)
    OBVIOUS
  <2> HIDE DEF F, G, M
  <2>3. x[1] # 0
    BY <1>2, <2>1
  <2>4. CASE x[1] = Len(w) + 1
    <3>1. M[x] = <<0, x[2]>> /\ M[x][1] = 0 /\ M[x][2] = x[2]
      BY <2>2, <2>4
    <3>2. F[x[1]] = G[0] /\ 0 \in DOMAIN G
      <4>1. Len(w) + 1 \in 1 .. Len(v) /\ v[Len(w) + 1] = f
        BY <1>1, <1>2, <2>1, <2>4
      <4>2. F[Len(w) + 1] = f
        BY <1>2, <4>1
      <4>3. 0 \in DOMAIN G
        BY <1>1, <1>2
      <4> QED  BY <1>2, <2>4, <4>2, <4>3
    <3>3. x[2] \in 1 .. Len(G[0])
      BY <2>1, <3>2
    <3>4. <<0, x[2]>> \in Slots(G)
      BY <3>2, <3>3, SlotsAre
    <3> QED  BY <2>1, <2>2, <2>3, <3>1, <3>2, <3>4
  <2>5. CASE x[1] # Len(w) + 1
    <3>1. x[1] \in DOMAIN G /\ F[x[1]] = G[x[1]]
      BY <1>1, <1>2, <2>1, <2>3, <2>5
    <3> QED  BY <2>1, <2>2, <2>3, <2>5, <3>1, SlotsAre
  <2> QED  BY <2>4, <2>5
<1>4. ASSUME NEW x \in Slots(F), NEW y \in Slots(F), M[x] = M[y] PROVE x = y
  <2> HIDE DEF F, G, M
  <2>1. /\ M[x] = (IF x[1] = Len(w) + 1 THEN <<0, x[2]>> ELSE x)
        /\ M[y] = (IF y[1] = Len(w) + 1 THEN <<0, y[2]>> ELSE y)
        /\ x = <<x[1], x[2]>> /\ x[1] # 0 /\ y = <<y[1], y[2]>> /\ y[1] # 0
    BY <1>3
  <2>2. CASE x[1] = Len(w) + 1
    <3>1. M[x] = <<0, x[2]>> /\ M[x][1] = 0
      BY <2>1, <2>2
    <3>2. y[1] = Len(w) + 1
      <4>1. M[y][1] = 0
        BY <1>4, <3>1
      <4>2. y[1] # Len(w) + 1 => M[y][1] = y[1]
        BY <2>1
      <4> QED  BY <2>1, <4>1, <4>2
    <3>3. M[y] = <<0, y[2]>> /\ x[2] = y[2]
      <4>1. M[y] = <<0, y[2]>>
        BY <2>1, <3>2
      <4>2. M[x][2] = x[2] /\ M[y][2] = y[2]
        BY <3>1, <4>1
      <4> QED  BY <1>4, <4>1, <4>2
    <3> QED  BY <2>1, <2>2, <3>2, <3>3
  <2>3. CASE x[1] # Len(w) + 1
    <3>1. M[x] = x /\ M[x][1] # 0
      BY <2>1, <2>3
    <3>2. y[1] # Len(w) + 1
      <4>1. M[y][1] # 0
        BY <1>4, <3>1
      <4>2. y[1] = Len(w) + 1 => M[y] = <<0, y[2]>>
        BY <2>1
      <4>3. y[1] = Len(w) + 1 => M[y][1] = 0
        BY <4>2
      <4> QED  BY <4>1, <4>3
    <3> QED  BY <1>4, <2>1, <3>1, <3>2
  <2> QED  BY <2>2, <2>3
<1>5. Within(F, G)
  <2>1. \A x \in Slots(F) : M[x] \in Slots(G) /\ G[M[x][1]][M[x][2]] = F[x[1]][x[2]]
    BY <1>3
  <2>2. \A x, y \in Slots(F) : M[x] = M[y] => x = y
    BY <1>4
  <2> HIDE DEF F, G, M
  <2> QED  BY <2>1, <2>2, Moved, SMTT(30)
<1> QED  BY <1>5

\* A frame that goes from place n of the wire, to be received or to be lost,
\* when r is what is received after that.
LEMMA FlightTaken ==
    ASSUME NEW f \in Seq(Datagrams), NEW r \in Seq(Datagrams), NEW w \in Seq(Frames),
           NEW n \in 1 .. Len(w), NEW v, Len(v) = Len(w) - 1,
           \A j \in 1 .. Len(v) : v[j] = IF j < n THEN w[j] ELSE w[j + 1],
           NEW s, s = r \/ (s = w[n])
    PROVE  Within(Flight(f, s, v), Flight(f, r, w))
<1> DEFINE F == Flight(f, s, v)
           G == Flight(f, r, w)
           P(j) == IF j = -1 THEN (IF s = r THEN -1 ELSE n) ELSE IF j >= n THEN j + 1 ELSE j
           M == [x \in Slots(F) |-> <<P(x[1]), x[2]>>]
<1>1. Len(w) \in Nat /\ Len(v) \in Nat /\ n \in Nat /\ n # 0
  OBVIOUS
<1>2. /\ DOMAIN F = -1 .. Len(v) /\ F[0] = f /\ F[-1] = s
      /\ \A j \in 1 .. Len(v) : F[j] = v[j]
      /\ DOMAIN G = -1 .. Len(w) /\ G[0] = f /\ G[-1] = r
      /\ \A j \in 1 .. Len(w) : G[j] = w[j]
  <2>1. /\ DOMAIN F = -1 .. Len(v) /\ F[0] = f /\ F[-1] = s
        /\ \A j \in 1 .. Len(v) : F[j] = v[j]
    BY <1>1 DEF Flight
  <2>2. /\ DOMAIN G = -1 .. Len(w) /\ G[0] = f /\ G[-1] = r
        /\ \A j \in 1 .. Len(w) : G[j] = w[j]
    BY <1>1 DEF Flight
  <2> QED  BY <2>1, <2>2
<1>3. ASSUME NEW j \in DOMAIN F PROVE P(j) \in DOMAIN G /\ G[P(j)] = F[j] /\ P(j) \in Int /\ j \in Int
  <2> HIDE DEF F, G
  <2>1. CASE j = -1
    BY <1>1, <1>2, <2>1
  <2>2. CASE j = 0
    BY <1>1, <1>2, <2>2
  <2>3. CASE j # -1 /\ j # 0
    <3>1. j \in 1 .. Len(v)
      BY <1>1, <1>2, <2>3
    <3>2. CASE j < n
      BY <1>1, <1>2, <2>3, <3>1, <3>2, SMTT(30)
    <3>3. CASE j >= n
      <4>1. j + 1 \in 1 .. Len(w) /\ v[j] = w[j + 1]
        BY <1>1, <3>1, <3>3
      <4>2. P(j) = j + 1 /\ j \in Int
        BY <2>3, <3>1, <3>3
      <4> QED  BY <1>1, <1>2, <3>1, <4>1, <4>2
    <3> QED  BY <1>1, <3>1, <3>2, <3>3
  <2> QED  BY <2>1, <2>2, <2>3
<1>4. ASSUME NEW j \in DOMAIN F, NEW k \in DOMAIN F, P(j) = P(k) PROVE j = k
  <2>1. j \in -1 .. Len(v) /\ k \in -1 .. Len(v)
    BY <1>2
  <2> HIDE DEF F, G
  <2>2. CASE s = r
    BY <1>1, <1>4, <2>1, <2>2
  <2>3. CASE s # r
    BY <1>1, <1>4, <2>1, <2>3
  <2> QED  BY <2>2, <2>3
<1> HIDE DEF P
<1>5. ASSUME NEW x \in Slots(F)
      PROVE  /\ M[x] \in Slots(G) /\ G[M[x][1]][M[x][2]] = F[x[1]][x[2]]
             /\ M[x] = <<P(x[1]), x[2]>> /\ x = <<x[1], x[2]>> /\ x[1] \in DOMAIN F
  <2>1. x[1] \in DOMAIN F /\ x[2] \in 1 .. Len(F[x[1]]) /\ x = <<x[1], x[2]>>
    BY SlotsAre
  <2>2. M[x] = <<P(x[1]), x[2]>>
    OBVIOUS
  <2> HIDE DEF F, G, M
  <2>3. M[x][1] = P(x[1]) /\ M[x][2] = x[2]
    BY <2>2
  <2>4. P(x[1]) \in DOMAIN G /\ G[P(x[1])] = F[x[1]]
    BY <1>3, <2>1
  <2>5. <<P(x[1]), x[2]>> \in Slots(G)
    BY <2>1, <2>4, SlotsAre
  <2> QED  BY <2>1, <2>2, <2>3, <2>4, <2>5
<1>6. ASSUME NEW x \in Slots(F), NEW y \in Slots(F), M[x] = M[y] PROVE x = y
  <2> HIDE DEF F, G, M
  <2>1. /\ M[x] = <<P(x[1]), x[2]>> /\ x = <<x[1], x[2]>> /\ x[1] \in DOMAIN F
        /\ M[y] = <<P(y[1]), y[2]>> /\ y = <<y[1], y[2]>> /\ y[1] \in DOMAIN F
    BY <1>5
  <2>2. P(x[1]) = P(y[1]) /\ x[2] = y[2]
    <3>1. M[x][1] = P(x[1]) /\ M[x][2] = x[2] /\ M[y][1] = P(y[1]) /\ M[y][2] = y[2]
      BY <2>1
    <3> QED  BY <1>6, <3>1
  <2>3. x[1] = y[1]
    BY <1>4, <2>1, <2>2
  <2> QED  BY <2>1, <2>2, <2>3
<1> HIDE DEF F, G, M
<1> QED  BY <1>5, <1>6, Moved, SMTT(30) DEF F, G

\* On to the next datagram of the received frame: if the first one was the
\* only one with its index, that index is not under way any more.
LEMMA FlightNext ==
    ASSUME NEW f \in Seq(Datagrams), NEW r \in Seq(Datagrams), NEW w \in Seq(Frames), r # <<>>
    PROVE  /\ Within(Flight(f, Tail(r), w), Flight(f, r, w))
           /\ Head(r) \in FlyOf(Flight(f, r, w))
           /\ OnceIn(Flight(f, r, w), Head(r).idx) =>
                \A d \in FlyOf(Flight(f, Tail(r), w)) : d.idx # Head(r).idx
<1> DEFINE F == Flight(f, Tail(r), w)
           G == Flight(f, r, w)
           M == [x \in Slots(F) |-> IF x[1] = -1 THEN <<-1, x[2] + 1>> ELSE x]
<1>1. /\ Len(w) \in Nat /\ Len(r) \in Nat /\ 1 \in 1 .. Len(r) /\ Head(r) = r[1]
      /\ Len(Tail(r)) = Len(r) - 1 /\ \A k \in 1 .. Len(Tail(r)) : k + 1 \in 1 .. Len(r) /\ Tail(r)[k] = r[k + 1]
  OBVIOUS
<1>2. /\ DOMAIN F = -1 .. Len(w) /\ F[-1] = Tail(r) /\ \A j \in 0 .. Len(w) : F[j] = G[j]
      /\ DOMAIN G = -1 .. Len(w) /\ G[-1] = r
  BY <1>1 DEF Flight
<1>3. ASSUME NEW x \in Slots(F)
      PROVE  /\ M[x] \in Slots(G) /\ G[M[x][1]][M[x][2]] = F[x[1]][x[2]]
             /\ M[x][1] = x[1] /\ M[x][2] = (IF x[1] = -1 THEN x[2] + 1 ELSE x[2])
             /\ x = <<x[1], x[2]>> /\ x[2] \in Nat \ {0} /\ (x[1] # -1 => M[x] = x)
  <2>1. x[1] \in DOMAIN F /\ x[2] \in 1 .. Len(F[x[1]]) /\ x = <<x[1], x[2]>>
    BY SlotsAre
  <2>2. M[x] = (IF x[1] = -1 THEN <<-1, x[2] + 1>> ELSE x)
    OBVIOUS
  <2> HIDE DEF F, G, M
  <2>3. x[2] \in Nat \ {0}
    BY <2>1
  <2>4. CASE x[1] = -1
    <3>1. M[x] = <<-1, x[2] + 1>> /\ M[x][1] = -1 /\ M[x][2] = x[2] + 1
      BY <2>2, <2>4
    <3>2. x[2] \in 1 .. Len(Tail(r)) /\ -1 \in DOMAIN G
      BY <1>1, <1>2, <2>1, <2>4
    <3>3. x[2] + 1 \in 1 .. Len(G[-1]) /\ G[-1][x[2] + 1] = Tail(r)[x[2]]
      BY <1>1, <1>2, <3>2
    <3>4. <<-1, x[2] + 1>> \in Slots(G)
      BY <3>2, <3>3, SlotsAre
    <3> QED  BY <1>2, <2>1, <2>3, <2>4, <3>1, <3>3, <3>4
  <2>5. CASE x[1] # -1
    <3>1. x[1] \in DOMAIN G /\ F[x[1]] = G[x[1]] /\ M[x] = x
      BY <1>1, <1>2, <2>1, <2>2, <2>5
    <3>2. <<x[1], x[2]>> \in Slots(G)
      BY <2>1, <3>1, SlotsAre
    <3> QED  BY <2>1, <2>3, <2>5, <3>1, <3>2
  <2> QED  BY <2>4, <2>5
<1>4. ASSUME NEW x \in Slots(F), NEW y \in Slots(F), M[x] = M[y] PROVE x = y
  <2> HIDE DEF F, G, M
  <2>1. /\ M[x][1] = x[1] /\ M[x][2] = (IF x[1] = -1 THEN x[2] + 1 ELSE x[2])
        /\ x = <<x[1], x[2]>> /\ x[2] \in Nat
    BY <1>3
  <2>2. /\ M[y][1] = y[1] /\ M[y][2] = (IF y[1] = -1 THEN y[2] + 1 ELSE y[2])
        /\ y = <<y[1], y[2]>> /\ y[2] \in Nat
    BY <1>3
  <2>3. x[1] = y[1]
    BY <1>4, <2>1, <2>2
  <2>4. x[2] = y[2]
    BY <1>4, <2>1, <2>2, <2>3
  <2> QED  BY <2>1, <2>2, <2>3, <2>4
<1>5. Within(F, G)
  <2>1. \A x \in Slots(F) : M[x] \in Slots(G) /\ G[M[x][1]][M[x][2]] = F[x[1]][x[2]]
    BY <1>3
  <2>2. \A x, y \in Slots(F) : M[x] = M[y] => x = y
    BY <1>4
  <2> HIDE DEF F, G, M
  <2> QED  BY <2>1, <2>2, Moved
<1>6. <<-1, 1>> \in Slots(G) /\ Head(r) \in FlyOf(G)
  <2>1. -1 \in DOMAIN G /\ 1 \in 1 .. Len(G[-1]) /\ G[-1][1] = Head(r)
    BY <1>1, <1>2
  <2> HIDE DEF F, G, M
  <2> QED  BY <2>1, SlotsAre
<1>7. ASSUME OnceIn(G, Head(r).idx), NEW d \in FlyOf(F), d.idx = Head(r).idx PROVE FALSE
  <2>1. PICK x \in Slots(F) : d = F[x[1]][x[2]]
    BY DEF FlyOf
  <2> DEFINE z == <<-1, 1>>
  <2>2. M[x] \in Slots(G) /\ G[M[x][1]][M[x][2]].idx = Head(r).idx
    BY <1>3, <1>7, <2>1
  <2>3. z \in Slots(G) /\ z[1] = -1 /\ z[2] = 1
    BY <1>6
  <2>4. G[z[1]][z[2]].idx = Head(r).idx
    BY <1>1, <1>2, <2>3
  <2> HIDE DEF F, G, M, z
  <2>5. M[x] = z
    BY <1>7, <2>2, <2>3, <2>4 DEF OnceIn
  <2>6. M[x][1] = x[1] /\ M[x][2] = (IF x[1] = -1 THEN x[2] + 1 ELSE x[2]) /\ x[2] \in Nat \ {0}
    BY <1>3
  <2>7. x[1] = -1
    BY <2>3, <2>5, <2>6
  <2>8. x[2] + 1 = 1
    BY <2>3, <2>5, <2>6, <2>7
  <2> QED  BY <2>6, <2>8
<1> QED  BY <1>5, <1>6, <1>7

\* hw_tx_pool copies a datagram into the frame.
LEMMA FlightAdded ==
    ASSUME NEW f \in Seq(Datagrams), NEW r \in Seq(Datagrams), NEW w \in Seq(Frames),
           NEW d \in Datagrams
    PROVE  LET F == Flight(Append(f, d), r, w)
               G == Flight(f, r, w)
           IN  /\ FlyOf(F) \subseteq FlyOf(G) \cup {d}
               /\ \A i \in Indices :
                     OnceIn(G, i) /\ (d.idx = i => \A e \in FlyOf(G) : e.idx # i) => OnceIn(F, i)
<1> DEFINE g == Append(f, d)
           n == Len(f) + 1
           F == Flight(g, r, w)
           G == Flight(f, r, w)
<1>1. Len(w) \in Nat /\ Len(f) \in Nat /\ Len(g) = n /\ g[n] = d /\ \A k \in 1 .. Len(f) : g[k] = f[k]
  OBVIOUS
<1>2. /\ DOMAIN F = -1 .. Len(w) /\ F[0] = g /\ \A j \in DOMAIN F : j # 0 => F[j] = G[j]
      /\ DOMAIN G = -1 .. Len(w) /\ G[0] = f
  BY <1>1 DEF Flight
<1> HIDE DEF g, F, G
<1>3. ASSUME NEW x \in Slots(F)
      PROVE  \/ x = <<0, n>> /\ F[x[1]][x[2]] = d
             \/ x \in Slots(G) /\ F[x[1]][x[2]] = G[x[1]][x[2]] /\ G[x[1]][x[2]] \in FlyOf(G)
  <2>1. x[1] \in DOMAIN F /\ x[2] \in 1 .. Len(F[x[1]]) /\ x = <<x[1], x[2]>>
    BY SlotsAre
  <2>2. CASE x[1] # 0
    <3>1. x[1] \in DOMAIN G /\ x[2] \in 1 .. Len(G[x[1]])
      BY <1>2, <2>1, <2>2
    <3> QED  BY <1>2, <2>1, <2>2, <3>1, SlotsAre
  <2>3. CASE x[1] = 0 /\ x[2] = n
    BY <1>1, <1>2, <2>1, <2>3
  <2>4. CASE x[1] = 0 /\ x[2] # n
    <3>1. x[2] \in 1 .. n
      BY <1>1, <1>2, <2>1, <2>4
    <3>2. 0 \in DOMAIN G /\ x[2] \in 1 .. Len(G[0]) /\ F[0][x[2]] = G[0][x[2]]
      BY <1>1, <1>2, <2>4, <3>1
    <3> QED  BY <2>1, <2>4, <3>2, SlotsAre
  <2> QED  BY <2>2, <2>3, <2>4
<1>4. FlyOf(F) \subseteq FlyOf(G) \cup {d}
  BY <1>3 DEF FlyOf
<1>5. ASSUME NEW i \in Indices, OnceIn(G, i), d.idx = i => \A e \in FlyOf(G) : e.idx # i,
             NEW x \in Slots(F), NEW y \in Slots(F), F[x[1]][x[2]].idx = i, F[y[1]][y[2]].idx = i
      PROVE  x = y
  <2>1. \/ x = <<0, n>> /\ F[x[1]][x[2]] = d
        \/ x \in Slots(G) /\ F[x[1]][x[2]] = G[x[1]][x[2]] /\ G[x[1]][x[2]] \in FlyOf(G)
    BY <1>3
  <2>2. \/ y = <<0, n>> /\ F[y[1]][y[2]] = d
        \/ y \in Slots(G) /\ F[y[1]][y[2]] = G[y[1]][y[2]] /\ G[y[1]][y[2]] \in FlyOf(G)
    BY <1>3
  <2> QED  BY <1>5, <2>1, <2>2 DEF OnceIn
<1> QED  BY <1>4, <1>5 DEF OnceIn, F, G, g

\* The datagrams under way are those of InFlightIdxs.
LEMMA UnderWayIs ==
    ASSUME Inv
    PROVE  /\ \A i : i \in InFlightIdxs <=> UnderWay(i)
           /\ Fly \subseteq Datagrams
           /\ hw.frame \in Seq(Datagrams) /\ rx.frame \in Seq(Datagrams) /\ wire \in Seq(Frames)
<1>1. /\ hw.frame \in Seq(Datagrams) /\ rx.frame \in Seq(Datagrams) /\ wire \in Seq(Frames)
      /\ Len(wire) \in Nat
  BY DEF Inv, TypeOK, HwStates, RxStates
<1>2. /\ DOMAIN Now = -1 .. Len(wire) /\ Now[0] = hw.frame /\ Now[-1] = rx.frame
      /\ \A j \in 1 .. Len(wire) : Now[j] = wire[j]
  BY <1>1, FlightIs DEF Now
<1>3. \A j \in DOMAIN Now : Now[j] \in Seq(Datagrams)
  <2> TAKE j \in DOMAIN Now
  <2>1. CASE j \in 1 .. Len(wire)
    <3>1. wire[j] \in Frames
      BY <1>1, <2>1
    <3> QED  BY <1>2, <2>1, <3>1 DEF Frames
  <2>2. CASE j = 0 \/ j = -1
    BY <1>1, <1>2, <2>2
  <2> QED  BY <1>1, <1>2, <2>1, <2>2
<1>4. ASSUME NEW d \in Fly
      PROVE  d \in Datagrams /\ \E j \in DOMAIN Now : \E k \in 1 .. Len(Now[j]) : d = Now[j][k]
  <2>1. PICK x \in Slots(Now) : d = Now[x[1]][x[2]]
    BY DEF Fly, FlyOf
  <2>2. x[1] \in DOMAIN Now /\ x[2] \in 1 .. Len(Now[x[1]])
    BY SlotsAre
  <2> QED  BY <1>3, <2>1, <2>2
<1>5. ASSUME NEW j \in DOMAIN Now, NEW k \in 1 .. Len(Now[j]) PROVE Now[j][k] \in Fly
  BY SlotsAre DEF Fly
<1>6. ASSUME NEW i PROVE i \in FrameIdxs(hw.frame) \cup FrameIdxs(rx.frame)
                                 \cup (UNION {FrameIdxs(wire[k]) : k \in 1 .. Len(wire)})
                           <=> \E j \in DOMAIN Now : i \in FrameIdxs(Now[j])
  <2>1. ASSUME NEW j \in DOMAIN Now PROVE j = 0 \/ j = -1 \/ j \in 1 .. Len(wire)
    BY <1>1, <1>2
  <2>2. 0 \in DOMAIN Now /\ -1 \in DOMAIN Now /\ \A j \in 1 .. Len(wire) : j \in DOMAIN Now
    BY <1>1, <1>2
  <2> HIDE DEF Now
  <2> QED  BY <1>2, <2>1, <2>2
<1>7. ASSUME NEW i PROVE Flying(i) <=> \E j \in DOMAIN Now : i \in FrameIdxs(Now[j])
  BY <1>4, <1>5 DEF Flying, FrameIdxs
<1>8. ASSUME NEW i PROVE i \in InFlightIdxs <=> UnderWay(i)
  <2> DEFINE X == FrameIdxs(hw.frame) \cup FrameIdxs(rx.frame)
                    \cup (UNION {FrameIdxs(wire[k]) : k \in 1 .. Len(wire)})
             Y == IF hw.entry = NULL THEN {} ELSE {ent[hw.entry].dg.idx}
  <2>1. InFlightIdxs = X \cup Y
    BY DEF InFlightIdxs
  <2>2. i \in X <=> Flying(i)
    BY <1>6, <1>7
  <2>3. i \in Y <=> Popped(i)
    BY DEF Popped
  <2> HIDE DEF X, Y
  <2> QED  BY <2>1, <2>2, <2>3 DEF UnderWay
<1> QED  BY <1>1, <1>4, <1>8

-----------------------------------------------------------------------------
(* The entry queues of the transport. *)

\* Walk finds the queues.
LEMMA LineIs ==
    ASSUME NEW l, NEW Q, Linked(l, Q), NEW h \in Heads
    PROVE  Tq!Walk(l, h, Cardinality(Entries)) = Q[h]
<1>1. Q[h] \in Seq(Entries) /\ Distinct(Q[h]) /\ l \in Tq!Links /\ Tq!IsQueue(l, h, Q[h])
  BY LinkedIs DEF Linked
<1>2. Cardinality(Entries) \in Nat /\ Len(Q[h]) <= Cardinality(Entries)
  BY <1>1, QueueLength, FS_CardinalityType, TransportAssumption
<1> QED  BY <1>1, <1>2, WalkIs

LEMMA PutLine ==
    ASSUME Linked(q, Lines), NEW h \in Heads, NEW e \in Entries, \A g \in Heads : e \notin In(g),
           q' = Tq!TAILQ_INSERT_TAIL(q, h, e)
    PROVE  /\ Linked(q, Lines)'
           /\ In(h)' = In(h) \cup {e} /\ \A g \in Heads : g # h => In(g)' = In(g)
           /\ \A x \in Entries : x # e /\ x \notin In(h) =>
                 q'.cell[x] = q.cell[x] /\ q'.prev[x] = q.prev[x]
           /\ In(h) = {} => q'.prev[e] = h /\ q'.cell[e] = NULL
<1> DEFINE Q == Lines
           R == [Q EXCEPT ![h] = Append(@, e)]
<1>1. \A g \in Heads : Q[g] = Line(g) /\ Q[g] \in Seq(Entries) /\ In(g) = Elems(Q[g])
  BY DEF Lines, In, Linked
<1>2. /\ Linked(q', R)
      /\ \A x \in Entries : x # e /\ x \notin Elems(Q[h]) => q'.cell[x] = q.cell[x] /\ q'.prev[x] = q.prev[x]
      /\ Q[h] = <<>> => q'.prev[e] = h /\ q'.cell[e] = NULL
  <2>1. \A g \in Heads : e \notin Elems(Q[g])
    BY <1>1
  <2> HIDE DEF Q
  <2> QED  BY <2>1, PutLinked DEF Q
<1>3. DOMAIN R = Heads /\ R[h] = Append(Q[h], e) /\ \A g \in Heads : g # h => R[g] = Q[g]
  BY DEF Lines
<1> HIDE DEF R
<1>4. \A g \in Heads : Line(g)' = R[g]
  BY <1>2, LineIs DEF Line
<1>5. Lines' = R
  <2>1. Lines' = [g \in Heads |-> Line(g)']
    BY DEF Lines
  <2>2. R = [g \in Heads |-> R[g]]
    BY <1>2, <1>3 DEF R, Lines
  <2> QED  BY <1>4, <2>1, <2>2
<1>6. \A g \in Heads : In(g)' = Elems(R[g])
  BY <1>4 DEF In, Elems
<1>7. Elems(R[h]) = Elems(Q[h]) \cup {e}
  BY <1>1, <1>3, ElemsOf
<1>8. In(h) = {} => Q[h] = <<>>
  <2>1. Q[h] # <<>> => Q[h][1] \in Elems(Q[h])
    BY <1>1 DEF Elems
  <2> QED  BY <1>1, <2>1
<1>9. Linked(q, Lines)'
  BY <1>2, <1>5
<1>10. In(h)' = In(h) \cup {e} /\ \A g \in Heads : g # h => In(g)' = In(g)
  BY <1>1, <1>3, <1>6, <1>7
<1>11. /\ \A x \in Entries : x # e /\ x \notin In(h) => q'.cell[x] = q.cell[x] /\ q'.prev[x] = q.prev[x]
       /\ In(h) = {} => q'.prev[e] = h /\ q'.cell[e] = NULL
  BY <1>1, <1>2, <1>8
<1> QED  BY <1>9, <1>10, <1>11

LEMMA TakeLine ==
    ASSUME Linked(q, Lines), NEW h \in Heads, NEW e \in Entries, Tq!TAILQ_FIRST(q, h) = e,
           q' = Tq!TAILQ_REMOVE(q, h, e)
    PROVE  /\ Linked(q, Lines)'
           /\ e \in In(h) /\ In(h)' = In(h) \ {e} /\ \A g \in Heads : g # h => In(g)' = In(g)
           /\ \A x \in Entries : q'.cell[x] = q.cell[x]
           /\ \A x \in Entries : x \notin In(h) \/ x = e => q'.prev[x] = q.prev[x]
<1> DEFINE Q == Lines
           R == [Q EXCEPT ![h] = Tail(@)]
<1>1. \A g \in Heads : Q[g] = Line(g) /\ Q[g] \in Seq(Entries) /\ In(g) = Elems(Q[g]) /\ Distinct(Q[g])
  BY LinkedIs DEF Lines, In, Linked
<1>2. /\ Linked(q', R) /\ Q[h] # <<>> /\ Head(Q[h]) = e
      /\ \A x \in Entries : q'.cell[x] = q.cell[x]
      /\ \A x \in Entries : x \notin Elems(Q[h]) => q'.prev[x] = q.prev[x]
      /\ q'.prev[e] = q.prev[e]
  <2> HIDE DEF Q
  <2> QED  BY TakeLinked DEF Q
<1>3. DOMAIN R = Heads /\ R[h] = Tail(Q[h]) /\ \A g \in Heads : g # h => R[g] = Q[g]
  BY DEF Lines
<1> HIDE DEF R
<1>4. \A g \in Heads : Line(g)' = R[g]
  BY <1>2, LineIs DEF Line
<1>5. Lines' = R
  <2>1. Lines' = [g \in Heads |-> Line(g)']
    BY DEF Lines
  <2>2. R = [g \in Heads |-> R[g]]
    BY <1>2, <1>3 DEF R, Lines
  <2> QED  BY <1>4, <2>1, <2>2
<1>6. \A g \in Heads : In(g)' = Elems(R[g])
  BY <1>4 DEF In, Elems
<1>7. Elems(R[h]) = Elems(Q[h]) \ {e} /\ e \in Elems(Q[h])
  BY <1>1, <1>2, <1>3, HeadTaken
<1>8. e \in In(h) /\ In(h)' = In(h) \ {e} /\ \A g \in Heads : g # h => In(g)' = In(g)
  BY <1>1, <1>3, <1>6, <1>7
<1>9. \A x \in Entries : x \notin In(h) \/ x = e => q'.prev[x] = q.prev[x]
  BY <1>1, <1>2
<1>10. Linked(q, Lines)'
  BY <1>2, <1>5
<1> QED  BY <1>2, <1>8, <1>9, <1>10

LEMMA FirstIs ==
    ASSUME Linked(q, Lines), NEW h \in Heads
    PROVE  /\ In(h) \subseteq Entries /\ NULL \notin In(h)
           /\ Tq!TAILQ_FIRST(q, h) = NULL <=> In(h) = {}
           /\ Tq!TAILQ_FIRST(q, h) # NULL => Tq!TAILQ_FIRST(q, h) \in In(h)
           /\ \A g \in Heads : g # h => In(g) \cap In(h) = {}
<1> DEFINE s == Lines[h]
<1>1. /\ s \in Seq(Entries) /\ Tq!IsQueue(q, h, s) /\ In(h) = Elems(s)
      /\ \A g \in Heads : Lines[g] \in Seq(Entries) /\ In(g) = Elems(Lines[g])
  BY DEF Linked, Lines, In
<1>2. In(h) \subseteq Entries /\ NULL \notin In(h)
  BY <1>1, TransportAssumption DEF Elems
<1>3. ASSUME NEW g \in Heads, g # h PROVE In(g) \cap In(h) = {}
  BY <1>1, <1>3 DEF Linked, Elems
<1>4. CASE s = <<>>
  BY <1>1, <1>2, <1>3, <1>4 DEF Tq!IsQueue, Tq!TAILQ_FIRST, Elems
<1>5. CASE s # <<>>
  <2>1. 1 \in 1 .. Len(s) /\ q.cell[h] = s[1]
    <3>1. 1 \in 1 .. Len(s)
      BY <1>1, <1>5
    <3> QED  BY <1>1, <3>1 DEF Tq!IsQueue
  <2>2. s[1] \in In(h)
    BY <1>1, <2>1 DEF Elems
  <2> QED  BY <1>2, <1>3, <2>1, <2>2 DEF Tq!TAILQ_FIRST
<1> QED  BY <1>4, <1>5

\* TAILQ_REMOVE of an entry that is not queued, whose links are those of the
\* only element of the empty queue.
LEMMA StaleRemoved ==
    ASSUME Linked(q, Lines), NEW h \in Heads, NEW e \in Entries, In(h) = {},
           q.prev[e] = h, q.cell[e] = NULL
    PROVE  Tq!TAILQ_REMOVE(q, h, e) = q
<1> DEFINE m == Tq!TAILQ_REMOVE(q, h, e)
<1>1. /\ q.cell \in [Heads \cup Entries -> Entries \cup {NULL}]
      /\ q.last \in [Heads -> Heads \cup Entries] /\ q.prev \in [Entries -> Heads \cup Entries]
      /\ q = [cell |-> q.cell, last |-> q.last, prev |-> q.prev]
  BY LinkedIs
<1>2. q.cell[h] = NULL /\ q.last[h] = h
  <2>1. Lines[h] \in Seq(Entries) /\ Elems(Lines[h]) = {}
    BY DEF Linked, Lines, In
  <2>2. Lines[h] = <<>>
    <3>1. Lines[h] # <<>> => Lines[h][1] \in Elems(Lines[h])
      BY <2>1 DEF Elems
    <3> QED  BY <2>1, <3>1
  <2> QED  BY <2>2 DEF Linked, Tq!IsQueue
<1>3. /\ m.cell = [q.cell EXCEPT ![h] = NULL] /\ m.last = [q.last EXCEPT ![h] = h] /\ m.prev = q.prev
      /\ m = [cell |-> m.cell, last |-> m.last, prev |-> m.prev]
  BY DEF Tq!TAILQ_REMOVE
<1> HIDE DEF m
<1>4. m.cell = q.cell /\ m.last = q.last
  BY <1>1, <1>2, <1>3
<1> QED  BY <1>1, <1>3, <1>4 DEF m

-----------------------------------------------------------------------------
(* What keeps the parts of Carried. *)

LEMMA PrimedFlight ==
    LET F == Flight(hw'.frame, rx'.frame, wire')
    IN  Fly' = FlyOf(F) /\ \A i : Once(i)' <=> OnceIn(F, i)
  BY DEF Fly, Once, Now, FlyOf, OnceIn, Slots, Flight

LEMMA Thinner ==
    ASSUME Within(Flight(hw'.frame, rx'.frame, wire'), Now)
    PROVE  Fly' \subseteq Fly /\ \A i \in Indices : Once(i) => Once(i)'
  BY PrimedFlight DEF Within, Fly, Once

LEMMA StillUnderWay ==
    ASSUME Fly' \subseteq Fly, hw'.entry = hw.entry, UNCHANGED ent
    PROVE  /\ \A i : Flying(i)' => Flying(i)
           /\ \A i : Popped(i)' <=> Popped(i)
           /\ \A i : UnderWay(i)' => UnderWay(i)
  BY DEF UnderWay, Flying, Popped

LEMMA QueuedKept ==
    ASSUME Queued, UNCHANGED <<q, p_entry, p_idx, calls, ent>>,
           \A i : UnderWay(i)' => UnderWay(i),
           \A c \in Clients : pc[c] \in Queuing => pc'[c] \in Queuing
    PROVE  Queued'
<1>1. \A h \in Heads : In(h)' = In(h)
  BY DEF In, Line, Elems
<1>2. Linked(q, Lines)'
  BY DEF Queued, Lines, Line, Linked
<1>3. ASSUME NEW e, InLow(e) PROVE InLow(e)'
  BY <1>3 DEF InLow, Asked, Datagram
<1> QED  BY <1>1, <1>2, <1>3 DEF Queued, Heads

LEMMA LooseKept ==
    ASSUME Loose, UNCHANGED <<q, p_entry>>,
           \A c \in Clients : pc'[c] \in Queuing => pc[c] \in Queuing
    PROVE  Loose'
  BY DEF Loose

LEMMA CycledKept ==
    ASSUME Cycled, UNCHANGED <<q, p_entry, cyc>>, hw'.owner = hw.owner, hw'.queue = hw.queue
    PROVE  Cycled'
<1>1. In("high")' = In("high")
  BY DEF In, Line, Elems
<1> QED  BY <1>1 DEF Cycled, InHigh

LEMMA LoadedKept ==
    ASSUME Loaded, UNCHANGED <<p_entry, p_idx, calls, ent>>,
           \A c \in Clients : pc'[c] = "enqueue" => pc[c] = "enqueue"
    PROVE  Loaded'
  BY DEF Loaded, Asked, Answered, Datagram

LEMMA RightKept ==
    ASSUME NEW e, NEW f, NEW d, Right(e, d), f \in {NULL, e},
           UNCHANGED <<p_entry, p_idx, calls, ent>>,
           \A o \in Senders : Started(o) => Started(o)'
    PROVE  Right(f, d)'
<1>1. ASSUME NEW o \in Senders, p_idx[o] = d.idx
      PROVE  Started(o)' /\ d = Asked(o)' /\ (p_entry[o] # NULL => f \in {NULL, p_entry[o]})
  <2>1. Started(o) /\ d = Asked(o) /\ (p_entry[o] # NULL => e \in {NULL, p_entry[o]})
    BY <1>1 DEF Right
  <2>2. Asked(o)' = Asked(o)
    BY DEF Asked, Datagram
  <2> QED  BY <2>1, <2>2
<1>2. f # NULL => ent[f].p_idx = d.idx
  BY DEF Right
<1> QED  BY <1>1, <1>2 DEF Right

LEMMA SendingMade ==
    ASSUME \A d \in Fly' : \A f : f = tx_send'[d.idx] => Right(f, d)',
           \A f, d : f = hw'.entry /\ f # NULL /\ d = ent'[f].dg => Right(f, d)',
           \A f, d : f = rx'.entry /\ f # NULL /\ d = RxDg' => Right(f, d)'
    PROVE  Sending'
<1>1. ASSUME NEW d \in Fly' PROVE Right(tx_send[d.idx], d)'
  BY DEF Right
<1>2. ASSUME hw'.entry # NULL PROVE Right(hw.entry, ent[hw.entry].dg)'
  BY <1>2 DEF Right
<1>3. ASSUME rx'.entry # NULL PROVE Right(rx.entry, RxDg)'
  BY <1>3 DEF Right
<1> QED  BY <1>1, <1>2, <1>3 DEF Sending

LEMMA SendingKept ==
    ASSUME Inv, Sending, Fly' \subseteq Fly, UNCHANGED <<p_entry, p_idx, calls, ent>>,
           hw'.entry \in {hw.entry, NULL},
           rx'.entry = NULL \/ (rx'.entry = rx.entry /\ rx'.frame = rx.frame),
           \A i \in Indices : tx_send'[i] \in {NULL, tx_send[i]},
           \A o \in Senders : Started(o) => Started(o)'
    PROVE  Sending'
<1>1. ASSUME NEW d \in Fly', NEW f, f = tx_send'[d.idx] PROVE Right(f, d)'
  <2>1. d.idx \in Indices
    BY UnderWayIs DEF Datagrams
  <2>2. Right(tx_send[d.idx], d) /\ f \in {NULL, tx_send[d.idx]}
    BY <1>1, <2>1 DEF Sending
  <2> QED  BY <2>2, RightKept
<1>2. ASSUME NEW f, NEW d, f = hw'.entry, f # NULL, d = ent'[f].dg PROVE Right(f, d)'
  <2>1. Right(f, d)
    BY <1>2 DEF Sending
  <2> QED  BY <2>1, RightKept
<1>3. ASSUME NEW f, NEW d, f = rx'.entry, f # NULL, d = RxDg' PROVE Right(f, d)'
  <2>1. Right(f, d)
    BY <1>3 DEF Sending, RxDg
  <2> QED  BY <2>1, RightKept
<1> QED  BY <1>1, <1>2, <1>3, SendingMade

LEMMA SingleKept ==
    ASSUME Inv, Single, Fly' \subseteq Fly, \A i \in Indices : Once(i) => Once(i)', UNCHANGED <<p_idx, ent>>,
           hw'.entry = hw.entry
    PROVE  Single'
<1>1. \A c \in Clients : p_idx[c] # NULL => p_idx[c] \in Indices
  BY Names DEF Inv, TypeOK
<1>2. \A i : (Flying(i)' => Flying(i)) /\ (Popped(i)' <=> Popped(i))
  BY StillUnderWay
<1> QED  BY <1>1, <1>2 DEF Single

LEMMA AnswersKept ==
    ASSUME Answers, UNCHANGED <<p_entry, p_idx, calls, ent, waiter>>,
           \A o \in Senders : Started(o) => Started(o)',
           \A c \in Clients : pc'[c] = "read" => pc[c] = "read",
           rx'.pc = "post" => rx.pc = "post" /\ rx'.entry = rx.entry
    PROVE  Answers'
<1>1. \A o : Asked(o)' = Asked(o)
  BY DEF Asked, Datagram
<1> QED  BY <1>1 DEF Answers, Senders, Answered

LEMMA QuietKept ==
    ASSUME Quiet, UNCHANGED <<idxq, p_idx, waiter>>, \A i : UnderWay(i)' => UnderWay(i),
           \A c \in Clients : pc'[c] \in {"read", "iput"} => pc[c] \in {"read", "iput"}
    PROVE  Quiet'
  BY DEF Quiet, Elems

-----------------------------------------------------------------------------
(* The steps that take nothing and put nothing. *)

Thin ==
    /\ UNCHANGED <<idxq, p_idx, q, ent, p_entry, calls>> /\ hw'.entry = hw.entry
    /\ Within(Flight(hw'.frame, rx'.frame, wire'), Now)
    /\ \A c \in Clients : \/ pc'[c] = pc[c]
                          \/ pc[c] \in {"tx", "sending", "wait"} /\ pc'[c] \in Queuing
                          \/ pc[c] = "expire" /\ pc'[c] = "put"
    /\ \A i \in Indices : tx_send'[i] \in {NULL, tx_send[i]}
    /\ rx'.entry = NULL \/ (rx'.entry = rx.entry /\ rx'.frame = rx.frame)

LEMMA ThinKept ==
    ASSUME Inv, Carried, Thin
    PROVE  /\ Queued' /\ Loose' /\ Loaded' /\ Sending' /\ Single'
           /\ Fly' \subseteq Fly /\ \A i : UnderWay(i)' => UnderWay(i)
           /\ \A o \in Senders : Started(o) => Started(o)'
           /\ UNCHANGED waiter /\ (rx'.pc = "post" => rx.pc = "post" /\ rx'.entry = rx.entry) =>
                Answers' /\ Quiet'
<1>1. Fly' \subseteq Fly /\ \A i \in Indices : Once(i) => Once(i)'
  BY Thinner DEF Thin
<1>2. \A i : UnderWay(i)' => UnderWay(i)
  BY <1>1, StillUnderWay DEF Thin
<1>3. \A o \in Senders : Started(o) => Started(o)'
  BY DEF Thin, Started, Queuing
<1>4. Queued' /\ Loose' /\ Loaded'
  <2>1. Queued'
    BY <1>2, QueuedKept DEF Carried, Thin, Queuing
  <2>2. Loose'
    BY LooseKept DEF Carried, Thin, Queuing
  <2>3. Loaded'
    BY LoadedKept DEF Carried, Thin, Queuing
  <2> QED  BY <2>1, <2>2, <2>3
<1>5. Sending' /\ Single'
  BY <1>1, <1>3, SendingKept, SingleKept DEF Carried, Thin
<1>6. UNCHANGED waiter /\ (rx'.pc = "post" => rx.pc = "post" /\ rx'.entry = rx.entry) => Answers' /\ Quiet'
  <2>1. \A c \in Clients : pc'[c] \in {"read", "iput"} => pc[c] = pc'[c]
    BY DEF Thin, Queuing
  <2> QED  BY <1>2, <1>3, <2>1, AnswersKept, QuietKept DEF Carried, Thin
<1> QED  BY <1>1, <1>2, <1>3, <1>4, <1>5, <1>6

\* Nothing moves.
LEMMA WithinItself ==
    ASSUME hw'.frame = hw.frame, rx'.frame = rx.frame, wire' = wire
    PROVE  Within(Flight(hw'.frame, rx'.frame, wire'), Now)
  BY DEF Within, Now

\* The lock of the frame assembly and the cyclic task.
LEMMA ControlKept ==
    ASSUME Orderly, Inv, Carried,
           \/ EnterOp \/ CycStart \/ CycTx \/ UNCHANGED vars
           \/ \E c \in Clients : TcTx(c) \/ TcWaitTimeout(c) \/ TcGiveUp(c) \/ TcExpired(c)
    PROVE  Carried'
<1> USE DEF qvars, evars, hvars, cvars, bounds
<1>0. NULL # "cyc" /\ NULL \notin Clients /\ "cyc" \notin Clients /\ Pingers = {} /\ MaxTimeouts \in Nat
  BY TransportAssumption DEF Orderly
<1>1. CASE EnterOp \/ UNCHANGED vars
  <2>1. Thin /\ UNCHANGED waiter /\ rx' = rx
    BY <1>1, WithinItself DEF EnterOp, Thin, vars
  <2>2. Threads' /\ Cycled'
    BY <1>1, CycledKept DEF EnterOp, vars, Carried, Threads, cdg
  <2> QED  BY <2>1, <2>2, ThinKept DEF Carried
<1>2. CASE CycStart \/ CycTx
  <2>1. hw'.frame = hw.frame /\ hw'.entry = hw.entry
    BY <1>2 DEF CycStart, CycTx, hw_lock, Inv, TypeOK, HwStates
  <2>2. Thin /\ UNCHANGED waiter /\ rx' = rx
    BY <1>2, <2>1, WithinItself DEF CycStart, CycTx, Thin
  <2>3. CASE CycStart
    <3>1. cyc.pc = "idle" /\ cyc'.pc = "lock" /\ UNCHANGED <<hw, q, p_entry, p_idx, pc, rx, ent>>
      BY <2>3 DEF CycStart
    <3>2. Threads'
      BY <3>1 DEF Carried, Threads, cdg
    <3>3. In("high")' = In("high") /\ In("high") = {}
      BY <3>1 DEF Carried, Cycled, InHigh, In, Line, Elems
    <3> QED  BY <2>2, <3>2, <3>3, ThinKept DEF Carried, Cycled
  <2>4. CASE CycTx
    <3>1. /\ cyc.pc = "tx" /\ cyc'.pc = "sending" /\ hw'.owner = "cyc" /\ hw'.queue = "high"
          /\ UNCHANGED <<q, p_entry, p_idx, pc, rx, ent>>
      BY <2>4 DEF CycTx, hw_lock, Inv, TypeOK, HwStates, CycStates
    <3>2. Threads'
      BY <3>1 DEF Carried, Threads, cdg
    <3>3. In("high")' = In("high")
      BY <3>1 DEF In, Line, Elems
    <3>4. Cycled'
      BY <3>1, <3>3 DEF Carried, Cycled, InHigh
    <3> QED  BY <2>2, <3>2, <3>4, ThinKept DEF Carried
  <2> QED  BY <1>2, <2>3, <2>4
<1>3. ASSUME NEW c \in Clients, TcTx(c) \/ TcWaitTimeout(c) \/ TcGiveUp(c) \/ TcExpired(c)
      PROVE  Carried'
  <2>1. /\ hw'.frame = hw.frame /\ hw'.entry = hw.entry /\ rx' = rx /\ wire' = wire
        /\ hw' = hw \/ (hw.owner = NULL /\ hw'.owner \in Clients /\ hw'.queue = "low")
        /\ UNCHANGED <<idxq, waiter, p_idx, q, ent, p_entry, calls, cyc>>
        /\ \A i \in Indices : tx_send'[i] \in {NULL, tx_send[i]}
    <3>1. hw \in HwStates /\ tx_send \in [Indices -> Entries \cup {NULL}]
      BY <1>0 DEF Inv, TypeOK
    <3>2. /\ rx' = rx /\ wire' = wire
          /\ UNCHANGED <<idxq, waiter, p_idx, q, ent, p_entry, calls, cyc>>
      BY <1>3 DEF TcTx, TcWaitTimeout, TcGiveUp, TcExpired
    <3>3. \/ hw' = hw
          \/ hw.owner = NULL /\ hw' = [hw EXCEPT !.owner = c, !.queue = "low"]
      BY <1>0, <1>3 DEF TcTx, TcWaitTimeout, TcGiveUp, TcExpired, hw_lock
    <3>4. \/ tx_send' = tx_send
          \/ tx_send' = [tx_send EXCEPT ![ent[p_entry[c]].dg.idx] = NULL]
      BY <1>3 DEF TcTx, TcWaitTimeout, TcGiveUp, TcExpired
    <3>5. \A i \in Indices : tx_send'[i] \in {NULL, tx_send[i]}
      BY <3>1, <3>4
    <3> QED  BY <3>1, <3>2, <3>3, <3>5 DEF HwStates
  <2>2. /\ \A d \in Clients : d # c => pc'[d] = pc[d]
        /\ \/ pc[c] = "tx" /\ pc'[c] \in {"wait", "sending"}
           \/ pc[c] = "wait" /\ pc'[c] = "remove" /\ timeouts < MaxTimeouts
           \/ pc[c] = "expire" /\ pc'[c] = "put"
    BY <1>0, <1>3 DEF TcTx, TcWaitTimeout, TcGiveUp, TcExpired, Goto, Inv, TypeOK
  <2>3. Thin
    BY <2>1, <2>2, WithinItself DEF Thin, Queuing
  <2>4. Threads'
    <3>1. timeouts < MaxTimeouts => MaxTimeouts # 0
      BY <1>0 DEF Inv, TypeOK
    <3>2. \A d \in Clients : p_entry'[d] = NULL <=> pc'[d] \in {"out", "pool", "iput"}
      BY <2>1, <2>2 DEF Carried, Threads
    <3>3. MaxTimeouts = 0 => \A d \in Clients : pc'[d] \notin {"remove", "expire", "put"}
      BY <2>2, <3>1 DEF Carried, Threads
    <3>4. /\ hw'.owner = "cyc" => cyc'.pc = "sending"
          /\ hw'.queue = "high" => hw'.owner = "cyc"
      BY <1>0, <2>1 DEF Carried, Threads
    <3> QED  BY <2>1, <3>2, <3>3, <3>4 DEF Carried, Threads, cdg
  <2>5. Cycled'
    <3>1. In("high")' = In("high")
      BY <2>1 DEF In, Line, Elems
    <3> QED  BY <1>0, <2>1, <3>1 DEF Carried, Cycled, InHigh
  <2> QED  BY <2>1, <2>3, <2>4, <2>5, ThinKept DEF Carried
<1> QED  BY <1>1, <1>2, <1>3

\* Frames are sent, lost and received.
LEMMA FramesKept ==
    ASSUME Orderly, Inv, Carried, TxDone \/ LoseFrame \/ RxFrame
    PROVE  Carried'
<1> USE DEF qvars, evars, hvars, cvars, bounds
<1>0. /\ NULL # "cyc" /\ NULL \notin Clients /\ "cyc" \notin Clients
      /\ hw.frame \in Seq(Datagrams) /\ rx.frame \in Seq(Datagrams) /\ wire \in Seq(Frames)
  BY UnderWayIs, TransportAssumption
<1>1. CASE TxDone
  <2>1. /\ hw'.frame = <<>> /\ hw'.entry = hw.entry /\ wire' = Sent(hw.frame)
        /\ UNCHANGED <<idxq, waiter, p_idx, q, ent, p_entry, tx_send, rx, calls>>
        /\ hw.queue = "high" => hw'.owner = hw.owner /\ pc' = pc /\ cyc' = cyc
        /\ hw'.queue = "low" /\ (hw.queue = "low" => hw'.owner = NULL) /\ hw.owner # NULL
        /\ hw.queue \in {"low", "high"} /\ Tq!TAILQ_FIRST(q, hw.queue) = NULL
        /\ cyc' = cyc \/ (hw.owner = "cyc" /\ hw.queue = "low" /\ cyc'.pc = "idle")
        /\ hw.owner = "cyc" /\ hw.queue = "low" => cyc'.pc = "idle"
    BY <1>1 DEF TxDone, Inv, TypeOK, HwStates, CycStates
  <2>2. Within(Flight(hw'.frame, rx'.frame, wire'), Now)
    BY <1>0, <2>1, FlightSent DEF Sent, Now
  <2>3. \A c \in Clients : pc'[c] = pc[c] \/ (pc[c] = "sending" /\ pc'[c] = "wait")
    <3>1. \A c \in Clients : hw.owner = c => pc[c] = "sending"
      BY DEF Inv, CallerControl
    <3> QED  BY <1>1, <3>1 DEF TxDone, Inv, TypeOK
  <2>4. Thin
    BY <2>1, <2>2, <2>3 DEF Thin, Queuing
  <2>5. Threads'
    <3>1. \A c \in Clients : /\ p_entry'[c] = NULL <=> pc'[c] \in {"out", "pool", "iput"}
                             /\ MaxTimeouts = 0 => pc'[c] \notin {"remove", "expire", "put"}
      BY <2>1, <2>3 DEF Carried, Threads
    <3>2. /\ hw'.owner = "cyc" => cyc'.pc = "sending"
          /\ hw'.queue = "high" => hw'.owner = "cyc"
          /\ cyc'.pc = "iput" => cyc' = cyc
      BY <1>0, <2>1 DEF Carried, Threads
    <3>3. cyc' = cyc => cdg' = cdg
      BY DEF cdg
    <3> QED  BY <2>1, <3>1, <3>2, <3>3 DEF Carried, Threads
  <2>6. Cycled'
    <3>1. In("high")' = In("high")
      BY <2>1 DEF In, Line, Elems
    <3>2. CASE hw.queue = "high"
      <4>1. In("high") = {}
        BY <2>1, <3>2, FirstIs DEF Carried, Queued, Heads
      <4> QED  BY <3>1, <4>1 DEF Cycled
    <3>3. CASE hw.queue = "low"
      <4>1. ASSUME NEW e \in In("high") PROVE InHigh(e)'
        <5>1. PICK j \in 1 .. Len(CycleSeq) :
                /\ p_entry[CycleSeq[j]] = e
                /\ \/ cyc.pc \in {"lock", "pool", "iput", "enqueue"} /\ j < cyc.k
                   \/ cyc.pc = "tx"
          BY <3>3 DEF Carried, Cycled, InHigh
        <5>2. cyc' = cyc
          BY <2>1, <5>1 DEF Carried, Threads
        <5> QED  BY <2>1, <5>1, <5>2 DEF InHigh
      <4> QED  BY <3>1, <4>1 DEF Cycled
    <3> QED  BY <2>1, <3>2, <3>3
  <2> QED  BY <2>1, <2>4, <2>5, <2>6, ThinKept DEF Carried
<1>2. CASE LoseFrame \/ RxFrame
  <2>1. UNCHANGED <<idxq, waiter, p_idx, q, ent, p_entry, tx_send, hw, pc, calls, cyc>>
    BY <1>2 DEF LoseFrame, RxFrame
  <2>2. Within(Flight(hw'.frame, rx'.frame, wire'), Now)
    <3>1. CASE LoseFrame
      <4>1. PICK k \in 1 .. Len(wire) : wire' = RemoveAt(wire, k)
        BY <3>1 DEF LoseFrame
      <4>2. rx' = rx
        BY <3>1 DEF LoseFrame
      <4>3. /\ Len(wire') = Len(wire) - 1
            /\ \A j \in 1 .. Len(wire') : wire'[j] = IF j < k THEN wire[j] ELSE wire[j + 1]
        BY <1>0, <4>1, Removed
      <4> QED  BY <1>0, <2>1, <4>2, <4>3, FlightTaken DEF Now
    <3>2. CASE RxFrame
      <4>1. rx'.frame = wire[1] /\ wire' = Tail(wire) /\ 1 \in 1 .. Len(wire)
        BY <1>0, <3>2 DEF RxFrame
      <4>2. /\ Len(wire') = Len(wire) - 1
            /\ \A j \in 1 .. Len(wire') : wire'[j] = IF j < 1 THEN wire[j] ELSE wire[j + 1]
        BY <1>0, <4>1
      <4> QED  BY <1>0, <2>1, <4>1, <4>2, FlightTaken DEF Now
    <3> QED  BY <1>2, <3>1, <3>2
  <2>3. rx' = rx \/ (rx'.pc = "slot" /\ rx'.entry = NULL)
    BY <1>2 DEF LoseFrame, RxFrame
  <2>4. Thin
    BY <2>1, <2>2, <2>3 DEF Thin
  <2>5. Threads' /\ Cycled'
    BY <2>1, <2>3, CycledKept DEF Carried, Threads, cdg
  <2> QED  BY <2>1, <2>3, <2>4, <2>5, ThinKept DEF Carried
<1> QED  BY <1>1, <1>2

\* On to the next datagram of the frame.
LEMMA RxNextIs ==
    ASSUME Inv, RxNext, rx.frame # <<>>, hw' = hw, wire' = wire
    PROVE  /\ Within(Flight(hw'.frame, rx'.frame, wire'), Now)
           /\ rx'.entry = NULL /\ rx'.pc \in {"slot", "idle"} /\ (rx'.pc = "idle" => rx'.frame = <<>>)
           /\ RxDg \in Fly
           /\ \A i : i = RxDg.idx /\ Once(i) => ~Flying(i)'
<1>1. /\ hw.frame \in Seq(Datagrams) /\ rx.frame \in Seq(Datagrams) /\ wire \in Seq(Frames)
  BY UnderWayIs
<1>2. /\ rx'.entry = NULL /\ rx'.pc = (IF Len(rx.frame) > 1 THEN "slot" ELSE "idle")
      /\ rx'.frame = Tail(rx.frame)
  BY DEF RxNext
<1>3. rx'.pc = "idle" => rx'.frame = <<>>
  BY <1>1, <1>2
<1>4. /\ Within(Flight(hw'.frame, rx'.frame, wire'), Now)
      /\ RxDg \in Fly
      /\ Once(RxDg.idx) => \A d \in FlyOf(Flight(hw'.frame, rx'.frame, wire')) : d.idx # RxDg.idx
  BY <1>1, <1>2, FlightNext DEF Now, RxDg, Fly, Once
<1>5. ASSUME NEW i, i = RxDg.idx PROVE Once(i) => ~Flying(i)'
  BY <1>4, <1>5, PrimedFlight DEF Flying
<1> QED  BY <1>2, <1>3, <1>4, <1>5

\* The sent mark goes, and the datagram is dropped or given to its callback.
LEMMA ClearKept ==
    ASSUME Orderly, Inv, Carried, RxClear \/ RxCyclic
    PROVE  Carried'
<1> USE DEF qvars, evars, hvars, cvars, bounds
<1>1. /\ UNCHANGED <<idxq, waiter, p_idx, q, ent, p_entry, hw, wire, pc, calls, cyc>>
      /\ \A i \in Indices : tx_send'[i] \in {NULL, tx_send[i]}
      /\ rx.frame # <<>>
  <2>1. rx.pc # "idle"
    BY DEF RxClear, RxCyclic, Calling
  <2> QED  BY <2>1 DEF RxClear, RxCyclic, Inv, TypeOK, RxControl
<1>2. RxNext \/ rx' = [rx EXCEPT !.pc = "cb"]
  BY DEF RxClear, RxCyclic
<1>3. /\ Within(Flight(hw'.frame, rx'.frame, wire'), Now)
      /\ rx'.entry = NULL \/ (rx'.entry = rx.entry /\ rx'.frame = rx.frame)
      /\ rx'.pc \in {"idle", "slot", "cb"}
      /\ rx'.pc \in {"idle", "slot"} => rx'.entry = NULL
      /\ rx'.pc = "idle" => rx'.frame = <<>>
  <2>1. CASE RxNext
    BY <1>1, <2>1, RxNextIs
  <2>2. CASE rx' = [rx EXCEPT !.pc = "cb"]
    <3>1. rx'.pc = "cb" /\ rx'.frame = rx.frame /\ rx'.entry = rx.entry
      BY <2>2, RxGoto
    <3> QED  BY <1>1, <3>1, WithinItself
  <2> QED  BY <1>2, <2>1, <2>2
<1>4. Thin
  BY <1>1, <1>3 DEF Thin
<1>5. Threads' /\ Cycled'
  BY <1>1, <1>3, CycledKept DEF Carried, Threads, cdg
<1> QED  BY <1>1, <1>3, <1>4, <1>5, ThinKept DEF Carried

\* The semaphore is posted.
LEMMA PostKept ==
    ASSUME Orderly, Inv, Apart, Carried, RxPost
    PROVE  Carried'
<1> USE DEF qvars, evars, hvars, cvars, bounds
<1> SUFFICES ASSUME NEW i, i = ent[rx.entry].p_idx PROVE Carried'
  OBVIOUS
<1>1. /\ UNCHANGED <<idxq, p_idx, q, ent, p_entry, tx_send, hw, wire, pc, calls, cyc>>
      /\ waiter' = [waiter EXCEPT ![i] = TRUE] /\ RxNext
      /\ rx.pc = "post" /\ rx.frame # <<>> /\ rx.entry # NULL /\ rx.entry \in Entries
  <2>1. rx.pc \in {"post", "cb"}
    BY DEF RxPost, Calling
  <2>2. rx.frame # <<>> /\ rx.entry # NULL /\ rx.entry \in Entries
    BY <2>1 DEF Inv, TypeOK, RxControl, RxStates
  <2>3. ~Calling("anon")
    BY <2>2 DEF Calling, Carried, Threads
  <2> QED  BY <2>2, <2>3 DEF RxPost
<1>2. /\ Within(Flight(hw'.frame, rx'.frame, wire'), Now)
      /\ rx'.entry = NULL /\ rx'.pc \in {"slot", "idle"} /\ (rx'.pc = "idle" => rx'.frame = <<>>)
      /\ RxDg \in Fly
      /\ \A k : k = RxDg.idx /\ Once(k) => ~Flying(k)'
  BY <1>1, RxNextIs
<1>3. Thin
  BY <1>1, <1>2 DEF Thin
<1>4. Threads' /\ Cycled'
  BY <1>1, <1>2, CycledKept DEF Carried, Threads, cdg
<1>5. i = RxDg.idx /\ i \in Indices /\ Flying(i)
  <2>1. Right(rx.entry, RxDg)
    BY <1>1 DEF Carried, Sending
  <2>2. RxDg \in Datagrams
    BY <1>2, UnderWayIs
  <2> QED  BY <1>1, <1>2, <2>1, <2>2 DEF Right, Flying, Datagrams
<1>6. waiter'[i] /\ \A k : k # i => waiter'[k] = waiter[k]
  BY <1>1, <1>5 DEF Inv, TypeOK
<1>7. \A o : Asked(o)' = Asked(o)
  BY <1>1 DEF Asked, Datagram
<1>8. Answers'
  <2>1. ASSUME NEW c \in Clients, p_idx'[c] # NULL, waiter'[p_idx[c]]
        PROVE  Started(c)' /\ (p_entry'[c] # NULL => ent'[p_entry[c]].dg = Answered(Asked(c)))
    <3>1. CASE p_idx[c] = i
      <4>1. c \in Senders /\ Right(rx.entry, RxDg)
        BY <1>1 DEF Senders, Carried, Sending
      <4>2. Started(c) /\ (p_entry[c] # NULL => p_entry[c] = rx.entry)
        BY <1>1, <1>5, <3>1, <4>1 DEF Right
      <4>3. p_entry[c] = rx.entry => ent[rx.entry].dg = Answered(Asked(c))
        BY <1>1 DEF Carried, Answers
      <4> QED  BY <1>1, <4>2, <4>3 DEF Started
    <3>2. CASE p_idx[c] # i
      BY <1>1, <1>6, <2>1, <3>2 DEF Carried, Answers, Started
    <3> QED  BY <3>1, <3>2
  <2>2. ASSUME NEW c \in Clients, pc'[c] = "read"
        PROVE  ent'[p_entry[c]].dg = Answered(Asked(c))
    BY <1>1, <2>2 DEF Carried, Answers
  <2> QED  BY <1>1, <1>2, <1>7, <2>1, <2>2 DEF Answers, Answered
<1>9. Quiet'
  <2>1. ASSUME NEW c \in Clients, p_idx[c] = i PROVE ~UnderWay(i)'
    <3>1. Once(i) /\ ~Popped(i)
      BY <1>5, <2>1, TransportAssumption DEF Carried, Single
    <3>2. ~Flying(i)'
      BY <1>2, <1>5, <3>1
    <3>3. ~Popped(i)'
      BY <1>1, <3>1 DEF Popped
    <3> QED  BY <3>2, <3>3 DEF UnderWay
  <2>2. \A k : UnderWay(k)' => UnderWay(k)
    BY <1>3, ThinKept
  <2>3. ASSUME MaxTimeouts = 0, NEW c \in Clients, p_idx[c] # NULL,
               pc[c] \in {"read", "iput"} \/ waiter'[p_idx[c]]
        PROVE  ~UnderWay(p_idx[c])'
    <3>1. CASE p_idx[c] = i
      BY <1>1, <2>1, <3>1
    <3>2. CASE p_idx[c] # i
      BY <1>1, <1>6, <2>2, <2>3, <3>2 DEF Carried, Quiet
    <3> QED  BY <3>1, <3>2
  <2> QED  BY <1>1, <2>2, <2>3 DEF Carried, Quiet, Elems
<1> QED  BY <1>3, <1>4, <1>8, <1>9, ThinKept DEF Carried

\* The entry is looked up in tx_send.
LEMMA SlotKept ==
    ASSUME Orderly, Inv, Carried, RxSlot
    PROVE  Carried'
<1> USE DEF qvars, evars, hvars, cvars, bounds
<1>1. /\ UNCHANGED <<idxq, waiter, p_idx, q, ent, p_entry, tx_send, hw, wire, pc, calls, cyc>>
      /\ rx.pc = "slot" /\ rx.frame # <<>> /\ rx' = [rx EXCEPT !.pc = "clear", !.entry = tx_send[RxDg.idx]]
  BY DEF RxSlot, Inv, RxControl
<1>2. rx'.pc = "clear" /\ rx'.frame = rx.frame /\ rx'.entry = tx_send[RxDg.idx] /\ RxDg' = RxDg
  <2>1. ASSUME NEW e, rx' = [rx EXCEPT !.pc = "clear", !.entry = e]
        PROVE  rx'.pc = "clear" /\ rx'.frame = rx.frame /\ rx'.entry = e
    BY <2>1 DEF Inv, TypeOK, RxStates
  <2>2. rx'.pc = "clear" /\ rx'.frame = rx.frame /\ rx'.entry = tx_send[RxDg.idx]
    BY <1>1, <2>1
  <2> QED  BY <2>2 DEF RxDg
<1>3. Now' = Now
  BY <1>1, <1>2 DEF Now, Flight
<1>4. Fly' = Fly /\ \A i : Once(i)' <=> Once(i)
  BY <1>3 DEF Fly, Once, FlyOf, OnceIn, Slots
<1>5. RxDg \in Fly
  <2>1. Head(rx.frame) \in FlyOf(Flight(hw.frame, rx.frame, wire))
    BY <1>1, UnderWayIs, FlightNext
  <2> QED  BY <2>1 DEF Fly, Now, RxDg
<1>6. \A o \in Senders : Started(o)' <=> Started(o)
  BY <1>1 DEF Started
<1>7. \A i : UnderWay(i)' => UnderWay(i)
  BY <1>1, <1>4, StillUnderWay
<1>8. Sending'
  <2>1. ASSUME NEW d \in Fly', NEW f, f = tx_send'[d.idx] PROVE Right(f, d)'
    <3>1. Right(f, d)
      BY <1>1, <1>4, <2>1 DEF Carried, Sending
    <3> QED  BY <1>1, <1>6, <3>1, RightKept
  <2>2. ASSUME NEW f, NEW d, f = hw'.entry, f # NULL, d = ent'[f].dg PROVE Right(f, d)'
    <3>1. Right(f, d)
      BY <1>1, <2>2 DEF Carried, Sending
    <3> QED  BY <1>1, <1>6, <3>1, RightKept
  <2>3. ASSUME NEW f, NEW d, f = rx'.entry, f # NULL, d = RxDg' PROVE Right(f, d)'
    <3>1. Right(f, d)
      BY <1>2, <1>5, <2>3 DEF Carried, Sending
    <3> QED  BY <1>1, <1>6, <3>1, RightKept
  <2> QED  BY <2>1, <2>2, <2>3, SendingMade
<1>9. Threads'
  BY <1>1, <1>2 DEF Carried, Threads, cdg
<1>10. Cycled' /\ Loose' /\ Loaded'
  BY <1>1, CycledKept, LooseKept, LoadedKept DEF Carried
<1>11. Queued'
  BY <1>1, <1>7, QueuedKept DEF Carried
<1>12. Single'
  BY <1>1, <1>4, SingleKept DEF Carried
<1>13. Answers' /\ Quiet'
  BY <1>1, <1>2, <1>6, <1>7, AnswersKept, QuietKept DEF Carried
<1> QED  BY <1>8, <1>9, <1>10, <1>11, <1>12, <1>13 DEF Carried

\* The wait for the answer succeeds.
LEMMA WaitedKept ==
    ASSUME Orderly, Inv, Carried, NEW c \in Clients, TcWaitOk(c)
    PROVE  Carried'
<1> USE DEF qvars, evars, hvars, cvars, bounds
<1>1. /\ UNCHANGED <<idxq, p_idx, q, ent, p_entry, tx_send, hw, wire, rx, calls, cyc>>
      /\ pc[c] = "wait" /\ pc'[c] = "read" /\ \A d \in Clients : d # c => pc'[d] = pc[d]
      /\ p_idx[c] \in Indices /\ p_entry[c] \in Entries /\ waiter[p_idx[c]]
      /\ \A i \in Indices : waiter'[i] => waiter[i]
  <2>1. p_idx[c] \in Indices /\ p_entry[c] \in Entries
    BY Names DEF TcWaitOk, Inv, TypeOK, CallerControl, WithEntry
  <2> QED  BY <2>1 DEF TcWaitOk, Goto, Inv, TypeOK
<1>2. Fly' = Fly /\ \A i : Once(i)' <=> Once(i)
  BY <1>1 DEF Fly, Once, Now, FlyOf, OnceIn, Slots, Flight
<1>3. \A i : UnderWay(i)' => UnderWay(i)
  BY <1>1, <1>2, StillUnderWay
<1>4. \A o \in Senders : Started(o) => Started(o)'
  BY <1>1 DEF Started
<1>5. p_idx[c] # NULL /\ p_entry[c] # NULL
  BY <1>1, TransportAssumption
<1>6. ent[p_entry[c]].dg = Answered(Asked(c))
  BY <1>1, <1>5 DEF Carried, Answers
<1>7. Queued'
  <2>1. \A h \in Heads : In(h)' = In(h)
    BY <1>1 DEF In, Line, Elems
  <2>2. Linked(q, Lines)'
    BY <1>1 DEF Carried, Queued, Lines, Line, Linked
  <2>3. ASSUME NEW e \in In("low") PROVE InLow(e)'
    <3>1. PICK d \in Clients : /\ p_entry[d] = e /\ pc[d] \in Queuing
                               /\ ent[e].dg = Asked(d) /\ ~UnderWay(p_idx[d])
      BY DEF Carried, Queued, InLow
    <3>2. d # c
      <4>1. Asked(c).ans = FALSE /\ Answered(Asked(c)).ans = TRUE
        BY DEF Asked, Answered, Datagram
      <4> QED  BY <1>6, <3>1, <4>1
    <3>3. Asked(d)' = Asked(d)
      BY <1>1 DEF Asked, Datagram
    <3>4. ~UnderWay(p_idx[d])'
      BY <1>1, <1>3, <3>1
    <3> QED  BY <1>1, <3>1, <3>2, <3>3, <3>4 DEF InLow
  <2> QED  BY <1>1, <2>1, <2>2, <2>3 DEF Carried, Queued, Heads
<1>8. Threads'
  BY <1>1 DEF Carried, Threads, cdg
<1>9. Cycled' /\ Loose' /\ Loaded'
  <2>1. \A d \in Clients : /\ pc'[d] \in Queuing => pc[d] \in Queuing
                           /\ pc'[d] = "enqueue" => pc[d] = "enqueue"
    BY <1>1 DEF Queuing
  <2> QED  BY <1>1, <2>1, CycledKept, LooseKept, LoadedKept DEF Carried
<1>10. Single'
  BY <1>1, <1>2, SingleKept DEF Carried
<1>11. Sending'
  BY <1>1, <1>2, <1>4, SendingKept DEF Carried
<1>12. Answers'
  <2>1. \A o : Asked(o)' = Asked(o)
    BY <1>1 DEF Asked, Datagram
  <2>2. ASSUME NEW d \in Clients, p_idx[d] # NULL, waiter'[p_idx[d]]
        PROVE  Started(d)' /\ (p_entry[d] # NULL => ent[p_entry[d]].dg = Answered(Asked(d)))
    <3>1. waiter[p_idx[d]] /\ d \in Senders
      BY <1>1, <2>2, Names DEF Inv, TypeOK, Senders
    <3> QED  BY <1>4, <2>2, <3>1 DEF Carried, Answers
  <2>3. ASSUME NEW d \in Clients, pc'[d] = "read" PROVE ent[p_entry[d]].dg = Answered(Asked(d))
    BY <1>1, <1>6, <2>3 DEF Carried, Answers
  <2> QED  BY <1>1, <2>1, <2>2, <2>3 DEF Carried, Answers, Answered
<1>13. Quiet'
  <2>1. ASSUME MaxTimeouts = 0, NEW d \in Clients, p_idx[d] # NULL,
               pc'[d] \in {"read", "iput"} \/ waiter'[p_idx[d]]
        PROVE  ~UnderWay(p_idx[d])
    <3>1. d = c \/ pc[d] \in {"read", "iput"} \/ waiter[p_idx[d]]
      BY <1>1, <2>1, Names DEF Inv, TypeOK
    <3> QED  BY <1>1, <2>1, <3>1 DEF Carried, Quiet
  <2> QED  BY <1>1, <1>3, <2>1 DEF Carried, Quiet, Elems
<1> QED  BY <1>7, <1>8, <1>9, <1>10, <1>11, <1>12, <1>13 DEF Carried

\* cb_block copies the answer into the entry.
LEMMA AnsweredKept ==
    ASSUME Orderly, Inv, Carried, cb_block
    PROVE  Carried'
<1> USE DEF qvars, evars, hvars, cvars, bounds
<1> SUFFICES ASSUME NEW e, e = rx.entry, NEW d, d = RxDg PROVE Carried'
  OBVIOUS
<1>1. /\ UNCHANGED <<idxq, waiter, p_idx, q, p_entry, tx_send, hw, wire, pc, calls, cyc>>
      /\ rx.pc = "cb" /\ rx.frame # <<>> /\ e # NULL /\ e \in Entries /\ ent[e].cb = "block"
      /\ rx'.pc = "post" /\ rx'.frame = rx.frame /\ rx'.entry = e
  <2>1. rx.pc = "cb" /\ rx.frame # <<>> /\ e # NULL /\ e \in Entries
    BY DEF cb_block, Calling, Inv, TypeOK, RxControl, RxStates
  <2>2. rx'.pc = "post" /\ rx'.frame = rx.frame /\ rx'.entry = e
    BY RxGoto DEF cb_block
  <2> QED  BY <2>1, <2>2 DEF cb_block, Calling
<1>2. RxDg' = d
  BY <1>1 DEF RxDg
<1>3. /\ ent'[e].dg = Answered(d) /\ \A f \in Entries : f # e => ent'[f] = ent[f]
      /\ \A f \in Entries : ent'[f].p_idx = ent[f].p_idx /\ ent'[f].cb = ent[f].cb
  <2>1. ent' = [ent EXCEPT ![e].dg = Answered(d)]
    BY DEF cb_block, Answered
  <2> QED  BY <1>1, <2>1 DEF Inv, TypeOK, Contents
<1>4. Fly' = Fly /\ \A i : Once(i)' <=> Once(i)
  BY <1>1 DEF Fly, Once, Now, FlyOf, OnceIn, Slots, Flight
<1>5. d \in Fly /\ d \in Datagrams
  <2>1. Head(rx.frame) \in FlyOf(Flight(hw.frame, rx.frame, wire))
    BY <1>1, UnderWayIs, FlightNext
  <2> QED  BY <2>1, UnderWayIs DEF Fly, Now, RxDg
<1> SUFFICES ASSUME NEW i, i = d.idx PROVE Carried'
  OBVIOUS
<1>6. Flying(i) /\ Answered(d).idx = i
  BY <1>5 DEF Flying, Answered, Datagrams
<1>7. Right(e, d) /\ ent[e].p_idx = i
  BY <1>1 DEF Carried, Sending, Right
<1>8. ASSUME NEW o \in Senders, p_idx[o] = i PROVE o \in Clients /\ Started(o) /\ d = Asked(o)
  <2>1. Started(o) /\ d = Asked(o) /\ (p_entry[o] # NULL => p_entry[o] = e)
    BY <1>1, <1>7, <1>8 DEF Right
  <2>2. ASSUME o \notin Clients PROVE FALSE
    <3>1. p_entry[o] = e /\ o \in Cdgs
      BY <1>1, <2>1, <2>2 DEF Started, Senders
    <3>2. ent[e].cb = o
      BY <1>1, <2>2, <3>1 DEF Carried, Loaded
    <3> QED  BY <1>1, <3>1, <3>2, Names DEF CdgNames
  <2> QED  BY <2>1, <2>2
<1>9. ASSUME NEW o \in Senders, p_entry[o] = e
      PROVE  o \in Clients /\ p_idx[o] = i /\ Started(o) /\ d = Asked(o)
  <2>1. p_idx[o] = i
    BY <1>1, <1>7, <1>9 DEF Carried, Loaded
  <2> QED  BY <1>8, <2>1
<1>10. \A o : (Started(o)' <=> Started(o)) /\ Asked(o)' = Asked(o)
  BY <1>1 DEF Started, Asked, Datagram
<1>11. hw.entry # NULL => hw.entry \in Entries /\ ent'[hw.entry].dg.idx = ent[hw.entry].dg.idx
  <2>1. ASSUME hw.entry # NULL PROVE hw.entry \in Entries /\ ent[hw.entry].p_idx = ent[hw.entry].dg.idx
    BY <2>1 DEF Carried, Sending, Right, Inv, TypeOK, HwStates
  <2> QED  BY <1>3, <1>6, <1>7, <2>1
<1>12. \A k : (Flying(k)' <=> Flying(k)) /\ (Popped(k)' <=> Popped(k)) /\ (UnderWay(k)' <=> UnderWay(k))
  <2>1. \A k : Flying(k)' <=> Flying(k)
    BY <1>4 DEF Flying
  <2>2. \A k : Popped(k)' <=> Popped(k)
    BY <1>1, <1>11 DEF Popped
  <2> QED  BY <2>1, <2>2 DEF UnderWay
<1>13. Clients \subseteq Senders
  BY DEF Senders
<1>14. Queued'
  <2>1. \A h \in Heads : In(h)' = In(h)
    BY <1>1 DEF In, Line, Elems
  <2>2. Linked(q, Lines)'
    BY <1>1 DEF Carried, Queued, Lines, Line, Linked
  <2>3. ASSUME NEW f \in In("low") PROVE InLow(f)'
    <3>1. PICK c \in Clients : /\ p_entry[c] = f /\ pc[c] \in Queuing
                               /\ ent[f].dg = Asked(c) /\ ~UnderWay(p_idx[c])
      BY DEF Carried, Queued, InLow
    <3>2. f # e
      BY <1>6, <1>9, <1>13, <3>1 DEF UnderWay
    <3>3. f \in Entries
      BY FirstIs DEF Carried, Queued, Heads
    <3> QED  BY <1>1, <1>3, <1>10, <1>12, <3>1, <3>2, <3>3 DEF InLow
  <2> QED  BY <1>1, <2>1, <2>2, <2>3 DEF Carried, Queued, Heads
<1>15. Threads'
  BY <1>1, <1>3 DEF Carried, Threads, cdg
<1>16. Cycled' /\ Loose'
  BY <1>1, CycledKept, LooseKept DEF Carried
<1>17. \A o \in Senders : p_entry[o] \in Entries \cup {NULL}
  BY Names DEF Inv, TypeOK, Senders
<1>18. ASSUME NEW o \in Senders, p_entry[o] # NULL
       PROVE  IF p_entry[o] = e THEN o \in Clients /\ ent'[p_entry[o]].dg = Answered(Asked(o))
                                ELSE ent'[p_entry[o]] = ent[p_entry[o]]
  BY <1>3, <1>9, <1>17, <1>18
<1>19. Loaded'
  <2>1. ASSUME NEW o \in Senders, p_entry[o] # NULL
        PROVE  /\ p_idx[o] # NULL /\ ent'[p_entry[o]].p_idx = p_idx[o]
               /\ ent'[p_entry[o]].cb = (IF o \in Clients THEN "block" ELSE o)
               /\ \/ ent'[p_entry[o]].dg = Asked(o)
                  \/ o \in Clients /\ ent'[p_entry[o]].dg = Answered(Asked(o))
    BY <1>3, <1>17, <1>18, <2>1 DEF Carried, Loaded
  <2>2. ASSUME NEW c \in Clients, pc[c] = "enqueue" PROVE ent'[p_entry[c]].dg = Asked(c)
    <3>1. p_entry[c] # e
      BY <1>9, <1>13, <2>2 DEF Started
    <3>2. p_entry[c] # NULL
      BY <2>2 DEF Inv, CallerControl, WithEntry
    <3> QED  BY <1>13, <1>18, <2>2, <3>1, <3>2 DEF Carried, Loaded
  <2> QED  BY <1>1, <1>10, <2>1, <2>2 DEF Loaded, Answered
<1>20. ASSUME NEW f, NEW x, Right(f, x), f \in Entries \cup {NULL} PROVE Right(f, x)'
  <2>1. ASSUME NEW o \in Senders, p_idx'[o] = x.idx
        PROVE  Started(o)' /\ x = Asked(o)' /\ (p_entry'[o] # NULL => f \in {NULL, p_entry'[o]})
    <3>1. Started(o) /\ x = Asked(o) /\ (p_entry[o] # NULL => f \in {NULL, p_entry[o]})
      BY <1>1, <1>20, <2>1 DEF Right
    <3> QED  BY <1>1, <1>10, <3>1
  <2>2. f # NULL => ent'[f].p_idx = x.idx
    BY <1>3, <1>20 DEF Right
  <2> QED  BY <2>1, <2>2 DEF Right
<1>21. Sending'
  <2>1. ASSUME NEW x \in Fly', NEW f, f = tx_send'[x.idx] PROVE Right(f, x)'
    <3>1. x.idx \in Indices
      BY <1>4, UnderWayIs DEF Datagrams
    <3>2. Right(f, x) /\ f \in Entries \cup {NULL}
      BY <1>1, <1>4, <2>1, <3>1 DEF Carried, Sending, Inv, TypeOK
    <3> QED  BY <1>20, <3>2
  <2>2. ASSUME NEW f, NEW x, f = hw'.entry, f # NULL, x = ent'[f].dg PROVE Right(f, x)'
    <3>1. CASE f # e
      <4>1. Right(f, x) /\ f \in Entries
        BY <1>1, <1>3, <1>11, <2>2, <3>1 DEF Carried, Sending
      <4> QED  BY <1>20, <4>1
    <3>2. CASE f = e
      <4>1. x.idx = i /\ x = Answered(d)
        BY <1>3, <1>6, <2>2, <3>2
      <4>2. Popped(i)
        <5>1. ent[e].dg.idx = i
          BY <1>1, <1>7, <2>2, <3>2 DEF Carried, Sending, Right
        <5> QED  BY <1>1, <2>2, <3>2, <5>1 DEF Popped
      <4>3. \A o \in Senders : p_idx[o] # i
        <5>1. i # NULL
          BY <1>5, TransportAssumption DEF Datagrams
        <5> QED  BY <1>6, <1>8, <4>2, <5>1 DEF Carried, Single
      <4> QED  BY <1>1, <1>3, <1>7, <3>2, <4>1, <4>3 DEF Right
    <3> QED  BY <3>1, <3>2
  <2>3. ASSUME NEW f, NEW x, f = rx'.entry, f # NULL, x = RxDg' PROVE Right(f, x)'
    BY <1>1, <1>2, <1>7, <1>20, <2>3
  <2> QED  BY <2>1, <2>2, <2>3, SendingMade
<1>22. Single'
  BY <1>1, <1>4, <1>12 DEF Carried, Single
<1>23. Answers'
  <2>1. ASSUME NEW c \in Clients, p_entry[c] # NULL, ent[p_entry[c]].dg = Answered(Asked(c))
        PROVE  ent'[p_entry[c]].dg = Answered(Asked(c))
    BY <1>13, <1>18, <2>1
  <2>2. ASSUME NEW c \in Clients, p_idx[c] # NULL, waiter[p_idx[c]]
        PROVE  Started(c) /\ (p_entry[c] # NULL => ent'[p_entry[c]].dg = Answered(Asked(c)))
    BY <2>1, <2>2 DEF Carried, Answers
  <2>3. ASSUME NEW c \in Clients, pc[c] = "read" PROVE ent'[p_entry[c]].dg = Answered(Asked(c))
    <3>1. p_entry[c] # NULL
      BY <2>3 DEF Inv, CallerControl, WithEntry
    <3> QED  BY <2>1, <2>3, <3>1 DEF Carried, Answers
  <2>4. ASSUME NEW c \in Clients, p_entry[c] = e PROVE ent'[e].dg = Answered(Asked(c))
    BY <1>3, <1>9, <1>13, <2>4
  <2> QED  BY <1>1, <1>10, <2>2, <2>3, <2>4 DEF Answers, Answered
<1>24. Quiet'
  BY <1>1, <1>12 DEF Carried, Quiet, Elems
<1> QED  BY <1>14, <1>15, <1>16, <1>19, <1>21, <1>22, <1>23, <1>24 DEF Carried

-----------------------------------------------------------------------------
(* The steps that take or give back an index. *)

\* Only the datagrams of an owner that has asked are under way.
LEMMA StartedFirst ==
    ASSUME Inv, Carried, NEW o \in Senders, UnderWay(p_idx[o])
    PROVE  Started(o)
<1>1. CASE Flying(p_idx[o])
  BY <1>1 DEF Flying, Carried, Sending, Right
<1>2. CASE Popped(p_idx[o])
  BY <1>2 DEF Popped, Carried, Sending, Right
<1> QED  BY <1>1, <1>2 DEF UnderWay

\* The datagram whose entry was looked up is under way.
LEMMA Received ==
    ASSUME Inv, Carried, rx.entry # NULL
    PROVE  RxDg \in Fly /\ rx.pc # "idle"
<1>1. rx.pc # "idle" /\ rx.frame # <<>>
  BY DEF Carried, Threads, Inv, RxControl
<1>2. Head(rx.frame) \in FlyOf(Flight(hw.frame, rx.frame, wire))
  BY <1>1, UnderWayIs, FlightNext
<1> QED  BY <1>1, <1>2 DEF Fly, Now, RxDg

\* An index with which nothing is under way.
LEMMA OnceIdle ==
    ASSUME NEW i, ~UnderWay(i)
    PROVE  Once(i) /\ ~Flying(i) /\ ~Popped(i)
<1>1. \A x \in Slots(Now) : Now[x[1]][x[2]] \in Fly
  BY DEF Fly, FlyOf
<1> QED  BY <1>1 DEF UnderWay, Flying, Once, OnceIn

\* An owner without an entry gets an index with which nothing is under way, or
\* gives it back.
LEMMA Assigned ==
    ASSUME Inv, Carried, Threads', Cycled', NEW o \in Senders, NEW n, p_entry[o] = NULL,
           UNCHANGED <<q, ent, p_entry, tx_send, hw, wire, rx>>,
           \A u \in Senders : u # o => p_idx'[u] = p_idx[u],
           \A c \in Clients : c # o => calls'[c] = calls[c] /\ pc'[c] = pc[c],
           o \in Clients => {pc[o], pc'[o]} \subseteq {"out", "pool", "iput"},
           p_idx'[o] = n, n # NULL => ~UnderWay(n) /\ ~waiter'[n],
           \A c \in Clients : p_idx[c] # NULL /\ waiter'[p_idx[c]] => waiter[p_idx[c]],
           MaxTimeouts = 0 => \A i \in Elems(idxq') : ~UnderWay(i)
    PROVE  Carried'
<1>1. Clients \subseteq Senders
  BY DEF Senders
<1>2. /\ Fly' = Fly /\ \A i : (Once(i)' <=> Once(i)) /\ (Flying(i)' <=> Flying(i))
      /\ \A i : (Popped(i)' <=> Popped(i)) /\ (UnderWay(i)' <=> UnderWay(i))
      /\ RxDg' = RxDg
  BY DEF Fly, Once, Now, FlyOf, OnceIn, Slots, Flight, UnderWay, Popped, Flying, RxDg
<1>3. ASSUME NEW u \in Senders, u # o PROVE Asked(u)' = Asked(u) /\ (Started(u)' <=> Started(u))
  BY <1>3 DEF Asked, Datagram, Started
<1>4. ASSUME NEW f, NEW x, Right(f, x), UnderWay(x.idx) PROVE Right(f, x)'
  <2>1. ASSUME NEW u \in Senders, p_idx'[u] = x.idx
        PROVE  Started(u)' /\ x = Asked(u)' /\ (p_entry'[u] # NULL => f \in {NULL, p_entry'[u]})
    <3>1. CASE u = o /\ n # NULL
      BY <1>4, <2>1, <3>1
    <3>2. CASE u = o /\ n = NULL
      <4>1. x.idx = NULL
        BY <2>1, <3>2
      <4>2. x.idx \in Indices
        <5>1. CASE Flying(x.idx)
          BY <5>1, UnderWayIs DEF Flying, Datagrams
        <5>2. CASE Popped(x.idx)
          BY <5>2 DEF Popped, Inv, TypeOK, HwStates, Contents, Datagrams
        <5> QED  BY <1>4, <5>1, <5>2 DEF UnderWay
      <4> QED  BY <4>1, <4>2, TransportAssumption
    <3>3. CASE u # o
      <4>1. Started(u) /\ x = Asked(u) /\ (p_entry[u] # NULL => f \in {NULL, p_entry[u]})
        BY <1>4, <2>1, <3>3 DEF Right
      <4> QED  BY <1>3, <3>3, <4>1
    <3> QED  BY <3>1, <3>2, <3>3
  <2> QED  BY <1>4, <2>1 DEF Right
<1>5. Sending'
  <2>1. ASSUME NEW d \in Fly', NEW f, f = tx_send'[d.idx] PROVE Right(f, d)'
    <3>1. Right(f, d) /\ UnderWay(d.idx)
      BY <1>2, <2>1 DEF Carried, Sending, UnderWay, Flying
    <3> QED  BY <1>4, <3>1
  <2>2. ASSUME NEW f, NEW d, f = hw'.entry, f # NULL, d = ent'[f].dg PROVE Right(f, d)'
    <3>1. Right(f, d) /\ UnderWay(d.idx)
      BY <2>2 DEF Carried, Sending, UnderWay, Popped
    <3> QED  BY <1>4, <3>1
  <2>3. ASSUME NEW f, NEW d, f = rx'.entry, f # NULL, d = RxDg' PROVE Right(f, d)'
    <3>1. Right(f, d) /\ UnderWay(d.idx)
      BY <1>2, <2>3, Received DEF Carried, Sending, UnderWay, Flying
    <3> QED  BY <1>4, <3>1
  <2> QED  BY <2>1, <2>2, <2>3, SendingMade
<1>6. Queued'
  <2>1. \A h \in Heads : In(h)' = In(h)
    BY DEF In, Line, Elems
  <2>2. Linked(q, Lines)'
    BY DEF Carried, Queued, Lines, Line, Linked
  <2>3. ASSUME NEW e \in In("low") PROVE InLow(e)'
    <3>1. PICK c \in Clients : /\ p_entry[c] = e /\ pc[c] \in Queuing
                               /\ ent[e].dg = Asked(c) /\ ~UnderWay(p_idx[c])
      BY DEF Carried, Queued, InLow
    <3>2. c # o
      BY <3>1 DEF Queuing
    <3> QED  BY <1>1, <1>2, <1>3, <3>1, <3>2 DEF InLow
  <2> QED  BY <2>1, <2>2, <2>3 DEF Carried, Queued, Heads
<1>7. Loose'
  <2>1. \A c \in Clients : pc'[c] \in Queuing => pc[c] \in Queuing
    BY DEF Queuing
  <2> QED  BY <2>1, LooseKept DEF Carried
<1>8. Loaded'
  <2>1. \A u \in Senders : p_entry[u] # NULL => u # o
    OBVIOUS
  <2>2. \A c \in Clients : pc'[c] = "enqueue" => c # o /\ pc[c] = "enqueue"
    OBVIOUS
  <2> QED  BY <1>1, <1>3, <2>1, <2>2 DEF Carried, Loaded, Answered
<1>9. Single'
  <2>1. ASSUME NEW c \in Clients, p_idx'[c] # NULL, NEW i, i = p_idx'[c]
        PROVE  Once(i)' /\ (Popped(i)' => ~Flying(i)')
    <3>1. CASE c = o
      BY <1>2, <2>1, <3>1, OnceIdle
    <3>2. CASE c # o
      BY <1>1, <1>2, <2>1, <3>2 DEF Carried, Single
    <3> QED  BY <3>1, <3>2
  <2> QED  BY <2>1 DEF Single
<1>10. Answers'
  <2>1. ASSUME NEW c \in Clients, p_idx'[c] # NULL, waiter'[p_idx'[c]]
        PROVE  Started(c)' /\ (p_entry'[c] # NULL => ent'[p_entry'[c]].dg = Answered(Asked(c))')
    <3>1. c # o
      BY <2>1
    <3>2. Started(c) /\ (p_entry[c] # NULL => ent[p_entry[c]].dg = Answered(Asked(c)))
      BY <1>1, <2>1, <3>1 DEF Carried, Answers
    <3> QED  BY <1>1, <1>3, <3>1, <3>2 DEF Answered
  <2>2. ASSUME NEW c \in Clients, pc'[c] = "read" PROVE ent'[p_entry'[c]].dg = Answered(Asked(c))'
    <3>1. c # o /\ ent[p_entry[c]].dg = Answered(Asked(c))
      BY <2>2 DEF Carried, Answers
    <3> QED  BY <1>1, <1>3, <3>1 DEF Answered
  <2>3. ASSUME rx'.pc = "post", NEW c \in Clients, p_entry'[c] = rx'.entry
        PROVE  ent'[rx'.entry].dg = Answered(Asked(c))'
    <3>1. c # o
      BY <2>3 DEF Inv, RxControl
    <3>2. ent[rx.entry].dg = Answered(Asked(c))
      BY <2>3 DEF Carried, Answers
    <3> QED  BY <1>1, <1>3, <3>1, <3>2 DEF Answered
  <2> QED  BY <2>1, <2>2, <2>3 DEF Answers
<1>11. Quiet'
  <2>1. ASSUME MaxTimeouts = 0, NEW c \in Clients, p_idx'[c] # NULL, NEW i, i = p_idx'[c],
               pc'[c] \in {"read", "iput"} \/ waiter'[i]
        PROVE  ~UnderWay(i)'
    <3>1. CASE c = o
      BY <1>2, <2>1, <3>1
    <3>2. CASE c # o
      BY <1>1, <1>2, <2>1, <3>2 DEF Carried, Quiet
    <3> QED  BY <3>1, <3>2
  <2>2. \A k \in Clients : p_idx[k]' = p_idx'[k]
    OBVIOUS
  <2>3. ASSUME MaxTimeouts = 0, NEW i \in Elems(idxq)' PROVE ~UnderWay(i)'
    BY <1>2, <2>3, PrimedQueue
  <2> QED  BY <2>1, <2>3 DEF Quiet
<1> QED  BY <1>5, <1>6, <1>7, <1>8, <1>9, <1>10, <1>11 DEF Carried

\* An index is handed out when nothing with it is under way.
LEMMA HeadFree ==
    ASSUME Orderly, Inv, Carried, NEW o \in Senders, p_idx[o] = NULL, ec_index_get(o),
           NEW n, n = Head(idxq)
    PROVE  /\ n \in Indices /\ ~UnderWay(n)
           /\ p_idx'[o] = n /\ \A u \in Senders : u # o => p_idx'[u] = p_idx[u]
           /\ p_idx'["sto"] = p_idx["sto"]
           /\ ~waiter'[n]
           /\ \A c \in Clients : p_idx[c] # NULL /\ waiter'[p_idx[c]] => waiter[p_idx[c]]
           /\ MaxTimeouts = 0 => \A i \in Elems(idxq') : ~UnderWay(i)
<1>1. /\ idxq \in Seq(Indices) /\ idxq # <<>> /\ idxq' = Tail(idxq)
      /\ waiter' = [waiter EXCEPT ![n] = FALSE] /\ p_idx' = [p_idx EXCEPT ![o] = n]
      /\ Recycle \/ n \notin InFlightIdxs
  BY DEF ec_index_get, Inv, TypeOK
<1>2. n \in Indices /\ Elems(idxq) = Elems(idxq') \cup {n}
  BY <1>1, ElemsOf
<1>3. MaxTimeouts = 0 => \A i \in Elems(idxq) : ~UnderWay(i)
  BY DEF Carried, Quiet
<1>4. ~UnderWay(n)
  BY <1>1, <1>2, <1>3, UnderWayIs DEF Orderly
<1>5. /\ p_idx'[o] = n /\ \A u \in Senders : u # o => p_idx'[u] = p_idx[u]
      /\ p_idx'["sto"] = p_idx["sto"]
  BY <1>1, Names DEF Inv, TypeOK, Senders
<1>6. ~waiter'[n] /\ \A c \in Clients : p_idx[c] # NULL /\ waiter'[p_idx[c]] => waiter[p_idx[c]]
  BY <1>1, <1>2, Names DEF Inv, TypeOK
<1> QED  BY <1>2, <1>3, <1>4, <1>5, <1>6

\* The cyclic task only goes forward.
LEMMA CycGoes ==
    ASSUME Inv, NEW b, NEW l, cyc.pc \in {"lock", "pool", "iput", "enqueue"}, Threads,
           CycHasIndex \/ NextCdg(b) \/ (l \in {"pool", "iput", "enqueue"} /\ cyc' = [cyc EXCEPT !.pc = l])
    PROVE  /\ cyc'.pc \in {"lock", "pool", "iput", "enqueue", "tx"}
           /\ cyc'.pc = "iput" => l = "iput" /\ cdg' = cdg
           /\ hw.owner # "cyc"
           /\ \A f : /\ f # NULL /\ InHigh(f) /\ hw' = hw
                     /\ \A o \in Owners : p_entry[o] # NULL => p_entry'[o] = p_entry[o]
                     => InHigh(f)'
<1>1. cyc.k \in 1 .. Len(CycleSeq) /\ cyc \in CycStates /\ Len(CycleSeq) \in Nat
  BY TransportAssumption DEF Inv, CycleControl, TypeOK
<1>2. \A r : NextCdg(r) => (cyc'.pc = "lock" /\ cyc'.k = cyc.k + 1) \/ cyc'.pc = "tx"
  BY DEF NextCdg
<1>3. cyc' = [cyc EXCEPT !.pc = "pool"] => cyc'.pc = "pool" /\ cyc'.k = cyc.k
  BY <1>1 DEF CycStates
<1>4. l \in {"pool", "iput", "enqueue"} /\ cyc' = [cyc EXCEPT !.pc = l] =>
        cyc'.pc = l /\ cyc'.k = cyc.k
  BY <1>1 DEF CycStates
<1>5. \/ cyc'.pc = "lock" /\ cyc'.k = cyc.k + 1
      \/ cyc'.pc = "tx"
      \/ cyc'.pc = "pool" /\ cyc'.k = cyc.k
      \/ l \in {"pool", "iput", "enqueue"} /\ cyc'.pc = l /\ cyc'.k = cyc.k
  BY <1>2, <1>3, <1>4 DEF CycHasIndex
<1>6. cyc'.pc \in {"lock", "pool", "iput", "enqueue", "tx"} /\ (cyc'.pc = "tx" \/ cyc'.k \in {cyc.k, cyc.k + 1})
  BY <1>5
<1>7. cyc'.pc = "iput" => l = "iput" /\ cdg' = cdg
  BY <1>5 DEF cdg
<1>8. hw.owner # "cyc"
  BY DEF Threads
<1>9. ASSUME NEW f, f # NULL, InHigh(f), \A o \in Owners : p_entry[o] # NULL => p_entry'[o] = p_entry[o]
      PROVE  InHigh(f)'
  <2>1. PICK j \in 1 .. Len(CycleSeq) : p_entry[CycleSeq[j]] = f /\ j < cyc.k
    BY <1>8, <1>9 DEF InHigh
  <2>2. CycleSeq[j] \in Owners
    BY Names DEF Cdgs
  <2>3. cyc'.pc = "tx" \/ j < cyc'.k
    BY <1>1, <1>6, <2>1
  <2> QED  BY <1>6, <1>9, <2>1, <2>2, <2>3 DEF InHigh
<1> QED  BY <1>6, <1>7, <1>8, <1>9

\* ec_index_get
LEMMA IndexGetKept ==
    ASSUME Orderly, Inv, Carried, CycIndexGet \/ \E c \in Clients : TcIndexGet(c)
    PROVE  Carried'
<1> USE DEF qvars, evars, hvars, cvars, bounds
<1>1. ASSUME NEW c \in Clients, TcIndexGet(c) PROVE Carried'
  <2>1. /\ UNCHANGED <<q, ent, p_entry, tx_send, hw, wire, rx, cyc>> /\ pc[c] = "out"
        /\ p_idx[c] = NULL /\ p_entry[c] = NULL /\ c \in Senders
        /\ \A d \in Clients : d # c => calls'[d] = calls[d]
    BY <1>1 DEF TcIndexGet, Inv, TypeOK, CallerControl, Carried, Threads, Senders
  <2>2. Cycled'
    BY <2>1, CycledKept DEF Carried
  <2>3. CASE ec_index_get(c) /\ Goto(c, "pool")
    <3>1. pc'[c] = "pool" /\ \A d \in Clients : d # c => pc'[d] = pc[d]
      BY <2>3 DEF Goto, Inv, TypeOK
    <3> SUFFICES ASSUME NEW n, n = Head(idxq) PROVE Carried'
      OBVIOUS
    <3>2. /\ n \in Indices /\ ~UnderWay(n)
          /\ p_idx'[c] = n /\ \A u \in Senders : u # c => p_idx'[u] = p_idx[u]
          /\ p_idx'["sto"] = p_idx["sto"]
          /\ ~waiter'[n]
          /\ \A d \in Clients : p_idx[d] # NULL /\ waiter'[p_idx[d]] => waiter[p_idx[d]]
          /\ MaxTimeouts = 0 => \A i \in Elems(idxq') : ~UnderWay(i)
      BY <2>1, <2>3, HeadFree
    <3>3. Threads'
      BY <2>1, <3>1, <3>2 DEF Carried, Threads, cdg
    <3> QED  BY <2>1, <2>2, <3>1, <3>2, <3>3, Assigned
  <2>4. CASE idxq = <<>> /\ UNCHANGED <<qvars, pc>>
    <3>1. Threads'
      BY <2>1, <2>4 DEF Carried, Threads, cdg
    <3>2. MaxTimeouts = 0 => \A i \in Elems(idxq') : ~UnderWay(i)
      BY <2>4 DEF Carried, Quiet
    <3>3. \A d \in Clients : p_idx[d] # NULL /\ waiter'[p_idx[d]] => waiter[p_idx[d]]
      BY <2>4
    <3>4. p_idx'[c] = NULL /\ \A u \in Senders : u # c => p_idx'[u] = p_idx[u]
      BY <2>1, <2>4
    <3>5. \A d \in Clients : pc'[d] = pc[d]
      BY <2>4
    <3> QED  BY <2>1, <2>2, <3>1, <3>2, <3>3, <3>4, <3>5, Assigned
  <2> QED  BY <1>1, <2>3, <2>4 DEF TcIndexGet
<1>2. CASE CycIndexGet
  <2>1. /\ UNCHANGED <<q, ent, p_entry, tx_send, hw, wire, rx, pc, calls>> /\ cyc.pc = "lock"
        /\ cdg \in Senders
    BY <1>2, CdgType DEF CycIndexGet, Inv, CycleControl, Senders
  <2>2. CycHasIndex \/ NextCdg(FALSE)
    BY <1>2 DEF CycIndexGet
  <2>3. /\ cyc'.pc \in {"lock", "pool", "iput", "enqueue", "tx"} /\ cyc'.pc # "iput"
        /\ hw.owner # "cyc" /\ \A f : f # NULL /\ InHigh(f) => InHigh(f)'
    <3>1. "no" # "iput" /\ Threads
      BY DEF Carried
    <3> QED  BY <2>1, <2>2, <3>1, CycGoes
  <2>4. Cycled'
    <3>1. In("high")' = In("high") /\ NULL \notin In("high")
      BY <2>1, FirstIs DEF In, Line, Elems, Carried, Queued, Heads
    <3> QED  BY <2>3, <3>1 DEF Carried, Cycled
  <2>5. CASE UNCHANGED qvars
    <3>1. Thin
      BY <2>1, <2>5, WithinItself DEF Thin
    <3>2. Threads'
      BY <2>1, <2>3, <2>5 DEF Carried, Threads
    <3> QED  BY <2>1, <2>4, <2>5, <3>1, <3>2, ThinKept DEF Carried
  <2>6. CASE p_idx[cdg] = NULL /\ ec_index_get(cdg)
    <3> SUFFICES ASSUME NEW n, n = Head(idxq), NEW o \in Senders, o = cdg PROVE Carried'
      BY <2>1
    <3>1. /\ n \in Indices /\ ~UnderWay(n)
          /\ p_idx'[o] = n /\ \A u \in Senders : u # o => p_idx'[u] = p_idx[u]
          /\ p_idx'["sto"] = p_idx["sto"]
          /\ ~waiter'[n]
          /\ \A d \in Clients : p_idx[d] # NULL /\ waiter'[p_idx[d]] => waiter[p_idx[d]]
          /\ MaxTimeouts = 0 => \A i \in Elems(idxq') : ~UnderWay(i)
      BY <2>6, HeadFree
    <3>2. Threads'
      BY <2>1, <2>3, <3>1 DEF Carried, Threads
    <3>3. p_entry[o] = NULL /\ o \notin Clients
      BY <2>1, <2>6, CdgType, Names DEF Carried, Loaded, Inv, CycleControl
    <3> QED  BY <2>1, <2>4, <3>1, <3>2, <3>3, Assigned
  <2> QED  BY <1>2, <2>5, <2>6 DEF CycIndexGet
<1> QED  BY <1>1, <1>2

\* ec_index_put
LEMMA IndexPutKept ==
    ASSUME Orderly, Inv, ClockHasEntry, Carried, CycIndexPut \/ \E c \in Clients : TcIndexPut(c)
    PROVE  Carried'
<1> USE DEF qvars, evars, hvars, cvars, bounds
<1>1. idxq \in Seq(Indices) /\ \A i \in Indices : Elems(Append(idxq, i)) = Elems(idxq) \cup {i}
  BY ElemsOf DEF Inv, TypeOK
<1>2. ASSUME NEW c \in Clients, TcIndexPut(c) PROVE Carried'
  <2>1. /\ UNCHANGED <<waiter, q, ent, p_entry, tx_send, hw, wire, rx, cyc, calls>> /\ pc[c] = "iput"
        /\ p_idx[c] \in Indices /\ p_entry[c] = NULL /\ c \in Senders
        /\ idxq' = Append(idxq, p_idx[c])
        /\ p_idx'[c] = NULL /\ \A u \in Senders : u # c => p_idx'[u] = p_idx[u]
        /\ p_idx'["sto"] = p_idx["sto"]
        /\ pc'[c] = "out" /\ \A d \in Clients : d # c => pc'[d] = pc[d]
    <3>1. pc[c] = "iput" /\ p_idx[c] \in Indices /\ c \in Senders /\ p_entry[c] = NULL
      BY <1>2, Names DEF TcIndexPut, Inv, TypeOK, CallerControl, Carried, Threads, Senders
    <3>2. p_idx'[c] = NULL /\ (\A u \in Senders : u # c => p_idx'[u] = p_idx[u]) /\ p_idx'["sto"] = p_idx["sto"]
      BY <1>2, Names DEF TcIndexPut, Inv, TypeOK, Senders
    <3>3. pc'[c] = "out" /\ \A d \in Clients : d # c => pc'[d] = pc[d]
      BY <1>2 DEF TcIndexPut, Goto, Inv, TypeOK
    <3> QED  BY <1>2, <3>1, <3>2, <3>3 DEF TcIndexPut, ec_index_put
  <2>2. MaxTimeouts = 0 => \A i \in Elems(idxq') : ~UnderWay(i)
    <3>1. p_idx[c] # NULL
      BY <2>1, TransportAssumption
    <3> QED  BY <1>1, <2>1, <3>1 DEF Carried, Quiet
  <2>3. Cycled' /\ Threads'
    BY <2>1, CycledKept DEF Carried, Threads, cdg
  <2>4. \A d \in Clients : p_idx[d] # NULL /\ waiter'[p_idx[d]] => waiter[p_idx[d]]
    BY <2>1
  <2> QED  BY <2>1, <2>2, <2>3, <2>4, Assigned
<1>3. CASE CycIndexPut
  <2> SUFFICES ASSUME NEW o, o = cdg PROVE Carried'
    OBVIOUS
  <2>1. /\ UNCHANGED <<waiter, q, ent, p_entry, tx_send, hw, wire, rx, pc, calls>> /\ cyc.pc = "iput"
        /\ o \in Senders /\ o \in Cdgs /\ p_idx[o] \in Indices /\ p_entry[o] = NULL
        /\ idxq' = Append(idxq, p_idx[o])
        /\ p_idx'[o] = NULL /\ \A u \in Senders : u # o => p_idx'[u] = p_idx[u]
        /\ p_idx'["sto"] = p_idx["sto"] /\ NextCdg(FALSE)
    <3>1. /\ cyc.pc = "iput" /\ o \in Cdgs /\ o \in Senders /\ p_idx[o] \in Indices
          /\ p_entry[o] = NULL /\ o \in Group
      BY <1>3, CdgType, Names DEF CycIndexPut, Inv, TypeOK, CycleControl, Carried, Threads, Senders, ClockHasEntry
    <3>2. p_idx'[o] = NULL /\ (\A u \in Senders : u # o => p_idx'[u] = p_idx[u]) /\ p_idx'["sto"] = p_idx["sto"]
      BY <1>3, <3>1, Names DEF CycIndexPut, Inv, TypeOK, Senders
    <3> QED  BY <1>3, <3>1, <3>2 DEF CycIndexPut, ec_index_put
  <2>2. MaxTimeouts = 0 => \A i \in Elems(idxq') : ~UnderWay(i)
    <3>1. ~UnderWay(p_idx[o])
      BY <2>1, StartedFirst, Names DEF Started
    <3> QED  BY <1>1, <2>1, <3>1 DEF Carried, Quiet
  <2>3. /\ cyc'.pc \in {"lock", "pool", "iput", "enqueue", "tx"} /\ cyc'.pc # "iput"
        /\ hw.owner # "cyc" /\ \A f : f # NULL /\ InHigh(f) => InHigh(f)'
    <3>1. "no" # "iput" /\ Threads
      BY DEF Carried
    <3> QED  BY <2>1, <3>1, CycGoes
  <2>4. Cycled'
    <3>1. In("high")' = In("high") /\ NULL \notin In("high")
      BY <2>1, FirstIs DEF In, Line, Elems, Carried, Queued, Heads
    <3> QED  BY <2>3, <3>1 DEF Carried, Cycled
  <2>5. Threads'
    BY <2>1, <2>3 DEF Carried, Threads
  <2>6. \A d \in Clients : p_idx[d] # NULL /\ waiter'[p_idx[d]] => waiter[p_idx[d]]
    BY <2>1
  <2> QED  BY <2>1, <2>2, <2>4, <2>5, <2>6, Assigned, Names
<1> QED  BY <1>2, <1>3

-----------------------------------------------------------------------------
(* The steps that take an entry. *)

\* Without timeouts, an entry that goes with a datagram under way has an owner.
LEMMA HeldBy ==
    ASSUME Orderly, Inv, NoneLost, Carried, MaxTimeouts = 0, NEW e, e # NULL, NEW d, Right(e, d),
           UnderWay(d.idx), d.idx \in Indices
    PROVE  \E o \in Owners : p_entry[o] = e
<1>1. d.idx \notin Elems(idxq)
  BY DEF Carried, Quiet
<1>2. PICK o \in Owners : p_idx[o] = d.idx
  BY <1>1 DEF NoneLost
<1>3. o \in Senders
  BY <1>2, TransportAssumption DEF Owners, Senders, Carried, Threads
<1>4. Started(o) /\ (p_entry[o] # NULL => p_entry[o] = e)
  BY <1>2, <1>3 DEF Right
<1>5. p_entry[o] # NULL
  <2>1. CASE o \in Clients
    <3>1. pc[o] # "iput"
      BY <1>2, <2>1, TransportAssumption DEF Carried, Quiet
    <3> QED  BY <1>4, <2>1, <3>1 DEF Started, Carried, Threads
  <2> QED  BY <1>4, <2>1 DEF Started
<1> QED  BY <1>4, <1>5

\* pool_get takes an entry that nobody uses and no datagram under way finds.
LEMMA PoolFree ==
    ASSUME Orderly, Inv, NoneLost, Carried, NEW e, e = Tq!TAILQ_FIRST(q, "pool"), e # NULL,
           Recycle \/ e \notin InFlightEntries
    PROVE  /\ e \in In("pool") /\ e \in Entries /\ \A h \in Heads : h # "pool" => e \notin In(h)
           /\ \A o \in Owners : p_entry[o] # e
           /\ e # hw.entry /\ e # rx.entry /\ \A d \in Fly : tx_send[d.idx] # e
<1>1. e \in In("pool") /\ e \in Entries /\ \A h \in Heads : h # "pool" => e \notin In(h)
  <2>1. Linked(q, Lines) /\ "pool" \in Heads
    BY DEF Carried, Queued, Heads
  <2> QED  BY <2>1, FirstIs
<1>2. \A o \in Owners : p_entry[o] # e
  BY <1>1 DEF Carried, Queued
<1>3. Fly \subseteq Datagrams
  BY UnderWayIs
<1>4. hw.entry # NULL => Popped(ent[hw.entry].dg.idx) /\ ent[hw.entry].dg.idx \in Indices
  BY DEF Popped, Inv, TypeOK, HwStates, Contents, Datagrams
<1>5. CASE ~Recycle
  <2>1. e \notin InFlightEntries
    BY <1>5
  <2>2. \A d \in Fly : d.idx \in InFlightIdxs
    BY UnderWayIs DEF UnderWay, Flying
  <2> QED  BY <1>1, <1>2, <2>1, <2>2 DEF InFlightEntries
<1>6. CASE Recycle
  <2>1. MaxTimeouts = 0
    BY <1>6 DEF Orderly
  <2>2. e # hw.entry
    BY <1>2, <1>4, <2>1, HeldBy DEF Carried, Sending, UnderWay
  <2>3. \A d \in Fly : Flying(d.idx) /\ d.idx \in Indices
    BY <1>3 DEF Flying, Datagrams
  <2>4. e # rx.entry
    <3>1. ASSUME e = rx.entry PROVE FALSE
      <4>1. RxDg \in Fly /\ Right(e, RxDg)
        BY <3>1, Received DEF Carried, Sending
      <4> QED  BY <1>2, <2>1, <2>3, <4>1, HeldBy DEF UnderWay
    <3> QED  BY <3>1
  <2>5. ASSUME NEW d \in Fly, tx_send[d.idx] = e PROVE FALSE
    <3>1. Right(e, d)
      BY <2>5 DEF Carried, Sending
    <3> QED  BY <1>2, <2>1, <2>3, <3>1, HeldBy DEF UnderWay
  <2> QED  BY <1>1, <1>2, <2>2, <2>4, <2>5
<1> QED  BY <1>5, <1>6

\* What its owner writes into the entry it got.
LEMMA Given ==
    ASSUME Orderly, Inv, NoneLost, Carried, NEW o \in Senders, p_entry[o] = NULL, p_idx[o] # NULL,
           NEW cb, cb = (IF o \in Clients THEN "block" ELSE o), pool_get(o, cb, Asked(o)),
           UNCHANGED <<qvars, hvars, rx, calls>>,
           \A c \in Clients : c # o => pc'[c] = pc[c],
           o \in Clients => pc[o] = "pool" /\ pc'[o] = "enqueue",
           hw.owner = "cyc" => cyc'.pc = "sending",
           cyc'.pc = "iput" => cdg' # o /\ cyc' = cyc,
           (\A u \in Owners : p_entry[u] # NULL => p_entry'[u] = p_entry[u]) =>
              \A f : f # NULL /\ InHigh(f) => InHigh(f)'
    PROVE  Carried'
<1> USE DEF qvars, hvars
<1> SUFFICES ASSUME NEW e, e = Tq!TAILQ_FIRST(q, "pool") PROVE Carried'
  OBVIOUS
<1>1. /\ e # NULL /\ (Recycle \/ e \notin InFlightEntries)
      /\ q' = Tq!TAILQ_REMOVE(q, "pool", e) /\ p_entry' = [p_entry EXCEPT ![o] = e]
      /\ ent' = [ent EXCEPT ![e] = Content(p_idx[o], cb, Asked(o))]
  BY DEF pool_get
<1>2. /\ e \in In("pool") /\ e \in Entries /\ \A h \in Heads : h # "pool" => e \notin In(h)
      /\ \A u \in Owners : p_entry[u] # e
      /\ e # hw.entry /\ e # rx.entry /\ \A d \in Fly : tx_send[d.idx] # e
  BY <1>1, PoolFree
<1>3. /\ Senders \subseteq Owners /\ Clients \subseteq Senders /\ "sto" \in Owners /\ "sto" # o
      /\ o \notin Clients => o \in CdgNames
  BY Names DEF Senders
<1>4. /\ p_entry'[o] = e /\ \A u \in Owners : u # o => p_entry'[u] = p_entry[u]
      /\ \A u \in Owners : p_entry[u] # NULL => u # o
  BY <1>1, <1>3 DEF Inv, TypeOK
<1>5. /\ ent'[e].p_idx = p_idx[o] /\ ent'[e].cb = cb /\ ent'[e].dg = Asked(o)
      /\ \A f \in Entries : f # e => ent'[f] = ent[f]
  <2>1. ASSUME NEW x, ent' = [ent EXCEPT ![e] = x]
        PROVE  ent'[e] = x /\ \A f \in Entries : f # e => ent'[f] = ent[f]
    BY <1>2, <2>1 DEF Inv, TypeOK
  <2>2. /\ ent'[e] = Content(p_idx[o], cb, Asked(o))
        /\ \A f \in Entries : f # e => ent'[f] = ent[f]
    BY <1>1, <2>1
  <2> QED  BY <2>2 DEF Content
<1>6. /\ Linked(q, Lines)'
      /\ In("pool")' = In("pool") \ {e} /\ \A g \in Heads : g # "pool" => In(g)' = In(g)
      /\ \A x \in Entries : q'.cell[x] = q.cell[x]
      /\ \A x \in Entries : x \notin In("pool") => q'.prev[x] = q.prev[x]
  <2>1. Linked(q, Lines) /\ "pool" \in Heads
    BY DEF Carried, Queued, Heads
  <2> QED  BY <1>1, <1>2, <2>1, TakeLine
<1>7. ~Started(o)
  BY DEF Started
<1>8. ~UnderWay(p_idx[o]) /\ (o \in Clients => ~waiter[p_idx[o]])
  BY <1>7, StartedFirst DEF Carried, Answers
<1>9. /\ hw.entry \in Entries \cup {NULL} /\ rx.entry \in Entries \cup {NULL}
      /\ \A i \in Indices : tx_send[i] \in Entries \cup {NULL}
      /\ \A u \in Owners : p_entry[u] \in Entries \cup {NULL}
  BY DEF Inv, TypeOK, HwStates, RxStates
<1>10. /\ Fly' = Fly /\ \A i : (Once(i)' <=> Once(i)) /\ (Flying(i)' <=> Flying(i))
       /\ \A i : (Popped(i)' <=> Popped(i)) /\ (UnderWay(i)' <=> UnderWay(i))
       /\ RxDg' = RxDg
  <2>1. /\ Fly' = Fly /\ \A i : Once(i)' <=> Once(i)
        /\ RxDg' = RxDg
    BY DEF Fly, Once, Now, FlyOf, OnceIn, Slots, Flight, RxDg
  <2>2. \A i : Flying(i)' <=> Flying(i)
    BY <2>1 DEF Flying
  <2>3. \A i : Popped(i)' <=> Popped(i)
    BY <1>2, <1>5, <1>9 DEF Popped
  <2> QED  BY <2>1, <2>2, <2>3 DEF UnderWay
<1>11. \A u : Asked(u)' = Asked(u)
  BY DEF Asked, Datagram
<1>12. \A u \in Senders : Started(u) => Started(u)'
  BY <1>3, <1>4, <1>7 DEF Started
<1>13. ASSUME NEW u \in Owners, p_entry[u] # NULL
       PROVE  p_entry'[u] = p_entry[u] /\ p_entry[u] # e /\ ent'[p_entry[u]] = ent[p_entry[u]]
  BY <1>2, <1>4, <1>5, <1>9, <1>13
<1>14. ASSUME NEW f, NEW x, f # e, f \in Entries \cup {NULL}, Right(f, x), UnderWay(x.idx)
       PROVE  Right(f, x)'
  <2>1. ASSUME NEW u \in Senders, p_idx'[u] = x.idx
        PROVE  Started(u)' /\ x = Asked(u)' /\ (p_entry'[u] # NULL => f \in {NULL, p_entry'[u]})
    <3>1. Started(u) /\ x = Asked(u) /\ (p_entry[u] # NULL => f \in {NULL, p_entry[u]})
      BY <1>14, <2>1 DEF Right
    <3>2. u # o
      BY <1>8, <1>14, <2>1
    <3> QED  BY <1>3, <1>4, <1>11, <1>12, <3>1, <3>2
  <2>2. f # NULL => ent'[f].p_idx = x.idx
    BY <1>5, <1>14 DEF Right
  <2> QED  BY <2>1, <2>2 DEF Right
<1>15. Sending'
  <2>1. ASSUME NEW d \in Fly', NEW f, f = tx_send'[d.idx] PROVE Right(f, d)'
    <3>1. Right(f, d) /\ UnderWay(d.idx) /\ f # e
      BY <1>2, <1>10, <2>1 DEF Carried, Sending, UnderWay, Flying
    <3>2. f \in Entries \cup {NULL}
      BY <1>9, <1>10, <2>1, UnderWayIs DEF Datagrams
    <3> QED  BY <1>14, <3>1, <3>2
  <2>2. ASSUME NEW f, NEW d, f = hw'.entry, f # NULL, d = ent'[f].dg PROVE Right(f, d)'
    <3>1. f # e /\ f \in Entries /\ f = hw.entry /\ d = ent[f].dg
      BY <1>2, <1>5, <1>9, <2>2
    <3>2. Right(f, d) /\ UnderWay(d.idx)
      BY <2>2, <3>1 DEF Carried, Sending, UnderWay, Popped
    <3> QED  BY <1>14, <3>1, <3>2
  <2>3. ASSUME NEW f, NEW d, f = rx'.entry, f # NULL, d = RxDg' PROVE Right(f, d)'
    <3>1. Right(f, d) /\ UnderWay(d.idx) /\ f # e /\ f \in Entries
      BY <1>2, <1>9, <1>10, <2>3, Received DEF Carried, Sending, UnderWay, Flying
    <3> QED  BY <1>14, <3>1
  <2> QED  BY <2>1, <2>2, <2>3, SendingMade
<1>16. Queued'
  <2>1. \A u, v \in Owners : u # v /\ p_entry'[u] # NULL => p_entry'[u] # p_entry'[v]
    BY <1>2, <1>3, <1>4 DEF Carried, Queued
  <2>2. \A u \in Owners : p_entry'[u] # NULL => p_entry'[u] \notin In("pool")'
    BY <1>4, <1>6 DEF Carried, Queued
  <2>3. \A f \in Entries : f \in In("pool")' \/ \E u \in Owners : p_entry'[u] = f
    <3>1. ASSUME NEW f \in Entries, f # e, f \notin In("pool") PROVE \E u \in Owners : p_entry'[u] = f
      <4>1. PICK u \in Owners : p_entry[u] = f
        BY <3>1 DEF Carried, Queued
      <4> QED  BY <1>13, <3>1, <4>1, TransportAssumption
    <3> QED  BY <1>3, <1>4, <1>6, <3>1
  <2>4. ASSUME NEW f \in In("low")' PROVE InLow(f)'
    <3>1. f \in In("low") /\ f # NULL
      BY <1>6, FirstIs DEF Heads, Carried, Queued
    <3>2. PICK c \in Clients : /\ p_entry[c] = f /\ pc[c] \in Queuing
                               /\ ent[f].dg = Asked(c) /\ ~UnderWay(p_idx[c])
      BY <3>1 DEF Carried, Queued, InLow
    <3>3. c # o /\ p_entry'[c] = f /\ ent'[f] = ent[f]
      BY <1>3, <1>4, <1>13, <3>1, <3>2
    <3> QED  BY <1>10, <1>11, <3>2, <3>3 DEF InLow
  <2> QED  BY <1>6, <2>1, <2>2, <2>3, <2>4 DEF Queued
<1>17. Loose'
  <2>1. ASSUME MaxTimeouts # 0, NEW c \in Clients, pc'[c] \in Queuing
        PROVE  q'.prev[p_entry'[c]] = "low" /\ q'.cell[p_entry'[c]] = NULL
    <3>1. c # o /\ pc[c] \in Queuing
      BY <2>1 DEF Queuing
    <3>2. p_entry[c] # NULL
      BY <3>1 DEF Inv, CallerControl, WithEntry, Queuing
    <3>3. p_entry'[c] = p_entry[c] /\ p_entry[c] \in Entries /\ p_entry[c] \notin In("pool")
      BY <1>3, <1>9, <1>13, <3>2 DEF Carried, Queued
    <3> QED  BY <1>6, <2>1, <3>1, <3>3 DEF Carried, Loose
  <2> QED  BY <2>1 DEF Loose
<1>18. Loaded'
  <2>1. ASSUME NEW u \in Senders, p_entry'[u] # NULL
        PROVE  /\ p_idx'[u] # NULL /\ ent'[p_entry'[u]].p_idx = p_idx'[u]
               /\ ent'[p_entry'[u]].cb = (IF u \in Clients THEN "block" ELSE u)
               /\ \/ ent'[p_entry'[u]].dg = Asked(u)'
                  \/ u \in Clients /\ ent'[p_entry'[u]].dg = Answered(Asked(u))'
    <3>1. CASE u = o
      BY <1>4, <1>5, <1>11, <3>1, <1>3
    <3>2. CASE u # o
      <4>1. p_entry[u] # NULL /\ p_entry'[u] = p_entry[u] /\ ent'[p_entry[u]] = ent[p_entry[u]]
        BY <1>3, <1>4, <1>13, <2>1, <3>2
      <4> QED  BY <1>11, <4>1 DEF Carried, Loaded, Answered
    <3> QED  BY <3>1, <3>2
  <2>2. ASSUME NEW c \in Clients, pc'[c] = "enqueue" PROVE ent'[p_entry'[c]].dg = Asked(c)'
    <3>1. CASE c = o
      BY <1>3, <1>4, <1>5, <1>11, <3>1
    <3>2. CASE c # o
      <4>1. pc[c] = "enqueue"
        BY <2>2, <3>2
      <4>2. p_entry[c] # NULL
        BY <4>1 DEF Inv, CallerControl, WithEntry
      <4> QED  BY <1>3, <1>11, <1>13, <4>1, <4>2 DEF Carried, Loaded
    <3> QED  BY <3>1, <3>2
  <2> QED  BY <2>1, <2>2 DEF Loaded
<1>19. Single'
  BY <1>10 DEF Carried, Single
<1>20. Answers'
  <2>1. ASSUME NEW c \in Clients, p_idx'[c] # NULL, waiter'[p_idx'[c]]
        PROVE  Started(c)' /\ (p_entry'[c] # NULL => ent'[p_entry'[c]].dg = Answered(Asked(c))')
    <3>1. c # o
      BY <1>8, <2>1
    <3>2. Started(c) /\ (p_entry[c] # NULL => ent[p_entry[c]].dg = Answered(Asked(c)))
      BY <2>1 DEF Carried, Answers
    <3>3. p_entry'[c] = p_entry[c]
      BY <1>3, <1>4, <3>1
    <3> QED  BY <1>3, <1>11, <1>12, <1>13, <3>2, <3>3 DEF Answered
  <2>2. ASSUME NEW c \in Clients, pc'[c] = "read" PROVE ent'[p_entry'[c]].dg = Answered(Asked(c))'
    <3>1. pc[c] = "read" /\ ent[p_entry[c]].dg = Answered(Asked(c))
      BY <2>2 DEF Carried, Answers
    <3>2. p_entry[c] # NULL
      BY <3>1 DEF Inv, CallerControl, WithEntry
    <3> QED  BY <1>3, <1>11, <1>13, <3>1, <3>2 DEF Answered
  <2>3. ASSUME rx'.pc = "post", NEW c \in Clients, p_entry'[c] = rx'.entry
        PROVE  ent'[rx'.entry].dg = Answered(Asked(c))'
    <3>1. c # o /\ p_entry[c] = rx.entry /\ rx.entry # NULL
      BY <1>2, <1>3, <1>4, <2>3 DEF Inv, RxControl
    <3>2. ent[rx.entry].dg = Answered(Asked(c))
      BY <2>3, <3>1 DEF Carried, Answers
    <3>3. ent'[rx.entry] = ent[rx.entry]
      <4>1. p_entry[c] # NULL /\ c \in Owners
        BY <1>3, <3>1
      <4> QED  BY <1>13, <3>1, <4>1
    <3>4. Answered(Asked(c))' = Answered(Asked(c))
      BY <1>11 DEF Answered
    <3> QED  BY <3>2, <3>3, <3>4
  <2> QED  BY <2>1, <2>2, <2>3 DEF Answers
<1>21. Quiet'
  <2>1. \A c \in Clients : pc'[c] \in {"read", "iput"} => pc[c] = pc'[c]
    OBVIOUS
  <2> QED  BY <1>10, <2>1 DEF Carried, Quiet, Elems
<1>22. Threads'
  <2>1. rx.pc = "post" => ent'[rx.entry].cb = "block"
    BY <1>2, <1>5, <1>9 DEF Carried, Threads, Inv, RxControl
  <2>2. ASSUME NEW f \in Entries PROVE ent'[f].cb # "anon"
    BY <1>3, <1>5 DEF Carried, Threads, CdgNames
  <2>3. \A c \in Clients : p_entry'[c] = NULL <=> pc'[c] \in {"out", "pool", "iput"}
    BY <1>1, <1>3, <1>4 DEF Carried, Threads
  <2>4. cyc'.pc = "iput" => p_entry'[cdg'] = NULL
    <3>1. ASSUME cyc'.pc = "iput" PROVE p_entry'[cdg'] = NULL
      <4>1. cyc' = cyc /\ cdg' # o /\ cdg' = cdg /\ cyc.pc = "iput"
        BY <3>1 DEF cdg
      <4>2. cdg \in Owners
        BY <4>1, CdgType, Names DEF Inv, CycleControl
      <4> QED  BY <1>4, <4>1, <4>2 DEF Carried, Threads
    <3> QED  BY <3>1
  <2>5. MaxTimeouts = 0 => \A c \in Clients : pc'[c] \notin {"remove", "expire", "put"}
    BY DEF Carried, Threads
  <2>6. p_entry'["sto"] = NULL
    BY <1>3, <1>4 DEF Carried, Threads
  <2> QED  BY <2>1, <2>2, <2>3, <2>4, <2>5, <2>6 DEF Carried, Threads
<1>23. Cycled'
  <2>1. \A f : f # NULL /\ InHigh(f) => InHigh(f)'
    BY <1>13
  <2>2. In("high")' = In("high") /\ NULL \notin In("high")
    BY <1>6, FirstIs DEF Carried, Queued, Heads
  <2> QED  BY <2>1, <2>2 DEF Carried, Cycled
<1> QED  BY <1>15, <1>16, <1>17, <1>18, <1>19, <1>20, <1>21, <1>22, <1>23 DEF Carried

\* pool_get of a datagram of a caller or a cyclic datagram.
LEMMA PoolGetKept ==
    ASSUME Orderly, Inv, NoneLost, Carried, CycPoolGet \/ \E c \in Clients : TcPoolGet(c)
    PROVE  Carried'
<1> USE DEF qvars, evars, hvars, cvars, bounds
<1>1. ASSUME NEW c \in Clients, TcPoolGet(c) PROVE Carried'
  <2>1. /\ UNCHANGED <<idxq, waiter, p_idx, tx_send, hw, wire, rx, calls, cyc>>
        /\ pc[c] = "pool" /\ c \in Senders /\ p_entry[c] = NULL /\ p_idx[c] # NULL
    BY <1>1 DEF TcPoolGet, Inv, CallerControl, Carried, Threads, Senders
  <2>2. CASE pool_get(c, "block", Asked(c)) /\ Goto(c, "enqueue")
    <3>1. pc'[c] = "enqueue" /\ \A d \in Clients : d # c => pc'[d] = pc[d]
      BY <2>2 DEF Goto, Inv, TypeOK
    <3>2. hw.owner = "cyc" => cyc'.pc = "sending"
      BY <2>1 DEF Carried, Threads
    <3>3. cyc'.pc = "iput" => cdg' # c /\ cyc' = cyc
      <4>1. cyc.pc = "iput" => cdg' = cdg /\ cdg \in Cdgs
        BY <2>1, CdgType DEF cdg, Inv, CycleControl
      <4> QED  BY <2>1, <4>1, Names
    <3>4. ASSUME \A u \in Owners : p_entry[u] # NULL => p_entry'[u] = p_entry[u],
                 NEW f, f # NULL, InHigh(f)
          PROVE  InHigh(f)'
      <4>1. \A j \in 1 .. Len(CycleSeq) : CycleSeq[j] \in Owners
        BY Names DEF Cdgs
      <4> QED  BY <2>1, <3>4, <4>1 DEF InHigh
    <3> QED  BY <2>1, <2>2, <3>1, <3>2, <3>3, <3>4, Given
  <2>3. CASE PoolEmpty /\ Goto(c, "iput") /\ UNCHANGED evars
    <3>1. pc'[c] = "iput" /\ \A d \in Clients : d # c => pc'[d] = pc[d]
      BY <2>3 DEF Goto, Inv, TypeOK
    <3>2. ~Started(c)
      BY <2>1 DEF Started
    <3>3. ~UnderWay(p_idx[c]) /\ ~waiter[p_idx[c]]
      BY <2>1, <3>2, StartedFirst DEF Carried, Answers
    <3>4. Threads' /\ Cycled'
      BY <2>1, <2>3, <3>1, CycledKept DEF Carried, Threads, cdg
    <3>5. MaxTimeouts = 0 => \A i \in Elems(idxq') : ~UnderWay(i)
      BY <2>1 DEF Carried, Quiet
    <3> SUFFICES ASSUME NEW n, n = p_idx[c] PROVE Carried'
      OBVIOUS
    <3>6. p_idx'[c] = n /\ n # NULL /\ ~UnderWay(n) /\ ~waiter'[n]
      BY <2>1, <3>3
    <3> QED  BY <2>1, <2>3, <3>1, <3>4, <3>5, <3>6, Assigned
  <2>4. c \notin Pingers /\ Request(c) = Asked(c)
    BY DEF Orderly, Request, Asked
  <2> QED  BY <1>1, <2>2, <2>3, <2>4 DEF TcPoolGet
<1>2. CASE CycPoolGet
  <2> SUFFICES ASSUME NEW o, o = cdg PROVE Carried'
    OBVIOUS
  <2>1. /\ UNCHANGED <<idxq, waiter, p_idx, tx_send, hw, wire, rx, pc, calls>> /\ cyc.pc = "pool"
        /\ o \in Senders /\ o \in Cdgs /\ o \notin Clients /\ p_idx[o] # NULL
    BY <1>2, CdgType, Names DEF CycPoolGet, Inv, CycleControl, Senders
  <2>2. Threads
    BY DEF Carried
  <2>3. CASE p_entry[o] = NULL /\ pool_get(o, o, Datagram(p_idx[o], <<o, 0>>)) /\ cyc' = [cyc EXCEPT !.pc = "enqueue"]
    <3>1. Asked(o) = Datagram(p_idx[o], <<o, 0>>)
      BY <2>1 DEF Asked
    <3>2. /\ cyc'.pc # "iput" /\ hw.owner # "cyc"
          /\ (\A u \in Owners : p_entry[u] # NULL => p_entry'[u] = p_entry[u]) =>
                \A f : f # NULL /\ InHigh(f) => InHigh(f)'
      <4>1. "enqueue" # "iput" /\ "enqueue" \in {"pool", "iput", "enqueue"}
        OBVIOUS
      <4> QED  BY <2>1, <2>2, <2>3, <4>1, CycGoes
    <3> QED  BY <2>1, <2>3, <3>1, <3>2, Given
  <2>4. ASSUME UNCHANGED evars, NEW l \in {"iput", "enqueue"}, cyc' = [cyc EXCEPT !.pc = l],
               l = "iput" => p_entry[o] = NULL
        PROVE  Carried'
    <3>1. Thin
      BY <2>1, <2>4, WithinItself DEF Thin
    <3>2. /\ cyc'.pc = "iput" => l = "iput" /\ cdg' = cdg
          /\ hw.owner # "cyc" /\ \A f : f # NULL /\ InHigh(f) => InHigh(f)'
      BY <2>1, <2>2, <2>4, CycGoes
    <3>3. Threads'
      BY <2>1, <2>4, <3>2 DEF Carried, Threads
    <3>4. In("high")' = In("high") /\ NULL \notin In("high")
      BY <2>4, FirstIs DEF In, Line, Elems, Carried, Queued, Heads
    <3>5. Cycled'
      BY <3>2, <3>4 DEF Carried, Cycled
    <3> QED  BY <2>1, <3>1, <3>3, <3>5, ThinKept DEF Carried
  <2> QED  BY <1>2, <2>3, <2>4 DEF CycPoolGet
<1> QED  BY <1>1, <1>2

-----------------------------------------------------------------------------
(* The steps that put an entry into a queue of the frame assembly. *)

LEMMA Enqueued ==
    ASSUME Inv, Carried, NEW e \in Entries, NEW h \in {"low", "high"}, \A g \in Heads : e \notin In(g),
           q' = Tq!TAILQ_INSERT_TAIL(q, h, e),
           UNCHANGED <<qvars, ent, p_entry, hw, wire, rx, calls>>,
           \A i \in Indices : tx_send'[i] \in {NULL, tx_send[i]},
           \A c \in Clients : pc'[c] = pc[c] \/ (pc[c] = "enqueue" /\ pc'[c] = "tx"),
           h = "low" => InLow(e)'
    PROVE  /\ Queued' /\ Loaded' /\ Sending' /\ Single' /\ Answers' /\ Quiet'
           /\ In(h)' = In(h) \cup {e} /\ \A g \in Heads : g # h => In(g)' = In(g)
           /\ \A x \in Entries : x # e /\ x \notin In(h) =>
                 q'.cell[x] = q.cell[x] /\ q'.prev[x] = q.prev[x]
           /\ In(h) = {} => q'.prev[e] = h /\ q'.cell[e] = NULL
<1> USE DEF qvars
<1>1. /\ Linked(q, Lines)'
      /\ In(h)' = In(h) \cup {e} /\ \A g \in Heads : g # h => In(g)' = In(g)
      /\ \A x \in Entries : x # e /\ x \notin In(h) =>
            q'.cell[x] = q.cell[x] /\ q'.prev[x] = q.prev[x]
      /\ In(h) = {} => q'.prev[e] = h /\ q'.cell[e] = NULL
  <2>1. Linked(q, Lines) /\ h \in Heads
    BY DEF Carried, Queued, Heads
  <2> QED  BY <2>1, PutLine
<1>2. Fly' = Fly /\ \A i : Once(i)' <=> Once(i)
  BY DEF Fly, Once, Now, FlyOf, OnceIn, Slots, Flight
<1>3. \A i : UnderWay(i)' => UnderWay(i)
  BY <1>2, StillUnderWay
<1>4. \A o \in Senders : Started(o) => Started(o)'
  BY DEF Started
<1>5. Loaded'
  BY LoadedKept DEF Carried
<1>6. Sending'
  BY <1>2, <1>4, SendingKept DEF Carried
<1>7. Single'
  BY <1>2, SingleKept DEF Carried
<1>8. Answers' /\ Quiet'
  BY <1>3, <1>4, AnswersKept, QuietKept DEF Carried
<1>9. Queued'
  <2>1. ASSUME NEW f \in In("low")' PROVE InLow(f)'
    <3>1. CASE f = e /\ h = "low"
      BY <3>1
    <3>2. CASE f \in In("low")
      <4>1. PICK c \in Clients : /\ p_entry[c] = f /\ pc[c] \in Queuing
                                 /\ ent[f].dg = Asked(c) /\ ~UnderWay(p_idx[c])
        BY <3>2 DEF Carried, Queued, InLow
      <4>2. pc'[c] \in Queuing
        BY <4>1 DEF Queuing
      <4>3. Asked(c)' = Asked(c)
        BY DEF Asked, Datagram
      <4>4. ~UnderWay(p_idx[c])'
        BY <1>3, <4>1
      <4> QED  BY <4>1, <4>2, <4>3, <4>4 DEF InLow
    <3> QED  BY <1>1, <2>1, <3>1, <3>2 DEF Heads
  <2>2. In("pool")' = In("pool")
    BY <1>1 DEF Heads
  <2> QED  BY <1>1, <2>1, <2>2 DEF Carried, Queued
<1> QED  BY <1>1, <1>5, <1>6, <1>7, <1>8, <1>9

\* An entry in tx_high is of a cyclic datagram, one in tx_low of a caller.
LEMMA QueuedBy ==
    ASSUME Inv, Carried, NEW o \in Owners, p_entry[o] # NULL
    PROVE  /\ p_entry[o] \in Entries /\ p_entry[o] \notin In("pool")
           /\ p_entry[o] \in In("low") => o \in Clients /\ pc[o] \in Queuing
           /\ p_entry[o] \in In("high") => o \in Cdgs /\ InHigh(p_entry[o])
<1>1. p_entry[o] \in Entries /\ p_entry[o] \notin In("pool")
  BY DEF Inv, TypeOK, Carried, Queued
<1>2. \A u \in Owners : p_entry[u] = p_entry[o] => u = o
  BY DEF Carried, Queued
<1>3. p_entry[o] \in In("low") => o \in Clients /\ pc[o] \in Queuing
  BY <1>2, Names DEF Carried, Queued, InLow
<1>4. ASSUME p_entry[o] \in In("high") PROVE o \in Cdgs /\ InHigh(p_entry[o])
  <2>1. InHigh(p_entry[o])
    BY <1>4 DEF Carried, Cycled
  <2>2. PICK j \in 1 .. Len(CycleSeq) : p_entry[CycleSeq[j]] = p_entry[o]
    BY <2>1 DEF InHigh
  <2>3. CycleSeq[j] \in Cdgs /\ CycleSeq[j] \in Owners
    BY Names DEF Cdgs
  <2> QED  BY <1>2, <2>1, <2>2, <2>3
<1> QED  BY <1>1, <1>3, <1>4

\* hw_enqueue to tx_low.
LEMMA EnqueueLowKept ==
    ASSUME Orderly, Inv, Carried, NEW c \in Clients, TcEnqueue(c)
    PROVE  Carried'
<1> USE DEF qvars, evars, hvars, cvars, bounds
<1> SUFFICES ASSUME NEW e, e = p_entry[c] PROVE Carried'
  OBVIOUS
<1>1. /\ UNCHANGED <<qvars, ent, p_entry, hw, wire, rx, calls, cyc>> /\ pc[c] = "enqueue"
      /\ q' = Tq!TAILQ_INSERT_TAIL(q, "low", e)
      /\ \A i \in Indices : tx_send'[i] \in {NULL, tx_send[i]}
      /\ pc'[c] = "tx" /\ \A d \in Clients : d # c => pc'[d] = pc[d]
  BY DEF TcEnqueue, Orderly, hw_enqueue, pool_put, Goto, Inv, TypeOK
<1>2. /\ c \in Owners /\ c \in Senders /\ c \notin Cdgs /\ e # NULL /\ e \in Entries
      /\ \A g \in Heads : e \notin In(g)
  <2>1. c \in Owners /\ c \in Senders /\ c \notin Cdgs /\ e # NULL
    BY <1>1, Names DEF Inv, CallerControl, WithEntry, Senders
  <2> QED  BY <1>1, <2>1, QueuedBy DEF Heads, Queuing
<1>3. Fly' = Fly /\ \A i : Once(i)' <=> Once(i)
  BY <1>1 DEF Fly, Once, Now, FlyOf, OnceIn, Slots, Flight
<1>4. \A i : UnderWay(i)' => UnderWay(i)
  BY <1>1, <1>3, StillUnderWay
<1>5. InLow(e)'
  <2>1. ent[e].dg = Asked(c)
    BY <1>1 DEF Carried, Loaded
  <2>2. ~UnderWay(p_idx[c])
    BY <1>1, <1>2, StartedFirst DEF Started
  <2>3. Asked(c)' = Asked(c)
    BY <1>1 DEF Asked, Datagram
  <2>4. ~UnderWay(p_idx[c])'
    BY <1>1, <1>4, <2>2
  <2> QED  BY <1>1, <2>1, <2>3, <2>4 DEF InLow, Queuing
<1>6. /\ Queued' /\ Loaded' /\ Sending' /\ Single' /\ Answers' /\ Quiet'
      /\ In("low")' = In("low") \cup {e} /\ \A g \in Heads : g # "low" => In(g)' = In(g)
      /\ In("low") = {} => q'.prev[e] = "low" /\ q'.cell[e] = NULL
  BY <1>1, <1>2, <1>5, Enqueued
<1>7. Threads'
  BY <1>1 DEF Carried, Threads, cdg
<1>8. Cycled'
  <2>1. In("high")' = In("high")
    BY <1>6 DEF Heads
  <2> QED  BY <1>1, <2>1 DEF Carried, Cycled, InHigh
<1>9. Loose'
  <2>1. ASSUME MaxTimeouts # 0 PROVE In("low") = {} /\ \A d \in Clients : d = c
    <3>1. \A d \in Clients : d = c
      BY <2>1 DEF Orderly
    <3>2. \A f \in In("low") : FALSE
      BY <1>1, <3>1 DEF Carried, Queued, InLow, Queuing
    <3> QED  BY <3>1, <3>2
  <2> QED  BY <1>1, <1>6, <2>1 DEF Loose
<1> QED  BY <1>6, <1>7, <1>8, <1>9 DEF Carried

\* hw_enqueue to tx_high.
LEMMA EnqueueHighKept ==
    ASSUME Orderly, Inv, Carried, CycEnqueue
    PROVE  Carried'
<1> USE DEF qvars, evars, hvars, cvars, bounds
<1> SUFFICES ASSUME NEW o, o = cdg, NEW e, e = p_entry[o] PROVE Carried'
  OBVIOUS
<1>1. /\ cyc.pc = "enqueue" /\ cyc.k \in 1 .. Len(CycleSeq) /\ o = CycleSeq[cyc.k] /\ o \in Cdgs
      /\ o \in Senders /\ o \in Owners /\ o \notin Clients /\ e # NULL /\ e \in Entries
  BY CdgType, Names DEF CycEnqueue, Inv, TypeOK, CycleControl, Senders, cdg
<1>2. ent' = ent
  <2>1. ent[e].dg = Datagram(p_idx[o], <<o, 0>>)
    BY <1>1 DEF Carried, Loaded, Asked
  <2>2. ASSUME NEW d, ent[e].dg = d PROVE [ent EXCEPT ![e].dg = d] = ent
    BY <1>1, <2>2 DEF Inv, TypeOK, Contents
  <2> QED  BY <2>1, <2>2 DEF CycEnqueue
<1>3. /\ UNCHANGED <<qvars, ent, p_entry, hw, wire, rx, calls, pc>> /\ NextCdg(TRUE)
      /\ q' = Tq!TAILQ_INSERT_TAIL(q, "high", e)
      /\ \A i \in Indices : tx_send'[i] \in {NULL, tx_send[i]}
  BY <1>2 DEF CycEnqueue, hw_enqueue, pool_put, Inv, TypeOK
<1>4. ~InHigh(e)
  <2>1. ASSUME NEW j \in 1 .. Len(CycleSeq), p_entry[CycleSeq[j]] = e, j < cyc.k PROVE FALSE
    <3>1. CycleSeq[j] = o
      BY <1>1, <2>1, Names DEF Carried, Queued, Cdgs
    <3> QED  BY <1>1, <2>1, <3>1, TransportAssumption
  <2> QED  BY <1>1, <2>1 DEF InHigh
<1>5. \A g \in Heads : e \notin In(g)
  BY <1>1, <1>4, QueuedBy DEF Heads
<1>6. /\ Queued' /\ Loaded' /\ Sending' /\ Single' /\ Answers' /\ Quiet'
      /\ In("high")' = In("high") \cup {e}
      /\ \A x \in Entries : x # e /\ x \notin In("high") =>
            q'.cell[x] = q.cell[x] /\ q'.prev[x] = q.prev[x]
  BY <1>1, <1>3, <1>5, Enqueued
<1>7. Threads
  BY DEF Carried
<1>8. /\ cyc'.pc \in {"lock", "pool", "iput", "enqueue", "tx"} /\ cyc'.pc # "iput"
      /\ hw.owner # "cyc" /\ \A f : f # NULL /\ InHigh(f) => InHigh(f)'
  <2>1. "no" # "iput"
    OBVIOUS
  <2> QED  BY <1>1, <1>3, <1>7, <2>1, CycGoes
<1>9. Threads'
  BY <1>3, <1>8 DEF Carried, Threads
<1>10. InHigh(e)'
  <2>1. (cyc'.pc = "lock" /\ cyc'.k = cyc.k + 1) \/ cyc'.pc = "tx"
    BY <1>3 DEF NextCdg
  <2>2. cyc.k < cyc.k + 1
    BY <1>1, TransportAssumption
  <2> QED  BY <1>1, <1>3, <2>1, <2>2 DEF InHigh
<1>11. Cycled'
  <2>1. NULL \notin In("high")
    BY FirstIs DEF Carried, Queued, Heads
  <2> QED  BY <1>6, <1>8, <1>10, <2>1 DEF Carried, Cycled
<1>12. Loose'
  <2>1. ASSUME NEW c \in Clients, pc[c] \in Queuing
        PROVE  q'.cell[p_entry[c]] = q.cell[p_entry[c]] /\ q'.prev[p_entry[c]] = q.prev[p_entry[c]]
    <3>1. p_entry[c] # NULL /\ c \in Owners /\ c # o /\ c \notin Cdgs
      BY <1>1, <2>1, Names DEF Inv, CallerControl, WithEntry, Queuing
    <3>2. p_entry[c] # e
      BY <1>1, <3>1 DEF Carried, Queued
    <3> QED  BY <1>6, <3>1, <3>2, QueuedBy
  <2> QED  BY <1>3, <2>1 DEF Carried, Loose
<1> QED  BY <1>6, <1>9, <1>11, <1>12 DEF Carried

-----------------------------------------------------------------------------
(* hw_tx_pool *)

\* The entry that is popped has an owner whose datagram has not been sent.
LEMMA PoppedBy ==
    ASSUME Inv, Carried, NEW h \in {"low", "high"}, NEW e \in In(h)
    PROVE  \E o \in Senders :
              /\ p_entry[o] = e /\ e \in Entries /\ e # NULL /\ Started(o)
              /\ ent[e].dg = Asked(o) /\ ent[e].p_idx = p_idx[o] /\ p_idx[o] # NULL
              /\ o \in Clients => pc[o] \in Queuing /\ ~UnderWay(p_idx[o])
<1>1. e \in Entries /\ e # NULL
  BY FirstIs DEF Carried, Queued, Heads
<1>2. CASE h = "low"
  <2>1. PICK c \in Clients : /\ p_entry[c] = e /\ pc[c] \in Queuing
                             /\ ent[e].dg = Asked(c) /\ ~UnderWay(p_idx[c])
    BY <1>2 DEF Carried, Queued, InLow
  <2>2. c \in Senders /\ Started(c)
    BY <2>1 DEF Senders, Started, Queuing
  <2>3. ent[e].p_idx = p_idx[c] /\ p_idx[c] # NULL
    BY <1>1, <2>1, <2>2 DEF Carried, Loaded
  <2> QED  BY <1>1, <2>1, <2>2, <2>3
<1>3. CASE h = "high"
  <2>1. PICK j \in 1 .. Len(CycleSeq) : p_entry[CycleSeq[j]] = e
    BY <1>3 DEF Carried, Cycled, InHigh
  <2> SUFFICES ASSUME NEW o, o = CycleSeq[j]
               PROVE  \E u \in Senders :
                        /\ p_entry[u] = e /\ e \in Entries /\ e # NULL /\ Started(u)
                        /\ ent[e].dg = Asked(u) /\ ent[e].p_idx = p_idx[u] /\ p_idx[u] # NULL
                        /\ u \in Clients => pc[u] \in Queuing /\ ~UnderWay(p_idx[u])
    OBVIOUS
  <2>2. o \in Cdgs /\ o \in Senders /\ o \notin Clients
    BY Names DEF Cdgs, Senders
  <2>3. ent[e].p_idx = p_idx[o] /\ p_idx[o] # NULL /\ ent[e].dg = Asked(o)
    BY <1>1, <2>1, <2>2 DEF Carried, Loaded
  <2> QED  BY <1>1, <2>1, <2>2, <2>3 DEF Started
<1> QED  BY <1>2, <1>3

LEMMA PopKept ==
    ASSUME Orderly, Inv, Apart, Carried, TxPop
    PROVE  Carried'
<1> USE DEF qvars, evars, hvars, cvars, bounds
<1> SUFFICES ASSUME NEW h, h = hw.queue, NEW e, e = Tq!TAILQ_FIRST(q, h) PROVE Carried'
  OBVIOUS
<1>1. /\ UNCHANGED <<idxq, waiter, p_idx, ent, p_entry, tx_send, rx, pc, calls, cyc>>
      /\ hw.entry = NULL /\ e # NULL /\ h \in {"low", "high"}
      /\ q' = Tq!TAILQ_REMOVE(q, h, e)
      /\ hw'.entry = e /\ hw'.owner = hw.owner /\ hw'.queue = hw.queue
      /\ \/ hw'.frame = hw.frame /\ wire' = wire
         \/ hw'.frame = <<>> /\ wire' = Sent(hw.frame)
  <2>1. hw \in HwStates
    BY DEF Inv, TypeOK
  <2>2. h \in {"low", "high"} /\ hw.entry = NULL /\ e # NULL
    BY <2>1 DEF TxPop, HwStates
  <2> DEFINE full == Len(hw.frame) >= MaxDg
  <2>3. /\ hw' = [hw EXCEPT !.entry = e, !.frame = IF full THEN <<>> ELSE hw.frame]
        /\ wire' = IF full THEN Sent(hw.frame) ELSE wire
    BY DEF TxPop
  <2> HIDE DEF full
  <2>4. /\ hw'.entry = e /\ hw'.owner = hw.owner /\ hw'.queue = hw.queue
        /\ hw'.frame = IF full THEN <<>> ELSE hw.frame
    BY <2>1, <2>3 DEF HwStates
  <2> QED  BY <2>2, <2>3, <2>4 DEF TxPop
<1>2. /\ Linked(q, Lines)'
      /\ e \in In(h) /\ In(h)' = In(h) \ {e} /\ \A g \in Heads : g # h => In(g)' = In(g)
      /\ \A x \in Entries : q'.cell[x] = q.cell[x]
      /\ \A x \in Entries : x \notin In(h) \/ x = e => q'.prev[x] = q.prev[x]
  <2>1. Linked(q, Lines) /\ h \in Heads
    BY <1>1 DEF Carried, Queued, Heads
  <2>2. e \in Entries
    BY <1>1, <2>1, FirstType DEF Inv, TypeOK
  <2> QED  BY <1>1, <2>1, <2>2, TakeLine
<1>3. PICK o \in Senders :
         /\ p_entry[o] = e /\ e \in Entries /\ e # NULL /\ Started(o)
         /\ ent[e].dg = Asked(o) /\ ent[e].p_idx = p_idx[o] /\ p_idx[o] # NULL
         /\ o \in Clients => pc[o] \in Queuing /\ ~UnderWay(p_idx[o])
  BY <1>1, <1>2, PoppedBy
<1>4. Senders \subseteq Owners /\ Clients \subseteq Senders
  BY Names DEF Senders
<1>5. /\ Asked(o).idx = p_idx[o]
      /\ \A u \in Senders : p_idx[u] = p_idx[o] => u = o
      /\ \A u \in Owners : p_entry[u] = e => u = o
      /\ p_idx[o] \notin Elems(idxq)
  <2>1. Asked(o).idx = p_idx[o]
    BY DEF Asked, Datagram
  <2> QED  BY <1>3, <1>4, <2>1 DEF Apart, Carried, Queued
<1>6. Within(Flight(hw'.frame, rx'.frame, wire'), Now)
  <2>1. CASE hw'.frame = hw.frame /\ wire' = wire
    BY <1>1, <2>1, WithinItself
  <2>2. CASE hw'.frame = <<>> /\ wire' = Sent(hw.frame)
    <3>1. rx'.frame = rx.frame
      BY <1>1
    <3> QED  BY <2>2, <3>1, UnderWayIs, FlightSent DEF Sent, Now
  <2> QED  BY <1>1, <2>1, <2>2
<1>7. Fly' \subseteq Fly /\ \A i \in Indices : Once(i) => Once(i)'
  BY <1>6, Thinner
<1>8. /\ \A i : Flying(i)' => Flying(i)
      /\ \A i : Popped(i)' <=> i = p_idx[o]
      /\ \A i : UnderWay(i)' => UnderWay(i) \/ i = p_idx[o]
  <2>1. \A i : Flying(i)' => Flying(i)
    BY <1>7 DEF Flying
  <2>2. \A i : Popped(i)' <=> i = p_idx[o]
    BY <1>1, <1>3, <1>5 DEF Popped
  <2> QED  BY <2>1, <2>2 DEF UnderWay
<1>9. \A u : (Started(u)' <=> Started(u)) /\ Asked(u)' = Asked(u)
  BY <1>1 DEF Started, Asked, Datagram
<1>10. Threads' /\ Loaded'
  BY <1>1, LoadedKept DEF Carried, Threads, cdg
<1>11. Queued'
  <2>1. ASSUME NEW f \in In("low")' PROVE InLow(f)'
    <3>1. f \in In("low") /\ f # e
      BY <1>1, <1>2, <2>1, FirstIs DEF Carried, Queued, Heads
    <3>2. PICK c \in Clients : /\ p_entry[c] = f /\ pc[c] \in Queuing
                               /\ ent[f].dg = Asked(c) /\ ~UnderWay(p_idx[c])
      BY <3>1 DEF Carried, Queued, InLow
    <3>3. p_idx[c] # p_idx[o]
      BY <1>3, <1>4, <1>5, <3>1, <3>2
    <3>4. ~UnderWay(p_idx[c])'
      BY <1>1, <1>8, <3>2, <3>3
    <3> QED  BY <1>1, <1>9, <3>2, <3>4 DEF InLow
  <2>2. In("pool")' = In("pool")
    BY <1>1, <1>2 DEF Heads
  <2> QED  BY <1>1, <1>2, <2>1, <2>2 DEF Carried, Queued
<1>12. Cycled'
  <2>1. In("high")' \subseteq In("high")
    BY <1>1, <1>2 DEF Heads
  <2> QED  BY <1>1, <2>1 DEF Carried, Cycled, InHigh
<1>13. Loose'
  <2>1. ASSUME MaxTimeouts # 0, NEW c \in Clients, pc[c] \in Queuing
        PROVE  q'.prev[p_entry[c]] = q.prev[p_entry[c]] /\ p_entry[c] \in Entries
    <3>1. p_entry[c] # NULL /\ c \in Owners /\ c \notin Cdgs
      BY <2>1, Names DEF Inv, CallerControl, WithEntry, Queuing
    <3>2. p_entry[c] \in In(h) => p_entry[c] = e
      <4>1. ASSUME p_entry[c] \in In(h) PROVE p_entry[c] = e
        <5>1. h = "low"
          BY <1>1, <3>1, <4>1, QueuedBy
        <5>2. PICK d \in Clients : p_entry[d] = e
          BY <1>2, <5>1 DEF Carried, Queued, InLow
        <5> QED  BY <2>1, <5>2 DEF Orderly
      <4> QED  BY <4>1
    <3> QED  BY <1>2, <3>1, <3>2, QueuedBy
  <2> QED  BY <1>1, <1>2, <2>1 DEF Carried, Loose
<1>14. Sending'
  <2>1. ASSUME NEW d \in Fly', NEW f, f = tx_send'[d.idx] PROVE Right(f, d)'
    <3>1. Right(f, d)
      BY <1>1, <1>7, <2>1 DEF Carried, Sending
    <3> QED  BY <1>1, <1>9, <3>1, RightKept
  <2>2. ASSUME NEW f, NEW d, f = hw'.entry, f # NULL, d = ent'[f].dg PROVE Right(f, d)'
    <3>1. f = e /\ d = Asked(o) /\ d.idx = p_idx[o]
      BY <1>1, <1>3, <1>5, <2>2
    <3>2. Right(f, d)
      BY <1>3, <1>5, <3>1 DEF Right
    <3> QED  BY <1>1, <1>9, <3>2, RightKept
  <2>3. ASSUME NEW f, NEW d, f = rx'.entry, f # NULL, d = RxDg' PROVE Right(f, d)'
    <3>1. Right(f, d)
      BY <1>1, <2>3 DEF Carried, Sending, RxDg
    <3> QED  BY <1>1, <1>9, <3>1, RightKept
  <2> QED  BY <2>1, <2>2, <2>3, SendingMade
<1>15. Single'
  <2>1. ASSUME NEW c \in Clients, p_idx[c] # NULL, NEW i, i = p_idx[c]
        PROVE  Once(i)' /\ (Popped(i)' => ~Flying(i)')
    <3>1. Once(i)'
      <4>1. i \in Indices /\ Once(i)
        BY <2>1, Names DEF Carried, Single, Inv, TypeOK
      <4> QED  BY <1>7, <4>1
    <3>2. ASSUME i = p_idx[o] PROVE ~Flying(i)'
      <4>1. c = o
        BY <1>4, <1>5, <2>1, <3>2
      <4> QED  BY <1>3, <1>8, <2>1, <4>1 DEF UnderWay
    <3> QED  BY <1>8, <3>1, <3>2
  <2> QED  BY <1>1, <2>1 DEF Single
<1>16. Answers'
  BY <1>1, <1>9, AnswersKept DEF Carried
<1>17. Quiet'
  <2>1. ASSUME MaxTimeouts = 0, NEW i \in Elems(idxq) PROVE ~UnderWay(i)'
    BY <1>5, <1>8, <2>1 DEF Carried, Quiet
  <2>2. ASSUME MaxTimeouts = 0, NEW c \in Clients, p_idx[c] # NULL, NEW i, i = p_idx[c],
               pc[c] \in {"read", "iput"} \/ waiter[i]
        PROVE  ~UnderWay(i)'
    <3>1. i # p_idx[o]
      <4>1. ASSUME i = p_idx[o] PROVE FALSE
        <5>1. c = o
          BY <1>4, <1>5, <2>2, <4>1
        <5>2. waiter[i]
          BY <1>3, <2>2, <5>1 DEF Queuing
        <5>3. ent[e].dg = Answered(Asked(o))
          BY <1>3, <2>2, <5>1, <5>2 DEF Carried, Answers
        <5>4. Asked(o).ans = FALSE /\ Answered(Asked(o)).ans = TRUE
          BY DEF Asked, Answered, Datagram
        <5> QED  BY <1>3, <5>3, <5>4
      <4> QED  BY <4>1
    <3>2. ~UnderWay(i)
      BY <2>2 DEF Carried, Quiet
    <3> QED  BY <1>8, <3>1, <3>2
  <2> QED  BY <1>1, <2>1, <2>2 DEF Quiet, Elems
<1> QED  BY <1>10, <1>11, <1>12, <1>13, <1>14, <1>15, <1>16, <1>17 DEF Carried

LEMMA CopyKept ==
    ASSUME Orderly, Inv, Carried, TxCopy
    PROVE  Carried'
<1> USE DEF qvars, evars, hvars, cvars, bounds
<1> SUFFICES ASSUME NEW e, e = hw.entry, NEW d, d = ent[e].dg, NEW i, i = d.idx PROVE Carried'
  OBVIOUS
<1>1. /\ UNCHANGED <<idxq, waiter, p_idx, q, ent, p_entry, wire, rx, pc, calls, cyc>>
      /\ e # NULL /\ e \in Entries /\ d \in Datagrams /\ i \in Indices
      /\ hw'.frame = Append(hw.frame, d)
      /\ hw'.entry = NULL /\ hw'.owner = hw.owner /\ hw'.queue = hw.queue
      /\ tx_send'[i] = e /\ \A j \in Indices : j # i => tx_send'[j] = tx_send[j]
  <2>1. e # NULL /\ e \in Entries /\ d \in Datagrams /\ i \in Indices
    BY DEF TxCopy, Inv, TypeOK, HwStates, Contents, Datagrams
  <2>2. hw' = [hw EXCEPT !.frame = Append(hw.frame, d), !.entry = NULL]
    BY DEF TxCopy
  <2>3. /\ hw'.frame = Append(hw.frame, d)
        /\ hw'.entry = NULL /\ hw'.owner = hw.owner /\ hw'.queue = hw.queue
    BY <2>2 DEF Inv, TypeOK, HwStates
  <2>4. tx_send' = [tx_send EXCEPT ![i] = e]
    BY DEF TxCopy
  <2>5. tx_send'[i] = e /\ \A j \in Indices : j # i => tx_send'[j] = tx_send[j]
    BY <2>1, <2>4 DEF Inv, TypeOK
  <2> QED  BY <2>1, <2>3, <2>5 DEF TxCopy
<1>2. Popped(i) /\ Right(e, d)
  BY <1>1 DEF Popped, Carried, Sending
<1>3. /\ Fly' \subseteq Fly \cup {d}
      /\ \A j \in Indices : Once(j) /\ (i = j => ~Flying(j)) => Once(j)'
  <2>1. rx'.frame = rx.frame /\ wire' = wire
    BY <1>1
  <2>2. PICK f \in Seq(Datagrams), r \in Seq(Datagrams), w \in Seq(Frames) :
           f = hw.frame /\ r = rx.frame /\ w = wire
    BY UnderWayIs
  <2> DEFINE F == Flight(Append(f, d), r, w)
             G == Flight(f, r, w)
  <2>3. d \in Datagrams
    BY <1>1
  <2>4. /\ FlyOf(F) \subseteq FlyOf(G) \cup {d}
        /\ \A j \in Indices :
              OnceIn(G, j) /\ (d.idx = j => \A x \in FlyOf(G) : x.idx # j) => OnceIn(F, j)
    BY <2>3, FlightAdded
  <2>5. Fly' = FlyOf(F) /\ \A j : Once(j)' <=> OnceIn(F, j)
    BY <1>1, <2>1, <2>2, PrimedFlight
  <2>6. G = Now
    BY <2>2 DEF Now
  <2> HIDE DEF F, G
  <2> QED  BY <2>4, <2>5, <2>6 DEF Fly, Once, Flying
<1>4. \A j : (UnderWay(j)' => UnderWay(j)) /\ ~Popped(j)'
  <2>1. \A j : ~Popped(j)'
    BY <1>1 DEF Popped
  <2>2. \A j : Flying(j)' => Flying(j) \/ j = i
    BY <1>3 DEF Flying
  <2> QED  BY <1>2, <2>1, <2>2 DEF UnderWay
<1>5. \A u \in Senders : Started(u) => Started(u)'
  BY <1>1 DEF Started
<1>6. Threads' /\ Cycled' /\ Loose' /\ Loaded'
  BY <1>1, CycledKept, LooseKept, LoadedKept DEF Carried, Threads, cdg
<1>7. Queued'
  BY <1>1, <1>4, QueuedKept DEF Carried
<1>8. Answers' /\ Quiet'
  BY <1>1, <1>4, <1>5, AnswersKept, QuietKept DEF Carried
<1>9. Single'
  <2>1. ASSUME NEW c \in Clients, p_idx[c] # NULL, NEW j, j = p_idx[c] PROVE Once(j)'
    <3>1. j \in Indices /\ Once(j) /\ (Popped(j) => ~Flying(j))
      BY <2>1, Names DEF Carried, Single, Inv, TypeOK
    <3> QED  BY <1>2, <1>3, <3>1
  <2> QED  BY <1>1, <1>4, <2>1 DEF Single
<1>10. Sending'
  <2>1. ASSUME NEW x \in Fly', NEW f, f = tx_send'[x.idx] PROVE Right(f, x)'
    <3>1. x.idx \in Indices
      BY <1>1, <1>3, UnderWayIs DEF Datagrams
    <3>2. Right(f, x)
      <4>1. CASE x = d
        BY <1>1, <1>2, <2>1, <4>1
      <4>2. CASE x \in Fly /\ x.idx # i
        BY <1>1, <2>1, <3>1, <4>2 DEF Carried, Sending
      <4>3. CASE x \in Fly /\ x.idx = i
        <5>1. f = e /\ Right(tx_send[i], x)
          BY <1>1, <2>1, <4>3 DEF Carried, Sending
        <5> QED  BY <1>2, <4>3, <5>1 DEF Right
      <4> QED  BY <1>3, <4>1, <4>2, <4>3
    <3> QED  BY <1>1, <1>5, <3>2, RightKept
  <2>2. ASSUME NEW f, NEW x, f = hw'.entry, f # NULL, x = ent'[f].dg PROVE Right(f, x)'
    BY <1>1, <2>2
  <2>3. ASSUME NEW f, NEW x, f = rx'.entry, f # NULL, x = RxDg' PROVE Right(f, x)'
    <3>1. Right(f, x)
      BY <1>1, <2>3 DEF Carried, Sending, RxDg
    <3> QED  BY <1>1, <1>5, <3>1, RightKept
  <2> QED  BY <2>1, <2>2, <2>3, SendingMade
<1> QED  BY <1>6, <1>7, <1>8, <1>9, <1>10 DEF Carried

-----------------------------------------------------------------------------
(* The steps with which a caller takes back its entry. *)

\* pool_remove of phw->tx_low.
LEMMA RemoveKept ==
    ASSUME Orderly, Inv, Carried, NEW c \in Clients, TcRemove(c)
    PROVE  Carried'
<1> USE DEF qvars, evars, hvars, cvars, bounds
<1> SUFFICES ASSUME NEW e, e = p_entry[c] PROVE Carried'
  OBVIOUS
<1>1. /\ UNCHANGED <<idxq, waiter, p_idx, ent, p_entry, tx_send, hw, wire, rx, calls, cyc>>
      /\ pc[c] = "remove" /\ q' = Tq!TAILQ_REMOVE(q, "low", e)
      /\ pc'[c] = "expire" /\ \A d \in Clients : d # c => pc'[d] = pc[d]
  BY DEF TcRemove, pool_remove, Goto, Inv, TypeOK
<1>2. MaxTimeouts # 0 /\ \A d \in Clients : d = c
  BY <1>1 DEF Carried, Threads, Orderly
<1>3. e # NULL /\ e \in Entries /\ q.prev[e] = "low" /\ q.cell[e] = NULL
  <2>1. e # NULL /\ c \in Owners
    BY <1>1, Names DEF Inv, CallerControl, WithEntry
  <2> QED  BY <1>1, <1>2, <2>1, QueuedBy DEF Carried, Loose, Queuing
<1>4. Linked(q, Lines) /\ "low" \in Heads /\ \A f \in In("low") : f = e
  BY <1>2 DEF Carried, Queued, InLow, Heads
<1>5. Linked(q, Lines)' /\ In("low")' = {} /\ \A g \in Heads : g # "low" => In(g)' = In(g)
  <2>1. CASE In("low") = {}
    <3>1. q' = q
      BY <1>1, <1>3, <1>4, <2>1, StaleRemoved
    <3>2. \A g \in Heads : In(g)' = In(g)
      BY <3>1 DEF In, Line, Elems
    <3>3. Linked(q, Lines)'
      BY <1>4, <3>1 DEF Lines, Line, Linked
    <3> QED  BY <1>4, <2>1, <3>2, <3>3
  <2>2. CASE In("low") # {}
    <3>1. Tq!TAILQ_FIRST(q, "low") = e
      BY <1>4, <2>2, FirstIs
    <3>2. /\ Linked(q, Lines)'
          /\ e \in In("low") /\ In("low")' = In("low") \ {e}
          /\ \A g \in Heads : g # "low" => In(g)' = In(g)
      BY <1>1, <1>3, <1>4, <3>1, TakeLine
    <3> QED  BY <1>4, <3>2
  <2> QED  BY <2>1, <2>2
<1>6. Fly' = Fly /\ \A i : Once(i)' <=> Once(i)
  BY <1>1 DEF Fly, Once, Now, FlyOf, OnceIn, Slots, Flight
<1>7. \A i : UnderWay(i)' => UnderWay(i)
  BY <1>1, <1>6, StillUnderWay
<1>8. \A o \in Senders : Started(o) => Started(o)'
  BY <1>1 DEF Started
<1>9. Threads' /\ Loaded'
  BY <1>1, <1>2, LoadedKept DEF Carried, Threads, cdg
<1>10. Sending'
  BY <1>1, <1>6, <1>8, SendingKept DEF Carried
<1>11. Single'
  BY <1>1, <1>6, SingleKept DEF Carried
<1>12. Answers' /\ Quiet'
  <2>1. \A d \in Clients : pc'[d] \in {"read", "iput"} => pc[d] = pc'[d]
    BY <1>1
  <2> QED  BY <1>1, <1>7, <1>8, <2>1, AnswersKept, QuietKept DEF Carried
<1>13. Queued'
  BY <1>1, <1>5 DEF Carried, Queued, Heads
<1>14. Cycled'
  <2>1. In("high")' = In("high")
    BY <1>5 DEF Heads
  <2> QED  BY <1>1, <2>1 DEF Carried, Cycled, InHigh
<1>15. Loose'
  BY <1>1, <1>2 DEF Loose, Queuing
<1> QED  BY <1>9, <1>10, <1>11, <1>12, <1>13, <1>14, <1>15 DEF Carried

\* pool_put of pec->pool.
LEMMA PoolPutKept ==
    ASSUME Orderly, Inv, Carried, NEW c \in Clients, TcPoolPut(c)
    PROVE  Carried'
<1> USE DEF qvars, evars, hvars, cvars, bounds
<1> SUFFICES ASSUME NEW e, e = p_entry[c] PROVE Carried'
  OBVIOUS
<1>0. c \in Owners /\ c \in Senders /\ c \notin Cdgs /\ c # "sto" /\ Senders \subseteq Owners
      /\ Clients \subseteq Senders
  BY Names DEF Senders
<1>1. /\ UNCHANGED <<idxq, waiter, p_idx, ent, tx_send, hw, wire, rx, calls, cyc>>
      /\ pc[c] \in {"read", "put"} /\ q' = Tq!TAILQ_INSERT_TAIL(q, "pool", e)
      /\ pc'[c] = "iput" /\ \A d \in Clients : d # c => pc'[d] = pc[d]
      /\ p_entry'[c] = NULL /\ \A o \in Owners : o # c => p_entry'[o] = p_entry[o]
  BY <1>0 DEF TcPoolPut, pool_put, Goto, Inv, TypeOK
<1>2. e # NULL /\ e \in Entries /\ \A g \in Heads : e \notin In(g)
  <2>1. e # NULL
    BY <1>1 DEF Inv, CallerControl, WithEntry
  <2> QED  BY <1>0, <1>1, <2>1, QueuedBy DEF Queuing, Heads
<1>3. /\ Linked(q, Lines)'
      /\ In("pool")' = In("pool") \cup {e} /\ \A g \in Heads : g # "pool" => In(g)' = In(g)
      /\ \A x \in Entries : x # e /\ x \notin In("pool") =>
            q'.cell[x] = q.cell[x] /\ q'.prev[x] = q.prev[x]
  <2>1. Linked(q, Lines) /\ "pool" \in Heads
    BY DEF Carried, Queued, Heads
  <2> QED  BY <1>1, <1>2, <2>1, PutLine
<1>4. Fly' = Fly /\ \A i : Once(i)' <=> Once(i)
  BY <1>1 DEF Fly, Once, Now, FlyOf, OnceIn, Slots, Flight
<1>5. \A i : UnderWay(i)' => UnderWay(i)
  BY <1>1, <1>4, StillUnderWay
<1>6. \A o \in Owners : p_entry'[o] # NULL => o # c /\ p_entry'[o] = p_entry[o] /\ p_entry[o] # e
  BY <1>0, <1>1, <1>2 DEF Carried, Queued
<1>7. \A o \in Senders : (Started(o) => Started(o)') /\ Asked(o)' = Asked(o)
  BY <1>0, <1>1 DEF Started, Asked, Datagram
<1>8. Threads'
  <2>1. \A d \in Clients : p_entry'[d] = NULL <=> pc'[d] \in {"out", "pool", "iput"}
    BY <1>0, <1>1 DEF Carried, Threads
  <2>2. MaxTimeouts = 0 => \A d \in Clients : pc'[d] \notin {"remove", "expire", "put"}
    BY <1>1 DEF Carried, Threads
  <2>3. cyc'.pc = "iput" => p_entry'[cdg'] = NULL
    <3>1. ASSUME cyc.pc = "iput" PROVE p_entry'[cdg] = NULL
      <4>1. cdg \in Owners /\ p_entry[cdg] = NULL
        BY <3>1, CdgType, Names DEF Inv, CycleControl, Carried, Threads
      <4> QED  BY <1>1, <4>1
    <3> QED  BY <1>1, <3>1 DEF cdg
  <2>4. p_entry'["sto"] = NULL
    BY <1>0, <1>1, Names DEF Carried, Threads
  <2> QED  BY <1>1, <2>1, <2>2, <2>3, <2>4 DEF Carried, Threads
<1>9. Queued'
  <2>1. \A u, v \in Owners : u # v /\ p_entry'[u] # NULL => p_entry'[u] # p_entry'[v]
    BY <1>6 DEF Carried, Queued
  <2>2. \A u \in Owners : p_entry'[u] # NULL => p_entry'[u] \notin In("pool")'
    BY <1>3, <1>6 DEF Carried, Queued
  <2>3. \A f \in Entries : f \in In("pool")' \/ \E u \in Owners : p_entry'[u] = f
    <3>1. ASSUME NEW f \in Entries, f # e, f \notin In("pool") PROVE \E u \in Owners : p_entry'[u] = f
      <4>1. PICK u \in Owners : p_entry[u] = f
        BY <3>1 DEF Carried, Queued
      <4> QED  BY <1>1, <3>1, <4>1
    <3> QED  BY <1>3, <3>1
  <2>4. ASSUME NEW f \in In("low")' PROVE InLow(f)'
    <3>1. f \in In("low")
      BY <1>3 DEF Heads
    <3>2. PICK d \in Clients : /\ p_entry[d] = f /\ pc[d] \in Queuing
                               /\ ent[f].dg = Asked(d) /\ ~UnderWay(p_idx[d])
      BY <3>1 DEF Carried, Queued, InLow
    <3>3. d # c
      BY <1>1, <3>2 DEF Queuing
    <3>4. ~UnderWay(p_idx[d])'
      BY <1>1, <1>5, <3>2
    <3> QED  BY <1>0, <1>1, <1>7, <3>2, <3>3, <3>4 DEF InLow
  <2> QED  BY <1>3, <2>1, <2>2, <2>3, <2>4 DEF Queued
<1>10. Cycled'
  <2>1. In("high")' = In("high")
    BY <1>3 DEF Heads
  <2>2. \A j \in 1 .. Len(CycleSeq) : CycleSeq[j] \in Owners /\ CycleSeq[j] # c
    BY <1>0, Names DEF Cdgs
  <2> QED  BY <1>1, <2>1, <2>2 DEF Carried, Cycled, InHigh
<1>11. Loose'
  <2>1. ASSUME MaxTimeouts # 0, NEW d \in Clients, pc'[d] \in Queuing
        PROVE  q'.prev[p_entry'[d]] = "low" /\ q'.cell[p_entry'[d]] = NULL
    <3>1. d # c /\ pc[d] \in Queuing
      BY <1>1, <2>1 DEF Queuing
    <3>2. p_entry[d] # NULL /\ d \in Owners
      BY <1>0, <3>1 DEF Inv, CallerControl, WithEntry, Queuing
    <3>3. p_entry'[d] = p_entry[d] /\ p_entry[d] # e /\ p_entry[d] \in Entries /\ p_entry[d] \notin In("pool")
      BY <1>1, <1>6, <3>1, <3>2, QueuedBy
    <3> QED  BY <1>3, <2>1, <3>1, <3>3 DEF Carried, Loose
  <2> QED  BY <2>1 DEF Loose
<1>12. Loaded'
  <2>1. \A u \in Senders : p_entry'[u] # NULL => p_entry'[u] = p_entry[u]
    BY <1>0, <1>6
  <2>2. \A d \in Clients : pc'[d] = "enqueue" => d # c /\ pc[d] = "enqueue"
    BY <1>1
  <2> QED  BY <1>0, <1>1, <1>7, <2>1, <2>2 DEF Carried, Loaded, Answered
<1>13. ASSUME NEW f, NEW x, Right(f, x) PROVE Right(f, x)'
  <2>1. ASSUME NEW u \in Senders, p_idx'[u] = x.idx
        PROVE  Started(u)' /\ x = Asked(u)' /\ (p_entry'[u] # NULL => f \in {NULL, p_entry'[u]})
    <3>1. Started(u) /\ x = Asked(u) /\ (p_entry[u] # NULL => f \in {NULL, p_entry[u]})
      BY <1>1, <1>13, <2>1 DEF Right
    <3> QED  BY <1>0, <1>6, <1>7, <3>1
  <2> QED  BY <1>1, <1>13, <2>1 DEF Right
<1>14. Sending'
  <2>1. ASSUME NEW x \in Fly', NEW f, f = tx_send'[x.idx] PROVE Right(f, x)'
    BY <1>1, <1>4, <1>13, <2>1 DEF Carried, Sending
  <2>2. ASSUME NEW f, NEW x, f = hw'.entry, f # NULL, x = ent'[f].dg PROVE Right(f, x)'
    BY <1>1, <1>13, <2>2 DEF Carried, Sending
  <2>3. ASSUME NEW f, NEW x, f = rx'.entry, f # NULL, x = RxDg' PROVE Right(f, x)'
    BY <1>1, <1>13, <2>3 DEF Carried, Sending, RxDg
  <2> QED  BY <2>1, <2>2, <2>3, SendingMade
<1>15. Single'
  BY <1>1, <1>4, SingleKept DEF Carried
<1>16. Answers'
  <2>1. ASSUME NEW d \in Clients, p_idx'[d] # NULL, waiter'[p_idx'[d]]
        PROVE  Started(d)' /\ (p_entry'[d] # NULL => ent'[p_entry'[d]].dg = Answered(Asked(d))')
    <3>1. Started(d) /\ (p_entry[d] # NULL => ent[p_entry[d]].dg = Answered(Asked(d)))
      BY <1>1, <2>1 DEF Carried, Answers
    <3> QED  BY <1>0, <1>1, <1>6, <1>7, <3>1 DEF Answered
  <2>2. ASSUME NEW d \in Clients, pc'[d] = "read" PROVE ent'[p_entry'[d]].dg = Answered(Asked(d))'
    <3>1. d # c /\ ent[p_entry[d]].dg = Answered(Asked(d))
      BY <1>1, <2>2 DEF Carried, Answers
    <3>2. p_entry'[d] = p_entry[d] /\ Asked(d)' = Asked(d)
      BY <1>0, <1>1, <1>7, <3>1
    <3> QED  BY <1>1, <3>1, <3>2 DEF Answered
  <2>3. ASSUME rx'.pc = "post", NEW d \in Clients, p_entry'[d] = rx'.entry
        PROVE  ent'[rx'.entry].dg = Answered(Asked(d))'
    <3>1. rx.entry # NULL
      BY <1>1, <2>3 DEF Inv, RxControl
    <3>2. p_entry[d] = rx.entry
      BY <1>0, <1>1, <1>6, <2>3, <3>1
    <3>3. ent[rx.entry].dg = Answered(Asked(d))
      BY <1>1, <2>3, <3>2 DEF Carried, Answers
    <3> QED  BY <1>0, <1>1, <1>7, <3>3 DEF Answered
  <2> QED  BY <2>1, <2>2, <2>3 DEF Answers
<1>17. Quiet'
  <2>1. ASSUME MaxTimeouts = 0, NEW d \in Clients, p_idx[d] # NULL,
               pc'[d] \in {"read", "iput"} \/ waiter[p_idx[d]]
        PROVE  ~UnderWay(p_idx[d])
    <3>1. pc[c] = "read"
      BY <1>1, <2>1 DEF Carried, Threads
    <3>2. pc[d] \in {"read", "iput"} \/ waiter[p_idx[d]]
      BY <1>1, <2>1, <3>1
    <3> QED  BY <2>1, <3>2 DEF Carried, Quiet
  <2> QED  BY <1>1, <1>5, <2>1 DEF Carried, Quiet, Elems
<1> QED  BY <1>8, <1>9, <1>10, <1>11, <1>12, <1>14, <1>15, <1>16, <1>17 DEF Carried

-----------------------------------------------------------------------------
(* What is under way is asked for: the theorems. *)

\* pool_open: the pool holds all entries, the other queues are empty.
LEMMA FilledLinked ==
    LET s == SetToSeq(Entries)
    IN  Linked(Tq!Filled("pool", s), [g \in Heads |-> IF g = "pool" THEN s ELSE <<>>])
<1> DEFINE s      == SetToSeq(Entries)
           l      == Tq!Filled("pool", s)
           Q      == [g \in Heads |-> IF g = "pool" THEN s ELSE <<>>]
           n      == Len(s)
           pos(e) == CHOOSE k \in 1 .. n : s[k] = e
           at(k)  == IF k = 0 THEN "pool" ELSE s[k]
           to(k)  == IF k = n THEN NULL ELSE s[k + 1]
<1>1. s \in Seq(Entries) /\ n \in Nat /\ Distinct(s)
  BY FullQueue, TransportAssumption
<1>2. l \in Tq!Links
  BY FilledType
<1>3. /\ l.cell = [x \in Tq!Cells |-> IF x \in Entries THEN to(pos(x))
                                      ELSE IF x = "pool" THEN to(0) ELSE NULL]
      /\ l.last = [x \in Heads |-> IF x = "pool" THEN at(n) ELSE x]
      /\ l.prev = [e \in Entries |-> at(pos(e) - 1)]
  BY DEF Tq!Filled
<1> HIDE DEF s, l
<1>4. ASSUME NEW k \in 1 .. n PROVE s[k] \in Entries /\ s[k] \notin Heads /\ pos(s[k]) = k
  <2>1. s[k] \in Entries /\ s[k] \notin Heads
    BY <1>1, TransportAssumption
  <2>2. \A j \in 1 .. n : s[j] = s[k] => j = k
    BY <1>1 DEF Distinct
  <2> QED  BY <2>1, <2>2
<1> HIDE DEF pos
<1>5. /\ l.cell["pool"] = to(0) /\ l.last["pool"] = at(n)
      /\ \A k \in 1 .. n : l.cell[s[k]] = to(k) /\ l.prev[s[k]] = at(k - 1)
      /\ \A g \in Heads : g # "pool" => l.cell[g] = NULL /\ l.last[g] = g
  <2>1. "pool" \in Heads /\ Heads \subseteq Tq!Cells /\ Heads \cap Entries = {} /\ Entries \subseteq Tq!Cells
    BY TransportAssumption DEF Heads, Tq!Cells
  <2> QED  BY <1>3, <1>4, <2>1
<1>6. Tq!IsQueue(l, "pool", s)
  <2>1. ASSUME NEW k \in 1 .. n PROVE l.cell[at(k - 1)] = s[k] /\ l.prev[s[k]] = at(k - 1)
    <3>1. CASE k = 1
      BY <1>1, <1>5, <2>1, <3>1
    <3>2. CASE k # 1
      <4>1. k - 1 \in 1 .. n /\ k - 1 # 0 /\ k - 1 # n /\ (k - 1) + 1 = k
        BY <1>1, <2>1, <3>2
      <4> QED  BY <1>5, <2>1, <4>1
    <3> QED  BY <3>1, <3>2
  <2>2. l.cell[at(n)] = NULL
    BY <1>1, <1>5
  <2> QED  BY <1>5, <2>1, <2>2 DEF Tq!IsQueue
<1>7. ASSUME NEW g \in Heads, g # "pool" PROVE Tq!IsQueue(l, g, <<>>)
  BY <1>5, <1>7 DEF Tq!IsQueue
<1>8. \A g \in Heads : Q[g] \in Seq(Entries) /\ Tq!IsQueue(l, g, Q[g])
  BY <1>1, <1>6, <1>7
<1>9. \A g, h \in Heads : \A j \in 1 .. Len(Q[g]), k \in 1 .. Len(Q[h]) :
         Q[g][j] = Q[h][k] => g = h /\ j = k
  <2>1. \A g \in Heads : g # "pool" => Q[g] = <<>> /\ Len(Q[g]) = 0
    OBVIOUS
  <2>2. Q["pool"] = s
    BY DEF Heads
  <2> QED  BY <1>1, <2>1, <2>2 DEF Distinct
<1>10. Linked(l, Q)
  BY <1>2, <1>8, <1>9 DEF Linked
<1> QED  BY <1>10 DEF s, l

\* ec_open: nothing is under way.
LEMMA InitCarried ==
    ASSUME Orderly, Init
    PROVE  Carried
<1>1. Fly = {} /\ Slots(Now) = {}
  <2>1. hw.frame = <<>> /\ rx.frame = <<>> /\ wire = <<>> /\ Len(wire) = 0
    BY DEF Init
  <2>2. DOMAIN Now = -1 .. 0 /\ Now[0] = <<>> /\ Now[-1] = <<>>
    BY <2>1 DEF Now, Flight
  <2>3. \A j \in DOMAIN Now : Len(Now[j]) = 0
    BY <2>2
  <2>4. \A x \in Slots(Now) : x[1] \in DOMAIN Now /\ x[2] \in 1 .. Len(Now[x[1]])
    BY SlotsAre
  <2>5. Slots(Now) = {}
    BY <2>3, <2>4
  <2> QED  BY <2>5 DEF Fly, FlyOf
<1>2. \A i : ~UnderWay(i)
  BY <1>1 DEF UnderWay, Flying, Popped, Init
<1>3. /\ \A o \in Owners : p_idx[o] = NULL /\ p_entry[o] = NULL
      /\ Senders \subseteq Owners /\ Clients \subseteq Owners /\ "sto" \in Owners
      /\ \A c \in Clients : pc[c] = "out"
      /\ rx.pc = "idle" /\ rx.frame = <<>> /\ rx.entry = NULL /\ hw.entry = NULL
      /\ hw.owner = NULL /\ hw.queue = "low" /\ cyc.pc = "idle" /\ NULL # "cyc"
  BY Names, TransportAssumption DEF Init, Senders
<1>4. \A e \in Entries : ent[e].cb # "anon"
  BY TransportAssumption DEF Init, Zeroed, Content
<1>5. Threads /\ Loose /\ Loaded /\ Sending /\ Single /\ Answers
  BY <1>1, <1>3, <1>4 DEF Threads, Loose, Loaded, Sending, Single, Answers, Queuing
<1>6. Quiet
  BY <1>2 DEF Quiet
<1>7. Linked(q, Lines) /\ In("pool") = Entries /\ In("low") = {} /\ In("high") = {}
  <2> DEFINE s == SetToSeq(Entries)
             Q == [g \in Heads |-> IF g = "pool" THEN s ELSE <<>>]
  <2>1. Linked(q, Q)
    BY FilledLinked DEF Init
  <2>2. Elems(s) = Entries
    BY FullQueue, TransportAssumption
  <2> HIDE DEF s
  <2>3. \A g \in Heads : Line(g) = Q[g]
    <3> HIDE DEF Q
    <3> QED  BY <2>1, LineIs DEF Line
  <2>4. Lines = Q
    BY <2>3 DEF Lines
  <2>5. Elems(<<>>) = {}
    BY DEF Elems
  <2> QED  BY <2>1, <2>2, <2>3, <2>4, <2>5 DEF In, Heads
<1>8. Queued /\ Cycled
  BY <1>3, <1>7 DEF Queued, Cycled
<1> QED  BY <1>5, <1>6, <1>8 DEF Carried

\* Every step keeps it.
LEMMA NextCarried ==
    ASSUME Orderly, Inv, NoReplies, NoneLost, Apart, ClockHasEntry, Carried, [Next]_vars
    PROVE  Carried'
<1>1. ASSUME NEW c \in Clients, TcIndexGet(c) \/ TcWaitTimeout(c) \/ Tc(c) PROVE Carried'
  BY <1>1, ControlKept, IndexGetKept, IndexPutKept, PoolGetKept, EnqueueLowKept, WaitedKept,
     RemoveKept, PoolPutKept DEF Tc
<1>2. CASE Tx
  BY <1>2, PopKept, CopyKept, FramesKept DEF Tx
<1>3. CASE Cyc
  BY <1>3, ControlKept, IndexGetKept, PoolGetKept, IndexPutKept, EnqueueHighKept DEF Cyc
<1>4. CASE Rx
  <2>1. ~cb_no_reply
    BY DEF cb_no_reply, Calling, NoReplies, Inv, RxControl, TypeOK, RxStates
  <2>2. ~(RxIndexPut \/ StoPoolGet \/ StoIndexPut \/ StoPut \/ cb_distributed_clocks)
    BY DEF RxIndexPut, StoPoolGet, StoIndexPut, StoPut, cb_distributed_clocks, NoReplies, InSto, Orderly
  <2> QED  BY <1>4, <2>1, <2>2, FramesKept, SlotKept, ClearKept, AnsweredKept, PostKept DEF Rx
<1>5. CASE EnterOp \/ LoseFrame \/ UNCHANGED vars
  BY <1>5, ControlKept, FramesKept
<1> QED  BY <1>1, <1>2, <1>3, <1>4, <1>5 DEF Next

\* Carried always holds.
LEMMA CarriedAlways ==
    ASSUME Orderly
    PROVE  Spec /\ []ClockHasEntry => [](Inv /\ NoneLost /\ Carried)
<1>0. MasterClock = FALSE
  BY DEF Orderly
<1>1. Inv /\ NoReplies /\ [Next]_vars => NoReplies'
  BY <1>0, NoRepliesKept
<1>2. Inv /\ NoReplies /\ NoneLost /\ [Next]_vars => NoneLost'
  BY <1>0, NoneLostKept
<1>3. Inv /\ NoReplies /\ Apart /\ ClockHasEntry /\ [Next]_vars => Apart'
  BY <1>0, ApartKept
<1>4. Inv /\ NoReplies /\ NoneLost /\ Apart /\ ClockHasEntry /\ Carried /\ [Next]_vars => Carried'
  BY NextCarried
<1>5. Init => Carried
  BY InitCarried
<1> QED  BY <1>1, <1>2, <1>3, <1>4, <1>5, InitIndices, Invariant, PTL DEF Spec

\* However the callers, the cyclic task and the receive thread take turns, the
\* three entry queues stay well-linked lists without a common entry, and every
\* entry is in the pool or with one owner: no pool_get hands out an entry that
\* is in use, none is lost, and TAILQ_REMOVE of an entry that hw_tx_pool has
\* popped before does not tear a queue.
THEOREM EntriesOwned ==
    ASSUME Orderly
    PROVE  Spec /\ []ClockHasEntry => []EntryOwnership
<1>1. ASSUME Inv, Carried PROVE EntryOwnership
  <2>1. ASSUME NEW h \in Heads
        PROVE  /\ Tq!IsQueue(q, h, Line(h)) /\ Members(h) = In(h) /\ NULL \notin In(h)
               /\ \A g \in Heads : g # h => In(g) \cap In(h) = {}
    <3>1. Linked(q, Lines) /\ Lines[h] = Line(h)
      BY <1>1 DEF Carried, Queued, Lines
    <3>2. Line(h) \in Seq(Entries) /\ Tq!IsQueue(q, h, Line(h))
      BY <3>1 DEF Linked
    <3>3. DOMAIN Line(h) = 1 .. Len(Line(h))
      BY <3>2
    <3>4. Members(h) = In(h)
      BY <3>3 DEF Members, In, ToSet, Elems, Line
    <3> QED  BY <3>1, <3>2, <3>4, FirstIs
  <2>2. "pool" \in Heads
    BY DEF Heads
  <2>3. \A o \in Owners : p_entry[o] \notin Members("pool")
    BY <1>1, <2>1, <2>2 DEF Carried, Queued
  <2>4. \A e \in Entries : e \in Members("pool") \/ \E o \in Owners : p_entry[o] = e
    BY <1>1, <2>1, <2>2 DEF Carried, Queued
  <2>5. \A o, u \in Owners : o # u /\ p_entry[o] # NULL => p_entry[o] # p_entry[u]
    BY <1>1 DEF Carried, Queued
  <2> QED  BY <2>1, <2>3, <2>4, <2>5 DEF EntryOwnership, Line
<1> QED  BY <1>1, CarriedAlways, PTL

\* When the wait of ec_transceive succeeds, its entry holds the answer to its
\* own request: no semaphore count of an earlier holder of the index and no
\* answer to somebody else gets there.
THEOREM RepliesMatch ==
    ASSUME Orderly
    PROVE  Spec /\ []ClockHasEntry => []ReplyMatches
<1>1. ASSUME Carried PROVE ReplyMatches
  BY <1>1 DEF Carried, Answers, Answered, Asked, ReplyMatches
<1> QED  BY <1>1, CarriedAlways, PTL

\* Without timeouts the callback of an answer finds its entry with the owner it
\* had when the datagram was sent, also when indices and entries are handed out
\* again at once.
THEOREM CallbackHeld ==
    ASSUME Orderly, MaxTimeouts = 0
    PROVE  Spec /\ []ClockHasEntry => []CallbackOnHeldEntry
<1>1. ASSUME Inv, NoneLost, Carried PROVE CallbackOnHeldEntry
  <2>1. ASSUME rx.pc \in {"cb", "post"} PROVE \E o \in Owners : p_entry[o] = rx.entry
    <3>1. rx.entry # NULL
      BY <1>1, <2>1 DEF Inv, RxControl
    <3>2. RxDg \in Fly /\ Right(rx.entry, RxDg)
      BY <1>1, <3>1, Received DEF Carried, Sending
    <3>3. UnderWay(RxDg.idx) /\ RxDg.idx \in Indices
      BY <1>1, <3>2, UnderWayIs DEF UnderWay, Flying, Datagrams
    <3> QED  BY <1>1, <3>1, <3>2, <3>3, HeldBy
  <2> QED  BY <2>1 DEF CallbackOnHeldEntry
<1> QED  BY <1>1, CarriedAlways, PTL
=============================================================================
