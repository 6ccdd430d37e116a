----------------------------- MODULE PoolProofs -----------------------------
(***************************************************************************)
(* Proofs about Pool, for every set of entries and threads.                *)
(***************************************************************************)
EXTENDS Pool, QueueLemmas

-----------------------------------------------------------------------------
Inv == TypeOK /\ Conservation /\ NoStarvedWaiter

\* What Conservation says, in the terms of the lemmas.
Owned == /\ Distinct(avail)
         /\ \A e \in Entries : e \in Elems(avail) \/ \E t \in Threads : e \in held[t]
         /\ \A t \in Threads : held[t] \cap Elems(avail) = {}
         /\ \A t, u \in Threads : t # u => held[t] \cap held[u] = {}

\* The two forms are the same.
LEMMA OwnedIsConservation == Owned <=> Conservation
  BY DEF Owned, Conservation, Distinct, Elems, Queued

\* An entry leaves the queue for a thread: pool_get and pool_remove.
LEMMA EntryTaken ==
    ASSUME TypeOK, Owned, NEW t \in Threads, NEW e \in Elems(avail), e \in Entries,
           Distinct(avail'), Elems(avail') = Elems(avail) \ {e},
           held' = [held EXCEPT ![t] = @ \cup {e}]
    PROVE  Owned'
  <1>1. \A x \in Entries : x \in Elems(avail') \/ \E u \in Threads : x \in held'[u]
    <2> SUFFICES ASSUME NEW x \in Entries, x \notin Elems(avail')
                 PROVE  \E u \in Threads : x \in held'[u]
      OBVIOUS
    <2>1. CASE x = e
      BY <2>1 DEF TypeOK
    <2>2. CASE x # e
      BY <2>2 DEF Owned, TypeOK
    <2> QED  BY <2>1, <2>2
  <1>2. \A u \in Threads : held'[u] \cap Elems(avail') = {}
    BY DEF Owned, TypeOK
  <1>3. \A u, v \in Threads : u # v => held'[u] \cap held'[v] = {}
    BY DEF Owned, TypeOK
  <1>4. Elems(avail)' = Elems(avail') /\ (Distinct(avail))' = Distinct(avail')
    BY DEF Elems, Distinct
  <1> QED  BY <1>1, <1>2, <1>3, <1>4 DEF Owned

\* An entry goes from a thread to the queue: the two puts.
LEMMA EntryPut ==
    ASSUME TypeOK, Owned, NEW t \in Threads, NEW e \in held[t],
           Distinct(avail'), Elems(avail') = Elems(avail) \cup {e},
           held' = [held EXCEPT ![t] = @ \ {e}]
    PROVE  Owned'
  <1>1. \A x \in Entries : x \in Elems(avail') \/ \E u \in Threads : x \in held'[u]
    <2> SUFFICES ASSUME NEW x \in Entries, x \notin Elems(avail')
                 PROVE  \E u \in Threads : x \in held'[u]
      OBVIOUS
    <2>1. PICK u \in Threads : x \in held[u]
      BY DEF Owned
    <2>2. x \in held'[u]
      BY <2>1 DEF TypeOK
    <2> QED  BY <2>2
  <1>2. \A u \in Threads : held'[u] \cap Elems(avail') = {}
    <2> SUFFICES ASSUME NEW u \in Threads, NEW x \in held'[u], x \in Elems(avail')
                 PROVE  FALSE
      OBVIOUS
    <2>1. x \in held[u] /\ (u = t => x # e)
      BY DEF TypeOK
    <2>2. x \in Elems(avail) \/ x = e
      OBVIOUS
    <2> QED  BY <2>1, <2>2 DEF Owned
  <1>3. \A u, v \in Threads : u # v => held'[u] \cap held'[v] = {}
    BY DEF Owned, TypeOK
  <1>4. Elems(avail)' = Elems(avail') /\ (Distinct(avail))' = Distinct(avail')
    BY DEF Elems, Distinct
  <1> QED  BY <1>1, <1>2, <1>3, <1>4 DEF Owned

\* There are finitely many threads, hence getters on their way.
LEMMA PendingFinite == IsFiniteSet(Pending) /\ Cardinality(Pending) \in Nat
  <1>1. Pending \in SUBSET Threads
    BY DEF Pending, Threads
  <1>2. IsFiniteSet(Pending)
    BY <1>1, FS_Subset, FiniteAssumption
  <1> QED  BY <1>2, FS_CardinalityType

\* pool_open establishes the invariant.
LEMMA InitInv == Init => Inv
  <1> SUFFICES ASSUME Init PROVE Inv
    OBVIOUS
  <1>1. Pending = {} /\ Cardinality(Pending) = 0
    <2>1. Pending = {}
      BY DEF Init, Open, Pending, Threads
    <2> QED  BY <2>1, FS_EmptySet
  <1>2. Cardinality(Entries) \in Nat
    BY FS_CardinalityType, FiniteAssumption
  <1>3. CASE Open(SetToSeq(Entries)) /\ held = [t \in Threads |-> {}]
    <2>1. TypeOK
      BY <1>2, <1>3, FullQueue, FiniteAssumption, SemMaxAssumption DEF TypeOK, Open, Threads
    <2>2. Owned
      BY <1>3, FullQueue, FiniteAssumption DEF Owned, Open
    <2> QED  BY <1>1, <1>2, <1>3, <2>1, <2>2, FullQueue, FiniteAssumption, OwnedIsConservation
             DEF Inv, NoStarvedWaiter, Open
  <1>4. ASSUME Open(<<>>), NEW t \in Threads,
               held = [u \in Threads |-> IF u = t THEN Entries ELSE {}]
        PROVE  Inv
    <2>1. TypeOK
      BY <1>4, SemMaxAssumption DEF TypeOK, Open, Threads
    <2>2. Elems(avail) = {} /\ Distinct(avail)
      BY <1>4 DEF Elems, Distinct, Open
    <2>3. Owned
      BY <1>4, <2>2 DEF Owned
    <2> QED  BY <1>1, <1>4, <2>1, <2>3, OwnedIsConservation DEF Inv, NoStarvedWaiter, Open
  <1> QED  BY <1>3, <1>4 DEF Init

\* A queue operation of a getter that keeps or loses its pending place.
LEMMA TakeFirstInv ==
    ASSUME TypeOK, Owned, NEW t \in Threads, TakeFirst(t)
    PROVE  /\ avail' \in Seq(Entries) /\ held' \in [Threads -> SUBSET Entries] /\ Owned'
           /\ Len(avail') = IF avail = <<>> THEN 0 ELSE Len(avail) - 1
  <1>1. avail \in Seq(Entries) /\ Distinct(avail)
    BY DEF TypeOK, Owned
  <1>2. CASE avail # <<>> /\ avail' = Tail(avail)
               /\ held' = [held EXCEPT ![t] = @ \cup {Head(avail)}]
    <2>1. /\ Head(avail) \in Elems(avail) /\ Head(avail) \in Entries
          /\ avail' \in Seq(Entries) /\ Len(avail') = Len(avail) - 1
          /\ Distinct(avail') /\ Elems(avail') = Elems(avail) \ {Head(avail)}
      BY <1>1, <1>2, HeadTaken
    <2>2. Owned'
      BY <1>2, <2>1, EntryTaken
    <2> QED  BY <1>2, <2>1, <2>2 DEF TypeOK
  <1>3. CASE avail = <<>> /\ UNCHANGED <<avail, held>>
    BY <1>3 DEF TypeOK, Owned, Elems, Distinct
  <1> QED  BY <1>2, <1>3 DEF TakeFirst

\* The same for the puts, with the semaphore.
LEMMA PutInv ==
    ASSUME TypeOK, Owned, NEW t \in Threads, NEW e \in held[t],
           avail' = Append(avail, e) \/ avail' = <<e>> \o avail,
           avail_cnt' = Post(avail_cnt),
           held' = [held EXCEPT ![t] = @ \ {e}]
    PROVE  /\ avail' \in Seq(Entries) /\ held' \in [Threads -> SUBSET Entries] /\ Owned'
           /\ Len(avail') = Len(avail) + 1
           /\ avail_cnt' \in 0 .. SemMax
           /\ avail_cnt' = avail_cnt + 1 \/ Len(avail') <= avail_cnt'
  <1>1. avail \in Seq(Entries) /\ Distinct(avail) /\ e \in Entries /\ e \notin Elems(avail)
    BY DEF TypeOK, Owned
  <1>2. /\ avail' \in Seq(Entries) /\ Len(avail') = Len(avail) + 1
        /\ Distinct(avail') /\ Elems(avail') = Elems(avail) \cup {e}
    BY <1>1, Put
  <1>3. Owned'
    BY <1>2, EntryPut
  <1>4. Len(avail') <= SemMax
    <2>1. Len(avail') <= Cardinality(Entries)
      BY <1>2, QueueLength, FiniteAssumption
    <2>2. Cardinality(Entries) \in Nat
      BY FS_CardinalityType, FiniteAssumption
    <2> QED  BY <1>2, <2>1, <2>2, SemMaxAssumption
  <1>5. /\ avail_cnt' \in 0 .. SemMax
        /\ avail_cnt' = avail_cnt + 1 \/ avail_cnt' = SemMax
    BY SemMaxAssumption DEF TypeOK, Post
  <1>6. held' \in [Threads -> SUBSET Entries]
    BY DEF TypeOK
  <1> QED  BY <1>2, <1>3, <1>4, <1>5, <1>6

\* Every step of every thread preserves the invariant.
LEMMA NextInv == Inv /\ [Next]_vars => Inv'
  <1> SUFFICES ASSUME Inv, [Next]_vars PROVE Inv'
    OBVIOUS
  <1> USE DEF Inv
  <1>0. TypeOK /\ Owned /\ NoStarvedWaiter
    BY OwnedIsConservation
  <1>f. /\ IsFiniteSet(Pending) /\ Cardinality(Pending) \in Nat
        /\ Len(avail) \in Nat /\ avail_cnt \in Nat
    BY PendingFinite, SemMaxAssumption DEF TypeOK
  <1>c. Owned' <=> Conservation'
    BY OwnedIsConservation, PTL
  <1>1. ASSUME NEW t \in TimedUsers, GetTimed(t) \/ WaitFails(t) PROVE Inv'
    <2>1. TypeOK'
      BY <1>1, UsersAssumption DEF TypeOK, GetTimed, WaitFails, Threads
    <2>2. Conservation'
      BY <1>1 DEF Conservation, GetTimed, WaitFails, Queued
    <2>3. Pending' = Pending
      BY <1>1 DEF Pending, GetTimed, WaitFails, TypeOK, Threads
    <2> QED  BY <1>1, <2>1, <2>2, <2>3 DEF NoStarvedWaiter, GetTimed, WaitFails
  <1>2. ASSUME NEW t \in TimedUsers, WaitOk(t) PROVE Inv'
    <2>1. TypeOK'
      BY <1>2, UsersAssumption, SemMaxAssumption DEF TypeOK, WaitOk, Threads
    <2>2. Conservation'
      BY <1>2 DEF Conservation, WaitOk, Queued
    <2>3. Pending' = Pending \cup {t} /\ t \notin Pending
      BY <1>2 DEF Pending, WaitOk, TypeOK, Threads
    <2>4. Cardinality(Pending') = Cardinality(Pending) + 1
      BY <1>f, <2>3, FS_AddElement
    <2>5. NoStarvedWaiter'
      BY <1>2, <1>f, <2>4 DEF NoStarvedWaiter, WaitOk
    <2> QED  BY <2>1, <2>2, <2>5
  <1>3. ASSUME NEW t \in TimedUsers, GetLocked(t) PROVE Inv'
    <2>1. /\ avail' \in Seq(Entries) /\ held' \in [Threads -> SUBSET Entries] /\ Owned'
          /\ Len(avail') = IF avail = <<>> THEN 0 ELSE Len(avail) - 1
      BY <1>0, <1>3, TakeFirstInv DEF GetLocked, Threads
    <2>2. TypeOK'
      BY <1>3, <2>1, UsersAssumption DEF TypeOK, GetLocked, Threads
    <2>3. Pending' = Pending \ {t} /\ t \in Pending
      BY <1>3 DEF Pending, GetLocked, TypeOK, Threads
    <2>4. Cardinality(Pending') = Cardinality(Pending) - 1 /\ Cardinality(Pending') \in Nat
      BY <1>f, <2>3, FS_RemoveElement, FS_CardinalityType
    <2>5. NoStarvedWaiter'
      BY <1>3, <1>f, <2>1, <2>4 DEF NoStarvedWaiter, GetLocked
    <2> QED  BY <1>c, <2>1, <2>2, <2>5
  <1>4. ASSUME NEW t \in UntimedUsers, GetUntimed(t) PROVE Inv'
    <2>1. /\ avail' \in Seq(Entries) /\ held' \in [Threads -> SUBSET Entries] /\ Owned'
          /\ Len(avail') = IF avail = <<>> THEN 0 ELSE Len(avail) - 1
      BY <1>0, <1>4, TakeFirstInv DEF GetUntimed, Threads
    <2>2. TypeOK'
      BY <1>4, <2>1 DEF TypeOK, GetUntimed
    <2>3. Pending' = Pending
      BY <1>4 DEF Pending, GetUntimed
    <2>4. NoStarvedWaiter'
      BY <1>4, <1>f, <2>1, <2>3 DEF NoStarvedWaiter, GetUntimed
    <2> QED  BY <1>c, <2>1, <2>2, <2>4
  <1>5. ASSUME NEW t \in UntimedUsers, NEW k \in 1 .. Len(avail), pool_remove(t, k) PROVE Inv'
    <2>1. /\ avail[k] \in Elems(avail) /\ avail[k] \in Entries
          /\ avail' \in Seq(Entries) /\ Len(avail') = Len(avail) - 1
          /\ Distinct(avail') /\ Elems(avail') = Elems(avail) \ {avail[k]}
      BY <1>0, <1>5, AnyTaken DEF pool_remove, TypeOK, Owned
    <2>2. Owned'
      BY <1>0, <1>5, <2>1, EntryTaken DEF pool_remove, Threads
    <2>3. TypeOK'
      BY <1>5, <2>1 DEF TypeOK, pool_remove, Threads
    <2>4. Pending' = Pending
      BY <1>5 DEF Pending, pool_remove
    <2>5. NoStarvedWaiter'
      BY <1>5, <1>f, <2>1, <2>4 DEF NoStarvedWaiter, pool_remove
    <2> QED  BY <1>c, <2>2, <2>3, <2>5
  <1>6. ASSUME NEW t \in Threads, NEW e \in held[t], pool_put(t, e) \/ pool_put_head(t, e)
        PROVE  Inv'
    <2>1. /\ avail' = Append(avail, e) \/ avail' = <<e>> \o avail
          /\ avail_cnt' = Post(avail_cnt)
          /\ held' = [held EXCEPT ![t] = @ \ {e}] /\ pc' = pc
      BY <1>6 DEF pool_put, pool_put_head
    <2>2. /\ avail' \in Seq(Entries) /\ held' \in [Threads -> SUBSET Entries] /\ Owned'
          /\ Len(avail') = Len(avail) + 1
          /\ avail_cnt' \in 0 .. SemMax
          /\ avail_cnt' = avail_cnt + 1 \/ Len(avail') <= avail_cnt'
      BY <1>0, <2>1, PutInv
    <2>3. TypeOK'
      BY <2>1, <2>2 DEF TypeOK
    <2>4. Pending' = Pending
      BY <2>1 DEF Pending
    <2>5. NoStarvedWaiter'
      BY <1>f, <2>2, <2>4, SemMaxAssumption DEF NoStarvedWaiter
    <2> QED  BY <1>c, <2>2, <2>3, <2>5
  <1>7. CASE UNCHANGED vars
    BY <1>7 DEF vars, TypeOK, Conservation, NoStarvedWaiter, Queued, Pending
  <1> QED  BY <1>1, <1>2, <1>3, <1>4, <1>5, <1>6, <1>7 DEF Next

\* Every reachable state of the pool has its type.
THEOREM TypeCorrect == Spec => []TypeOK
  <1>1. Inv => TypeOK
    BY DEF Inv
  <1> QED  BY <1>1, InitInv, NextInv, PTL DEF Spec

\* No interleaving of pool_get (timed or not), pool_put, pool_put_head and
\* pool_remove loses an entry or hands it to two threads.
THEOREM EntriesConserved == Spec => []Conservation
  <1>1. Inv => Conservation
    BY DEF Inv
  <1> QED  BY <1>1, InitInv, NextInv, PTL DEF Spec

\* No thread blocks in pool_get's timedwait while an entry is available, even
\* on a pool that others use without a timeout.
THEOREM NeverStarved == Spec => []NoStarvedWaiter
  <1>1. Inv => NoStarvedWaiter
    BY DEF Inv
  <1> QED  BY <1>1, InitInv, NextInv, PTL DEF Spec

-----------------------------------------------------------------------------
\* On a pool without untimed users the semaphore counts the entries.
TimedInv == Inv /\ CountExact

\* Such a pool's semaphore never saturates, because it is never above the
\* number of queued entries.
LEMMA TimedNext ==
    ASSUME UntimedUsers = {}
    PROVE  TimedInv /\ [Next]_vars => TimedInv'
  <1> SUFFICES ASSUME TimedInv, [Next]_vars PROVE CountExact'
    BY NextInv DEF TimedInv
  <1>0. TypeOK /\ Owned
    BY OwnedIsConservation DEF TimedInv, Inv
  <1>f. /\ IsFiniteSet(Pending) /\ Cardinality(Pending) \in Nat
        /\ Len(avail) \in Nat /\ avail_cnt \in Nat
        /\ Len(avail) = avail_cnt + Cardinality(Pending)
    BY <1>0, PendingFinite, SemMaxAssumption DEF TypeOK, TimedInv, CountExact
  <1>1. ASSUME NEW t \in TimedUsers, GetTimed(t) \/ WaitFails(t) PROVE CountExact'
    <2>1. Pending' = Pending
      BY <1>0, <1>1 DEF Pending, GetTimed, WaitFails, TypeOK, Threads
    <2> QED  BY <1>1, <1>f, <2>1 DEF CountExact, GetTimed, WaitFails
  <1>2. ASSUME NEW t \in TimedUsers, WaitOk(t) PROVE CountExact'
    <2>1. Pending' = Pending \cup {t} /\ t \notin Pending
      BY <1>0, <1>2 DEF Pending, WaitOk, TypeOK, Threads
    <2>2. Cardinality(Pending') = Cardinality(Pending) + 1
      BY <1>f, <2>1, FS_AddElement
    <2> QED  BY <1>2, <1>f, <2>2 DEF CountExact, WaitOk
  <1>3. ASSUME NEW t \in TimedUsers, GetLocked(t) PROVE CountExact'
    <2>1. Len(avail') = IF avail = <<>> THEN 0 ELSE Len(avail) - 1
      BY <1>0, <1>3, TakeFirstInv DEF GetLocked, Threads
    <2>2. Pending' = Pending \ {t} /\ t \in Pending
      BY <1>0, <1>3 DEF Pending, GetLocked, TypeOK, Threads
    <2>3. Cardinality(Pending') = Cardinality(Pending) - 1 /\ Cardinality(Pending') \in Nat
      BY <1>f, <2>2, FS_RemoveElement, FS_CardinalityType
    <2>4. Len(avail) > 0
      BY <1>f, <2>3
    <2>5. avail # <<>>
      BY <2>4
    <2> QED  BY <1>3, <1>f, <2>1, <2>3, <2>5 DEF CountExact, GetLocked
  <1>4. ASSUME NEW t \in Threads, NEW e \in held[t], pool_put(t, e) \/ pool_put_head(t, e)
        PROVE  CountExact'
    <2>1. /\ avail' = Append(avail, e) \/ avail' = <<e>> \o avail
          /\ avail_cnt' = Post(avail_cnt)
          /\ held' = [held EXCEPT ![t] = @ \ {e}] /\ pc' = pc
      BY <1>4 DEF pool_put, pool_put_head
    <2>2. avail' \in Seq(Entries) /\ Owned' /\ Len(avail') = Len(avail) + 1
      BY <1>0, <2>1, PutInv
    <2>3. Len(avail') <= Cardinality(Entries)
      BY <2>2, QueueLength, FiniteAssumption DEF Owned, Distinct
    <2>4. Cardinality(Entries) \in Nat
      BY FS_CardinalityType, FiniteAssumption
    <2>5. avail_cnt < SemMax
      BY <1>f, <2>2, <2>3, <2>4, SemMaxAssumption
    <2>6. Pending' = Pending
      BY <2>1 DEF Pending
    <2> QED  BY <1>f, <2>1, <2>2, <2>5, <2>6 DEF CountExact, Post
  <1>5. CASE UNCHANGED vars
    BY <1>5, <1>f DEF vars, CountExact, Pending
  <1> QED  BY <1>1, <1>2, <1>3, <1>4, <1>5 DEF Next

\* When every pool_get of a pool has a timeout, avail_cnt is the number of
\* available entries and a getter past the semaphore always finds one.
THEOREM TimedCountExact ==
    ASSUME UntimedUsers = {}
    PROVE  Spec => []CountExact
  <1>1. Init => TimedInv
    <2> SUFFICES ASSUME Init PROVE TimedInv
      OBVIOUS
    <2>1. Pending = {} /\ Cardinality(Pending) = 0
      <3>1. Pending = {}
        BY DEF Init, Open, Pending, Threads
      <3> QED  BY <3>1, FS_EmptySet
    <2>2. avail \in Seq(Entries) /\ avail_cnt = Len(avail)
      BY InitInv DEF Init, Open, Inv, TypeOK
    <2> QED  BY <2>1, <2>2, InitInv DEF TimedInv, CountExact
  <1>2. TimedInv => CountExact
    BY DEF TimedInv
  <1>3. TimedInv /\ [Next]_vars => TimedInv'
    BY TimedNext
  <1> QED  BY <1>1, <1>2, <1>3, PTL DEF Spec
=============================================================================
