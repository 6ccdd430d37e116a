-------------------------------- MODULE Pool --------------------------------
(***************************************************************************)
(* The entry pool of libethercat (src/src/pool.c): a TAILQ of free entries *)
(* (pp->avail), a counting semaphore (pp->avail_cnt) and a mutex that      *)
(* makes every access to the queue atomic.                                 *)
(*                                                                         *)
(* pool_get has two faces.  With a timeout it first waits on the semaphore *)
(* and then, in a second step, takes the head of the queue under the lock. *)
(* Without a timeout (timeout == NULL) it skips the semaphore.  Threads    *)
(* that call it the first way are TimedUsers, the others UntimedUsers; the *)
(* library has pools used both ways at once (the EoE receive pool, the     *)
(* free list of mailbox send messages).                                    *)
(***************************************************************************)
EXTENDS Integers, Sequences, FiniteSets, SequencesExt

CONSTANTS Entries,       \* the pool_entry_t objects
          TimedUsers,    \* threads calling pool_get with a timeout
          UntimedUsers,  \* threads calling pool_get with timeout == NULL
          SemMax         \* largest value of the semaphore (SEM_VALUE_MAX)

Threads == TimedUsers \cup UntimedUsers

ASSUME FiniteAssumption == /\ IsFiniteSet(Entries)
                           /\ IsFiniteSet(Threads)
ASSUME UsersAssumption  == TimedUsers \cap UntimedUsers = {}
ASSUME SemMaxAssumption == SemMax \in Nat /\ Cardinality(Entries) <= SemMax

VARIABLES avail,      \* pp->avail, the queue of free entries
          avail_cnt,  \* pp->avail_cnt, the semaphore
          pc,         \* "out", "wait" (in timedwait) or "lock" (past it)
          held        \* the entries each thread got and not yet put back

vars == <<avail, avail_cnt, pc, held>>

Queued == {avail[k] : k \in 1 .. Len(avail)}

\* Timed getters that took a semaphore count but not yet their entry.
Pending == {t \in TimedUsers : pc[t] = "lock"}

-----------------------------------------------------------------------------
(* pool_open: the pool is opened full (the free lists) or empty (the       *)
(* queues other threads put received or ready messages into).              *)
Open(q) == /\ avail = q
           /\ avail_cnt = Len(q)
           /\ pc = [t \in Threads |-> "out"]

Init == \/ /\ Open(SetToSeq(Entries))
           /\ held = [t \in Threads |-> {}]
        \/ /\ Open(<<>>)
           /\ \E t \in Threads : held = [u \in Threads |-> IF u = t THEN Entries ELSE {}]

\* osal_semaphore_post: past the maximum it fails, and the caller ignores it.
Post(n) == IF n < SemMax THEN n + 1 ELSE n

\* Mutant: looks at the head and leaves it in the queue.
TakeFirst_peek(t) == /\ held' = [held EXCEPT ![t] = @ \cup {avail[k] : k \in {1} \cap DOMAIN avail}]
                     /\ UNCHANGED avail

\* The part of pool_get under the pool lock: the head, if there is one.
TakeFirst(t) == \/ /\ avail # <<>>
                   /\ avail' = Tail(avail)
                   /\ held' = [held EXCEPT ![t] = @ \cup {Head(avail)}]
                \/ /\ avail = <<>>             \* EC_ERROR_UNAVAILABLE
                   /\ UNCHANGED <<avail, held>>

GetTimed(t) == /\ pc[t] = "out"
               /\ pc' = [pc EXCEPT ![t] = "wait"]
               /\ UNCHANGED <<avail, avail_cnt, held>>

\* Mutant: takes a count that is not there.
WaitOk_blind(t) == /\ pc[t] = "wait"
                   /\ avail_cnt' = avail_cnt - 1
                   /\ pc' = [pc EXCEPT ![t] = "lock"]
                   /\ UNCHANGED <<avail, held>>

\* osal_semaphore_timedwait succeeds.
WaitOk(t) == /\ pc[t] = "wait"
             /\ avail_cnt > 0
             /\ avail_cnt' = avail_cnt - 1
             /\ pc' = [pc EXCEPT ![t] = "lock"]
             /\ UNCHANGED <<avail, held>>

\* It times out, which it does only at count 0, or is interrupted.
WaitFails(t) == /\ pc[t] = "wait"
                /\ pc' = [pc EXCEPT ![t] = "out"]
                /\ UNCHANGED <<avail, avail_cnt, held>>

GetLocked(t) == /\ pc[t] = "lock"
                /\ TakeFirst(t)
                /\ pc' = [pc EXCEPT ![t] = "out"]
                /\ UNCHANGED avail_cnt

GetUntimed(t) == /\ TakeFirst(t)
                 /\ UNCHANGED <<avail_cnt, pc>>

pool_put(t, e) == /\ pc[t] = "out"
                  /\ e \in held[t]
                  /\ avail' = Append(avail, e)
                  /\ avail_cnt' = Post(avail_cnt)
                  /\ held' = [held EXCEPT ![t] = @ \ {e}]
                  /\ UNCHANGED pc

\* Mutant: puts the entry back without a post.
pool_put_head_silent(t, e) == /\ pc[t] = "out"
                              /\ e \in held[t]
                              /\ avail' = <<e>> \o avail
                              /\ held' = [held EXCEPT ![t] = @ \ {e}]
                              /\ UNCHANGED <<avail_cnt, pc>>

pool_put_head(t, e) == /\ pc[t] = "out"
                       /\ e \in held[t]
                       /\ avail' = <<e>> \o avail
                       /\ avail_cnt' = Post(avail_cnt)
                       /\ held' = [held EXCEPT ![t] = @ \ {e}]
                       /\ UNCHANGED pc

\* pool_remove of an entry that is in the pool.  The semaphore is not touched.
\* What the code does with an entry that is not there is in module Transport.
pool_remove(t, k) == /\ avail' = RemoveAt(avail, k)
                     /\ held' = [held EXCEPT ![t] = @ \cup {avail[k]}]
                     /\ UNCHANGED <<avail_cnt, pc>>

Next == \/ \E t \in TimedUsers : GetTimed(t) \/ WaitOk(t) \/ WaitFails(t) \/ GetLocked(t)
        \/ \E t \in UntimedUsers : \/ GetUntimed(t)
                                   \/ \E k \in 1 .. Len(avail) : pool_remove(t, k)
        \/ \E t \in Threads : \E e \in held[t] : pool_put(t, e) \/ pool_put_head(t, e)

Spec == Init /\ [][Next]_vars

-----------------------------------------------------------------------------
\* The shape of the pool's state.
TypeOK == /\ avail \in Seq(Entries)
          /\ avail_cnt \in 0 .. SemMax
          /\ pc \in [Threads -> {"out", "wait", "lock"}]
          /\ held \in [Threads -> SUBSET Entries]
          /\ \A t \in UntimedUsers : pc[t] = "out"

\* Whatever the interleaving of timed and untimed pool_get, pool_remove and
\* the two puts, an entry is in the queue once and with no thread, or out of
\* the queue and with exactly one thread: none is lost, none handed out twice.
Conservation == /\ \A j, k \in 1 .. Len(avail) : avail[j] = avail[k] => j = k
                /\ \A e \in Entries : e \in Queued \/ \E t \in Threads : e \in held[t]
                /\ \A t \in Threads : held[t] \cap Queued = {}
                /\ \A t, u \in Threads : t # u => held[t] \cap held[u] = {}

\* A thread never blocks in pool_get's timedwait while an entry is there for
\* it: every queued entry is matched by a semaphore count or by a getter that
\* already took one, although untimed gets and pool_remove bypass the count.
NoStarvedWaiter == Len(avail) <= avail_cnt + Cardinality(Pending)

\* pool.h on avail_cnt: "Available datagrams in pool."  A getter past the
\* semaphore then always finds an entry, so that pool_get with a timeout waits
\* for one instead of failing at once.
CountExact == Len(avail) = avail_cnt + Cardinality(Pending)
=============================================================================
