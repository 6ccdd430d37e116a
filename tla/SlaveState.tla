------------------------------- MODULE SlaveState -------------------------------
(***************************************************************************)
(* The AL state machine of one slave and the functions that drive it from  *)
(* the master: ec_slave_get_state, ec_slave_set_state and                  *)
(* ec_slave_state_transition (slave.c).  Threads call them at the same     *)
(* time; module Supervision has the callers.                               *)
(*                                                                         *)
(* A step is one access to a register of the slave or one piece of local   *)
(* work.  A timer expires when what the loop waits for cannot happen any   *)
(* more, or, as a fault, before its time.  The waits of a loop, and the    *)
(* second of two equal writes without anything between, are left out.      *)
(***************************************************************************)
EXTENDS Integers, Sequences

CONSTANTS
    Threads,    \* threads that call ec_slave_state_transition
    Falls,      \* states a slave may fall back to on an error of its own
    MaxFaults,  \* bound: errors and power cycles of the slave
    MaxLosses,  \* bound: lost register accesses, timers that expire too early
    NULL

ASSUME SlaveAssumption == /\ {MaxFaults, MaxLosses} \subseteq Nat
                          /\ Falls \subseteq {"INIT", "PREOP", "SAFEOP"}
                          /\ NULL \notin Threads

VARIABLES
    dev,     \* the slave: AL state, its error bit, the request in AL control,
             \* and whether it has its fixed address
    slv,     \* ec_slave_t: expected_state, transition_active, mbx.handler_running
    lock,    \* the owner of slv->transition_mutex
    known,   \* the slave is one of pec->slave_cnt
    thr,     \* the threads
    faults,  \* errors and power cycles so far
    losses   \* lost accesses and early timeouts so far

svars == <<dev, slv, lock, known, thr, faults, losses>>

-----------------------------------------------------------------------------
(* AL states: the EC_STATE constants with their numbers, and the changes   *)
(* a slave accepts (the EtherCAT state machine).                           *)
Rank   == [UNKNOWN |-> 0, INIT |-> 1, PREOP |-> 2, BOOT |-> 3, SAFEOP |-> 4, OP |-> 8]
States == DOMAIN Rank

Legal(from, to) ==
    CASE from = "INIT"   -> to \in {"INIT", "PREOP", "BOOT"}
      [] from = "BOOT"   -> to \in {"INIT", "BOOT"}
      [] from = "PREOP"  -> to \in {"INIT", "PREOP", "SAFEOP"}
      [] from = "SAFEOP" -> to \in {"INIT", "PREOP", "SAFEOP", "OP"}
      [] from = "OP"     -> to \in {"INIT", "PREOP", "SAFEOP", "OP"}

\* What the slave does with a request: an error lasts until it is acknowledged.
Served(d) ==
    LET idle == [d EXCEPT !.ctl = NULL, !.err = @ /\ ~d.ctl.ack]
    IN  IF idle.err THEN idle
        ELSE IF Legal(d.al, d.ctl.st) THEN [idle EXCEPT !.al = d.ctl.st]
        ELSE [idle EXCEPT !.err = TRUE]

Serve == /\ dev.ctl # NULL
         /\ dev' = Served(dev)
         /\ UNCHANGED <<slv, lock, known, thr, faults, losses>>

\* The slave refuses a request, falls back on its own, or loses its power.
Fault == /\ faults < MaxFaults /\ faults' = faults + 1
         /\ \/ dev.ctl # NULL /\ dev' = [dev EXCEPT !.ctl = NULL, !.err = TRUE]
            \/ \E s \in Falls : /\ Rank[s] < Rank[dev.al] /\ dev.al # "BOOT"
                                /\ dev' = [dev EXCEPT !.al = s, !.err = TRUE]
            \/ dev' = [al |-> "INIT", err |-> FALSE, ctl |-> NULL, adr |-> FALSE]
         /\ UNCHANGED <<slv, lock, known, thr, losses>>

-----------------------------------------------------------------------------
(* Threads.  jobs is what the caller still has to do; ec_set_state ignores *)
(* the result of a job, the supervision (strict) does not.  plan holds the *)
(* calls of ec_slave_set_state of the transition under way.                *)
Transition(s) == [do |-> "transition", st |-> s]
Prepare       == [do |-> "prepare", st |-> "SAFEOP"]
Lost          == [al |-> "UNKNOWN", err |-> FALSE]
IdleThread    == [pc |-> "idle", jobs |-> <<>>, strict |-> FALSE, plan |-> <<>>,
                  got |-> Lost, back |-> "idle", ok |-> TRUE]

Step(p, q)   == thr[p].pc = q
Goto(p, q)   == thr' = [thr EXCEPT ![p].pc = q]
Target(p)    == Head(thr[p].jobs).st
Request(p)   == Head(thr[p].plan).st

\* An access may be lost, a timer may expire too early: these are bounded.
Kept == UNCHANGED losses
Loss == losses < MaxLosses /\ losses' = losses + 1

\* ec_fpwr of AL control: nobody takes it if the slave has lost its address.
WriteControl(s, ack) == dev' = IF dev.adr THEN [dev EXCEPT !.ctl = [st |-> s, ack |-> ack]]
                               ELSE dev

\* ec_slave_get_state.
Read == IF dev.adr THEN [al |-> dev.al, err |-> dev.err] ELSE Lost

\* The end of a transition: give back the mutex, return to the caller.
Leave(p, ok) == thr' = [thr EXCEPT ![p].pc = "unlock", ![p].ok = ok,
                                   ![p].plan = <<>>, ![p].back = "idle"]

JobDone(p, ok) == thr' = [thr EXCEPT ![p].pc = "call", ![p].ok = TRUE, ![p].got = Lost,
                                     ![p].jobs = IF thr[p].strict /\ ~ok THEN <<>> ELSE Tail(@)]

-----------------------------------------------------------------------------
(* ec_slave_state_transition.  The switch over the transition, with its    *)
(* fall-throughs, as the states it sets and what it does before each:      *)
(* "mbx" starts the mailbox handler, "dc" programs the clocks, "adr"       *)
(* rewrites the fixed address and "free" frees the slave as well.          *)
Set(prep, s) == [prep |-> prep, st |-> s]

\* Where the way up through PREOP, SAFEOP and OP goes on behind a state.
Stage == [INIT |-> 0, PREOP |-> 1, SAFEOP |-> 2, OP |-> 3]

\* Mutant: goes to PREOP without a mailbox handler.
Rise_no_mbx(from, to) ==
    SubSeq(<<Set("none", "PREOP"), Set("dc", "SAFEOP"), Set("none", "OP")>>, Stage[from] + 1, Stage[to])

Rise(from, to) ==
    SubSeq(<<Set("mbx", "PREOP"), Set("dc", "SAFEOP"), Set("none", "OP")>>, Stage[from] + 1, Stage[to])

\* Where the switch enters the fall-through down to INIT.
Entry == [OP |-> 1, SAFEOP |-> 1, PREOP |-> 1, UNKNOWN |-> 2, BOOT |-> 3, INIT |-> 3]

Working == {"PREOP", "SAFEOP", "OP"}

Plan(from, to) ==
    CASE to = "INIT" ->
            SubSeq(<<Set("none", to), Set("adr", to), Set("free", to)>>, Entry[from], 3)
      [] from = "INIT" /\ to = "BOOT"    -> <<Set("mbx", to)>>
      [] from = "BOOT" /\ to \in Working -> <<>>
      [] from = "OP" /\ to = "PREOP"     -> <<Set("none", to), Set("none", to)>>
      [] from \in {"INIT", "PREOP", "SAFEOP"} /\ to \in Working /\ Rank[from] < Rank[to] ->
            Rise(from, to)
      [] {from, to} \subseteq Working /\ Rank[from] >= Rank[to] /\ ~(from = "OP" /\ to = "PREOP") ->
            <<Set("none", to)>>
      [] OTHER                           -> <<Set("none", "INIT")>>

TrCall(p) == /\ Step(p, "call") /\ thr[p].jobs # <<>> /\ Head(thr[p].jobs).do = "transition"
             /\ IF known THEN Goto(p, "lock") ELSE JobDone(p, FALSE)
             /\ UNCHANGED <<dev, slv, lock, known, faults, losses>>

TrLock(p) == /\ Step(p, "lock") /\ lock = NULL
             /\ lock' = p
             /\ Goto(p, "first")
             /\ UNCHANGED <<dev, slv, known, faults, losses>>

\* The state is known: reset an error first, or else start to work on the plan.
Known(p) == thr' = [thr EXCEPT ![p] = IF dev.err
    THEN [@ EXCEPT !.pc = "ack", !.back = "recheck", !.got = Read]
    ELSE [@ EXCEPT !.pc = "next", !.got = Read, !.plan = Plan(dev.al, Target(p))]]

\* An access that fails: the slave has no address, or the frame is lost.
NoAnswer == IF dev.adr THEN Loss ELSE Kept

TrFirst(p) == /\ Step(p, "first")
              /\ \/ dev.adr /\ Kept /\ Known(p)
                 \/ NoAnswer /\ Goto(p, "address")
              /\ UNCHANGED <<dev, slv, lock, known, faults>>

\* Mutant: asks again without rewriting the fixed address.
TrAddress_skip(p) == /\ Step(p, "address")
                     /\ Goto(p, "again")
                     /\ UNCHANGED <<dev, slv, lock, known, faults, losses>>

\* Rewrite the fixed address.  Without an index, wkc is read uninitialized.
TrAddress(p) == /\ Step(p, "address")
                /\ \/ /\ Kept
                      /\ dev' = [dev EXCEPT !.adr = TRUE]
                      /\ Goto(p, "again")
                   \/ /\ Loss
                      /\ Leave(p, FALSE) \/ Goto(p, "again")
                      /\ UNCHANGED dev
                /\ UNCHANGED <<slv, lock, known, faults>>

TrAgain(p) == /\ Step(p, "again")
              /\ \/ dev.adr /\ Kept /\ Known(p)
                 \/ NoAnswer /\ Leave(p, FALSE)
              /\ UNCHANGED <<dev, slv, lock, known, faults>>

\* The error reset loop: until the error is gone or the timer expires.
TrRecheck(p) == /\ Step(p, "recheck")
                /\ \/ /\ dev.adr /\ Kept /\ Known(p)
                   \/ /\ dev.adr /\ Loss
                      /\ thr' = [thr EXCEPT ![p].pc = "ack", ![p].got = Lost]
                   \/ NoAnswer /\ Goto(p, "reset")
                /\ UNCHANGED <<dev, slv, lock, known, faults>>

\* ec_slave_state_transition resets PDI and ESC of a slave that keeps its error.
TrReset(p) == /\ Step(p, "reset")
              /\ Leave(p, FALSE)
              /\ \/ UNCHANGED dev
                 \/ dev.adr /\ dev' = [al |-> "INIT", err |-> FALSE, ctl |-> NULL, adr |-> FALSE]
              /\ UNCHANGED <<slv, lock, known, faults, losses>>

\* The work before the next state of the plan; the address may not get through, the
\* clocks cannot be programmed without a cyclic task.
TrNext(p) ==
    /\ Step(p, "next")
    /\ IF thr[p].plan = <<>> THEN /\ Leave(p, TRUE)
                                  /\ Kept /\ UNCHANGED <<dev, slv>>
       ELSE LET prep    == Head(thr[p].plan).prep
                address == prep \in {"adr", "free"}
            IN  \/ /\ \/ Kept /\ dev' = [dev EXCEPT !.adr = @ \/ address]
                      \/ address /\ Loss /\ UNCHANGED dev
                   /\ slv' = [slv EXCEPT !.mbx = (@ \/ prep = "mbx") /\ prep # "free"]
                   /\ Goto(p, "write")
                \/ /\ prep = "dc" /\ Loss
                   /\ Leave(p, FALSE)
                   /\ UNCHANGED <<dev, slv>>
    /\ UNCHANGED <<lock, known, faults>>

\* Mutant: an error path keeps the mutex.
TrUnlock_ok_only(p) == /\ Step(p, "unlock")
                       /\ lock' = IF thr[p].ok THEN NULL ELSE lock
                       /\ JobDone(p, thr[p].ok)
                       /\ UNCHANGED <<dev, slv, known, faults, losses>>

TrUnlock(p) == /\ Step(p, "unlock")
               /\ lock' = NULL
               /\ JobDone(p, thr[p].ok)
               /\ UNCHANGED <<dev, slv, known, faults, losses>>

\* ec_slave_prepare_state_transition and ec_slave_generate_mapping.
PrepareSlave(p) ==
    /\ Step(p, "call") /\ thr[p].jobs # <<>> /\ Head(thr[p].jobs).do = "prepare"
    /\ \/ known /\ dev.adr /\ Kept /\ JobDone(p, TRUE)
       \/ (IF known /\ dev.adr THEN Loss ELSE Kept) /\ JobDone(p, FALSE)
    /\ UNCHANGED <<dev, slv, lock, known, faults>>

-----------------------------------------------------------------------------
(* ec_slave_set_state. *)

\* The first write; without it nothing happens.
SetWrite(p) == /\ Step(p, "write")
               /\ \/ /\ Kept
                     /\ WriteControl(Request(p), FALSE)
                     /\ slv' = [slv EXCEPT !.active = TRUE, !.expected = Request(p)]
                     /\ Goto(p, "status")
                  \/ /\ Loss
                     /\ Leave(p, FALSE)
                     /\ UNCHANGED <<dev, slv>>
               /\ UNCHANGED <<lock, known, faults>>

\* The write of a later round; if it is lost, the round ends.
SetPoll(p) == /\ Step(p, "poll")
              /\ \/ Kept /\ WriteControl(Request(p), FALSE) /\ Goto(p, "status")
                 \/ Loss /\ Goto(p, "judge") /\ UNCHANGED dev
              /\ UNCHANGED <<slv, lock, known, faults>>

\* Read the state; an error, and the code that explains it, lead to a reset.
SetStatus(p) ==
    /\ Step(p, "status")
    /\ \/ /\ dev.adr /\ Kept
          /\ thr' = [thr EXCEPT ![p].got = Read, ![p].back = "judge",
                                ![p].pc = IF dev.err THEN "ack" ELSE "judge"]
       \/ /\ dev.adr /\ dev.err /\ Loss
          /\ thr' = [thr EXCEPT ![p].got = Read, ![p].pc = "judge"]
       \/ /\ NoAnswer
          /\ thr' = [thr EXCEPT ![p].got = Lost, ![p].pc = "judge"]
    /\ UNCHANGED <<dev, slv, lock, known, faults>>

\* ec_slave_set_state with EC_STATE_RESET: acknowledge the error ...
AckWrite(p) == /\ Step(p, "ack")
               /\ \/ Kept /\ WriteControl(thr[p].got.al, TRUE) /\ Goto(p, "acked")
                  \/ Loss /\ Goto(p, thr[p].back) /\ UNCHANGED dev
               /\ UNCHANGED <<slv, lock, known, faults>>

\* ... and repeat until it is gone or the timer expires.
AckRead(p) == /\ Step(p, "acked")
              /\ \/ /\ dev.adr /\ Kept
                    /\ Goto(p, IF dev.err /\ Legal(dev.al, thr[p].got.al) THEN "ack"
                               ELSE thr[p].back)
                 \/ NoAnswer /\ Goto(p, thr[p].back)
              /\ UNCHANGED <<dev, slv, lock, known, faults>>

\* Mutant: does not wait for the state that was asked for.
Reached_any(p) == ~thr[p].got.err

Reached(p) == thr[p].got = [al |-> Request(p), err |-> FALSE]

\* The slave cannot get to state s any more without other help.
Stuck(s) == ~dev.adr \/ ~Legal(dev.al, s)

SetReached(p) == /\ Step(p, "judge") /\ Reached(p)
                 /\ slv' = [slv EXCEPT !.active = FALSE]
                 /\ thr' = [thr EXCEPT ![p].pc = "next", ![p].plan = Tail(@)]
                 /\ UNCHANGED <<dev, lock, known, faults, losses>>

SetRepeat(p) == /\ Step(p, "judge") /\ ~Reached(p) /\ ~Stuck(Request(p))
                /\ Goto(p, "poll")
                /\ UNCHANGED <<dev, slv, lock, known, faults, losses>>

\* Mutant: the timeout is not reported.
SetExpired_ok(p) == /\ Step(p, "judge")
                    /\ IF ~Reached(p) /\ Stuck(Request(p)) THEN Kept ELSE Loss
                    /\ slv' = [slv EXCEPT !.active = FALSE]
                    /\ Leave(p, TRUE)
                    /\ UNCHANGED <<dev, lock, known, faults>>

\* "did not respond on state switch", even if the state was reached just now.
SetExpired(p) == /\ Step(p, "judge")
                 /\ IF ~Reached(p) /\ Stuck(Request(p)) THEN Kept ELSE Loss
                 /\ slv' = [slv EXCEPT !.active = FALSE]
                 /\ Leave(p, FALSE)
                 /\ UNCHANGED <<dev, lock, known, faults>>

TransitionNext(p) ==
    \/ TrCall(p) \/ TrLock(p) \/ TrFirst(p) \/ TrAddress(p) \/ TrAgain(p) \/ TrRecheck(p)
    \/ TrReset(p) \/ TrNext(p) \/ TrUnlock(p) \/ PrepareSlave(p)
    \/ SetWrite(p) \/ SetPoll(p) \/ SetStatus(p) \/ AckWrite(p) \/ AckRead(p)
    \/ SetReached(p) \/ SetRepeat(p) \/ SetExpired(p)
=============================================================================
