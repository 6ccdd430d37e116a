------------------------------ MODULE Supervision ------------------------------
(***************************************************************************)
(* Who drives a slave's state machine: the application in ec_set_state and *)
(* ec_scan (ec.c), and the supervision loop with its messages, timer and   *)
(* thread (async_loop.c), told by the callbacks of the receive thread.     *)
(* One slave of the bus is modelled, in the process data group Own; the    *)
(* other groups show as messages and mismatches.                           *)
(***************************************************************************)
EXTENDS SlaveState, FiniteSets

CONSTANTS
    Groups,      \* pec->pd_groups, in their order
    Own,         \* the group of the slave
    Goals,       \* what the application asks ec_set_state for, call by call
    Broadcasts,  \* master states in which the application reads the AL status of all slaves
    MaxMessages  \* EC_ASYNC_MESSAGE_LOOP_COUNT

ASSUME SupervisionAssumption == /\ Threads = {"app", "async"}
                                /\ 1 \in DOMAIN Groups /\ \E i \in DOMAIN Groups : Groups[i] = Own
                                /\ MaxMessages \in Nat \ {0} /\ Own # NULL
                                /\ Goals \in Seq(States)

VARIABLES
    master,   \* pec->master_state
    pending,  \* pec->state_transition_pending
    calls,    \* calls of ec_set_state so far
    found,    \* FALSE: the scan of this call found nothing (EC_ERROR_UNAVAILABLE)
    exec,     \* the messages in paml->exec, all others are in paml->avail
    busy,     \* the message the loop's thread works on
    due       \* the timer next_check_group has expired

vars == <<svars, master, pending, calls, found, exec, busy, due>>
avars == <<exec, busy, due>>
mvars == <<master, pending, calls, found>>

Init == /\ dev = [al |-> "INIT", err |-> FALSE, ctl |-> NULL, adr |-> FALSE]
        /\ slv = [expected |-> "UNKNOWN", active |-> FALSE, mbx |-> FALSE]
        /\ lock = NULL /\ known = FALSE
        /\ thr = [p \in Threads |-> [IdleThread EXCEPT !.strict = p = "async"]]
        /\ faults = 0 /\ losses = 0
        /\ master = "UNKNOWN" /\ pending = FALSE /\ calls = 0 /\ found = TRUE
        /\ exec = <<>> /\ busy = NULL /\ due = TRUE

-----------------------------------------------------------------------------
(* ec_set_state: the loops over the slaves, as jobs for this one slave.    *)
Scan(must) == [do |-> IF must THEN "scan" ELSE "rescan", st |-> "INIT"]
Master(s)  == [do |-> "master", st |-> s]

Rung(s) == IF s = "SAFEOP" THEN <<Prepare, Transition(s)>> ELSE <<Transition(s)>>
Drop(s) == <<Transition(s), Master(s)>>
When(c, s) == IF c THEN s ELSE <<>>

Upwards(m, s) ==
    LET passes(r) == (Rank[m] < Rank[r] \/ (m = s /\ m = r)) /\ Rank[r] <= Rank[s]
    IN  When(passes("PREOP"), Rung("PREOP")) \o When(passes("SAFEOP"), Rung("SAFEOP"))
        \o When(passes("OP"), Rung("OP"))

Downwards(m, s) ==
    LET passes(r) == Rank[r] < Rank[m] /\ (Rank[s] <= Rank[r] \/ s = "BOOT")
    IN  When(passes("SAFEOP"), Drop("SAFEOP")) \o When(passes("PREOP"), Drop("PREOP"))
        \o When(passes("INIT"), Drop("INIT") \o <<Scan(FALSE), Transition("INIT")>>)
        \o When(s = "BOOT", <<Transition(s)>>)

Jobs(m, s) ==
    CASE m = "UNKNOWN" /\ s = "BOOT"     -> <<>>
      [] m = "BOOT" /\ s = "BOOT"        -> <<Transition(s)>>
      [] (m \in {"UNKNOWN", "BOOT"} /\ s # "BOOT") \/ (m = "INIT" /\ s = "INIT") ->
             <<Transition("INIT"), Scan(TRUE), Transition("INIT")>> \o Upwards("INIT", s)
      [] m \in {"INIT"} \cup Working /\ s \in Working /\ Rank[m] <= Rank[s] -> Upwards(m, s)
      [] OTHER                           -> Downwards(m, s)

AppCall == /\ Step("app", "idle") /\ calls < Len(Goals)
           /\ calls' = calls + 1
           /\ pending' = TRUE /\ found' = TRUE
           /\ thr' = [thr EXCEPT !["app"].pc = "call",
                                 !["app"].jobs = Jobs(master, Goals[calls + 1])]
           /\ UNCHANGED <<dev, slv, lock, known, faults, losses, master, avars>>

Doing(job) == Step("app", "call") /\ thr["app"].jobs # <<>> /\ Head(thr["app"].jobs).do = job

AppMaster == /\ Doing("master")
             /\ master' = Target("app")
             /\ JobDone("app", TRUE)
             /\ UNCHANGED <<dev, slv, lock, known, faults, losses, pending, calls, found, avars>>

\* ec_scan: all slaves to INIT by broadcast, their resources freed, ...
AppScan == /\ \E job \in {"scan", "rescan"} : Doing(job)
           /\ \/ Kept /\ dev' = [dev EXCEPT !.ctl = [st |-> "INIT", ack |-> TRUE]]
              \/ Loss /\ UNCHANGED dev
           /\ slv' = [slv EXCEPT !.mbx = FALSE]
           /\ known' = FALSE
           /\ Goto("app", "scan")
           /\ UNCHANGED <<lock, faults, mvars, avars>>

\* ... then count them, clear each ec_slave_t, mutex included, and address them.
AppFound == /\ Step("app", "scan")
            /\ \/ /\ known' = TRUE /\ lock' = NULL
                  /\ slv' = [expected |-> "UNKNOWN", active |-> FALSE, mbx |-> FALSE]
                  /\ \/ /\ Kept
                        /\ dev' = [dev EXCEPT !.adr = TRUE, !.ctl = [st |-> "INIT", ack |-> TRUE]]
                     \/ Loss /\ UNCHANGED dev
                  /\ JobDone("app", TRUE)
                  /\ UNCHANGED found
               \/ /\ Loss
                  /\ found' = (Head(thr["app"].jobs).do = "rescan")
                  /\ IF found' THEN JobDone("app", TRUE)
                     ELSE thr' = [thr EXCEPT !["app"].pc = "call", !["app"].jobs = <<>>]
                  /\ UNCHANGED <<dev, slv, lock, known>>
            /\ UNCHANGED <<faults, master, pending, calls, avars>>

AppReturn == /\ Step("app", "call") /\ thr["app"].jobs = <<>>
             /\ master' = IF found THEN Goals[calls] ELSE master
             /\ pending' = FALSE
             /\ Goto("app", "idle")
             /\ UNCHANGED <<dev, slv, lock, known, faults, losses, calls, found, avars>>

-----------------------------------------------------------------------------
(* The callbacks of the receive thread and the messages they send.         *)

\* Mutant: forgets the message that is being worked on.
Available_early == Len(exec) < MaxMessages

\* The timer is shared by all groups; without a free message the check is lost.
Available == Len(exec) + (IF busy = NULL THEN 0 ELSE 1) < MaxMessages

ec_async_check_group(g) ==
    /\ due /\ due' = FALSE
    /\ exec' = IF Available THEN Append(exec, g) ELSE exec
    /\ UNCHANGED <<svars, mvars, busy>>

TimerExpires == ~due /\ due' = TRUE /\ UNCHANGED <<svars, mvars, exec, busy>>

InOrder == dev.adr /\ ~dev.err /\ dev.al = master

\* cb_process_data_group: the working counter of a group is not as expected.
RxGroup(g) == /\ ~pending /\ master \in {"SAFEOP", "OP"}
              /\ g = Own => ~InOrder
              /\ ec_async_check_group(g)

\* cb_brd_ec_state, because of any slave: ec_async_check_all asks for every
\* group, but the timer that the first one starts stops the others.
RxState == /\ ~pending /\ master \in Broadcasts
           /\ ec_async_check_group(Groups[1])

-----------------------------------------------------------------------------
(* ec_async_loop_step and ec_async_check_slave.                            *)

\* ec_async_check_slave starts from a slave that is not in a transition.
AsyncTake == /\ Step("async", "idle") /\ exec # <<>>
             /\ exec' = Tail(exec)
             /\ IF Head(exec) = Own /\ known /\ ~slv.active
                THEN busy' = Head(exec) /\ Goto("async", "check")
                ELSE UNCHANGED <<busy, thr>>
             /\ UNCHANGED <<dev, slv, lock, known, faults, losses, mvars, due>>

AsyncCheck == /\ Step("async", "check")
              /\ \/ /\ known /\ dev.adr /\ Kept
                    /\ thr' = [thr EXCEPT !["async"].got = Read, !["async"].pc = "decide"]
                 \/ /\ IF known /\ dev.adr THEN Loss ELSE Kept
                    /\ thr' = [thr EXCEPT !["async"].got = Lost, !["async"].pc = "decide"]
              /\ UNCHANGED <<dev, slv, lock, known, faults, mvars, avars>>

\* "force it to INIT and then back to expected state".
Restore(e) == Rung("INIT") \o When(Rank["PREOP"] <= Rank[e], Rung("PREOP"))
              \o When(Rank["SAFEOP"] <= Rank[e], Rung("SAFEOP"))
              \o When(Rank["OP"] <= Rank[e], Rung("OP"))

\* A lost slave is restored; for one in a wrong state the error counters are
\* read first, and a failure of this ends the check.
AsyncDecide ==
    /\ Step("async", "decide")
    /\ LET got == thr["async"].got
       IN  IF got = Lost
           THEN /\ Kept
                /\ thr' = [thr EXCEPT !["async"].pc = "call",
                                      !["async"].jobs = Restore(slv.expected)]
           ELSE IF got # [al |-> slv.expected, err |-> FALSE]
           THEN \/ Kept /\ Goto("async", "repair")
                \/ Loss /\ Goto("async", "call")
           ELSE Kept /\ Goto("async", "call")
    /\ UNCHANGED <<dev, slv, lock, known, faults, mvars, avars>>

\* The argument of ec_slave_state_transition is read before it has the mutex.
AsyncRepair == /\ Step("async", "repair")
               /\ thr' = [thr EXCEPT !["async"].pc = "call",
                                     !["async"].jobs = <<Transition(slv.expected)>>]
               /\ UNCHANGED <<dev, slv, lock, known, faults, losses, mvars, avars>>

AsyncDone == /\ Step("async", "call") /\ thr["async"].jobs = <<>>
             /\ busy' = NULL
             /\ Goto("async", "idle")
             /\ UNCHANGED <<dev, slv, lock, known, faults, losses, mvars, exec, due>>

-----------------------------------------------------------------------------
Rest == UNCHANGED <<mvars, avars>>

AppNext   == (TransitionNext("app") /\ Rest) \/ AppMaster \/ AppScan \/ AppFound \/ AppReturn
AsyncNext == (TransitionNext("async") /\ Rest) \/ AsyncTake \/ AsyncCheck \/ AsyncDecide
             \/ AsyncRepair \/ AsyncDone

Next == \/ AppCall \/ AppNext \/ AsyncNext
        \/ (Serve \/ Fault) /\ Rest
        \/ (\E i \in DOMAIN Groups : RxGroup(Groups[i])) \/ RxState \/ TimerExpires

Spec == Init /\ [][Next]_vars

\* The threads run, the slave answers, a mismatch in the slave's group is seen
\* by the cyclic task again and again.
FairSpec == /\ Spec
            /\ WF_vars(AppNext) /\ WF_vars(AsyncNext)
            /\ WF_vars(Serve /\ Rest) /\ WF_vars(TimerExpires)
            /\ SF_vars(Available /\ RxGroup(Own))

-----------------------------------------------------------------------------
Places == {"idle", "call", "lock", "first", "address", "again", "recheck", "reset", "next", "unlock",
           "write", "poll", "status", "ack", "acked", "judge", "scan", "check", "decide", "repair"}
Works  == {"transition", "prepare", "master", "scan", "rescan"}

ThreadStates == [pc : Places, back : Places, strict : BOOLEAN, ok : BOOLEAN,
                 jobs : Seq([do : Works, st : States]),
                 plan : Seq([prep : {"none", "mbx", "dc", "adr", "free"}, st : States]),
                 got : [al : States, err : BOOLEAN]]

\* The variables have their types, the counters stay in their bounds, and no more
\* messages are under way than ec_async_loop_create put into the pool.
TypeOK ==
    /\ dev \in [al : States \ {"UNKNOWN"}, err : BOOLEAN, adr : BOOLEAN,
               ctl : {NULL} \cup [st : States, ack : BOOLEAN]]
    /\ slv \in [expected : States, active : BOOLEAN, mbx : BOOLEAN]
    /\ lock \in Threads \cup {NULL} /\ known \in BOOLEAN
    /\ thr \in [Threads -> ThreadStates]
    /\ faults \in 0 .. MaxFaults /\ losses \in 0 .. MaxLosses
    /\ master \in States /\ {pending, found, due} \subseteq BOOLEAN /\ calls \in 0 .. Len(Goals)
    /\ exec \in Seq({Groups[i] : i \in DOMAIN Groups})
    /\ busy \in {Own, NULL}
    /\ Len(exec) + (IF busy = NULL THEN 0 ELSE 1) <= MaxMessages

Clean == faults = 0 /\ losses = 0

\* As long as no frame is lost and the slave makes no error of its own, the master never
\* asks it for a change of state it must refuse, although ec_set_state and the
\* supervision drive the same slave and each computes its transition from a state
\* it has read before (slave->transition_mutex, ec_slave_state_transition).
NoIllegalRequest == dev.err => ~Clean

\* ec_slave_state_transition returns EC_OK only after the slave has answered with
\* exactly the state it was asked for, without an error; and if nothing has failed
\* the slave is still in that state when the mutex is given back.  (A supervision that
\* knows no state to expect yet asks for EC_STATE_UNKNOWN, which becomes INIT.)
OkMeansReached == \A p \in Threads : Step(p, "unlock") /\ thr[p].ok /\ Target(p) # "UNKNOWN" =>
    /\ thr[p].got = [al |-> Target(p), err |-> FALSE]
    /\ Clean => dev.al = Target(p)

\* Between two transitions a slave in PREOP, SAFEOP or OP has its mailbox handler:
\* no way up leaves out ec_mbx_init, and what frees the slave brings it to INIT.  (Two
\* losses may break it: a slave that has lost its power serves a request for PREOP that
\* was given up, after the handler has been ended and while the request for INIT is lost.)
MailboxUp == dev.al \in Working /\ lock = NULL /\ losses < 2 => slv.mbx

\* A slave that leaves SAFEOP or OP, by an error or for want of power, is brought back
\* to the state of the master by the supervision alone (ec_async_check_slave), unless
\* the application changes the state again; this is for one fault of the slave and no
\* lost frame, since a transition given up halfway lowers expected_state for good.
Recovers == (~pending /\ master \in {"SAFEOP", "OP"})
            ~> (InOrder \/ pending \/ losses > 0 \/ faults > 1)

\* ec_set_state returns, whatever the slave does and whatever frames are lost: each
\* loop ends and nobody keeps the transition mutex, on an error path either.
SetStateReturns == pending ~> ~pending
=============================================================================
