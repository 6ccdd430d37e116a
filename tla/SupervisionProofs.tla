--------------------------- MODULE SupervisionProofs ---------------------------
(***************************************************************************)
(* The two threads that drive a slave's state machine never work on it at  *)
(* the same time, and what follows from it, for every number of faults and *)
(* of lost accesses, all groups, and all calls of ec_set_state that scan   *)
(* the bus before the supervision knows the slave.                         *)
(***************************************************************************)
EXTENDS Supervision, TLAPS

\* The application asks for INIT in its first call at most, and never for BOOT: ec_set_state
\* then scans the bus only as long as no slave is known.
OneScan == \A i \in DOMAIN Goals : Goals[i] \in Working \/ (i = 1 /\ Goals[i] = "INIT")

\* The application looks at the slaves in states ec_set_state brings them to.
Watched == Broadcasts \subseteq {"INIT"} \cup Working

\* Places in ec_slave_state_transition, with its mutex from "first" on.
Inside == {"first", "address", "again", "recheck", "reset", "next", "unlock",
           "write", "poll", "status", "ack", "acked", "judge"}

\* A thread works on the first step of its plan.
OnStep(t) == \/ t.pc \in {"write", "poll", "status", "judge"}
             \/ t.pc \in {"ack", "acked"} /\ t.back = "judge"

\* What a thread has at hand where it is.
Fits(t) == /\ t \in ThreadStates
           /\ t.pc \in Inside \cup {"lock"} => t.jobs # <<>> /\ Head(t.jobs).do = "transition"
           /\ OnStep(t) => t.plan # <<>>
           /\ t.pc \in {"ack", "acked"} => t.back \in {"recheck", "judge"}
           /\ t.pc = "recheck" => t.back = "recheck"
           /\ t.pc = "scan" => t.jobs # <<>>

Shaped == /\ TypeOK /\ \A p \in Threads : Fits(thr[p])
          /\ thr["app"].pc # "idle" => calls # 0

Plain   == {Transition(s) : s \in {"INIT"} \cup Working} \cup {Prepare}
Drops   == Plain \cup {Master(s) : s \in Working}
Repairs == {Transition(s) : s \in States \ {"BOOT"}} \cup {Prepare}

\* The work of ec_set_state: up to the first scan no slave is known, from then on each of its
\* jobs is a transition, its preparation or a new state of the master.
Rescans(jobs) == jobs # <<>> /\ Head(jobs) = Scan(TRUE) /\ Tail(jobs) \in Seq(Plain)

AppWork(t, k, f) ==
    /\ ~t.strict
    /\ t.pc \in {"idle", "call", "lock", "scan"} \cup Inside
    /\ t.pc = "idle" => t.jobs = <<>>
    /\ k => t.jobs \in Seq(Drops)
    /\ t.pc = "scan" => ~k
    /\ ~k /\ t.pc # "idle" =>
          \/ t.pc = "call" /\ ~f /\ t.jobs = <<>>
          \/ t.pc \in {"call", "scan"} /\ f /\ Rescans(t.jobs)
          \/ /\ t.pc = "call" /\ f /\ t.jobs # <<>>
             /\ Head(t.jobs) = Transition("INIT") /\ Rescans(Tail(t.jobs))

AsyncWork(t, k) ==
    /\ t.strict
    /\ t.pc \in {"idle", "call", "lock", "check", "decide", "repair"} \cup Inside
    /\ t.jobs \in Seq(Repairs)
    /\ ~k => t.pc = "idle"

MasterInv ==
    /\ slv.expected # "BOOT"
    /\ pending <=> thr["app"].pc # "idle"
    /\ known /\ ~pending => master # "UNKNOWN"
    /\ master \in {"UNKNOWN", "INIT"} \cup Working
    /\ calls = 0 => master = "UNKNOWN"
    /\ ~found => ~known

\* Before the first scan there is nothing to supervise, and the slave is in INIT.
Unseen == ~known => /\ master = "UNKNOWN" /\ lock = NULL /\ exec = <<>>
                    /\ dev.al = "INIT" /\ (dev.ctl # NULL => dev.ctl.st = "INIT")

Work == AppWork(thr["app"], known, found) /\ AsyncWork(thr["async"], known)

\* A thread is in the transition if and only if it owns its mutex.
Mutex == \A p \in Threads : thr[p].pc \in Inside <=> lock = p

NoBoot == /\ dev.al # "BOOT" /\ (dev.ctl # NULL => dev.ctl.st # "BOOT")
          /\ \A p \in Threads : thr[p].got.al # "BOOT"
                                /\ \A i \in DOMAIN thr[p].plan : thr[p].plan[i].st # "BOOT"

\* The plan ends in the state that was asked for; at its end this has been read.
Seen(t) == t.got = [al |-> Head(t.jobs).st, err |-> FALSE]

AimsAt(t) == Head(t.jobs).st # "UNKNOWN" =>
    IF t.plan = <<>> THEN Seen(t) ELSE t.plan[Len(t.plan)].st = Head(t.jobs).st

AimedAt(t) == /\ t.pc = "next" \/ OnStep(t) => AimsAt(t)
              /\ t.pc = "unlock" /\ t.ok /\ Head(t.jobs).st # "UNKNOWN" => Seen(t)

Aimed == \A p \in Threads : AimedAt(thr[p])

Agrees(d, s) == d.ctl # NULL => d.ctl.st = s

\* A slave in state s accepts each request of the plan, one after the other.
Feasible(s, plan) == plan # <<>> =>
    /\ Legal(s, plan[1].st)
    /\ \A i \in 1 .. Len(plan) - 1 : Legal(plan[i].st, plan[i + 1].st)

\* As long as nothing fails: nobody has an error to reset, and a thread in the transition
\* knows what the slave does until it gives the mutex back.
CleanAt(t, d) ==
    /\ t.pc \notin {"address", "again", "recheck", "reset", "ack", "acked"}
    /\ t.pc \in {"first", "next", "write", "unlock"} => Agrees(d, d.al)
    /\ t.pc \in {"next", "write"} => Feasible(d.al, t.plan)
    /\ (t.pc = "unlock" \/ (t.pc = "next" /\ t.plan = <<>>)) /\ Head(t.jobs).st # "UNKNOWN" =>
          d.al = Head(t.jobs).st
    /\ t.pc \in {"poll", "status", "judge"} =>
          /\ Agrees(d, Head(t.plan).st) /\ Legal(d.al, Head(t.plan).st)
          /\ Feasible(Head(t.plan).st, Tail(t.plan))
    /\ t.pc = "judge" /\ t.got = [al |-> Head(t.plan).st, err |-> FALSE] => d.al = Head(t.plan).st

CleanInv == Clean => /\ ~dev.err /\ (known => dev.adr)
                     /\ lock = NULL => Agrees(dev, dev.al)
                     /\ \A p \in Threads : CleanAt(thr[p], dev)

Owned == Shaped /\ MasterInv /\ Unseen /\ Work /\ Mutex /\ NoBoot

-----------------------------------------------------------------------------
(* States, plans and jobs.                                                 *)

Steps == [prep : {"none", "mbx", "dc", "adr", "free"}, st : States]
Tasks == [do : Works, st : States]

LEMMA StateSet ==
    /\ States = {"UNKNOWN", "INIT", "PREOP", "BOOT", "SAFEOP", "OP"}
    /\ Rank["UNKNOWN"] = 0 /\ Rank["INIT"] = 1 /\ Rank["PREOP"] = 2
    /\ Rank["BOOT"] = 3 /\ Rank["SAFEOP"] = 4 /\ Rank["OP"] = 8
BY DEF States, Rank

\* A part of a sequence of three.
LEMMA PartOfThree ==
    ASSUME NEW S, NEW s \in Seq(S), Len(s) = 3, NEW m \in 1 .. 3, NEW n \in m .. 3,
           NEW t, t = SubSeq(s, m, n)
    PROVE  /\ t \in Seq(S) /\ Len(t) = n - m + 1
           /\ \A i \in 1 .. Len(t) : i + m - 1 \in 1 .. 3 /\ t[i] = s[i + m - 1]
BY SMTT(30)

LEMMA StageIs ==
    /\ Stage["INIT"] = 0 /\ Stage["PREOP"] = 1 /\ Stage["SAFEOP"] = 2 /\ Stage["OP"] = 3
    /\ \A s \in States : Entry[s] \in 1 .. 3
BY StateSet DEF Stage, Entry

\* What the switch of ec_slave_state_transition does: the slave accepts every step, and the
\* last one is the state that was asked for.
LEMMA PlanTyped ==
    ASSUME NEW from \in States \ {"UNKNOWN"}, NEW to \in States
    PROVE  /\ Plan(from, to) \in Seq(Steps)
           /\ from # "BOOT" => /\ Plan(from, to) # <<>>
                               /\ to \notin {"UNKNOWN", "BOOT"} => Plan(from, to)[Len(Plan(from, to))].st = to
                               /\ Feasible(from, Plan(from, to))
                               /\ \A i \in DOMAIN Plan(from, to) : to # "BOOT" => Plan(from, to)[i].st # "BOOT"
<1> DEFINE plan == Plan(from, to)
<1>0. \A x \in {"none", "mbx", "dc", "adr", "free"}, s \in States : Set(x, s) \in Steps /\ Set(x, s).st = s
  BY DEF Set, Steps
<1>1. CASE to = "INIT"
  <2> DEFINE s == <<Set("none", to), Set("adr", to), Set("free", to)>>
  <2>1. Entry[from] \in 1 .. 3
    BY StageIs
  <2>2. plan = SubSeq(s, Entry[from], 3)
    BY <1>1 DEF Plan, Working
  <2>3. /\ s \in Seq(Steps) /\ Len(s) = 3
        /\ \A i \in 1 .. 3 : s[i].st = "INIT"
    BY <1>0, <1>1
  <2> HIDE DEF s, plan
  <2>4. /\ plan \in Seq(Steps)
        /\ Len(plan) = 4 - Entry[from]
        /\ \A i \in 1 .. Len(plan) : plan[i].st = "INIT"
    <3>1. PICK m \in 1 .. 3 : m = Entry[from] /\ 3 \in m .. 3
      BY <2>1
    <3>2. /\ plan \in Seq(Steps) /\ Len(plan) = 3 - m + 1
          /\ \A i \in 1 .. Len(plan) : i + m - 1 \in 1 .. 3 /\ plan[i] = s[i + m - 1]
      <4>1. plan = SubSeq(s, m, 3)
        BY <2>2, <3>1
      <4>2. s \in Seq(Steps) /\ Len(s) = 3 /\ 3 \in m .. 3
        BY <2>3, <3>1
      <4> QED  BY <4>1, <4>2, PartOfThree
    <3>3. \A i \in 1 .. Len(plan) : plan[i].st = "INIT"
      BY <2>3, <3>2
    <3> QED  BY <3>1, <3>2, <3>3
  <2>5. \A s1 \in States \ {"UNKNOWN"} : Legal(s1, "INIT")
    BY StateSet DEF Legal
  <2>6. Feasible(from, plan)
    BY <2>1, <2>4, <2>5, StateSet, SMTT(30) DEF Feasible
  <2> QED BY <2>1, <2>4, <2>6, <1>1 DEF plan
<1>2. CASE from \in {"INIT", "PREOP", "SAFEOP"} /\ to \in Working /\ Rank[from] < Rank[to]
  <2> DEFINE s == <<Set("mbx", "PREOP"), Set("dc", "SAFEOP"), Set("none", "OP")>>
  <2>1. Stage[from] \in 0 .. 2 /\ Stage[to] \in 1 .. 3 /\ Stage[from] < Stage[to]
    BY <1>2, StageIs, StateSet DEF Working
  <2>2. plan = SubSeq(s, Stage[from] + 1, Stage[to])
    <3>1. Rank[from] \in Int /\ Rank[to] \in Int /\ ~(Rank[from] >= Rank[to])
      BY <1>2, StateSet DEF Working
    <3>2. from \notin {"UNKNOWN", "BOOT", "OP"} /\ to \notin {"INIT", "BOOT", "UNKNOWN"}
      BY <1>2, StateSet DEF Working
    <3>3. plan = Rise(from, to)
      BY <1>2, <3>1, <3>2 DEF Plan, Working
    <3> QED  BY <3>3 DEF Rise
  <2>3. /\ s \in Seq(Steps) /\ Len(s) = 3
        /\ s[1].st = "PREOP" /\ s[2].st = "SAFEOP" /\ s[3].st = "OP"
    BY <1>0, StateSet
  <2> HIDE DEF s, plan
  <2>4. PICK m \in 1 .. 3, n \in 1 .. 3 : m = Stage[from] + 1 /\ n = Stage[to] /\ n \in m .. 3
    BY <2>1
  <2>5. /\ plan \in Seq(Steps) /\ Len(plan) = n - m + 1
        /\ \A i \in 1 .. Len(plan) : i + m - 1 \in 1 .. 3 /\ plan[i] = s[i + m - 1]
    <3>1. plan = SubSeq(s, m, n)
      BY <2>2, <2>4
    <3>2. s \in Seq(Steps) /\ Len(s) = 3 /\ n \in m .. 3
      BY <2>3, <2>4
    <3> QED  BY <3>1, <3>2, PartOfThree, SMTT(30)
  <2>6. /\ from = IF m = 1 THEN "INIT" ELSE IF m = 2 THEN "PREOP" ELSE "SAFEOP"
        /\ to = s[n].st
    BY <1>2, <2>3, <2>4, StageIs DEF Working
  <2>7. Legal(from, s[m].st) /\ \A i \in 1 .. 2 : Legal(s[i].st, s[i + 1].st)
    <3>1. Legal("INIT", "PREOP") /\ Legal("PREOP", "SAFEOP") /\ Legal("SAFEOP", "OP")
      BY DEF Legal
    <3>2. m = 1 \/ m = 2 \/ m = 3
      OBVIOUS
    <3>3. Legal(from, s[m].st)
      BY <2>3, <2>6, <3>1, <3>2
    <3>4. ASSUME NEW i \in 1 .. 2 PROVE Legal(s[i].st, s[i + 1].st)
      <4>1. i = 1 \/ i = 2
        OBVIOUS
      <4> QED  BY <2>3, <3>1, <4>1
    <3> QED  BY <3>3, <3>4
  <2>8. Feasible(from, plan)
    <3>1. plan[1] = s[m]
      BY <2>4, <2>5
    <3>2. ASSUME NEW i \in 1 .. Len(plan) - 1 PROVE Legal(plan[i].st, plan[i + 1].st)
      <4>1. /\ i \in 1 .. Len(plan) /\ i + 1 \in 1 .. Len(plan) /\ i + m - 1 \in 1 .. 2
            /\ (i + 1) + m - 1 = (i + m - 1) + 1
        <5>1. Len(plan) \in Int /\ Len(plan) = n - m + 1
          BY <2>4, <2>5
        <5> HIDE DEF plan
        <5>2. PICK k \in Int : k = Len(plan)
          BY <5>1
        <5>3. i \in Int /\ 1 <= i /\ i <= k - 1 /\ k = n - m + 1
          BY <5>1, <5>2
        <5>4. m \in Int /\ n \in Int /\ 1 <= m /\ m <= n /\ n <= 3
          BY <2>4
        <5> QED  BY <5>2, <5>3, <5>4
      <4> QED  BY <2>5, <2>7, <4>1
    <3> QED  BY <2>7, <3>1, <3>2 DEF Feasible
  <2>9. plan # <<>> /\ plan[Len(plan)].st = to
    <3>1. Len(plan) \in 1 .. Len(plan) /\ Len(plan) + m - 1 = n
      <4>1. Len(plan) = n - m + 1
        BY <2>5
      <4> QED  BY <2>4, <4>1, SMTT(30)
    <3> QED  BY <2>5, <2>6, <3>1
  <2>10. \A i \in DOMAIN plan : plan[i].st # "BOOT"
    BY <2>3, <2>5
  <2> QED BY <2>5, <2>8, <2>9, <2>10 DEF plan
<1>3. CASE from = "OP" /\ to = "PREOP"
  <2>1. plan = <<Set("none", to), Set("none", to)>>
    BY <1>3, StateSet DEF Plan, Working
  <2>2. Set("none", "PREOP") \in Steps /\ Set("none", "PREOP").st = "PREOP"
    BY <1>0, StateSet
  <2> HIDE DEF plan
  <2>3. /\ plan \in Seq(Steps) /\ Len(plan) = 2 /\ \A i \in 1 .. 2 : plan[i].st = "PREOP"
    BY <1>3, <2>1, <2>2
  <2>4. Legal("OP", "PREOP") /\ Legal("PREOP", "PREOP")
    BY DEF Legal
  <2>5. Feasible(from, plan)
    BY <1>3, <2>3, <2>4 DEF Feasible
  <2> QED BY <1>3, <2>3, <2>5 DEF plan
<1>4. CASE from = "BOOT" /\ to \in Working
  BY <1>4 DEF Plan, Working
<1>5. ASSUME NEW x \in {"none", "mbx"}, NEW s \in States, plan = <<Set(x, s)>>,
             from # "BOOT" => Legal(from, s) /\ (to \notin {"UNKNOWN", "BOOT"} => s = to)
                              /\ (to # "BOOT" => s # "BOOT")
      PROVE  /\ plan \in Seq(Steps)
             /\ from # "BOOT" => /\ plan # <<>>
                                 /\ to \notin {"UNKNOWN", "BOOT"} => plan[Len(plan)].st = to
                                 /\ Feasible(from, plan)
                                 /\ \A i \in DOMAIN plan : to # "BOOT" => plan[i].st # "BOOT"
  <2>1. plan \in Seq(Steps) /\ Len(plan) = 1 /\ plan[1].st = s
    BY <1>0, <1>5
  <2> QED BY <2>1, <1>5 DEF Feasible
<1>6. CASE from = "INIT" /\ to = "BOOT"
  <2>1. plan = <<Set("mbx", to)>> /\ Legal(from, to)
    BY <1>6 DEF Plan, Legal, Working
  <2> QED BY <2>1, <1>5, <1>6
<1>7. CASE {from, to} \subseteq Working /\ Rank[from] >= Rank[to] /\ ~(from = "OP" /\ to = "PREOP")
  <2>1. plan = <<Set("none", to)>> /\ Legal(from, to) /\ to # "BOOT"
    <3>1. Rank[from] \in Int /\ Rank[to] \in Int /\ ~(Rank[from] < Rank[to])
      BY <1>7, StateSet DEF Working
    <3>2. from \in Working /\ to \in Working
      BY <1>7
    <3>3. plan = <<Set("none", to)>>
      BY <1>7, <3>1, <3>2 DEF Plan, Working
    <3>4. Legal(from, to) /\ to # "BOOT"
      <4>1. from = "PREOP" => to = "PREOP"
        BY <1>7, <3>2, StateSet DEF Working
      <4> QED  BY <3>2, <4>1 DEF Working, Legal
    <3> QED  BY <3>3, <3>4
  <2> QED BY <2>1, <1>5
<1>8. CASE to \in {"UNKNOWN", "BOOT"} /\ ~(from = "INIT" /\ to = "BOOT")
  <2>1. plan = <<Set("none", "INIT")>> /\ Legal(from, "INIT")
    BY <1>8, StateSet DEF Plan, Working, Legal
  <2>2. "INIT" \in States /\ "INIT" # "BOOT"
    BY StateSet
  <2> QED BY <2>1, <2>2, <1>5, <1>8
<1> QED
  BY <1>1, <1>2, <1>3, <1>4, <1>6, <1>7, <1>8, StateSet DEF Working

-----------------------------------------------------------------------------
(* What a step does to its thread.                                         *)

Became(p, t) == /\ thr' \in [Threads -> ThreadStates]
                /\ thr'[p] = t
                /\ \A q \in Threads \ {p} : thr'[q] = thr[q]

LEMMA ThreadParts ==
    ASSUME NEW t \in ThreadStates
    PROVE  /\ t.pc \in Places /\ t.back \in Places /\ t.strict \in BOOLEAN /\ t.ok \in BOOLEAN
           /\ t.jobs \in Seq(Tasks) /\ t.plan \in Seq(Steps) /\ t.got \in [al : States, err : BOOLEAN]
           /\ t.jobs # <<>> => Head(t.jobs) \in Tasks /\ Tail(t.jobs) \in Seq(Tasks)
           /\ t.plan # <<>> => Head(t.plan) \in Steps /\ Tail(t.plan) \in Seq(Steps)
<1>1. t.jobs \in Seq(Tasks) /\ t.plan \in Seq(Steps)
  BY DEF ThreadStates, Tasks, Steps
<1>2. /\ t.pc \in Places /\ t.back \in Places /\ t.strict \in BOOLEAN /\ t.ok \in BOOLEAN
      /\ t.got \in [al : States, err : BOOLEAN]
  BY DEF ThreadStates
<1> QED  BY <1>1, <1>2

LEMMA ThreadOf ==
    ASSUME NEW pc \in Places, NEW back \in Places, NEW strict \in BOOLEAN, NEW ok \in BOOLEAN,
           NEW jobs \in Seq(Tasks), NEW plan \in Seq(Steps), NEW got \in [al : States, err : BOOLEAN]
    PROVE  [pc |-> pc, back |-> back, strict |-> strict, ok |-> ok, jobs |-> jobs, plan |-> plan, got |-> got]
              \in ThreadStates
BY DEF ThreadStates, Tasks, Steps

LEMMA GotoIs ==
    ASSUME thr \in [Threads -> ThreadStates], NEW p \in Threads, NEW q \in Places, Goto(p, q)
    PROVE  Became(p, [thr[p] EXCEPT !.pc = q])
BY ZenonT(60) DEF Goto, Became, ThreadStates

LEMMA LeaveIs ==
    ASSUME thr \in [Threads -> ThreadStates], NEW p \in Threads, NEW ok \in BOOLEAN, Leave(p, ok)
    PROVE  Became(p, [thr[p] EXCEPT !.pc = "unlock", !.ok = ok, !.plan = <<>>, !.back = "idle"])
<1> DEFINE t == [thr[p] EXCEPT !.pc = "unlock", !.ok = ok, !.plan = <<>>, !.back = "idle"]
<1>1. thr' = [thr EXCEPT ![p] = t]
  BY DEF Leave
<1>2. <<>> \in Seq([prep : {"none", "mbx", "dc", "adr", "free"}, st : States])
  OBVIOUS
<1>3. t \in ThreadStates
  <2>1. thr[p] \in ThreadStates
    OBVIOUS
  <2> QED  BY <1>2, <2>1 DEF ThreadStates, Places
<1> QED  BY <1>1, <1>3 DEF Became

LEMMA JobDoneIs ==
    ASSUME thr \in [Threads -> ThreadStates], NEW p \in Threads, NEW ok \in BOOLEAN, JobDone(p, ok),
           thr[p].jobs # <<>>
    PROVE  Became(p, [thr[p] EXCEPT !.pc = "call", !.ok = TRUE, !.got = Lost,
                                    !.jobs = IF thr[p].strict /\ ~ok THEN <<>> ELSE Tail(thr[p].jobs)])
<1>1. Tail(thr[p].jobs) \in Seq([do : Works, st : States])
  BY ThreadParts DEF Tasks
<1>2. Lost \in [al : States, err : BOOLEAN]
  BY StateSet DEF Lost
<1> QED  BY <1>1, <1>2 DEF JobDone, Became, ThreadStates, Places

LEMMA KnownIs ==
    ASSUME thr \in [Threads -> ThreadStates], NEW p \in Threads, Known(p), Read \in [al : States, err : BOOLEAN],
           Plan(dev.al, Target(p)) \in Seq(Steps), dev.err \in BOOLEAN
    PROVE  IF dev.err
           THEN Became(p, [thr[p] EXCEPT !.pc = "ack", !.back = "recheck", !.got = Read])
           ELSE Became(p, [thr[p] EXCEPT !.pc = "next", !.got = Read, !.plan = Plan(dev.al, Target(p))])
<1>1. Plan(dev.al, Target(p)) \in Seq([prep : {"none", "mbx", "dc", "adr", "free"}, st : States])
  BY DEF Steps
<1> DEFINE t == [thr[p] EXCEPT !.pc = "ack", !.back = "recheck", !.got = Read]
           u == [thr[p] EXCEPT !.pc = "next", !.got = Read, !.plan = Plan(dev.al, Target(p))]
<1>2. thr' = [thr EXCEPT ![p] = IF dev.err THEN t ELSE u]
  BY DEF Known
<1>3. t \in ThreadStates
  <2>1. thr[p] \in ThreadStates
    OBVIOUS
  <2> QED  BY <2>1 DEF ThreadStates, Places
<1>4. u \in ThreadStates
  <2>1. thr[p] \in ThreadStates
    OBVIOUS
  <2> QED  BY <1>1, <2>1 DEF ThreadStates, Places
<1> QED  BY <1>2, <1>3, <1>4 DEF Became

\* ec_slave_state_transition and ec_slave_set_state keep the types.
LEMMA TransitionTyped ==
    ASSUME Shaped, NEW p \in Threads, TransitionNext(p), Rest
    PROVE  Shaped'
<1> DEFINE DevType == [al : States \ {"UNKNOWN"}, err : BOOLEAN, adr : BOOLEAN,
                       ctl : {NULL} \cup [st : States, ack : BOOLEAN]]
           Good == /\ \E t : Fits(t) /\ Became(p, t)
                   /\ dev' \in DevType
                   /\ slv' \in [expected : States, active : BOOLEAN, mbx : BOOLEAN]
                   /\ losses' \in 0 .. MaxLosses
                   /\ lock' \in Threads \cup {NULL}
                   /\ UNCHANGED <<known, faults>>
<1>0. /\ thr \in [Threads -> ThreadStates] /\ thr[p] \in ThreadStates
      /\ dev \in DevType
      /\ slv \in [expected : States, active : BOOLEAN, mbx : BOOLEAN]
      /\ losses \in 0 .. MaxLosses /\ MaxLosses \in Nat
      /\ lock \in Threads \cup {NULL}
      /\ Fits(thr[p])
  BY SlaveAssumption DEF Shaped, TypeOK
<1>1. SUFFICES Good
  <2>1. ASSUME Good PROVE Shaped'
    <3>1. UNCHANGED <<master, pending, calls, found, exec, busy, due>>
      BY DEF Rest, mvars, avars
    <3>2. TypeOK'
      BY <2>1, <3>1 DEF Shaped, TypeOK, Became
    <3>3. ASSUME NEW q \in Threads PROVE Fits(thr'[q])
      BY <2>1 DEF Became, Shaped
    <3>4. thr[p].pc # "idle"
      BY DEF TransitionNext, TrCall, TrLock, TrFirst, TrAddress, TrAgain, TrRecheck, TrReset, TrNext,
             TrUnlock, PrepareSlave, SetWrite, SetPoll, SetStatus, AckWrite, AckRead, SetReached,
             SetRepeat, SetExpired, Step
    <3>5. thr'["app"].pc # "idle" => calls' # 0
      <4>1. "app" \in Threads
        BY SupervisionAssumption
      <4> QED  BY <2>1, <3>1, <3>4, <4>1 DEF Shaped, Became
    <3> QED  BY <3>2, <3>3, <3>5 DEF Shaped
  <2> QED  BY <2>1
<1> HIDE DEF Good, DevType
<1>2. /\ \A to \in States : Plan(dev.al, to) \in Seq(Steps)
      /\ Read \in [al : States, err : BOOLEAN] /\ Lost \in [al : States, err : BOOLEAN]
      /\ dev.err \in BOOLEAN
  BY <1>0, PlanTyped, StateSet, ZenonT(60) DEF Lost, Read, DevType
<1>3. /\ thr[p].jobs \in Seq(Tasks) /\ thr[p].plan \in Seq(Steps)
      /\ thr[p].jobs # <<>> => Target(p) \in States /\ Tail(thr[p].jobs) \in Seq(Tasks)
      /\ thr[p].plan # <<>> => Request(p) \in States /\ Tail(thr[p].plan) \in Seq(Steps)
  BY <1>0, ThreadParts DEF Target, Request, Tasks, Steps
<1>4. /\ Loss => losses' \in 0 .. MaxLosses
      /\ Kept => losses' \in 0 .. MaxLosses
      /\ NoAnswer => losses' \in 0 .. MaxLosses
  BY <1>0 DEF Loss, Kept, NoAnswer
<1>5. ASSUME NEW s \in States, NEW b \in BOOLEAN, WriteControl(s, b)
      PROVE  dev' \in DevType
  BY <1>0, <1>5 DEF WriteControl, DevType
<1>6. ASSUME NEW t, Became(p, t) PROVE t \in ThreadStates
  BY <1>6 DEF Became
\* Where a thread may go that is in the transition, works on its plan, or leaves.
<1>7. ASSUME NEW q \in Places, Goto(p, q), thr[p].pc \in Inside \cup {"lock"} \/ q \notin Inside \cup {"lock"},
             q \in {"write", "poll", "status", "judge"} => thr[p].plan # <<>>,
             q \in {"ack", "acked"} => thr[p].pc \in {"ack", "acked"}, q # "scan",
             q = "recheck" => thr[p].back = "recheck"
      PROVE  \E t : Fits(t) /\ Became(p, t)
  <2> DEFINE t == [thr[p] EXCEPT !.pc = q]
  <2>1. Became(p, t)
    BY <1>0, <1>7, GotoIs
  <2>2. Fits(t)
    <3>1. t \in ThreadStates
      BY <1>6, <2>1
    <3> QED  BY <1>0, <1>7, <3>1 DEF Fits, OnStep, ThreadStates
  <2> QED  BY <2>1, <2>2
<1>8. ASSUME NEW ok \in BOOLEAN, Leave(p, ok), thr[p].pc \in Inside
      PROVE  \E t : Fits(t) /\ Became(p, t)
  <2> DEFINE t == [thr[p] EXCEPT !.pc = "unlock", !.ok = ok, !.plan = <<>>, !.back = "idle"]
  <2>1. Became(p, t)
    BY <1>0, <1>8, LeaveIs
  <2>2. Fits(t)
    <3>1. t \in ThreadStates
      BY <1>6, <2>1
    <3> QED  BY <1>0, <1>8, <3>1 DEF Fits, OnStep, ThreadStates
  <2> QED  BY <2>1, <2>2
<1>9. ASSUME NEW ok \in BOOLEAN, JobDone(p, ok), thr[p].jobs # <<>>
      PROVE  \E t : Fits(t) /\ Became(p, t)
  <2> DEFINE t == [thr[p] EXCEPT !.pc = "call", !.ok = TRUE, !.got = Lost,
                                 !.jobs = IF thr[p].strict /\ ~ok THEN <<>> ELSE Tail(thr[p].jobs)]
  <2>1. Became(p, t)
    BY <1>0, <1>9, JobDoneIs
  <2>2. Fits(t)
    <3>1. t \in ThreadStates
      BY <1>6, <2>1
    <3>2. t.pc = "call"
      BY <1>0 DEF ThreadStates
    <3> QED  BY <3>1, <3>2 DEF Fits, OnStep, Inside
  <2> QED  BY <2>1, <2>2
<1>10. ASSUME Known(p), thr[p].pc \in Inside
       PROVE  \E t : Fits(t) /\ Became(p, t)
  <2>1. thr[p].jobs # <<>> /\ Target(p) \in States
    BY <1>0, <1>3, <1>10 DEF Fits
  <2> DEFINE t == [thr[p] EXCEPT !.pc = "ack", !.back = "recheck", !.got = Read]
             u == [thr[p] EXCEPT !.pc = "next", !.got = Read, !.plan = Plan(dev.al, Target(p))]
  <2>2. IF dev.err THEN Became(p, t) ELSE Became(p, u)
    BY <1>0, <1>2, <1>10, <2>1, KnownIs
  <2>3. t \in ThreadStates => Fits(t)
    BY <1>0, <1>10 DEF Fits, OnStep, ThreadStates
  <2>4. u \in ThreadStates => Fits(u)
    BY <1>0, <1>10 DEF Fits, OnStep, ThreadStates
  <2> QED  BY <1>6, <2>2, <2>3, <2>4
<1>11. CASE TrCall(p)
  <2>1. CASE known
    <3> DEFINE t == [thr[p] EXCEPT !.pc = "lock"]
    <3>1. Became(p, t)
      BY <1>0, <1>11, <2>1, GotoIs DEF TrCall, Places
    <3>2. t \in ThreadStates
      BY <1>6, <3>1
    <3>3. Fits(t)
      BY <1>0, <1>11, <3>2 DEF TrCall, Fits, OnStep, ThreadStates
    <3> QED  BY <1>0, <1>11, <3>1, <3>3 DEF TrCall, Good
  <2>2. CASE ~known
    BY <1>0, <1>9, <1>11, <2>2 DEF TrCall, Good
  <2> QED  BY <2>1, <2>2
<1> USE DEF Good, Step, Inside, Places
<1>12. CASE TrLock(p)
  BY <1>0, <1>7, <1>12 DEF TrLock
<1>13. CASE TrFirst(p)
  BY <1>0, <1>4, <1>7, <1>10, <1>13 DEF TrFirst
<1>14. CASE TrAddress(p)
  <2>1. dev' \in DevType
    BY <1>0, <1>14 DEF TrAddress, DevType
  <2> QED  BY <1>0, <1>4, <1>7, <1>8, <1>14, <2>1 DEF TrAddress
<1>15. CASE TrAgain(p)
  BY <1>0, <1>4, <1>8, <1>10, <1>15 DEF TrAgain
<1>16. CASE TrRecheck(p)
  <2>1. ASSUME thr' = [thr EXCEPT ![p].pc = "ack", ![p].got = Lost]
        PROVE  \E t : Fits(t) /\ Became(p, t)
    <3> DEFINE t == [thr[p] EXCEPT !.pc = "ack", !.got = Lost]
    <3>1. t \in ThreadStates
      BY <1>0, <1>2 DEF ThreadStates
    <3>2. Became(p, t)
      BY <1>0, <2>1, <3>1 DEF Became
    <3>3. Fits(t)
      BY <1>0, <1>16, <3>1 DEF TrRecheck, Fits, OnStep, ThreadStates
    <3> QED  BY <3>2, <3>3
  <2> QED  BY <1>0, <1>4, <1>7, <1>10, <1>16, <2>1 DEF TrRecheck
<1>17. CASE TrReset(p)
  <2>1. dev' \in DevType
    <3>1. [al |-> "INIT", err |-> FALSE, ctl |-> NULL, adr |-> FALSE] \in DevType
      BY StateSet DEF DevType
    <3> QED  BY <1>0, <1>17, <3>1 DEF TrReset
  <2> QED  BY <1>0, <1>8, <1>17, <2>1 DEF TrReset
<1>18. CASE TrNext(p)
  <2>1. CASE thr[p].plan = <<>>
    BY <1>0, <1>4, <1>8, <1>18, <2>1 DEF TrNext
  <2>2. CASE thr[p].plan # <<>>
    <3>1. dev' \in DevType
      <4>1. ASSUME NEW b \in BOOLEAN, dev' = [dev EXCEPT !.adr = b] PROVE dev' \in DevType
        BY <1>0, <4>1 DEF DevType
      <4>2. dev.adr \in BOOLEAN
        BY <1>0 DEF DevType
      <4> QED  BY <1>0, <1>18, <2>2, <4>1, <4>2 DEF TrNext
    <3>2. slv' \in [expected : States, active : BOOLEAN, mbx : BOOLEAN]
      BY <1>0, <1>18, <2>2 DEF TrNext
    <3> QED  BY <1>0, <1>4, <1>7, <1>8, <1>18, <2>2, <3>1, <3>2 DEF TrNext
  <2> QED  BY <2>1, <2>2
<1>19. CASE TrUnlock(p)
  <2>1. thr[p].jobs # <<>> /\ thr[p].ok \in BOOLEAN
    BY <1>0, <1>19, ThreadParts DEF TrUnlock, Fits
  <2> QED  BY <1>0, <1>9, <1>19, <2>1 DEF TrUnlock
<1>20. CASE PrepareSlave(p)
  BY <1>0, <1>4, <1>9, <1>20 DEF PrepareSlave
<1>21. CASE SetWrite(p)
  <2>1. thr[p].plan # <<>> /\ Request(p) \in States
    BY <1>0, <1>3, <1>21 DEF SetWrite, Fits, OnStep
  <2>2. slv' \in [expected : States, active : BOOLEAN, mbx : BOOLEAN]
    BY <1>0, <1>21, <2>1 DEF SetWrite
  <2> QED  BY <1>0, <1>4, <1>5, <1>7, <1>8, <1>21, <2>1, <2>2 DEF SetWrite
<1>22. CASE SetPoll(p)
  <2>1. thr[p].plan # <<>> /\ Request(p) \in States
    BY <1>0, <1>3, <1>22 DEF SetPoll, Fits, OnStep
  <2> QED  BY <1>0, <1>4, <1>5, <1>7, <1>22, <2>1 DEF SetPoll
<1>23. CASE SetStatus(p)
  <2>1. ASSUME NEW q \in {"ack", "judge"}, NEW back \in {"judge", thr[p].back},
               q = "ack" => back = "judge", NEW got \in {Read, Lost},
               \/ thr' = [thr EXCEPT ![p].got = got, ![p].back = back, ![p].pc = q]
               \/ back = thr[p].back /\ thr' = [thr EXCEPT ![p].got = got, ![p].pc = q]
        PROVE  \E t : Fits(t) /\ Became(p, t)
    <3> DEFINE t == [thr[p] EXCEPT !.got = got, !.back = back, !.pc = q]
    <3>1. t \in ThreadStates
      BY <1>0, <1>2, <2>1 DEF ThreadStates
    <3>2. Became(p, t)
      <4>1. thr' = [thr EXCEPT ![p] = t]
        <5>1. CASE thr' = [thr EXCEPT ![p].got = got, ![p].back = back, ![p].pc = q]
          BY <1>0, <5>1
        <5>2. CASE back = thr[p].back /\ thr' = [thr EXCEPT ![p].got = got, ![p].pc = q]
          <6>1. t = [thr[p] EXCEPT !.got = got, !.pc = q]
            BY <1>0, <5>2 DEF ThreadStates
          <6> QED  BY <1>0, <5>2, <6>1
        <5> QED  BY <2>1, <5>1, <5>2
      <4> QED  BY <1>0, <3>1, <4>1 DEF Became
    <3>3. Fits(t)
      BY <1>0, <1>23, <2>1, <3>1 DEF SetStatus, Fits, OnStep, ThreadStates
    <3> QED  BY <3>2, <3>3
  <2>2. CASE thr' = [thr EXCEPT ![p].got = Read, ![p].back = "judge",
                                ![p].pc = IF dev.err THEN "ack" ELSE "judge"]
    BY <1>0, <1>4, <1>23, <2>1, <2>2 DEF SetStatus
  <2>3. CASE thr' = [thr EXCEPT ![p].got = Read, ![p].pc = "judge"]
    BY <1>0, <1>4, <1>23, <2>1, <2>3 DEF SetStatus
  <2>4. CASE thr' = [thr EXCEPT ![p].got = Lost, ![p].pc = "judge"]
    BY <1>0, <1>4, <1>23, <2>1, <2>4 DEF SetStatus
  <2> QED  BY <1>23, <2>2, <2>3, <2>4 DEF SetStatus
<1>24. CASE AckWrite(p)
  <2>1. thr[p].got.al \in States /\ thr[p].back \in {"recheck", "judge"}
    BY <1>0, <1>24, ThreadParts DEF AckWrite, Fits
  <2>2. thr[p].back = "judge" => thr[p].plan # <<>>
    BY <1>0, <1>24 DEF AckWrite, Fits, OnStep
  <2> QED  BY <1>0, <1>4, <1>5, <1>7, <1>24, <2>1, <2>2 DEF AckWrite
<1>25. CASE AckRead(p)
  <2>1. thr[p].back \in {"recheck", "judge"}
    BY <1>0, <1>25 DEF AckRead, Fits
  <2>2. thr[p].back = "judge" => thr[p].plan # <<>>
    BY <1>0, <1>25 DEF AckRead, Fits, OnStep
  <2> QED  BY <1>0, <1>4, <1>7, <1>25, <2>1, <2>2 DEF AckRead
<1>26. CASE SetReached(p)
  <2> DEFINE t == [thr[p] EXCEPT !.pc = "next", !.plan = Tail(thr[p].plan)]
  <2>1. thr[p].plan # <<>>
    BY <1>0, <1>26 DEF SetReached, Fits, OnStep
  <2>2. t \in ThreadStates
    BY <1>0, <1>3, <2>1 DEF ThreadStates, Steps
  <2>3. Became(p, t)
    BY <1>0, <1>26, <2>2 DEF SetReached, Became
  <2>4. Fits(t)
    BY <1>0, <1>26, <2>2 DEF SetReached, Fits, OnStep, ThreadStates
  <2>5. slv' \in [expected : States, active : BOOLEAN, mbx : BOOLEAN]
    BY <1>0, <1>26 DEF SetReached
  <2> QED  BY <1>0, <1>26, <2>3, <2>4, <2>5 DEF SetReached
<1>27. CASE SetRepeat(p)
  BY <1>0, <1>7, <1>27 DEF SetRepeat, Fits, OnStep
<1>28. CASE SetExpired(p)
  <2>1. slv' \in [expected : States, active : BOOLEAN, mbx : BOOLEAN]
    BY <1>0, <1>28 DEF SetExpired
  <2> QED  BY <1>0, <1>4, <1>8, <1>28, <2>1 DEF SetExpired
<1> QED
  BY <1>11, <1>12, <1>13, <1>14, <1>15, <1>16, <1>17, <1>18, <1>19, <1>20, <1>21, <1>22,
     <1>23, <1>24, <1>25, <1>26, <1>27, <1>28 DEF TransitionNext

-----------------------------------------------------------------------------
(* What ec_set_state and the supervision have to do.                       *)

LEMMA WhenIn ==
    ASSUME NEW S, NEW c \in BOOLEAN, NEW s \in Seq(S)
    PROVE  When(c, s) \in Seq(S)
BY DEF When

LEMMA SeqOf ==
    ASSUME NEW S, NEW P, NEW t \in Seq(S), \A i \in 1 .. Len(t) : t[i] \in P
    PROVE  t \in Seq(P)
<1>1. t = [i \in 1 .. Len(t) |-> t[i]] /\ Len(t) \in Nat
  OBVIOUS
<1>2. t \in [1 .. Len(t) -> P]
  BY <1>1
<1> QED  BY <1>1, <1>2

LEMMA Joined ==
    ASSUME NEW S, NEW s \in Seq(S), NEW t \in Seq(S)
    PROVE  s \o t \in Seq(S)
OBVIOUS

LEMMA TaskSets ==
    /\ Drops \subseteq Tasks /\ Plain \subseteq Drops
    /\ \A s \in States : Transition(s) \in Tasks /\ Master(s) \in Tasks
    /\ \A must \in BOOLEAN : Scan(must) \in Tasks
    /\ Prepare \in Tasks /\ Prepare \in Plain
    /\ \A r \in {"INIT"} \cup Working : Transition(r) \in Plain
<1>1. {"INIT"} \cup Working \subseteq States /\ "SAFEOP" \in States
  BY StateSet DEF Working
<1>2. \A s \in States : Transition(s) \in Tasks /\ Master(s) \in Tasks
  BY DEF Transition, Master, Tasks, Works
<1>3. Prepare \in Tasks
  BY <1>1 DEF Prepare, Tasks, Works
<1>4. \A must \in BOOLEAN : Scan(must) \in Tasks
  BY StateSet DEF Scan, Tasks, Works
<1> QED  BY <1>1, <1>2, <1>3, <1>4 DEF Plain, Drops

\* What is left of three elements and more when two are gone.
LEMMA ThreeAndMore ==
    ASSUME NEW S, NEW P, P \subseteq S, NEW x \in S, NEW y \in S, NEW z \in P, NEW s \in Seq(P)
    PROVE  /\ <<x, y, z>> \o s \in Seq(S) /\ <<x, y, z>> \o s # <<>> /\ Head(<<x, y, z>> \o s) = x
           /\ Tail(<<x, y, z>> \o s) # <<>> /\ Head(Tail(<<x, y, z>> \o s)) = y
           /\ Tail(Tail(<<x, y, z>> \o s)) \in Seq(P)
<1> DEFINE t == <<x, y, z>> \o s
<1>1. /\ s \in Seq(S) /\ <<x, y, z>> \in Seq(S) /\ Len(<<x, y, z>>) = 3 /\ Len(s) \in Nat
      /\ \A i \in 1 .. Len(s) : s[i] \in P
  OBVIOUS
<1>2. /\ t \in Seq(S) /\ Len(t) = 3 + Len(s)
      /\ t[1] = x /\ t[2] = y /\ t[3] = z
      /\ \A i \in 4 .. Len(t) : t[i] = s[i - 3]
  BY <1>1
<1> HIDE DEF t
<1>3. /\ Tail(t) \in Seq(S) /\ Len(Tail(t)) = 2 + Len(s)
      /\ \A i \in 1 .. 2 + Len(s) : Tail(t)[i] = t[i + 1]
  BY <1>1, <1>2
<1>4. /\ Tail(Tail(t)) \in Seq(S) /\ Len(Tail(Tail(t))) = 1 + Len(s)
      /\ \A i \in 1 .. 1 + Len(s) : Tail(Tail(t))[i] = Tail(t)[i + 1]
  BY <1>1, <1>3, SMTT(30)
<1>5. ASSUME NEW i \in 1 .. 1 + Len(s) PROVE Tail(Tail(t))[i] \in P
  <2>1. Tail(Tail(t))[i] = t[i + 2]
    <3>1. i + 1 \in 1 .. 2 + Len(s) /\ (i + 1) + 1 = i + 2
      BY <1>1
    <3> QED  BY <1>3, <1>4, <3>1
  <2>2. CASE i = 1
    BY <1>2, <2>1, <2>2
  <2>3. CASE i # 1
    <3>1. i + 2 \in 4 .. Len(t) /\ (i + 2) - 3 \in 1 .. Len(s)
      BY <1>1, <1>2, <2>3
    <3> QED  BY <1>1, <1>2, <2>1, <3>1
  <2> QED  BY <2>2, <2>3
<1>6. Tail(Tail(t)) \in Seq(P)
  <2> DEFINE w == Tail(Tail(t))
  <2>1. w \in Seq(S) /\ \A i \in 1 .. Len(w) : w[i] \in P
    BY <1>4, <1>5
  <2> HIDE DEF w
  <2>2. w \in Seq(P)
    BY <2>1, SeqOf
  <2> QED  BY <2>2 DEF w
<1>7. /\ t \in Seq(S) /\ t # <<>> /\ Head(t) = x
      /\ Tail(t) # <<>> /\ Head(Tail(t)) = y /\ Tail(Tail(t)) \in Seq(P)
  BY <1>1, <1>2, <1>3, <1>6
<1> QED  BY <1>7 DEF t

LEMMA RungIn ==
    ASSUME NEW S, Plain \subseteq S, NEW r \in {"INIT"} \cup Working
    PROVE  Rung(r) \in Seq(S)
<1>1. Transition(r) \in S /\ Prepare \in S
  BY TaskSets
<1> QED  BY <1>1 DEF Rung

LEMMA UpwardsIn ==
    ASSUME NEW S, Plain \subseteq S, NEW m \in States, NEW s \in States
    PROVE  Upwards(m, s) \in Seq(S)
<1> DEFINE passes(r) == (Rank[m] < Rank[r] \/ (m = s /\ m = r)) /\ Rank[r] <= Rank[s]
           a == When(passes("PREOP"), Rung("PREOP"))
           b == When(passes("SAFEOP"), Rung("SAFEOP"))
           c == When(passes("OP"), Rung("OP"))
<1>1. a \in Seq(S) /\ b \in Seq(S) /\ c \in Seq(S)
  <2>1. Rung("PREOP") \in Seq(S) /\ Rung("SAFEOP") \in Seq(S) /\ Rung("OP") \in Seq(S)
    BY RungIn DEF Working
  <2> HIDE DEF passes
  <2> QED  BY <2>1 DEF When
<1>2. Upwards(m, s) = a \o b \o c
  BY DEF Upwards
<1> HIDE DEF a, b, c
<1> QED  BY <1>1, <1>2

\* Down to PREOP or SAFEOP, without a new scan.
LEMMA DownwardsIn ==
    ASSUME NEW m \in States, NEW s \in States
    PROVE  /\ Downwards(m, s) \in Seq(Tasks)
           /\ s \in Working => Downwards(m, s) \in Seq(Drops)
<1> DEFINE passes(r) == Rank[r] < Rank[m] /\ (Rank[s] <= Rank[r] \/ s = "BOOT")
           a == When(passes("SAFEOP"), Drop("SAFEOP"))
           b == When(passes("PREOP"), Drop("PREOP"))
           c == When(passes("INIT"), Drop("INIT") \o <<Scan(FALSE), Transition("INIT")>>)
           d == When(s = "BOOT", <<Transition(s)>>)
<1>1. Downwards(m, s) = a \o b \o c \o d
  BY DEF Downwards
<1>2. Drop("SAFEOP") \in Seq(Drops) /\ Drop("PREOP") \in Seq(Drops)
  <2>1. \A r \in Working : Transition(r) \in Drops /\ Master(r) \in Drops
    BY TaskSets DEF Drops
  <2> QED  BY <2>1 DEF Drop, Working
<1>3. a \in Seq(Drops) /\ b \in Seq(Drops) /\ a \in Seq(Tasks) /\ b \in Seq(Tasks)
  <2>1. Drop("SAFEOP") \in Seq(Tasks) /\ Drop("PREOP") \in Seq(Tasks)
    BY <1>2, TaskSets
  <2> HIDE DEF passes
  <2> QED  BY <1>2, <2>1 DEF When
<1>4. c \in Seq(Tasks) /\ d \in Seq(Tasks)
  <2>1. Drop("INIT") \o <<Scan(FALSE), Transition("INIT")>> \in Seq(Tasks)
    <3>1. /\ Transition("INIT") \in Tasks /\ Master("INIT") \in Tasks
          /\ Scan(FALSE) \in Tasks
      BY TaskSets, StateSet
    <3>2. Drop("INIT") = <<Transition("INIT"), Master("INIT")>>
      BY DEF Drop
    <3>4. \A x \in Tasks, y \in Tasks : <<x, y>> \in Seq(Tasks)
      OBVIOUS
    <3>3. Drop("INIT") \in Seq(Tasks) /\ <<Scan(FALSE), Transition("INIT")>> \in Seq(Tasks)
      BY <3>1, <3>2, <3>4, Zenon
    <3> QED  BY <3>3, Joined
  <2>2. <<Transition(s)>> \in Seq(Tasks)
    BY TaskSets
  <2> HIDE DEF passes
  <2>3. <<>> \in Seq(Tasks)
    OBVIOUS
  <2>4. c \in Seq(Tasks)
    BY <2>1, <2>3 DEF When
  <2>5. d \in Seq(Tasks)
    BY <2>2, <2>3 DEF When
  <2> QED  BY <2>4, <2>5
<1>5. s \in Working => c = <<>> /\ d = <<>>
  BY StateSet DEF When, Working
<1> HIDE DEF a, b, c, d
<1>6. Downwards(m, s) \in Seq(Tasks)
  BY <1>1, <1>3, <1>4
<1>7. ASSUME s \in Working PROVE Downwards(m, s) \in Seq(Drops)
  BY <1>1, <1>3, <1>5, <1>7
<1> QED  BY <1>6, <1>7

LEMMA JobsIn ==
    ASSUME NEW m \in States, NEW s \in States
    PROVE  /\ Jobs(m, s) \in Seq(Tasks)
           /\ m = "UNKNOWN" /\ s \in {"INIT"} \cup Working =>
                 /\ Jobs(m, s) # <<>> /\ Head(Jobs(m, s)) = Transition("INIT")
                 /\ Tail(Jobs(m, s)) # <<>> /\ Head(Tail(Jobs(m, s))) = Scan(TRUE)
                 /\ Tail(Tail(Jobs(m, s))) \in Seq(Plain)
           /\ m \in {"INIT"} \cup Working /\ s \in Working => Jobs(m, s) \in Seq(Drops)
<1>1. Upwards(m, s) \in Seq(Tasks) /\ Upwards(m, s) \in Seq(Drops) /\ Downwards(m, s) \in Seq(Tasks)
  BY UpwardsIn, DownwardsIn, TaskSets
<1>2. Upwards("INIT", s) \in Seq(Plain)
  BY UpwardsIn, StateSet
<1> DEFINE again == <<Transition("INIT"), Scan(TRUE), Transition("INIT")>> \o Upwards("INIT", s)
           up    == m \in {"INIT"} \cup Working /\ s \in Working /\ Rank[m] <= Rank[s]
           anew  == (m \in {"UNKNOWN", "BOOT"} /\ s # "BOOT") \/ (m = "INIT" /\ s = "INIT")
<1>3. /\ again \in Seq(Tasks) /\ again # <<>> /\ Head(again) = Transition("INIT")
      /\ Tail(again) # <<>> /\ Head(Tail(again)) = Scan(TRUE) /\ Tail(Tail(again)) \in Seq(Plain)
  <2>1. /\ Plain \subseteq Tasks /\ Transition("INIT") \in Tasks /\ Scan(TRUE) \in Tasks
        /\ Transition("INIT") \in Plain
    BY TaskSets, StateSet
  <2> QED  BY <1>2, <2>1, ThreeAndMore, Zenon DEF again
<1> HIDE DEF again
<1>5. CASE m = "UNKNOWN" /\ s = "BOOT"
  BY <1>5 DEF Jobs, Working
<1>6. CASE m = "BOOT" /\ s = "BOOT"
  BY <1>6, TaskSets DEF Jobs, Working
<1>7. CASE anew
  <2>1. Jobs(m, s) = again
    BY <1>7 DEF Jobs, Working, again
  <2> QED  BY <1>3, <1>7, <2>1 DEF Working
<1>8. CASE up
  <2>1. Jobs(m, s) = Upwards(m, s)
    BY <1>8 DEF Jobs, Working
  <2> QED  BY <1>1, <1>8, <2>1 DEF Working
<1>9. CASE ~(m = "UNKNOWN" /\ s = "BOOT") /\ ~(m = "BOOT" /\ s = "BOOT") /\ ~anew /\ ~up
  <2>1. Jobs(m, s) = Downwards(m, s)
    BY <1>9 DEF Jobs, Working
  <2> QED  BY <1>9, <2>1, DownwardsIn
<1> QED  BY <1>5, <1>6, <1>7, <1>8, <1>9

LEMMA RestoreIn ==
    ASSUME NEW e \in States
    PROVE  Restore(e) \in Seq(Plain)
<1> DEFINE a == When(Rank["PREOP"] <= Rank[e], Rung("PREOP"))
           b == When(Rank["SAFEOP"] <= Rank[e], Rung("SAFEOP"))
           c == When(Rank["OP"] <= Rank[e], Rung("OP"))
<1>1. /\ Rung("INIT") \in Seq(Plain) /\ Rung("PREOP") \in Seq(Plain)
      /\ Rung("SAFEOP") \in Seq(Plain) /\ Rung("OP") \in Seq(Plain)
  BY RungIn DEF Working
<1>2. a \in Seq(Plain) /\ b \in Seq(Plain) /\ c \in Seq(Plain)
  BY <1>1 DEF When
<1>3. Restore(e) = Rung("INIT") \o a \o b \o c
  BY DEF Restore
<1> HIDE DEF a, b, c
<1> QED  BY <1>1, <1>2, <1>3

LEMMA InitTyped == Init => Shaped
<1> SUFFICES ASSUME Init PROVE Shaped
  OBVIOUS
<1>1. \A p \in Threads : thr[p] = [IdleThread EXCEPT !.strict = p = "async"] /\ thr[p] \in ThreadStates
  <2>1. <<>> \in Seq([do : Works, st : States])
        /\ <<>> \in Seq([prep : {"none", "mbx", "dc", "adr", "free"}, st : States])
    OBVIOUS
  <2>2. IdleThread \in ThreadStates
    BY <2>1, StateSet DEF IdleThread, ThreadStates, Lost, Places
  <2>3. \A b \in BOOLEAN : [IdleThread EXCEPT !.strict = b] \in ThreadStates
    BY <2>2 DEF ThreadStates
  <2> QED  BY <2>3 DEF Init
<1>2. thr \in [Threads -> ThreadStates]
  BY <1>1 DEF Init
<1>3. TypeOK
  <2>1. /\ dev \in [al : States \ {"UNKNOWN"}, err : BOOLEAN, adr : BOOLEAN,
                    ctl : {NULL} \cup [st : States, ack : BOOLEAN]]
        /\ slv \in [expected : States, active : BOOLEAN, mbx : BOOLEAN]
        /\ master \in States
    BY StateSet DEF Init
  <2>2. /\ MaxFaults \in Nat /\ MaxLosses \in Nat /\ MaxMessages \in Nat \ {0} /\ Len(Goals) \in Nat
        /\ faults \in 0 .. MaxFaults /\ losses \in 0 .. MaxLosses /\ calls \in 0 .. Len(Goals)
    BY SlaveAssumption, SupervisionAssumption DEF Init
  <2>3. /\ exec \in Seq({Groups[i] : i \in DOMAIN Groups}) /\ busy = NULL /\ Len(exec) = 0
    BY DEF Init
  <2>4. Len(exec) + (IF busy = NULL THEN 0 ELSE 1) <= MaxMessages
    BY <2>2, <2>3
  <2>5. lock = NULL /\ {known, pending, found, due} \subseteq BOOLEAN
    BY DEF Init
  <2> QED  BY <1>2, <2>1, <2>2, <2>3, <2>4, <2>5 DEF TypeOK
<1>4. \A p \in Threads : thr[p].pc = "idle"
  BY <1>1 DEF IdleThread
<1>5. \A p \in Threads : Fits(thr[p])
  BY <1>1, <1>4 DEF Fits, OnStep, Inside
<1>6. thr["app"].pc = "idle"
  BY <1>4, SupervisionAssumption
<1> QED  BY <1>3, <1>5, <1>6 DEF Shaped



\* ec_set_state and ec_scan keep the types.
LEMMA AppTyped ==
    ASSUME Shaped, AppCall \/ AppMaster \/ AppScan \/ AppFound \/ AppReturn
    PROVE  Shaped'
<1> DEFINE DevType == [al : States \ {"UNKNOWN"}, err : BOOLEAN, adr : BOOLEAN,
                       ctl : {NULL} \cup [st : States, ack : BOOLEAN]]
           Good == /\ \E t : Fits(t) /\ Became("app", t)
                   /\ dev' \in DevType
                   /\ slv' \in [expected : States, active : BOOLEAN, mbx : BOOLEAN]
                   /\ losses' \in 0 .. MaxLosses
                   /\ lock' \in Threads \cup {NULL}
                   /\ {known', pending', found'} \subseteq BOOLEAN
                   /\ master' \in States /\ calls' \in 0 .. Len(Goals)
                   /\ calls' # 0
                   /\ UNCHANGED <<faults, exec, busy, due>>
<1> DEFINE p == "app"
<1>0. /\ thr \in [Threads -> ThreadStates] /\ thr[p] \in ThreadStates /\ p \in Threads
      /\ thr[p].pc # "idle" => calls # 0
      /\ dev \in DevType
      /\ slv \in [expected : States, active : BOOLEAN, mbx : BOOLEAN]
      /\ losses \in 0 .. MaxLosses /\ MaxLosses \in Nat
      /\ lock \in Threads \cup {NULL}
      /\ {known, pending, found} \subseteq BOOLEAN
      /\ master \in States /\ calls \in 0 .. Len(Goals)
      /\ Fits(thr[p]) /\ Goals \in Seq(States)
  BY SlaveAssumption, SupervisionAssumption DEF Shaped, TypeOK
<1>1. SUFFICES Good
  <2>1. ASSUME Good PROVE Shaped'
    <3>2. TypeOK'
      BY <2>1 DEF Shaped, TypeOK, Became
    <3>3. ASSUME NEW q \in Threads PROVE Fits(thr'[q])
      BY <2>1 DEF Became, Shaped
    <3> QED  BY <3>2, <3>3 DEF Shaped
  <2> QED  BY <2>1
<1> HIDE DEF Good, DevType
<1>2. Lost \in [al : States, err : BOOLEAN]
  BY StateSet DEF Lost
<1>3. /\ thr[p].jobs \in Seq(Tasks) /\ thr[p].plan \in Seq(Steps)
      /\ thr[p].jobs # <<>> => Target(p) \in States /\ Tail(thr[p].jobs) \in Seq(Tasks)
  BY <1>0, ThreadParts DEF Target, Tasks, Steps
<1>4. /\ Loss => losses' \in 0 .. MaxLosses
      /\ Kept => losses' \in 0 .. MaxLosses
  BY <1>0 DEF Loss, Kept
<1>6. ASSUME NEW t, Became(p, t) PROVE t \in ThreadStates
  BY <1>0, <1>6 DEF Became
<1>7. ASSUME NEW q \in {"scan", "idle"}, Goto(p, q), q = "scan" => thr[p].jobs # <<>>
      PROVE  \E t : Fits(t) /\ Became(p, t)
  <2> DEFINE t == [thr[p] EXCEPT !.pc = q]
  <2>1. Became(p, t)
    BY <1>0, <1>7, GotoIs DEF Places
  <2>2. Fits(t)
    <3>1. t \in ThreadStates
      BY <1>6, <2>1
    <3> QED  BY <1>0, <1>7, <3>1 DEF Fits, OnStep, ThreadStates, Inside
  <2> QED  BY <2>1, <2>2
<1>9. ASSUME JobDone(p, TRUE), thr[p].jobs # <<>>
      PROVE  \E t : Fits(t) /\ Became(p, t)
  <2> DEFINE t == [thr[p] EXCEPT !.pc = "call", !.ok = TRUE, !.got = Lost,
                                 !.jobs = IF thr[p].strict /\ ~TRUE THEN <<>> ELSE Tail(thr[p].jobs)]
  <2>1. Became(p, t)
    BY <1>0, <1>9, JobDoneIs
  <2>2. Fits(t)
    <3>1. t \in ThreadStates
      BY <1>6, <2>1
    <3>2. t.pc = "call"
      BY <1>0 DEF ThreadStates
    <3> QED  BY <3>1, <3>2 DEF Fits, OnStep, Inside
  <2> QED  BY <2>1, <2>2
<1>10. ASSUME NEW jobs \in Seq(Tasks), thr' = [thr EXCEPT ![p].pc = "call", ![p].jobs = jobs]
       PROVE  \E t : Fits(t) /\ Became(p, t)
  <2> DEFINE t == [thr[p] EXCEPT !.pc = "call", !.jobs = jobs]
  <2>1. t \in ThreadStates
    BY <1>0 DEF ThreadStates, Tasks, Places
  <2>2. Became(p, t)
    BY <1>0, <1>10, <2>1 DEF Became
  <2>3. t.pc = "call"
    BY <1>0 DEF ThreadStates
  <2>4. Fits(t)
    BY <2>1, <2>3 DEF Fits, OnStep, Inside
  <2> QED  BY <2>2, <2>4
<1>11. CASE AppCall
  <2>1. calls + 1 \in 1 .. Len(Goals) /\ Goals[calls + 1] \in States
    BY <1>0, <1>11 DEF AppCall
  <2>2. \E t : Fits(t) /\ Became(p, t)
    <3>1. Jobs(master, Goals[calls + 1]) \in Seq(Tasks)
      BY <1>0, <2>1, JobsIn
    <3> QED  BY <1>10, <1>11, <3>1 DEF AppCall
  <2> QED  BY <1>0, <1>11, <2>1, <2>2 DEF AppCall, Good, avars
<1>12. CASE AppMaster
  <2>1. \E t : Fits(t) /\ Became(p, t)
    BY <1>9, <1>12 DEF AppMaster, Doing
  <2>2. master' \in States
    BY <1>3, <1>12 DEF AppMaster, Doing
  <2> QED  BY <1>0, <1>12, <2>1, <2>2 DEF AppMaster, Doing, Good, avars, Step
<1>5. [st |-> "INIT", ack |-> TRUE] \in [st : States, ack : BOOLEAN]
  BY StateSet
<1>13. CASE AppScan
  <2>1. \E t : Fits(t) /\ Became(p, t)
    BY <1>7, <1>13 DEF AppScan, Doing
  <2>2. dev' \in DevType
    BY <1>0, <1>5, <1>13 DEF AppScan, DevType
  <2>3. slv' \in [expected : States, active : BOOLEAN, mbx : BOOLEAN]
    BY <1>0, <1>13 DEF AppScan
  <2> QED  BY <1>0, <1>4, <1>13, <2>1, <2>2, <2>3 DEF AppScan, Doing, Good, avars, mvars, Step
<1>14. CASE AppFound
  <2>1. thr[p].jobs # <<>>
    BY <1>0, <1>14 DEF AppFound, Step, Fits
  <2>2. \E t : Fits(t) /\ Became(p, t)
    <3>1. <<>> \in Seq(Tasks)
      OBVIOUS
    <3> QED  BY <1>9, <1>10, <1>14, <2>1, <3>1 DEF AppFound
  <2>3. dev' \in DevType
    BY <1>0, <1>5, <1>14 DEF AppFound, DevType
  <2>4. slv' \in [expected : States, active : BOOLEAN, mbx : BOOLEAN]
    <3>1. [expected |-> "UNKNOWN", active |-> FALSE, mbx |-> FALSE]
             \in [expected : States, active : BOOLEAN, mbx : BOOLEAN]
      BY StateSet
    <3>2. slv' = [expected |-> "UNKNOWN", active |-> FALSE, mbx |-> FALSE] \/ slv' = slv
      BY <1>14 DEF AppFound
    <3> QED  BY <1>0, <3>1, <3>2
  <2>5. lock' \in Threads \cup {NULL} /\ {known', pending'} \subseteq BOOLEAN
    BY <1>0, <1>14 DEF AppFound
  <2>6. found' \in BOOLEAN
    <3>1. (Head(thr["app"].jobs).do = "rescan") \in BOOLEAN
      OBVIOUS
    <3>2. found' = (Head(thr["app"].jobs).do = "rescan") \/ found' = found
      BY <1>14 DEF AppFound
    <3>3. found \in BOOLEAN
      BY <1>0
    <3> QED  BY <3>1, <3>2, <3>3, Zenon
  <2> QED  BY <1>0, <1>4, <1>14, <2>2, <2>3, <2>4, <2>5, <2>6 DEF AppFound, Good, avars, Step
<1>15. CASE AppReturn
  <2>1. \E t : Fits(t) /\ Became(p, t)
    BY <1>7, <1>15 DEF AppReturn
  <2>2. master' \in States
    <3>1. calls \in 1 .. Len(Goals)
      BY <1>0, <1>15 DEF AppReturn, Step
    <3> QED  BY <1>0, <1>15, <3>1 DEF AppReturn
  <2> QED  BY <1>0, <1>15, <2>1, <2>2 DEF AppReturn, Good, avars, Step
<1> QED  BY <1>11, <1>12, <1>13, <1>14, <1>15

\* The receive callbacks, the timer and the loop keep the pool of messages.
LEMMA ExecParts ==
    ASSUME Shaped
    PROVE  /\ exec \in Seq({Groups[i] : i \in DOMAIN Groups}) /\ Len(exec) \in Nat
           /\ MaxMessages \in Nat /\ 1 \in DOMAIN Groups
           /\ exec # <<>> => /\ Tail(exec) \in Seq({Groups[i] : i \in DOMAIN Groups})
                             /\ Len(Tail(exec)) = Len(exec) - 1
BY SupervisionAssumption DEF Shaped, TypeOK

LEMMA GroupTyped ==
    ASSUME Shaped, NEW i \in DOMAIN Groups, ec_async_check_group(Groups[i])
    PROVE  Shaped'
<1>1. exec' \in Seq({Groups[j] : j \in DOMAIN Groups})
  BY ExecParts DEF ec_async_check_group
<1>2. Len(exec') + (IF busy = NULL THEN 0 ELSE 1) <= MaxMessages
  <2>1. CASE Available
    <3>1. exec' = Append(exec, Groups[i]) /\ Len(exec') = Len(exec) + 1
      BY <2>1, ExecParts DEF ec_async_check_group
    <3> QED  BY <2>1, <3>1, ExecParts DEF Available
  <2>2. CASE ~Available
    BY <2>2, ExecParts DEF ec_async_check_group, Shaped, TypeOK
  <2> QED  BY <2>1, <2>2
<1>3. due' \in BOOLEAN /\ UNCHANGED <<dev, slv, lock, known, thr, faults, losses, master, pending, calls, found, busy>>
  BY DEF ec_async_check_group, svars, mvars
<1>4. TypeOK'
  BY <1>1, <1>2, <1>3 DEF Shaped, TypeOK
<1> QED  BY <1>3, <1>4 DEF Shaped

LEMMA AsyncTyped ==
    ASSUME Shaped, AsyncTake \/ AsyncCheck \/ AsyncDecide \/ AsyncRepair \/ AsyncDone
    PROVE  Shaped'
<1> DEFINE p == "async"
           Good == /\ thr' = thr \/ \E t : Fits(t) /\ Became("async", t)
                   /\ losses' \in 0 .. MaxLosses
                   /\ exec' \in Seq({Groups[i] : i \in DOMAIN Groups})
                   /\ busy' \in {Own, NULL}
                   /\ Len(exec') + (IF busy' = NULL THEN 0 ELSE 1) <= MaxMessages
                   /\ UNCHANGED <<dev, slv, lock, known, faults, master, pending, calls, found, due>>
<1>0. /\ thr \in [Threads -> ThreadStates] /\ thr[p] \in ThreadStates /\ p \in Threads
      /\ losses \in 0 .. MaxLosses /\ MaxLosses \in Nat
      /\ Fits(thr[p]) /\ slv.expected \in States
      /\ busy \in {Own, NULL} /\ Own # NULL
      /\ Len(exec) + (IF busy = NULL THEN 0 ELSE 1) <= MaxMessages
      /\ Read \in [al : States, err : BOOLEAN] /\ Lost \in [al : States, err : BOOLEAN]
  BY SlaveAssumption, SupervisionAssumption, StateSet DEF Shaped, TypeOK, Read, Lost
<1>1. SUFFICES Good
  <2>1. ASSUME Good PROVE Shaped'
    <3>1. thr' \in [Threads -> ThreadStates] /\ \A q \in Threads : Fits(thr'[q])
      BY <2>1, <1>0 DEF Shaped, Became
    <3>2. TypeOK'
      BY <2>1, <3>1 DEF Shaped, TypeOK
    <3>3. thr'["app"] = thr["app"]
      BY <2>1, SupervisionAssumption DEF Became
    <3> QED  BY <2>1, <3>1, <3>2, <3>3 DEF Shaped
  <2> QED  BY <2>1
<1> HIDE DEF Good
<1>4. /\ Loss => losses' \in 0 .. MaxLosses
      /\ Kept => losses' \in 0 .. MaxLosses
  BY <1>0 DEF Loss, Kept
<1>6. ASSUME NEW t, Became(p, t) PROVE t \in ThreadStates
  BY <1>0, <1>6 DEF Became
<1>7. ASSUME NEW q \in {"idle", "call", "check", "decide", "repair"}, Goto(p, q)
      PROVE  \E t : Fits(t) /\ Became(p, t)
  <2> DEFINE t == [thr[p] EXCEPT !.pc = q]
  <2>1. Became(p, t)
    BY <1>0, <1>7, GotoIs DEF Places
  <2>2. Fits(t)
    <3>1. t \in ThreadStates
      BY <1>6, <2>1
    <3>2. t.pc = q
      BY <1>0 DEF ThreadStates
    <3> QED  BY <3>1, <3>2 DEF Fits, OnStep, Inside
  <2> QED  BY <2>1, <2>2
<1>8. ASSUME NEW got \in {Read, Lost}, thr' = [thr EXCEPT ![p].got = got, ![p].pc = "decide"]
      PROVE  \E t : Fits(t) /\ Became(p, t)
  <2> DEFINE t == [thr[p] EXCEPT !.got = got, !.pc = "decide"]
  <2>1. t \in ThreadStates
    BY <1>0 DEF ThreadStates, Places
  <2>2. Became(p, t)
    BY <1>0, <1>8, <2>1 DEF Became
  <2>3. t.pc = "decide"
    BY <1>0 DEF ThreadStates
  <2>4. Fits(t)
    BY <2>1, <2>3 DEF Fits, OnStep, Inside
  <2> QED  BY <2>2, <2>4
<1>10. ASSUME NEW jobs \in Seq(Tasks), thr' = [thr EXCEPT ![p].pc = "call", ![p].jobs = jobs]
       PROVE  \E t : Fits(t) /\ Became(p, t)
  <2> DEFINE t == [thr[p] EXCEPT !.pc = "call", !.jobs = jobs]
  <2>1. t \in ThreadStates
    BY <1>0 DEF ThreadStates, Tasks, Places
  <2>2. Became(p, t)
    BY <1>0, <1>10, <2>1 DEF Became
  <2>3. t.pc = "call"
    BY <1>0 DEF ThreadStates
  <2>4. Fits(t)
    BY <2>1, <2>3 DEF Fits, OnStep, Inside
  <2> QED  BY <2>2, <2>4
<1>11. /\ Restore(slv.expected) \in Seq(Tasks)
       /\ <<Transition(slv.expected)>> \in Seq(Tasks)
  <2>1. Transition(slv.expected) \in Tasks /\ Plain \subseteq Tasks
    BY <1>0, TaskSets
  <2> QED  BY <1>0, <2>1, RestoreIn
<1>12. CASE AsyncTake
  <2>1. thr' = thr \/ \E t : Fits(t) /\ Became(p, t)
    BY <1>7, <1>12 DEF AsyncTake
  <2>2. /\ exec' \in Seq({Groups[i] : i \in DOMAIN Groups}) /\ busy' \in {Own, NULL}
        /\ Len(exec') + (IF busy' = NULL THEN 0 ELSE 1) <= MaxMessages
    BY <1>0, <1>12, ExecParts DEF AsyncTake
  <2> QED  BY <1>0, <1>12, <2>1, <2>2 DEF AsyncTake, Good, mvars
<1>13. CASE AsyncCheck
  <2>1. \E t : Fits(t) /\ Became(p, t)
    BY <1>8, <1>13 DEF AsyncCheck
  <2> QED  BY <1>0, <1>4, <1>13, <2>1, ExecParts DEF AsyncCheck, Good, mvars, avars
<1>14. CASE AsyncDecide
  <2>1. \E t : Fits(t) /\ Became(p, t)
    BY <1>7, <1>10, <1>11, <1>14 DEF AsyncDecide
  <2>2. losses' \in 0 .. MaxLosses
    BY <1>4, <1>14 DEF AsyncDecide
  <2> QED  BY <1>0, <1>14, <2>1, <2>2, ExecParts DEF AsyncDecide, Good, mvars, avars
<1>15. CASE AsyncRepair
  <2>1. \E t : Fits(t) /\ Became(p, t)
    BY <1>10, <1>11, <1>15 DEF AsyncRepair
  <2> QED  BY <1>0, <1>15, <2>1, ExecParts DEF AsyncRepair, Good, mvars, avars
<1>16. CASE AsyncDone
  <2>1. \E t : Fits(t) /\ Became(p, t)
    BY <1>7, <1>16 DEF AsyncDone
  <2>2. busy' = NULL /\ Len(exec) <= MaxMessages
    BY <1>0, <1>16, ExecParts DEF AsyncDone
  <2> QED  BY <1>0, <1>16, <2>1, <2>2, ExecParts DEF AsyncDone, Good, mvars
<1> QED  BY <1>12, <1>13, <1>14, <1>15, <1>16

LEMMA DeviceTyped ==
    ASSUME Shaped, Serve \/ Fault, Rest
    PROVE  Shaped'
<1> DEFINE DevType == [al : States \ {"UNKNOWN"}, err : BOOLEAN, adr : BOOLEAN,
                       ctl : {NULL} \cup [st : States, ack : BOOLEAN]]
<1>0. dev \in DevType /\ faults \in 0 .. MaxFaults /\ MaxFaults \in Nat
  BY SlaveAssumption DEF Shaped, TypeOK
<1>1. ASSUME dev' \in DevType, faults' \in 0 .. MaxFaults PROVE Shaped'
  <2>1. UNCHANGED <<slv, lock, known, thr, losses, master, pending, calls, found, exec, busy, due>>
    BY DEF Serve, Fault, Rest, mvars, avars
  <2>2. TypeOK'
    BY <1>1, <2>1 DEF Shaped, TypeOK
  <2> QED  BY <2>1, <2>2 DEF Shaped
<1>2. CASE Serve
  <2>1. dev.ctl \in [st : States, ack : BOOLEAN] /\ dev.al # "UNKNOWN"
    BY <1>0, <1>2 DEF Serve
  <2>2. \A s : Legal(dev.al, s) => s # "UNKNOWN"
    BY <1>0, <2>1, StateSet DEF Legal
  <2> DEFINE idle == [dev EXCEPT !.ctl = NULL, !.err = dev.err /\ ~dev.ctl.ack]
  <2>3. idle \in DevType
    <3>1. (dev.err /\ ~dev.ctl.ack) \in BOOLEAN
      OBVIOUS
    <3> QED  BY <1>0, <3>1
  <2>4. Served(dev) \in DevType
    <3>1. Served(dev) = IF idle.err THEN idle
                        ELSE IF Legal(dev.al, dev.ctl.st) THEN [idle EXCEPT !.al = dev.ctl.st]
                        ELSE [idle EXCEPT !.err = TRUE]
      BY DEF Served
    <3> HIDE DEF idle
    <3>2. /\ Legal(dev.al, dev.ctl.st) => [idle EXCEPT !.al = dev.ctl.st] \in DevType
          /\ [idle EXCEPT !.err = TRUE] \in DevType
      BY <2>1, <2>2, <2>3
    <3> QED  BY <2>3, <3>1, <3>2
  <2> QED  BY <1>0, <1>1, <1>2, <2>4 DEF Serve
<1>3. CASE Fault
  <2>1. dev' \in DevType
    <3>1. [dev EXCEPT !.ctl = NULL, !.err = TRUE] \in DevType
      BY <1>0
    <3>2. \A s \in Falls : [dev EXCEPT !.al = s, !.err = TRUE] \in DevType
      BY <1>0, SlaveAssumption, StateSet
    <3>3. [al |-> "INIT", err |-> FALSE, ctl |-> NULL, adr |-> FALSE] \in DevType
      BY StateSet
    <3> QED  BY <1>3, <3>1, <3>2, <3>3 DEF Fault
  <2>2. faults < MaxFaults /\ faults' = faults + 1
    BY <1>3 DEF Fault
  <2>3. faults' \in 0 .. MaxFaults
    BY <1>0, <2>2
  <2> QED  BY <1>1, <2>1, <2>3
<1> QED  BY <1>2, <1>3

LEMMA NextTyped == Shaped /\ [Next]_vars => Shaped'
<1> SUFFICES ASSUME Shaped, [Next]_vars PROVE Shaped'
  OBVIOUS
<1>1. {"app", "async"} = Threads
  BY SupervisionAssumption
<1>2. CASE AppCall \/ AppMaster \/ AppScan \/ AppFound \/ AppReturn
  BY <1>2, AppTyped
<1>3. CASE \E p \in Threads : TransitionNext(p) /\ Rest
  BY <1>3, TransitionTyped
<1>4. CASE AsyncTake \/ AsyncCheck \/ AsyncDecide \/ AsyncRepair \/ AsyncDone
  BY <1>4, AsyncTyped
<1>5. CASE (Serve \/ Fault) /\ Rest
  BY <1>5, DeviceTyped
<1>6. CASE (\E i \in DOMAIN Groups : RxGroup(Groups[i])) \/ RxState
  BY <1>6, GroupTyped, ExecParts DEF RxGroup, RxState
<1>7. CASE TimerExpires
  <2>1. TypeOK'
    BY <1>7 DEF TimerExpires, svars, mvars, Shaped, TypeOK
  <2> QED  BY <1>7, <2>1 DEF TimerExpires, svars, mvars, Shaped
<1>8. CASE UNCHANGED vars
  <2>1. TypeOK'
    BY <1>8 DEF vars, svars, Shaped, TypeOK
  <2> QED  BY <1>8, <2>1 DEF vars, svars, Shaped
<1> QED
  BY <1>1, <1>2, <1>3, <1>4, <1>5, <1>6, <1>7, <1>8 DEF Next, AppNext, AsyncNext

\* The variables have their types, and no more messages are under way than the pool has,
\* whoever drives the slave and whatever it does (ec_async_check_group takes a free one).
THEOREM TypeCorrect == Spec => []TypeOK
<1>1. Init => Shaped
  BY InitTyped
<1>2. Shaped /\ [Next]_vars => Shaped'
  BY NextTyped
<1>3. Shaped => TypeOK
  BY DEF Shaped
<1> QED  BY <1>1, <1>2, <1>3, PTL DEF Spec

-----------------------------------------------------------------------------
(* What the steps of a transition do, field by field.                      *)

Others(p) == \A q \in Threads \ {p} : thr'[q] = thr[q]

\* The thread goes on at q with all that it has.
Moves(p, q) == /\ Others(p)
               /\ thr'[p].pc = q /\ thr'[p].strict = thr[p].strict /\ thr'[p].ok = thr[p].ok
               /\ thr'[p].jobs = thr[p].jobs /\ thr'[p].plan = thr[p].plan
               /\ thr'[p].got = thr[p].got /\ thr'[p].back = thr[p].back

\* The thread gives up or is done with the transition.
Leaves(p, ok) == /\ Others(p)
                 /\ thr'[p].pc = "unlock" /\ thr'[p].strict = thr[p].strict /\ thr'[p].ok = ok
                 /\ thr'[p].jobs = thr[p].jobs /\ thr'[p].plan = <<>> /\ thr'[p].got = thr[p].got

\* The thread goes to its next job; the loop gives up what is left when one has failed.
Returns(p, ok) == /\ Others(p) /\ thr[p].jobs # <<>>
                  /\ thr'[p].pc = "call" /\ thr'[p].strict = thr[p].strict /\ thr'[p].got = Lost
                  /\ thr'[p].jobs = IF thr[p].strict /\ ~ok THEN <<>> ELSE Tail(thr[p].jobs)
                  /\ thr'[p].plan = thr[p].plan

\* The thread has read the state of the slave.
Learns(p) == /\ Others(p)
             /\ thr'[p].strict = thr[p].strict /\ thr'[p].jobs = thr[p].jobs /\ thr'[p].got = Read
             /\ IF dev.err
                THEN thr'[p].pc = "ack" /\ thr'[p].back = "recheck" /\ thr'[p].plan = thr[p].plan
                ELSE thr'[p].pc = "next" /\ thr'[p].plan = Plan(dev.al, Target(p))

LEMMA GotoMoves ==
    ASSUME Shaped, NEW p \in Threads, NEW q, Goto(p, q) PROVE Moves(p, q)
<1>1. thr[p] \in ThreadStates /\ thr \in [Threads -> ThreadStates]
  BY DEF Shaped, TypeOK
<1> QED  BY <1>1 DEF Goto, Moves, Others, ThreadStates

LEMMA LeaveLeaves ==
    ASSUME Shaped, NEW p \in Threads, NEW ok, Leave(p, ok) PROVE Leaves(p, ok)
<1>1. thr[p] \in ThreadStates /\ thr \in [Threads -> ThreadStates]
  BY DEF Shaped, TypeOK
<1> QED  BY <1>1 DEF Leave, Leaves, Others, ThreadStates

LEMMA JobDoneReturns ==
    ASSUME Shaped, NEW p \in Threads, NEW ok \in BOOLEAN, JobDone(p, ok), thr[p].jobs # <<>> PROVE Returns(p, ok)
<1>1. thr[p] \in ThreadStates /\ thr \in [Threads -> ThreadStates]
  BY DEF Shaped, TypeOK
<1> QED  BY <1>1 DEF JobDone, Returns, Others, ThreadStates

LEMMA KnownLearns ==
    ASSUME Shaped, NEW p \in Threads, Known(p) PROVE Learns(p)
<1>1. thr[p] \in ThreadStates /\ thr \in [Threads -> ThreadStates]
  BY DEF Shaped, TypeOK
<1> QED  BY <1>1 DEF Known, Learns, Others, ThreadStates

\* The jobs of a thread, its place and the mutex.
MoveOf(p) ==
    /\ Others(p) /\ thr'[p].strict = thr[p].strict
    /\ thr[p].pc \notin Inside => UNCHANGED <<dev, slv>>
    /\ \/ /\ thr[p].pc \in Inside /\ thr'[p].pc \in Inside
          /\ thr'[p].jobs = thr[p].jobs /\ lock' = lock
       \/ /\ thr[p].pc = "call" /\ known /\ thr'[p].pc = "lock"
          /\ thr'[p].jobs = thr[p].jobs /\ lock' = lock
       \/ /\ thr[p].pc = "lock" /\ lock = NULL /\ thr'[p].pc = "first"
          /\ thr'[p].jobs = thr[p].jobs /\ lock' = p
       \/ /\ thr[p].jobs # <<>> /\ thr'[p].pc = "call"
          /\ thr'[p].jobs = Tail(thr[p].jobs) \/ (thr[p].strict /\ thr'[p].jobs = <<>>)
          /\ \/ thr[p].pc = "call" /\ Head(thr[p].jobs).do \in {"transition", "prepare"} /\ lock' = lock
             \/ thr[p].pc = "unlock" /\ lock' = NULL

\* What it has read, what it still has to ask for, and what it asks for.
DataOf(p) ==
    /\ thr'[p].got \in {thr[p].got, Read, Lost}
    /\ \/ thr'[p].plan \in {thr[p].plan, <<>>}
       \/ thr[p].plan # <<>> /\ thr'[p].plan = Tail(thr[p].plan)
       \/ thr[p].pc \in Inside /\ thr'[p].plan = Plan(dev.al, Target(p))
    /\ dev'.al \in {dev.al, "INIT"}
    /\ \/ dev'.ctl \in {NULL, dev.ctl}
       \/ dev'.ctl.st = thr[p].got.al
       \/ thr[p].plan # <<>> /\ dev'.ctl.st = Request(p)
    /\ \/ slv'.expected = slv.expected
       \/ thr[p].plan # <<>> /\ slv'.expected = Request(p)

LEMMA TransitionMoves ==
    ASSUME Shaped, NEW p \in Threads, TransitionNext(p)
    PROVE  MoveOf(p) /\ known' = known
<1>0. /\ thr[p] \in ThreadStates /\ Fits(thr[p]) /\ thr \in [Threads -> ThreadStates]
      /\ thr[p].ok \in BOOLEAN /\ thr[p].strict \in BOOLEAN
  BY ThreadParts DEF Shaped, TypeOK
<1>1. ASSUME NEW q \in Inside, Goto(p, q), thr[p].pc \in Inside, lock' = lock
      PROVE  MoveOf(p)
  BY <1>1, GotoMoves DEF MoveOf, Moves
<1>2. ASSUME NEW ok \in BOOLEAN, Leave(p, ok), thr[p].pc \in Inside, lock' = lock
      PROVE  MoveOf(p)
  BY <1>2, LeaveLeaves DEF MoveOf, Leaves, Inside
<1>3. ASSUME Known(p), thr[p].pc \in Inside, lock' = lock
      PROVE  MoveOf(p)
  BY <1>3, KnownLearns DEF MoveOf, Learns, Inside
<1>4. ASSUME NEW ok \in BOOLEAN, JobDone(p, ok), thr[p].jobs # <<>>
      PROVE  /\ Others(p) /\ thr'[p].strict = thr[p].strict /\ thr'[p].pc = "call"
             /\ thr'[p].jobs = Tail(thr[p].jobs) \/ (thr[p].strict /\ thr'[p].jobs = <<>>)
  <2>1. Returns(p, ok)
    BY <1>4, JobDoneReturns
  <2>2. CASE thr[p].strict /\ ~ok
    BY <1>0, <2>1, <2>2 DEF Returns
  <2>3. CASE ~(thr[p].strict /\ ~ok)
    BY <1>0, <2>1, <2>3 DEF Returns
  <2> QED  BY <2>2, <2>3
<1>5. CASE TrCall(p)
  BY <1>0, <1>4, <1>5, GotoMoves DEF TrCall, Step, MoveOf, Moves
<1>6. CASE TrLock(p)
  BY <1>0, <1>6, GotoMoves DEF TrLock, Step, MoveOf, Moves
<1>7. CASE TrFirst(p) \/ TrAgain(p)
  BY <1>1, <1>2, <1>3, <1>7 DEF TrFirst, TrAgain, Step, Inside
<1>8. CASE TrAddress(p)
  BY <1>1, <1>2, <1>8 DEF TrAddress, Step, Inside
<1>9. CASE TrRecheck(p)
  <2>1. CASE thr' = [thr EXCEPT ![p].pc = "ack", ![p].got = Lost]
    BY <1>0, <1>9, <2>1 DEF TrRecheck, Step, Inside, MoveOf, Others, ThreadStates
  <2> QED  BY <1>1, <1>3, <1>9, <2>1 DEF TrRecheck, Step, Inside
<1>10. CASE TrReset(p)
  BY <1>2, <1>10 DEF TrReset, Step, Inside
<1>11. CASE TrNext(p)
  BY <1>1, <1>2, <1>11 DEF TrNext, Step, Inside
<1>12. CASE TrUnlock(p)
  <2>1. thr[p].jobs # <<>>
    BY <1>0, <1>12 DEF TrUnlock, Step, Fits, Inside
  <2> QED  BY <1>0, <1>4, <1>12, <2>1 DEF TrUnlock, Step, MoveOf
<1>13. CASE PrepareSlave(p)
  BY <1>4, <1>13 DEF PrepareSlave, Step, MoveOf
<1>14. CASE SetWrite(p) \/ SetPoll(p) \/ SetRepeat(p) \/ SetExpired(p)
  BY <1>1, <1>2, <1>14 DEF SetWrite, SetPoll, SetRepeat, SetExpired, Step, Inside
<1>15. CASE SetStatus(p)
  <2>1. MoveOf(p)
    <3>1. /\ thr'[p].pc \in Inside /\ thr'[p].jobs = thr[p].jobs /\ thr'[p].strict = thr[p].strict
          /\ Others(p)
      BY <1>0, <1>15 DEF SetStatus, Inside, Others, ThreadStates
    <3> QED  BY <1>15, <3>1 DEF SetStatus, Step, MoveOf, Inside
  <2> QED  BY <1>15, <2>1 DEF SetStatus
<1>16. CASE AckWrite(p) \/ AckRead(p)
  <2>1. thr[p].back \in Inside
    BY <1>0, <1>16 DEF AckWrite, AckRead, Step, Fits, Inside
  <2> QED  BY <1>1, <1>16, <2>1 DEF AckWrite, AckRead, Step, Inside
<1>17. CASE SetReached(p)
  <2>1. MoveOf(p)
    <3>1. /\ thr'[p].pc \in Inside /\ thr'[p].jobs = thr[p].jobs /\ thr'[p].strict = thr[p].strict
          /\ Others(p)
      BY <1>0, <1>17 DEF SetReached, Inside, Others, ThreadStates
    <3> QED  BY <1>17, <3>1 DEF SetReached, Step, MoveOf, Inside
  <2> QED  BY <1>17, <2>1 DEF SetReached
<1> QED
  BY <1>5, <1>6, <1>7, <1>8, <1>9, <1>10, <1>11, <1>12, <1>13, <1>14, <1>15, <1>16, <1>17
     DEF TransitionNext

LEMMA TransitionData ==
    ASSUME Shaped, NEW p \in Threads, TransitionNext(p)
    PROVE  DataOf(p)
<1>0. /\ thr[p] \in ThreadStates /\ Fits(thr[p]) /\ thr \in [Threads -> ThreadStates]
      /\ dev \in [al : States \ {"UNKNOWN"}, err : BOOLEAN, adr : BOOLEAN,
                  ctl : {NULL} \cup [st : States, ack : BOOLEAN]]
      /\ slv \in [expected : States, active : BOOLEAN, mbx : BOOLEAN]
  BY DEF Shaped, TypeOK
<1> DEFINE Got  == thr'[p].got \in {thr[p].got, Read, Lost}
           Todo == \/ thr'[p].plan \in {thr[p].plan, <<>>}
                   \/ thr[p].plan # <<>> /\ thr'[p].plan = Tail(thr[p].plan)
                   \/ thr[p].pc \in Inside /\ thr'[p].plan = Plan(dev.al, Target(p))
           Dev  == /\ dev'.al \in {dev.al, "INIT"}
                   /\ \/ dev'.ctl \in {NULL, dev.ctl}
                      \/ dev'.ctl.st = thr[p].got.al
                      \/ thr[p].plan # <<>> /\ dev'.ctl.st = Request(p)
           Slv  == \/ slv'.expected = slv.expected
                   \/ thr[p].plan # <<>> /\ slv'.expected = Request(p)
<1>1. SUFFICES Got /\ Todo /\ Dev /\ Slv
  BY DEF DataOf
<1>2. ASSUME NEW q, Goto(p, q) PROVE Got /\ Todo
  BY <1>2, GotoMoves DEF Moves
<1>3. ASSUME NEW ok, Leave(p, ok) PROVE Got /\ Todo
  BY <1>3, LeaveLeaves DEF Leaves
<1>4. ASSUME Known(p), thr[p].pc \in Inside PROVE Got /\ Todo
  BY <1>4, KnownLearns DEF Learns
<1>5. ASSUME NEW ok \in BOOLEAN, JobDone(p, ok), thr[p].jobs # <<>> PROVE Got /\ Todo
  BY <1>5, JobDoneReturns DEF Returns
<1>6. UNCHANGED slv => Slv
  OBVIOUS
<1>7. UNCHANGED dev => Dev
  OBVIOUS
<1>8. ASSUME NEW s, NEW b, WriteControl(s, b), s = thr[p].got.al \/ (thr[p].plan # <<>> /\ s = Request(p))
      PROVE  Dev
  BY <1>0, <1>8 DEF WriteControl
<1>9. ASSUME NEW b, dev' = [dev EXCEPT !.adr = b] PROVE Dev
  BY <1>0, <1>9
<1>10. ASSUME NEW b, slv' = [slv EXCEPT !.active = b] \/ slv' = [slv EXCEPT !.mbx = b] PROVE Slv
  BY <1>0, <1>10
<1>11. OnStep(thr[p]) => thr[p].plan # <<>>
  BY <1>0 DEF Fits
<1> HIDE DEF Got, Todo, Dev, Slv
<1>12. CASE TrCall(p)
  BY <1>0, <1>2, <1>5, <1>6, <1>7, <1>12 DEF TrCall
<1>13. CASE TrLock(p)
  BY <1>2, <1>6, <1>7, <1>13 DEF TrLock
<1>14. CASE TrFirst(p) \/ TrAgain(p)
  BY <1>2, <1>3, <1>4, <1>6, <1>7, <1>14 DEF TrFirst, TrAgain, Step, Inside
<1>15. CASE TrAddress(p)
  BY <1>2, <1>3, <1>6, <1>7, <1>9, <1>15 DEF TrAddress
<1>16. CASE TrRecheck(p)
  <2>1. CASE thr' = [thr EXCEPT ![p].pc = "ack", ![p].got = Lost]
    <3>1. Got /\ Todo
      BY <1>0, <2>1 DEF Got, Todo, ThreadStates
    <3> QED  BY <1>6, <1>7, <1>16, <3>1 DEF TrRecheck
  <2> QED  BY <1>2, <1>4, <1>6, <1>7, <1>16, <2>1 DEF TrRecheck, Step, Inside
<1>17. CASE TrReset(p)
  <2>1. Dev
    BY <1>7, <1>17 DEF TrReset, Dev
  <2> QED  BY <1>3, <1>6, <1>17, <2>1 DEF TrReset
<1>18. CASE TrNext(p)
  <2>1. Dev
    BY <1>7, <1>9, <1>18 DEF TrNext
  <2>2. Slv
    BY <1>6, <1>10, <1>18 DEF TrNext
  <2> QED  BY <1>2, <1>3, <1>18, <2>1, <2>2 DEF TrNext
<1>19. CASE TrUnlock(p)
  <2>1. thr[p].jobs # <<>> /\ thr[p].ok \in BOOLEAN
    BY <1>0, <1>19, ThreadParts DEF TrUnlock, Step, Fits, Inside
  <2> QED  BY <1>5, <1>6, <1>7, <1>19, <2>1 DEF TrUnlock
<1>20. CASE PrepareSlave(p)
  BY <1>5, <1>6, <1>7, <1>20 DEF PrepareSlave
<1>21. CASE SetWrite(p)
  <2>1. thr[p].plan # <<>>
    BY <1>11, <1>21 DEF SetWrite, Step, OnStep
  <2>2. Slv
    BY <1>0, <1>6, <1>21, <2>1 DEF SetWrite, Slv
  <2> QED  BY <1>2, <1>3, <1>7, <1>8, <1>21, <2>1, <2>2 DEF SetWrite
<1>22. CASE SetPoll(p)
  <2>1. thr[p].plan # <<>>
    BY <1>11, <1>22 DEF SetPoll, Step, OnStep
  <2> QED  BY <1>2, <1>6, <1>7, <1>8, <1>22, <2>1 DEF SetPoll
<1>23. CASE SetStatus(p)
  <2>1. Got /\ Todo
    BY <1>0, <1>23 DEF SetStatus, Got, Todo, ThreadStates
  <2> QED  BY <1>6, <1>7, <1>23, <2>1 DEF SetStatus
<1>24. CASE AckWrite(p)
  BY <1>2, <1>6, <1>7, <1>8, <1>24 DEF AckWrite
<1>25. CASE AckRead(p)
  BY <1>2, <1>6, <1>7, <1>25 DEF AckRead
<1>26. CASE SetReached(p)
  <2>1. thr[p].plan # <<>>
    BY <1>11, <1>26 DEF SetReached, Step, OnStep
  <2>2. Got /\ Todo
    BY <1>0, <1>26, <2>1 DEF SetReached, Got, Todo, ThreadStates
  <2> QED  BY <1>7, <1>10, <1>26, <2>2 DEF SetReached
<1>27. CASE SetRepeat(p)
  BY <1>2, <1>6, <1>7, <1>27 DEF SetRepeat
<1>28. CASE SetExpired(p)
  BY <1>3, <1>7, <1>10, <1>28 DEF SetExpired
<1> QED
  BY <1>12, <1>13, <1>14, <1>15, <1>16, <1>17, <1>18, <1>19, <1>20, <1>21, <1>22,
     <1>23, <1>24, <1>25, <1>26, <1>27, <1>28 DEF TransitionNext

-----------------------------------------------------------------------------
(* Who works on the slave.                                                 *)

LEMMA HeadIn ==
    ASSUME NEW S, NEW s \in Seq(S), s # <<>>
    PROVE  Head(s) \in S /\ Tail(s) \in Seq(S)
OBVIOUS

LEMMA JobsAre ==
    /\ \A d \in Drops : /\ d.do \in {"transition", "prepare", "master"}
                        /\ d.do = "transition" => d.st \in {"INIT"} \cup Working
                        /\ d.do = "master" => d.st \in Working
    /\ \A d \in Repairs : d.do \in {"transition", "prepare"} /\ d.st # "BOOT"
    /\ \A b \in BOOLEAN : Scan(b).do \in {"scan", "rescan"} /\ Scan(TRUE).do = "scan"
    /\ Transition("INIT").do = "transition"
    /\ "BOOT" \notin {"INIT"} \cup Working /\ "UNKNOWN" \notin {"INIT"} \cup Working
<1>1. \A s : Transition(s).do = "transition" /\ Transition(s).st = s /\ Master(s).do = "master" /\ Master(s).st = s
  BY DEF Transition, Master
<1>2. Prepare.do = "prepare" /\ Prepare.st = "SAFEOP"
  BY DEF Prepare
<1>3. \A b \in BOOLEAN : Scan(b).do \in {"scan", "rescan"} /\ Scan(TRUE).do = "scan"
  BY DEF Scan
<1>4. "BOOT" \notin {"INIT"} \cup Working /\ "UNKNOWN" \notin {"INIT"} \cup Working
  BY DEF Working
<1>5. \A d \in Drops : \/ \E s \in {"INIT"} \cup Working : d = Transition(s)
                       \/ d = Prepare
                       \/ \E s \in Working : d = Master(s)
  BY DEF Drops, Plain
<1>6. \A d \in Repairs : d = Prepare \/ \E s \in States \ {"BOOT"} : d = Transition(s)
  BY DEF Repairs
<1>7. ASSUME NEW d \in Drops
      PROVE  /\ d.do \in {"transition", "prepare", "master"}
             /\ d.do = "transition" => d.st \in {"INIT"} \cup Working
             /\ d.do = "master" => d.st \in Working
  BY <1>1, <1>2, <1>5
<1>8. ASSUME NEW d \in Repairs
      PROVE  d.do \in {"transition", "prepare"} /\ d.st # "BOOT"
  BY <1>1, <1>2, <1>6
<1> QED  BY <1>1, <1>3, <1>4, <1>7, <1>8

\* What a thread in the transition asks for.
LEMMA TargetIs ==
    ASSUME Shaped, Work, NEW p \in Threads, thr[p].pc \in Inside \cup {"lock"}
    PROVE  Target(p) \in States \ {"BOOT"} /\ known
<1>1. /\ thr[p].jobs # <<>> /\ Head(thr[p].jobs).do = "transition" /\ thr[p] \in ThreadStates
  BY DEF Shaped, TypeOK, Fits
<1>2. Target(p) \in States
  BY <1>1, ThreadParts DEF Target, Tasks
<1>3. "idle" \notin Inside \cup {"lock"} /\ "call" \notin Inside \cup {"lock"} /\ "scan" \notin Inside \cup {"lock"}
  BY DEF Inside
<1>4. CASE p = "app"
  <2>1. known /\ thr[p].jobs \in Seq(Drops)
    BY <1>3, <1>4 DEF Work, AppWork
  <2> QED  BY <1>1, <1>2, <2>1, HeadIn, JobsAre DEF Target
<1>5. CASE p = "async"
  <2>1. known /\ thr[p].jobs \in Seq(Repairs)
    BY <1>3, <1>5 DEF Work, AsyncWork
  <2> QED  BY <1>1, <1>2, <2>1, HeadIn, JobsAre DEF Target
<1> QED  BY <1>4, <1>5, SupervisionAssumption

LEMMA TransitionWork ==
    ASSUME Owned, NEW p \in Threads, MoveOf(p), known' = known, found' = found
    PROVE  Work'
<1>0. /\ "idle" \notin Inside \cup {"lock"} /\ "call" \notin Inside \cup {"lock"}
      /\ "scan" \notin Inside \cup {"lock"} /\ "unlock" \in Inside /\ "first" \in Inside
  BY DEF Inside
<1>1. CASE p = "app"
  <2> DEFINE t == thr["app"]
             u == thr'["app"]
  <2>1. AppWork(t, known, found) /\ AsyncWork(thr["async"], known)
    BY DEF Owned, Work
  <2>2. thr'["async"] = thr["async"]
    BY <1>1, SupervisionAssumption DEF MoveOf, Others
  <2>3. ~u.strict
    <3>1. u.strict = t.strict
      BY <1>1 DEF MoveOf
    <3>2. ~t.strict
      BY <2>1, Zenon DEF AppWork
    <3> QED  BY <3>1, <3>2, Zenon
  <2> HIDE DEF t, u
  <2>4. ASSUME u.jobs = t.jobs, known, t.pc \in Inside \cup {"call", "lock"}, u.pc \in Inside \cup {"lock"}
        PROVE  AppWork(u, known, found)
    <3>1. u.jobs \in Seq(Drops)
      BY <2>1, <2>4, Zenon DEF AppWork
    <3>2. u.pc \in {"idle", "call", "lock", "scan"} \cup Inside
      BY <2>4
    <3>3. u.pc # "idle" /\ u.pc # "scan" /\ known
      BY <1>0, <2>4
    <3> QED  BY <2>3, <3>1, <3>2, <3>3, Zenon DEF AppWork
  <2>5. ASSUME known, t.jobs # <<>>, u.pc = "call", u.jobs = Tail(t.jobs)
        PROVE  AppWork(u, known, found)
    <3>1. u.jobs \in Seq(Drops)
      BY <2>1, <2>5, HeadIn DEF AppWork
    <3>2. u.pc \in {"idle", "call", "lock", "scan"} \cup Inside
      BY <2>5
    <3>3. u.pc # "idle" /\ u.pc # "scan" /\ known
      BY <2>5
    <3> QED  BY <2>3, <3>1, <3>2, <3>3, Zenon DEF AppWork
  <2>6. ASSUME ~known, t.pc = "call", t.jobs # <<>>, u.pc = "call", u.jobs = Tail(t.jobs),
               Head(t.jobs).do \in {"transition", "prepare"}
        PROVE  AppWork(u, known, found)
    <3>1. Head(t.jobs) # Scan(TRUE)
      BY <2>6, JobsAre
    <3>2. found /\ Rescans(u.jobs)
      BY <2>1, <2>6, <3>1 DEF AppWork, Rescans
    <3>3. u.pc \in {"idle", "call", "lock", "scan"} \cup Inside
      BY <2>6
    <3>4. u.pc # "idle" /\ u.pc # "scan" /\ u.pc \in {"call", "scan"} /\ ~known
      BY <2>6
    <3> QED  BY <2>3, <3>2, <3>3, <3>4, Zenon DEF AppWork
  <2>7. t.pc \in Inside \cup {"lock"} => known
    BY <1>0, <2>1 DEF AppWork
  <2>8. \/ u.jobs = t.jobs /\ known /\ t.pc \in Inside \cup {"call", "lock"} /\ u.pc \in Inside \cup {"lock"}
        \/ t.jobs # <<>> /\ u.pc = "call" /\ u.jobs = Tail(t.jobs)
           /\ (known \/ (t.pc = "call" /\ Head(t.jobs).do \in {"transition", "prepare"}))
    <3>1. ~t.strict
      BY <2>1, Zenon DEF AppWork
    <3> QED  BY <1>0, <1>1, <2>7, <3>1 DEF MoveOf, t, u
  <2>9. AppWork(u, known, found)
    <3>1. \/ u.jobs = t.jobs /\ known /\ t.pc \in Inside \cup {"call", "lock"} /\ u.pc \in Inside \cup {"lock"}
          \/ known /\ t.jobs # <<>> /\ u.pc = "call" /\ u.jobs = Tail(t.jobs)
          \/ /\ ~known /\ t.pc = "call" /\ t.jobs # <<>> /\ u.pc = "call" /\ u.jobs = Tail(t.jobs)
             /\ Head(t.jobs).do \in {"transition", "prepare"}
      BY <2>8
    <3> QED  BY <2>4, <2>5, <2>6, <3>1, Zenon
  <2> QED  BY <2>1, <2>2, <2>9 DEF Work, t, u
<1>2. CASE p = "async"
  <2> DEFINE t == thr["async"]
             u == thr'["async"]
  <2>1. AsyncWork(t, known) /\ AppWork(thr["app"], known, found)
    BY DEF Owned, Work
  <2>2. thr'["app"] = thr["app"]
    BY <1>2, SupervisionAssumption DEF MoveOf, Others
  <2>3. u.strict = t.strict /\ u.pc \in Inside \cup {"lock", "call"} /\ t.pc # "idle"
    BY <1>0, <1>2 DEF MoveOf
  <2>4. u.jobs \in Seq(Repairs)
    <3>1. \/ u.jobs \in {t.jobs, <<>>}
          \/ t.jobs # <<>> /\ u.jobs = Tail(t.jobs)
      BY <1>2 DEF MoveOf
    <3>2. t.jobs \in Seq(Repairs) /\ <<>> \in Seq(Repairs)
      BY <2>1 DEF AsyncWork
    <3> QED  BY <3>1, <3>2, HeadIn
  <2>5. AsyncWork(u, known)
    BY <2>1, <2>3, <2>4 DEF AsyncWork
  <2> QED  BY <2>1, <2>2, <2>5 DEF Work
<1> QED  BY <1>1, <1>2, SupervisionAssumption

LEMMA TransitionMutex ==
    ASSUME Owned, NEW p \in Threads, MoveOf(p)
    PROVE  Mutex'
<1>1. "lock" \notin Inside /\ "call" \notin Inside /\ "unlock" \in Inside /\ "first" \in Inside
  BY DEF Inside
<1>2. ASSUME NEW q \in Threads PROVE thr'[q].pc \in Inside <=> lock' = q
  <2>1. (thr[q].pc \in Inside <=> lock = q) /\ (thr[p].pc \in Inside <=> lock = p)
    BY DEF Owned, Mutex
  <2>2. p # NULL /\ q # NULL
    BY SlaveAssumption
  <2> QED  BY <1>1, <2>1, <2>2 DEF MoveOf, Others
<1> QED  BY <1>2 DEF Mutex

LEMMA TransitionNoBoot ==
    ASSUME Owned, NEW p \in Threads, MoveOf(p), DataOf(p)
    PROVE  NoBoot' /\ slv'.expected # "BOOT"
<1>0. /\ NoBoot /\ Shaped /\ Work /\ slv.expected # "BOOT" /\ thr[p] \in ThreadStates /\ dev.al \in States \ {"UNKNOWN"}
  BY DEF Owned, MasterInv, Shaped, TypeOK
<1>1. /\ Read.al # "BOOT" /\ Lost.al # "BOOT"
      /\ thr[p].got.al # "BOOT"
      /\ \A i \in DOMAIN thr[p].plan : thr[p].plan[i].st # "BOOT"
  BY <1>0 DEF NoBoot, Read, Lost
<1>2. thr[p].plan # <<>> =>
         /\ Request(p) # "BOOT"
         /\ \A i \in DOMAIN Tail(thr[p].plan) : Tail(thr[p].plan)[i].st # "BOOT"
  <2>1. thr[p].plan \in Seq(Steps)
    BY <1>0, ThreadParts
  <2>2. thr[p].plan # <<>> =>
           /\ 1 \in DOMAIN thr[p].plan /\ Head(thr[p].plan) = thr[p].plan[1]
           /\ \A i \in DOMAIN Tail(thr[p].plan) : i + 1 \in DOMAIN thr[p].plan
                                                  /\ Tail(thr[p].plan)[i] = thr[p].plan[i + 1]
    BY <2>1
  <2> QED  BY <1>1, <2>2 DEF Request
<1>3. thr[p].pc \in Inside => \A i \in DOMAIN Plan(dev.al, Target(p)) : Plan(dev.al, Target(p))[i].st # "BOOT"
  <2>1. ASSUME thr[p].pc \in Inside PROVE Target(p) \in States \ {"BOOT"}
    BY <1>0, <2>1, TargetIs
  <2>2. dev.al # "BOOT"
    BY <1>0 DEF NoBoot
  <2> QED  BY <1>0, <2>1, <2>2, PlanTyped
<1>4. dev'.al # "BOOT" /\ (dev'.ctl # NULL => dev'.ctl.st # "BOOT")
  BY <1>0, <1>1, <1>2 DEF DataOf, NoBoot
<1>5. thr'[p].got.al # "BOOT"
  BY <1>1 DEF DataOf
<1>6. \A i \in DOMAIN thr'[p].plan : thr'[p].plan[i].st # "BOOT"
  <2>1. CASE thr'[p].plan = <<>>
    BY <2>1
  <2> QED  BY <1>1, <1>2, <1>3, <2>1 DEF DataOf
<1>7. \A q \in Threads \ {p} : thr'[q] = thr[q]
  BY DEF MoveOf, Others
<1>8. ASSUME NEW q \in Threads
      PROVE  thr'[q].got.al # "BOOT" /\ \A i \in DOMAIN thr'[q].plan : thr'[q].plan[i].st # "BOOT"
  BY <1>0, <1>5, <1>6, <1>7 DEF NoBoot
<1>9. slv'.expected # "BOOT"
  BY <1>0, <1>2 DEF DataOf
<1> QED  BY <1>4, <1>8, <1>9 DEF NoBoot

LEMMA TransitionOwned ==
    ASSUME Owned, NEW p \in Threads, TransitionNext(p), Rest
    PROVE  Owned'
<1>1. MoveOf(p) /\ DataOf(p) /\ known' = known /\ UNCHANGED <<master, pending, calls, found, exec>>
  BY TransitionMoves, TransitionData DEF Owned, Rest, mvars, avars
<1>2. Work' /\ Mutex' /\ NoBoot' /\ slv'.expected # "BOOT"
  BY <1>1, TransitionWork, TransitionMutex, TransitionNoBoot
<1>3. Shaped'
  BY TransitionTyped DEF Owned
<1>4. thr[p].pc # "idle" /\ thr'[p].pc # "idle"
  BY <1>1 DEF MoveOf, Inside
<1>5. pending' <=> thr'["app"].pc # "idle"
  <2>1. thr'["app"] = thr["app"] \/ p = "app"
    BY <1>1, SupervisionAssumption DEF MoveOf, Others
  <2> QED  BY <1>1, <1>4, <2>1 DEF Owned, MasterInv
<1>6. MasterInv'
  BY <1>1, <1>2, <1>5 DEF Owned, MasterInv
<1>7. Unseen'
  <2>1. ASSUME ~known PROVE UNCHANGED <<dev, lock>>
    <3>1. p = "app" /\ thr[p].pc \in {"call", "scan"}
      BY <1>4, <2>1, SupervisionAssumption DEF Owned, Work, AppWork, AsyncWork
    <3> QED  BY <1>1, <2>1, <3>1 DEF MoveOf, Inside
  <2> QED  BY <1>1, <2>1 DEF Owned, Unseen
<1> QED  BY <1>2, <1>3, <1>6, <1>7 DEF Owned

\* What the steps of ec_set_state do to the thread of the application.
AppMoves(pc, jobs) == /\ thr'["async"] = thr["async"]
                      /\ thr'["app"].pc = pc /\ thr'["app"].jobs = jobs
                      /\ thr'["app"].strict = thr["app"].strict
                      /\ thr'["app"].plan = thr["app"].plan
                      /\ thr'["app"].got \in {thr["app"].got, Lost}

LEMMA AppThread ==
    ASSUME Owned
    PROVE  /\ \A q : Goto("app", q) => AppMoves(q, thr["app"].jobs)
           /\ JobDone("app", TRUE) => AppMoves("call", Tail(thr["app"].jobs))
           /\ \A jobs : thr' = [thr EXCEPT !["app"].pc = "call", !["app"].jobs = jobs] => AppMoves("call", jobs)
<1>1. thr["app"] \in ThreadStates /\ thr \in [Threads -> ThreadStates] /\ {"app", "async"} = Threads
  BY SupervisionAssumption DEF Owned, Shaped, TypeOK
<1>2. ASSUME NEW q, Goto("app", q) PROVE AppMoves(q, thr["app"].jobs)
  BY <1>1, <1>2 DEF Goto, AppMoves, ThreadStates
<1>3. ASSUME JobDone("app", TRUE) PROVE AppMoves("call", Tail(thr["app"].jobs))
  BY <1>1, <1>3 DEF JobDone, AppMoves, ThreadStates
<1>4. ASSUME NEW jobs, thr' = [thr EXCEPT !["app"].pc = "call", !["app"].jobs = jobs] PROVE AppMoves("call", jobs)
  BY <1>1, <1>4 DEF AppMoves, ThreadStates
<1> QED  BY <1>2, <1>3, <1>4

\* A step of ec_set_state outside a transition: nobody gets the mutex or a plan.
LEMMA AppOutside ==
    ASSUME Owned, NEW pc \in {"idle", "call", "scan"}, NEW jobs, AppMoves(pc, jobs),
           thr["app"].pc \in {"idle", "call", "scan"}, dev'.al \in {dev.al, "INIT"},
           dev'.ctl = dev.ctl \/ dev'.ctl.st = "INIT", lock' = lock
    PROVE  Mutex' /\ NoBoot'
<1>0. {"app", "async"} = Threads /\ {"idle", "call", "scan"} \cap Inside = {}
  BY SupervisionAssumption DEF Inside
<1>1. Mutex'
  <2>1. ASSUME NEW q \in Threads PROVE thr'[q].pc \in Inside <=> lock' = q
    <3>1. thr[q].pc \in Inside <=> lock = q
      BY DEF Owned, Mutex
    <3>2. CASE q = "app"
      BY <1>0, <3>1, <3>2 DEF AppMoves
    <3>3. CASE q = "async"
      BY <3>1, <3>3 DEF AppMoves
    <3> QED  BY <1>0, <3>2, <3>3
  <2> QED  BY <2>1 DEF Mutex
<1>2. NoBoot'
  <2>1. ASSUME NEW q \in Threads
        PROVE  thr'[q].got.al # "BOOT" /\ \A i \in DOMAIN thr'[q].plan : thr'[q].plan[i].st # "BOOT"
    <3>1. thr[q].got.al # "BOOT" /\ \A i \in DOMAIN thr[q].plan : thr[q].plan[i].st # "BOOT"
      BY DEF Owned, NoBoot
    <3>2. Lost.al # "BOOT"
      BY DEF Lost
    <3>3. CASE q = "app"
      BY <3>1, <3>2, <3>3 DEF AppMoves
    <3>4. CASE q = "async"
      BY <3>1, <3>4 DEF AppMoves
    <3> QED  BY <1>0, <3>3, <3>4
  <2>2. dev'.al # "BOOT" /\ (dev'.ctl # NULL => dev'.ctl.st # "BOOT")
    BY DEF Owned, NoBoot
  <2> QED  BY <2>1, <2>2 DEF NoBoot
<1> QED  BY <1>1, <1>2

LEMMA AppOwned ==
    ASSUME OneScan, Owned, AppCall \/ AppMaster \/ AppScan \/ AppFound \/ AppReturn
    PROVE  Owned'
<1> DEFINE t == thr["app"]
<1>0. /\ Shaped' /\ AppWork(t, known, found) /\ AsyncWork(thr["async"], known) /\ MasterInv /\ Unseen
      /\ "app" \in Threads /\ ~t.strict
  BY AppTyped, SupervisionAssumption, Zenon DEF Owned, Work, AppWork
<1>1. Goals \in Seq(States) /\ calls \in 0 .. Len(Goals)
  BY SupervisionAssumption DEF Owned, Shaped, TypeOK
<1>2. \A i \in 1 .. Len(Goals) : Goals[i] \in {"INIT"} \cup Working /\ (i > 1 => Goals[i] \in Working)
  BY <1>1 DEF OneScan
<1>3. ASSUME NEW pc \in {"idle", "call", "scan"}, NEW jobs, AppMoves(pc, jobs),
             pc = "idle" => jobs = <<>>,
             known' => jobs \in Seq(Drops),
             pc = "scan" => ~known',
             ~known' /\ pc # "idle" =>
                 \/ pc = "call" /\ ~found' /\ jobs = <<>>
                 \/ found' /\ Rescans(jobs)
                 \/ pc = "call" /\ found' /\ jobs # <<>> /\ Head(jobs) = Transition("INIT") /\ Rescans(Tail(jobs)),
             known' \/ ~known
      PROVE  Work'
  <2> DEFINE u == thr'["app"]
  <2>1. u.pc = pc /\ u.jobs = jobs /\ u.strict = t.strict /\ thr'["async"] = thr["async"]
    BY <1>3 DEF AppMoves
  <2>2. ~u.strict
    BY <1>0, <2>1, Zenon
  <2>3. AsyncWork(thr'["async"], known')
    BY <1>0, <1>3, <2>1 DEF AsyncWork
  <2>4. pc \in {"idle", "call", "lock", "scan"} \cup Inside /\ pc \in {"call", "scan", "idle"}
    OBVIOUS
  <2> HIDE DEF u
  <2>5. ~known' /\ u.pc # "idle" =>
            \/ u.pc = "call" /\ ~found' /\ u.jobs = <<>>
            \/ u.pc \in {"call", "scan"} /\ found' /\ Rescans(u.jobs)
            \/ u.pc = "call" /\ found' /\ u.jobs # <<>> /\ Head(u.jobs) = Transition("INIT") /\ Rescans(Tail(u.jobs))
    BY <1>3, <2>1, <2>4
  <2>6. /\ u.pc \in {"idle", "call", "lock", "scan"} \cup Inside
        /\ u.pc = "idle" => u.jobs = <<>>
        /\ known' => u.jobs \in Seq(Drops)
        /\ u.pc = "scan" => ~known'
    BY <1>3, <2>1, <2>4
  <2>7. AppWork(u, known', found')
    BY <2>2, <2>5, <2>6, Zenon DEF AppWork
  <2> QED  BY <2>3, <2>7 DEF Work, u
<1>4. CASE AppCall
  <2> DEFINE goal == Goals[calls + 1]
             jobs == Jobs(master, goal)
  <2>1. AppMoves("call", jobs) /\ t.pc = "idle"
    BY <1>4, AppThread DEF AppCall, Step
  <2>2. calls + 1 \in 1 .. Len(Goals) /\ goal \in {"INIT"} \cup Working /\ goal \in States /\ master \in States
    BY <1>1, <1>2, <1>4, StateSet DEF AppCall, Working, Owned, Shaped, TypeOK
  <2>3. UNCHANGED <<dev, slv, lock, known, master, exec>> /\ pending' = TRUE /\ found' = TRUE /\ calls' = calls + 1
    BY <1>4 DEF AppCall, avars
  <2>4. known => jobs \in Seq(Drops)
    <3>1. ASSUME known PROVE master \in {"INIT"} \cup Working /\ calls # 0
      BY <1>0, <2>1, <3>1 DEF MasterInv
    <3>2. known => goal \in Working
      BY <1>1, <1>2, <2>2, <3>1
    <3> QED  BY <2>2, <3>1, <3>2, JobsIn
  <2>5. ~known => jobs # <<>> /\ Head(jobs) = Transition("INIT") /\ Rescans(Tail(jobs))
    BY <1>0, <2>2, JobsIn DEF Unseen, Rescans
  <2> HIDE DEF jobs
  <2>6. Work'
    BY <1>3, <2>1, <2>3, <2>4, <2>5
  <2>7. Mutex' /\ NoBoot'
    BY <2>1, <2>3, AppOutside
  <2>8. MasterInv' /\ Unseen'
    <3>1. thr'["app"].pc = "call"
      BY <2>1 DEF AppMoves
    <3> QED  BY <1>0, <1>1, <2>3, <3>1 DEF MasterInv, Unseen
  <2> QED  BY <1>0, <2>6, <2>7, <2>8 DEF Owned
<1>5. CASE AppMaster
  <2>1. AppMoves("call", Tail(t.jobs)) /\ t.pc = "call" /\ t.jobs # <<>> /\ Head(t.jobs).do = "master"
    BY <1>5, AppThread DEF AppMaster, Doing, Step
  <2>2. known
    BY <1>0, <2>1, JobsAre DEF AppWork, Rescans
  <2>3. t.jobs \in Seq(Drops)
    BY <1>0, <2>2 DEF AppWork
  <2>4. Head(t.jobs).st \in Working /\ Tail(t.jobs) \in Seq(Drops)
    BY <2>1, <2>3, HeadIn, JobsAre
  <2>5. UNCHANGED <<dev, slv, lock, known, pending, calls, found, exec>> /\ master' \in Working
    BY <1>5, <2>4 DEF AppMaster, avars, Target
  <2>6. Work'
    BY <1>3, <2>1, <2>2, <2>4, <2>5
  <2>7. Mutex' /\ NoBoot'
    BY <2>1, <2>5, AppOutside
  <2>8. MasterInv' /\ Unseen'
    <3>1. thr'["app"].pc = "call"
      BY <2>1 DEF AppMoves
    <3>2. calls # 0
      BY <2>1 DEF Owned, Shaped
    <3> QED  BY <1>0, <2>1, <2>2, <2>5, <3>1, <3>2, JobsAre DEF MasterInv, Unseen
  <2> QED  BY <1>0, <2>6, <2>7, <2>8 DEF Owned
<1>6. CASE AppScan
  <2>1. AppMoves("scan", t.jobs) /\ t.pc = "call" /\ t.jobs # <<>> /\ Head(t.jobs).do \in {"scan", "rescan"}
    BY <1>6, AppThread DEF AppScan, Doing, Step
  <2>2. ~known
    BY <1>0, <2>1, HeadIn, JobsAre DEF AppWork
  <2>3. found /\ Rescans(t.jobs)
    BY <1>0, <2>1, <2>2, JobsAre DEF AppWork
  <2>4. /\ UNCHANGED <<lock, master, pending, calls, found, exec>> /\ known' = FALSE
        /\ slv'.expected = slv.expected /\ dev'.al = dev.al
        /\ dev'.ctl = dev.ctl \/ dev'.ctl.st = "INIT"
    <3>1. /\ dev \in [al : States \ {"UNKNOWN"}, err : BOOLEAN, adr : BOOLEAN,
                      ctl : {NULL} \cup [st : States, ack : BOOLEAN]]
          /\ slv \in [expected : States, active : BOOLEAN, mbx : BOOLEAN]
      BY DEF Owned, Shaped, TypeOK
    <3> QED  BY <1>6, <3>1 DEF AppScan, avars, mvars
  <2>5. Work'
    BY <1>3, <2>1, <2>2, <2>3, <2>4
  <2>6. Mutex' /\ NoBoot'
    BY <2>1, <2>4, AppOutside
  <2>7. MasterInv' /\ Unseen'
    <3>1. thr'["app"].pc = "scan"
      BY <2>1 DEF AppMoves
    <3> QED  BY <1>0, <2>1, <2>2, <2>4, <3>1 DEF MasterInv, Unseen
  <2> QED  BY <1>0, <2>5, <2>6, <2>7 DEF Owned
<1>7. CASE AppFound
  <2>1. t.pc = "scan" /\ ~known /\ found /\ Rescans(t.jobs)
    BY <1>0, <1>7 DEF AppFound, Step, AppWork
  <2>2. lock' = lock /\ UNCHANGED <<master, pending, calls, exec>>
    BY <1>0, <1>7, <2>1 DEF AppFound, Unseen, avars
  <2>3. CASE known' = TRUE
    <3>1. /\ slv'.expected = "UNKNOWN" /\ found' = found /\ JobDone("app", TRUE)
          /\ \/ dev' = [dev EXCEPT !.adr = TRUE, !.ctl = [st |-> "INIT", ack |-> TRUE]]
             \/ UNCHANGED dev
      <4>1. ~UNCHANGED <<dev, slv, lock, known>>
        BY <2>1, <2>3
      <4>2. slv' = [expected |-> "UNKNOWN", active |-> FALSE, mbx |-> FALSE]
        BY <1>7, <4>1 DEF AppFound
      <4>3. found' = found /\ JobDone("app", TRUE)
        BY <1>7, <4>1 DEF AppFound
      <4>4. \/ dev' = [dev EXCEPT !.adr = TRUE, !.ctl = [st |-> "INIT", ack |-> TRUE]]
            \/ UNCHANGED dev
        BY <1>7, <4>1 DEF AppFound
      <4> QED  BY <4>2, <4>3, <4>4
    <3>2. dev'.al = dev.al /\ (dev'.ctl = dev.ctl \/ dev'.ctl.st = "INIT")
      <4>1. dev \in [al : States \ {"UNKNOWN"}, err : BOOLEAN, adr : BOOLEAN,
                     ctl : {NULL} \cup [st : States, ack : BOOLEAN]]
        BY DEF Owned, Shaped, TypeOK
      <4>2. CASE dev' = [dev EXCEPT !.adr = TRUE, !.ctl = [st |-> "INIT", ack |-> TRUE]]
        <5> DEFINE request == [st |-> "INIT", ack |-> TRUE]
        <5>1. request.st = "INIT"
          OBVIOUS
        <5> HIDE DEF request
        <5>2. dev'.ctl = request /\ dev'.al = dev.al
          BY <4>1, <4>2 DEF request
        <5> QED  BY <5>1, <5>2
      <4>3. CASE UNCHANGED dev
        BY <4>3
      <4> QED  BY <3>1, <4>2, <4>3
    <3>3. AppMoves("call", Tail(t.jobs)) /\ Tail(t.jobs) \in Seq(Drops)
      BY <2>1, <3>1, AppThread, TaskSets DEF Rescans
    <3>4. Work'
      BY <1>3, <2>3, <3>3
    <3>5. Mutex' /\ NoBoot'
      BY <2>1, <2>2, <3>2, <3>3, AppOutside
    <3>6. MasterInv' /\ Unseen'
      <4>1. thr'["app"].pc = "call"
        BY <3>3 DEF AppMoves
      <4> QED  BY <1>0, <2>1, <2>2, <2>3, <3>1, <4>1 DEF MasterInv, Unseen
    <3> QED  BY <1>0, <3>4, <3>5, <3>6 DEF Owned
  <2>4. CASE known' = known
    <3>1. Head(t.jobs).do = "scan"
      BY <2>1, JobsAre DEF Rescans
    <3>2. UNCHANGED <<dev, slv>> /\ ~found'
          /\ thr' = [thr EXCEPT !["app"].pc = "call", !["app"].jobs = <<>>]
      BY <1>7, <2>1, <2>4, <3>1 DEF AppFound
    <3>3. AppMoves("call", <<>>)
      BY <3>2, AppThread
    <3>4. Work'
      BY <1>3, <2>1, <2>4, <3>2, <3>3
    <3>5. Mutex' /\ NoBoot'
      BY <2>1, <2>2, <3>2, <3>3, AppOutside
    <3>6. MasterInv' /\ Unseen'
      <4>1. thr'["app"].pc = "call"
        BY <3>3 DEF AppMoves
      <4> QED  BY <1>0, <2>1, <2>2, <2>4, <3>2, <4>1 DEF MasterInv, Unseen
    <3> QED  BY <1>0, <3>4, <3>5, <3>6 DEF Owned
  <2> QED  BY <1>7, <2>3, <2>4 DEF AppFound
<1>8. CASE AppReturn
  <2>1. AppMoves("idle", t.jobs) /\ t.pc = "call" /\ t.jobs = <<>>
    BY <1>8, AppThread DEF AppReturn, Step
  <2>2. /\ UNCHANGED <<dev, slv, lock, known, calls, found, exec>> /\ pending' = FALSE
        /\ master' = IF found THEN Goals[calls] ELSE master
    BY <1>8 DEF AppReturn, avars
  <2>3. calls \in 1 .. Len(Goals) /\ Goals[calls] \in {"INIT"} \cup Working
    BY <1>1, <1>2, <2>1 DEF Owned, Shaped
  <2>4. ~known => ~found
    BY <1>0, <2>1 DEF AppWork, Rescans
  <2>5. Work'
    <3>1. <<>> \in Seq(Drops)
      OBVIOUS
    <3> QED  BY <1>3, <2>1, <2>2, <3>1
  <2>6. Mutex' /\ NoBoot'
    BY <2>1, <2>2, AppOutside
  <2>7. MasterInv' /\ Unseen'
    <3>1. thr'["app"].pc = "idle"
      BY <2>1 DEF AppMoves
    <3>2. "UNKNOWN" \notin {"INIT"} \cup Working
      BY JobsAre
    <3>3. found' => known'
      BY <2>2, <2>4
    <3>4. known => found
      BY <1>0 DEF MasterInv
    <3> QED  BY <1>0, <2>1, <2>2, <2>3, <2>4, <3>1, <3>2, <3>4 DEF MasterInv, Unseen
  <2> QED  BY <1>0, <2>5, <2>6, <2>7 DEF Owned
<1> QED  BY <1>4, <1>5, <1>6, <1>7, <1>8

\* What the steps of the supervision do to its thread.
AsyncMoves(pc, jobs) == /\ thr'["app"] = thr["app"]
                        /\ thr'["async"].pc = pc /\ thr'["async"].jobs = jobs
                        /\ thr'["async"].strict = thr["async"].strict
                        /\ thr'["async"].plan = thr["async"].plan
                        /\ thr'["async"].got \in {thr["async"].got, Read, Lost}

\* The places of the supervision outside a transition.
Watching == {"idle", "call", "check", "decide", "repair"}

LEMMA AsyncSteps ==
    ASSUME Owned, AsyncTake \/ AsyncCheck \/ AsyncDecide \/ AsyncRepair \/ AsyncDone
    PROVE  /\ known
           /\ thr' = thr \/ /\ thr["async"].pc \in Watching
                            /\ \E pc \in Watching, jobs \in Seq(Repairs) : AsyncMoves(pc, jobs)
           /\ UNCHANGED <<dev, slv, lock, known, faults, master, pending, calls, found, due>>
<1> DEFINE t == thr["async"]
           Fine == thr' = thr \/ /\ t.pc \in Watching
                                 /\ \E pc \in Watching, jobs \in Seq(Repairs) : AsyncMoves(pc, jobs)
<1>0. /\ t \in ThreadStates /\ thr \in [Threads -> ThreadStates] /\ {"app", "async"} = Threads
      /\ slv.expected \in States \ {"BOOT"} /\ t.jobs \in Seq(Repairs)
  BY SupervisionAssumption DEF Owned, Shaped, TypeOK, MasterInv, Work, AsyncWork
<1>1. ASSUME NEW q \in Watching, Goto("async", q), t.pc \in Watching PROVE Fine
  <2>1. AsyncMoves(q, t.jobs)
    BY <1>0, <1>1 DEF Goto, AsyncMoves, ThreadStates
  <2> QED  BY <1>0, <1>1, <2>1
<1>2. ASSUME NEW jobs \in Seq(Repairs), thr' = [thr EXCEPT !["async"].pc = "call", !["async"].jobs = jobs],
             t.pc \in Watching
      PROVE  Fine
  <2>1. AsyncMoves("call", jobs)
    BY <1>0, <1>2 DEF AsyncMoves, ThreadStates
  <2> QED  BY <1>0, <1>2, <2>1 DEF Watching
<1>3. ASSUME NEW got \in {Read, Lost}, thr' = [thr EXCEPT !["async"].got = got, !["async"].pc = "decide"],
             t.pc \in Watching
      PROVE  Fine
  <2>1. AsyncMoves("decide", t.jobs)
    BY <1>0, <1>3 DEF AsyncMoves, ThreadStates
  <2> QED  BY <1>0, <1>3, <2>1 DEF Watching
<1>4. Restore(slv.expected) \in Seq(Repairs) /\ <<Transition(slv.expected)>> \in Seq(Repairs)
  <2>1. Plain \subseteq Repairs
    BY StateSet DEF Plain, Repairs, Working
  <2>2. Transition(slv.expected) \in Repairs
    BY <1>0 DEF Repairs
  <2>3. Restore(slv.expected) \in Seq(Plain)
    BY <1>0, RestoreIn
  <2> QED  BY <2>1, <2>2, <2>3
<1> HIDE DEF Fine
<1>5. CASE AsyncTake
  <2>1. known
    BY <1>5 DEF Owned, Unseen, AsyncTake
  <2> QED  BY <1>1, <1>5, <2>1 DEF AsyncTake, Step, Watching, Fine, mvars
<1>6. ASSUME t.pc # "idle" PROVE known
  BY <1>6 DEF Owned, Work, AsyncWork
<1>7. CASE AsyncCheck
  BY <1>3, <1>6, <1>7 DEF AsyncCheck, Step, Watching, Fine, mvars, avars
<1>8. CASE AsyncDecide
  BY <1>1, <1>2, <1>4, <1>6, <1>8 DEF AsyncDecide, Step, Watching, Fine, mvars, avars
<1>9. CASE AsyncRepair
  BY <1>2, <1>4, <1>6, <1>9 DEF AsyncRepair, Step, Watching, Fine, mvars, avars
<1>10. CASE AsyncDone
  BY <1>1, <1>6, <1>10 DEF AsyncDone, Step, Watching, Fine, mvars
<1> QED  BY <1>5, <1>7, <1>8, <1>9, <1>10 DEF Fine, avars

LEMMA AsyncOwned ==
    ASSUME Owned, AsyncTake \/ AsyncCheck \/ AsyncDecide \/ AsyncRepair \/ AsyncDone
    PROVE  Owned'
<1> DEFINE t == thr["async"]
           u == thr'["async"]
<1>0. /\ Shaped' /\ AppWork(thr["app"], known, found) /\ AsyncWork(t, known) /\ MasterInv /\ Unseen
      /\ {"app", "async"} = Threads /\ t.strict /\ Watching \cap Inside = {}
  BY AsyncTyped, SupervisionAssumption DEF Owned, Work, AsyncWork, Watching, Inside
<1>1. known /\ UNCHANGED <<dev, slv, lock, known, faults, master, pending, calls, found, due>>
  BY AsyncSteps
<1>2. CASE thr' = thr
  BY <1>0, <1>1, <1>2 DEF Owned, Work, MasterInv, Unseen, Mutex, NoBoot
<1>3. ASSUME t.pc \in Watching, NEW pc \in Watching, NEW jobs \in Seq(Repairs), AsyncMoves(pc, jobs)
      PROVE  Owned'
  <2>1. u.pc = pc /\ u.jobs \in Seq(Repairs) /\ u.strict = t.strict /\ thr'["app"] = thr["app"]
    BY <1>3 DEF AsyncMoves
  <2>2. u.strict
    BY <1>0, <2>1, Zenon
  <2>3. Work'
    <3>1. u.pc \in {"idle", "call", "lock", "check", "decide", "repair"} \cup Inside
      BY <1>3, <2>1 DEF Watching
    <3> HIDE DEF u
    <3>2. AsyncWork(u, known')
      BY <1>1, <2>1, <2>2, <3>1, Zenon DEF AsyncWork
    <3> QED  BY <1>0, <1>1, <2>1, <3>2 DEF Work, u
  <2>4. Mutex'
    <3>1. ASSUME NEW q \in Threads PROVE thr'[q].pc \in Inside <=> lock' = q
      <4>1. thr[q].pc \in Inside <=> lock = q
        BY DEF Owned, Mutex
      <4>2. CASE q = "app"
        BY <1>1, <2>1, <4>1, <4>2
      <4>3. CASE q = "async"
        BY <1>0, <1>1, <1>3, <2>1, <4>1, <4>3
      <4> QED  BY <1>0, <4>2, <4>3
    <3> QED  BY <3>1 DEF Mutex
  <2>5. NoBoot'
    <3>1. ASSUME NEW q \in Threads
          PROVE  thr'[q].got.al # "BOOT" /\ \A i \in DOMAIN thr'[q].plan : thr'[q].plan[i].st # "BOOT"
      <4>1. thr[q].got.al # "BOOT" /\ \A i \in DOMAIN thr[q].plan : thr[q].plan[i].st # "BOOT"
        BY DEF Owned, NoBoot
      <4>2. Lost.al # "BOOT" /\ Read.al # "BOOT"
        BY DEF Lost, Read, Owned, NoBoot
      <4>3. CASE q = "app"
        BY <2>1, <4>1, <4>3
      <4>4. CASE q = "async"
        BY <1>3, <4>1, <4>2, <4>4 DEF AsyncMoves
      <4> QED  BY <1>0, <4>3, <4>4
    <3> QED  BY <1>1, <3>1 DEF Owned, NoBoot
  <2>6. MasterInv' /\ Unseen'
    BY <1>0, <1>1, <2>1 DEF MasterInv, Unseen
  <2> QED  BY <1>0, <2>3, <2>4, <2>5, <2>6 DEF Owned
<1> QED  BY <1>2, <1>3, AsyncSteps

LEMMA DeviceOwned ==
    ASSUME Owned, Serve \/ Fault, Rest
    PROVE  Owned'
<1>0. /\ Shaped' /\ Shaped /\ Work /\ Mutex /\ NoBoot /\ MasterInv /\ Unseen
      /\ dev \in [al : States \ {"UNKNOWN"}, err : BOOLEAN, adr : BOOLEAN,
                  ctl : {NULL} \cup [st : States, ack : BOOLEAN]]
  BY DeviceTyped DEF Owned, Shaped, TypeOK
<1>1. UNCHANGED <<slv, lock, known, thr, master, pending, calls, found, exec>>
  BY DEF Serve, Fault, Rest, mvars, avars
<1>2. /\ dev'.al # "BOOT" /\ (dev'.ctl # NULL => dev'.ctl.st # "BOOT")
      /\ ~known => dev'.al = "INIT" /\ (dev'.ctl # NULL => dev'.ctl.st = "INIT")
  <2>1. CASE Serve
    <3>1. dev'.ctl = NULL /\ dev'.al \in {dev.al, dev.ctl.st} /\ dev.ctl # NULL
      BY <1>0, <2>1 DEF Serve, Served
    <3> QED  BY <1>0, <3>1 DEF NoBoot, Unseen
  <2>2. CASE Fault
    <3>1. \/ dev'.al = dev.al /\ dev'.ctl = NULL
          \/ \E s \in Falls : Rank[s] < Rank[dev.al] /\ dev'.al = s /\ dev'.ctl = dev.ctl
          \/ dev'.al = "INIT" /\ dev'.ctl = NULL
      <4>1. CASE dev' = [dev EXCEPT !.ctl = NULL, !.err = TRUE]
        BY <1>0, <4>1
      <4>2. CASE \E s \in Falls : Rank[s] < Rank[dev.al] /\ dev' = [dev EXCEPT !.al = s, !.err = TRUE]
        BY <1>0, <4>2
      <4>3. CASE dev' = [al |-> "INIT", err |-> FALSE, ctl |-> NULL, adr |-> FALSE]
        BY <4>3
      <4> QED  BY <2>2, <4>1, <4>2, <4>3 DEF Fault
    <3>2. \A s \in Falls : s # "BOOT" /\ ~(Rank[s] < Rank["INIT"])
      BY SlaveAssumption, StateSet
    <3> QED  BY <1>0, <3>1, <3>2 DEF NoBoot, Unseen
  <2> QED  BY <2>1, <2>2
<1>3. Work' /\ Mutex' /\ NoBoot'
  BY <1>0, <1>1, <1>2 DEF Work, Mutex, NoBoot
<1>4. MasterInv' /\ Unseen'
  BY <1>0, <1>1, <1>2 DEF MasterInv, Unseen
<1> QED  BY <1>0, <1>3, <1>4 DEF Owned

LEMMA InitOwned == Init => Owned
<1> SUFFICES ASSUME Init PROVE Owned
  OBVIOUS
<1>1. Shaped /\ {"app", "async"} = Threads
  BY InitTyped, SupervisionAssumption
<1>2. \A p \in Threads : thr[p] = [IdleThread EXCEPT !.strict = p = "async"]
  BY DEF Init
<1>3. \A p \in Threads : /\ thr[p].pc = "idle" /\ thr[p].jobs = <<>> /\ thr[p].plan = <<>>
                         /\ thr[p].got = Lost /\ thr[p].strict = (p = "async")
  BY <1>2, ZenonT(60) DEF IdleThread
<1>4. Work
  <2>1. ~thr["app"].strict /\ thr["async"].strict
    BY <1>1, <1>3
  <2>2. <<>> \in Seq(Drops) /\ <<>> \in Seq(Repairs)
    OBVIOUS
  <2>3. /\ thr["app"].pc = "idle" /\ thr["app"].jobs = <<>>
        /\ thr["async"].pc = "idle" /\ thr["async"].jobs = <<>>
    BY <1>1, <1>3
  <2>4. "idle" \in {"idle", "call", "lock", "scan"} \cup Inside /\ "idle" # "scan"
        /\ "idle" \in {"idle", "call", "lock", "check", "decide", "repair"} \cup Inside
    OBVIOUS
  <2>5. AppWork(thr["app"], known, found)
    BY <2>1, <2>2, <2>3, <2>4, Zenon DEF AppWork
  <2>6. AsyncWork(thr["async"], known)
    BY <2>1, <2>2, <2>3, <2>4, Zenon DEF AsyncWork
  <2> QED  BY <2>5, <2>6 DEF Work
<1>5. Mutex
  BY <1>3, SlaveAssumption DEF Init, Mutex, Inside
<1>6. NoBoot
  BY <1>3 DEF Init, NoBoot, Lost
<1>7. MasterInv /\ Unseen
  <2>1. thr["app"].pc = "idle"
    BY <1>1, <1>3
  <2>2. /\ slv.expected = "UNKNOWN" /\ known = FALSE /\ lock = NULL /\ pending = FALSE /\ found = TRUE
        /\ master = "UNKNOWN" /\ exec = <<>> /\ dev.al = "INIT" /\ dev.ctl = NULL
    BY DEF Init
  <2> QED  BY <2>1, <2>2 DEF MasterInv, Unseen
<1> QED  BY <1>1, <1>4, <1>5, <1>6, <1>7 DEF Owned

LEMMA NextOwned == OneScan /\ Watched /\ Owned /\ [Next]_vars => Owned'
<1> SUFFICES ASSUME OneScan, Watched, Owned, [Next]_vars PROVE Owned'
  OBVIOUS
<1>1. {"app", "async"} = Threads /\ Shaped'
  BY SupervisionAssumption, NextTyped DEF Owned
<1>2. CASE AppCall \/ AppMaster \/ AppScan \/ AppFound \/ AppReturn
  BY <1>2, AppOwned
<1>3. CASE \E p \in Threads : TransitionNext(p) /\ Rest
  BY <1>3, TransitionOwned
<1>4. CASE AsyncTake \/ AsyncCheck \/ AsyncDecide \/ AsyncRepair \/ AsyncDone
  BY <1>4, AsyncOwned
<1>5. CASE (Serve \/ Fault) /\ Rest
  BY <1>5, DeviceOwned
<1>6. ASSUME UNCHANGED <<dev, slv, lock, known, thr, master, pending, calls, found>>,
             exec' = exec \/ master # "UNKNOWN"
      PROVE  Owned'
  <2>1. Work' /\ Mutex' /\ NoBoot'
    BY <1>6 DEF Owned, Work, Mutex, NoBoot
  <2>2. MasterInv' /\ Unseen'
    BY <1>6 DEF Owned, MasterInv, Unseen
  <2> QED  BY <1>1, <2>1, <2>2 DEF Owned
<1>7. CASE (\E i \in DOMAIN Groups : RxGroup(Groups[i])) \/ RxState
  <2>1. master # "UNKNOWN"
    BY <1>7, JobsAre DEF RxGroup, RxState, Watched
  <2>2. UNCHANGED <<dev, slv, lock, known, thr, master, pending, calls, found>>
    BY <1>7 DEF RxGroup, RxState, ec_async_check_group, svars, mvars
  <2> QED  BY <1>6, <2>1, <2>2
<1>8. CASE TimerExpires \/ UNCHANGED vars
  BY <1>6, <1>8 DEF TimerExpires, vars, svars, mvars
<1> QED
  BY <1>1, <1>2, <1>3, <1>4, <1>5, <1>7, <1>8 DEF Next, AppNext, AsyncNext

-----------------------------------------------------------------------------
(* The transition reaches what it was asked for.                           *)

LEMMA FeasibleTail ==
    ASSUME NEW plan \in Seq(Steps), plan # <<>>, NEW s
    PROVE  /\ Head(plan) = plan[1] /\ Tail(plan) \in Seq(Steps)
           /\ Feasible(s, plan) => Legal(s, Head(plan).st) /\ Feasible(Head(plan).st, Tail(plan))
           /\ Tail(plan) = <<>> => plan[Len(plan)] = Head(plan)
           /\ Tail(plan) # <<>> => Tail(plan)[Len(Tail(plan))] = plan[Len(plan)]
<1>1. /\ Head(plan) = plan[1] /\ Tail(plan) \in Seq(Steps)
      /\ Len(plan) \in Nat \ {0} /\ Len(Tail(plan)) = Len(plan) - 1
      /\ \A i \in 1 .. Len(Tail(plan)) : Tail(plan)[i] = plan[i + 1]
  OBVIOUS
<1>2. ASSUME Feasible(s, plan), Tail(plan) # <<>> 
      PROVE  /\ Legal(Head(plan).st, Tail(plan)[1].st)
             /\ \A i \in 1 .. Len(Tail(plan)) - 1 : Legal(Tail(plan)[i].st, Tail(plan)[i + 1].st)
  <2>1. Len(Tail(plan)) \in Nat \ {0}
    BY <1>1, <1>2
  <2>2. ASSUME NEW i \in 1 .. Len(plan) - 1 PROVE Legal(plan[i].st, plan[i + 1].st)
    BY <1>2 DEF Feasible
  <2>3. 1 \in 1 .. Len(plan) - 1 /\ Tail(plan)[1] = plan[1 + 1]
    BY <1>1, <2>1
  <2>4. Legal(Head(plan).st, Tail(plan)[1].st)
    BY <1>1, <2>2, <2>3
  <2>5. ASSUME NEW i \in 1 .. Len(Tail(plan)) - 1 PROVE Legal(Tail(plan)[i].st, Tail(plan)[i + 1].st)
    <3>1. /\ i \in 1 .. Len(Tail(plan)) /\ i + 1 \in 1 .. Len(Tail(plan))
          /\ i + 1 \in 1 .. Len(plan) - 1
      BY <1>1
    <3>2. Tail(plan)[i] = plan[i + 1] /\ Tail(plan)[i + 1] = plan[(i + 1) + 1]
      BY <1>1, <3>1
    <3> QED  BY <2>2, <3>1, <3>2
  <2> QED  BY <2>4, <2>5
<1>3. Feasible(s, plan) => Legal(s, Head(plan).st)
  BY <1>1 DEF Feasible
<1>4. Feasible(s, plan) => Feasible(Head(plan).st, Tail(plan))
  BY <1>2 DEF Feasible
<1>5. ASSUME Tail(plan) = <<>> PROVE plan[Len(plan)] = Head(plan)
  <2> DEFINE w == Tail(plan)
  <2>1. w = <<>> /\ Len(w) = Len(plan) - 1
    BY <1>1, <1>5
  <2> HIDE DEF w
  <2>3. Len(<<>>) = 0 /\ Len(plan) \in Nat
    BY <1>1
  <2>4. 0 = Len(plan) - 1
    BY <2>1, <2>3, Zenon
  <2>2. Len(plan) = 1
    BY <2>3, <2>4
  <2> QED  BY <1>1, <2>2
<1>6. ASSUME Tail(plan) # <<>> PROVE Tail(plan)[Len(Tail(plan))] = plan[Len(plan)]
  <2>1. Len(Tail(plan)) \in 1 .. Len(Tail(plan)) /\ Len(Tail(plan)) + 1 = Len(plan)
    BY <1>1, <1>6
  <2> QED  BY <1>1, <2>1
<1> QED  BY <1>1, <1>3, <1>4, <1>5, <1>6

LEMMA LegalSelf ==
    /\ \A s \in States \ {"UNKNOWN"} : Legal(s, s)
    /\ \A s \in States \ {"UNKNOWN"}, t \in States : Legal(s, t) => t # "UNKNOWN"
BY StateSet DEF Legal

\* Outside a transition there is nothing to reach.
LEMMA Vacuous ==
    ASSUME NEW t, t.pc \notin Inside
    PROVE  AimedAt(t) /\ \A d : CleanAt(t, d)
BY DEF Inside, AimedAt, CleanAt, OnStep

\* The read state leads to a plan that ends where it should.
LEMMA LearnsAimed ==
    ASSUME Owned, NEW p \in Threads, thr[p].pc \in Inside, Learns(p)
    PROVE  /\ AimedAt(thr'[p])
           /\ ~dev.err => /\ thr'[p].pc = "next" /\ Feasible(dev.al, thr'[p].plan) /\ thr'[p].plan # <<>>
<1>1. /\ Target(p) \in States \ {"BOOT"} /\ dev.al \in States \ {"UNKNOWN"} /\ dev.al # "BOOT"
  BY TargetIs DEF Owned, Shaped, TypeOK, NoBoot
<1>2. /\ Plan(dev.al, Target(p)) # <<>> /\ Feasible(dev.al, Plan(dev.al, Target(p)))
      /\ Target(p) # "UNKNOWN" => Plan(dev.al, Target(p))[Len(Plan(dev.al, Target(p)))].st = Target(p)
  BY <1>1, PlanTyped
<1>3. CASE dev.err
  BY <1>3 DEF Learns, AimedAt, OnStep
<1>4. CASE ~dev.err
  <2>1. thr'[p].pc = "next" /\ thr'[p].plan = Plan(dev.al, Target(p)) /\ thr'[p].jobs = thr[p].jobs
    BY <1>4 DEF Learns
  <2>2. AimsAt(thr'[p])
    BY <1>2, <2>1 DEF AimsAt, Target
  <2> QED  BY <1>2, <2>1, <2>2 DEF AimedAt
<1> QED  BY <1>3, <1>4

\* The thread itself, whatever happens.
LEMMA TransitionAimed ==
    ASSUME Owned, Aimed, NEW p \in Threads, TransitionNext(p)
    PROVE  AimedAt(thr'[p])
<1> DEFINE t == thr[p]
           u == thr'[p]
<1> SUFFICES AimedAt(u)
  OBVIOUS
<1>0. /\ t \in ThreadStates /\ Fits(t) /\ thr \in [Threads -> ThreadStates] /\ AimedAt(t) /\ Shaped
      /\ t.plan \in Seq(Steps)
  BY ThreadParts DEF Owned, Shaped, TypeOK, Aimed
<1>1. ASSUME NEW q, Goto(p, q), q # "unlock",
             (q = "next" \/ q \in {"write", "poll", "status", "judge"}
              \/ (q \in {"ack", "acked"} /\ t.back = "judge")) => AimsAt(t)
      PROVE  AimedAt(u)
  <2>1. /\ u.pc = q /\ u.jobs = t.jobs /\ u.plan = t.plan /\ u.got = t.got /\ u.back = t.back
    BY <1>0, <1>1, GotoMoves DEF Moves
  <2> QED  BY <1>1, <2>1 DEF AimedAt, AimsAt, Seen, OnStep
<1>2. ASSUME NEW ok, Leave(p, ok), ok => (Head(t.jobs).st # "UNKNOWN" => Seen(t))
      PROVE  AimedAt(u)
  <2>1. u.pc = "unlock" /\ u.jobs = t.jobs /\ u.got = t.got /\ u.ok = ok
    BY <1>0, <1>2, LeaveLeaves DEF Leaves
  <2> QED  BY <1>2, <2>1 DEF AimedAt, Seen, OnStep
<1>3. ASSUME Known(p), t.pc \in Inside PROVE AimedAt(u)
  BY <1>0, <1>3, KnownLearns, LearnsAimed
<1>4. ASSUME MoveOf(p), u.pc = "call" PROVE AimedAt(u)
  BY <1>4, Vacuous DEF Inside
<1>5. MoveOf(p)
  BY <1>0, TransitionMoves
<1>6. OnStep(t) \/ t.pc = "next" => AimsAt(t)
  BY <1>0 DEF AimedAt
<1> HIDE DEF t, u
<1>7. CASE TrCall(p) \/ PrepareSlave(p)
  <2>1. u.pc \in {"lock", "call"}
    BY <1>5, <1>7 DEF TrCall, PrepareSlave, Step, MoveOf, Inside, t, u
  <2> QED  BY <2>1, Vacuous DEF Inside
<1>8. CASE TrLock(p)
  BY <1>1, <1>8 DEF TrLock
<1>9. CASE TrFirst(p) \/ TrAgain(p)
  BY <1>1, <1>2, <1>3, <1>9 DEF TrFirst, TrAgain, Step, Inside, t
<1>10. CASE TrAddress(p)
  BY <1>1, <1>2, <1>10 DEF TrAddress
<1>11. CASE TrRecheck(p)
  <2>1. CASE thr' = [thr EXCEPT ![p].pc = "ack", ![p].got = Lost]
    <3>1. u.pc = "ack" /\ u.back = "recheck"
      BY <1>0, <1>11, <2>1 DEF TrRecheck, Step, Fits, ThreadStates, t, u
    <3> QED  BY <3>1 DEF AimedAt, OnStep
  <2> QED  BY <1>1, <1>3, <1>11, <2>1 DEF TrRecheck, Step, Inside, t
<1>12. CASE TrReset(p)
  BY <1>2, <1>12 DEF TrReset
<1>13. CASE TrNext(p)
  <2>1. AimsAt(t)
    BY <1>6, <1>13 DEF TrNext, Step, t
  <2>2. t.plan = <<>> => (Head(t.jobs).st # "UNKNOWN" => Seen(t))
    BY <2>1 DEF AimsAt
  <2> QED  BY <1>1, <1>2, <1>13, <2>1, <2>2 DEF TrNext, t
<1>14. CASE TrUnlock(p)
  <2>1. u.pc = "call"
    BY <1>0, <1>14 DEF TrUnlock, ThreadStates, t, u, JobDone
  <2> QED  BY <2>1, Vacuous DEF Inside
<1>15. CASE SetWrite(p) \/ SetPoll(p) \/ SetRepeat(p) \/ SetExpired(p)
  <2>1. AimsAt(t)
    BY <1>6, <1>15 DEF SetWrite, SetPoll, SetRepeat, SetExpired, Step, OnStep, t
  <2> QED  BY <1>1, <1>2, <1>15, <2>1 DEF SetWrite, SetPoll, SetRepeat, SetExpired
<1>16. CASE SetStatus(p)
  <2>1. AimsAt(t) /\ t.plan # <<>>
    BY <1>0, <1>6, <1>16 DEF SetStatus, Step, OnStep, Fits, t
  <2>2. u.jobs = t.jobs /\ u.plan = t.plan /\ u.pc # "unlock"
    BY <1>0, <1>16 DEF SetStatus, ThreadStates, t, u
  <2>3. AimsAt(u)
    BY <2>1, <2>2 DEF AimsAt
  <2> QED  BY <2>2, <2>3 DEF AimedAt
<1>17. CASE AckWrite(p) \/ AckRead(p)
  <2>1. t.back \in {"recheck", "judge"} /\ (t.back = "judge" => AimsAt(t))
    BY <1>0, <1>6, <1>17 DEF AckWrite, AckRead, Step, Fits, OnStep, t
  <2> QED  BY <1>1, <1>17, <2>1 DEF AckWrite, AckRead, t
<1>18. CASE SetReached(p)
  <2>1. AimsAt(t) /\ t.plan # <<>> /\ t.got = [al |-> Head(t.plan).st, err |-> FALSE]
    BY <1>0, <1>6, <1>18 DEF SetReached, Step, OnStep, Fits, Reached, Request, t
  <2>2. u.jobs = t.jobs /\ u.plan = Tail(t.plan) /\ u.got = t.got /\ u.pc = "next"
    BY <1>0, <1>18 DEF SetReached, ThreadStates, t, u
  <2>3. AimsAt(u)
    BY <1>0, <2>1, <2>2, FeasibleTail DEF AimsAt, Seen
  <2> QED  BY <2>2, <2>3 DEF AimedAt
<1> QED
  BY <1>7, <1>8, <1>9, <1>10, <1>11, <1>12, <1>13, <1>14, <1>15, <1>16, <1>17, <1>18 DEF TransitionNext, u

\* The thread and the slave, as long as nothing fails.
LEMMA TransitionClean ==
    ASSUME Owned, Aimed, CleanInv, NEW p \in Threads, TransitionNext(p), Rest, Clean'
    PROVE  /\ Clean /\ ~dev'.err /\ (known' => dev'.adr)
           /\ lock' = NULL => Agrees(dev', dev'.al)
           /\ CleanAt(thr'[p], dev')
<1> DEFINE t == thr[p]
           u == thr'[p]
           d == dev'
           Good == /\ ~d.err /\ (known' => d.adr) /\ (lock' = NULL => Agrees(d, d.al)) /\ CleanAt(u, d)
<1>0. /\ t \in ThreadStates /\ Fits(t) /\ thr \in [Threads -> ThreadStates] /\ AimedAt(t) /\ Shaped
      /\ t.plan \in Seq(Steps)
      /\ dev \in [al : States \ {"UNKNOWN"}, err : BOOLEAN, adr : BOOLEAN,
                  ctl : {NULL} \cup [st : States, ack : BOOLEAN]]
      /\ p # NULL /\ (t.pc \in Inside <=> lock = p)
  BY ThreadParts, SlaveAssumption DEF Owned, Shaped, TypeOK, Aimed, Mutex
<1>1. Clean /\ ~Loss /\ faults' = faults
  <2>1. faults' = faults
    BY DEF TransitionNext, TrCall, TrLock, TrFirst, TrAddress, TrAgain, TrRecheck, TrReset, TrNext,
           TrUnlock, PrepareSlave, SetWrite, SetPoll, SetStatus, AckWrite, AckRead, SetReached,
           SetRepeat, SetExpired
  <2>2. losses' \in {losses, losses + 1}
    BY DEF TransitionNext, TrCall, TrLock, TrFirst, TrAddress, TrAgain, TrRecheck, TrReset, TrNext,
           TrUnlock, PrepareSlave, SetWrite, SetPoll, SetStatus, AckWrite, AckRead, SetReached,
           SetRepeat, SetExpired, Kept, Loss, NoAnswer
  <2>3. losses \in Nat
    BY SlaveAssumption DEF Owned, Shaped, TypeOK
  <2>4. losses = 0
    BY <2>2, <2>3 DEF Clean
  <2> QED  BY <2>1, <2>4 DEF Clean, Loss
<1>2. /\ ~dev.err /\ (known => dev.adr) /\ (lock = NULL => Agrees(dev, dev.al)) /\ CleanAt(t, dev)
      /\ known' = known /\ MoveOf(p)
  BY <1>1, TransitionMoves DEF Owned, CleanInv
<1>3. t.pc \in Inside \cup {"lock"} => dev.adr /\ ~NoAnswer
  BY <1>1, <1>2, TargetIs DEF Owned, NoAnswer
<1>4. /\ t.pc \notin {"address", "again", "recheck", "reset", "ack", "acked"}
      /\ t.pc = "judge" => ~Stuck(Request(p)) \/ Reached(p)
  BY <1>2, <1>3 DEF CleanAt, Stuck, Request, Inside
<1> SUFFICES Good
  BY <1>1
<1>5. ASSUME NEW q, Goto(p, q) PROVE u.pc = q /\ u.jobs = t.jobs /\ u.plan = t.plan /\ u.got = t.got
  BY <1>0, <1>5, GotoMoves DEF Moves
<1> HIDE DEF t, u
<1>6. CASE TrCall(p) \/ PrepareSlave(p)
  <2>1. u.pc \in {"lock", "call"} /\ UNCHANGED <<dev, lock>>
    BY <1>2, <1>6 DEF TrCall, PrepareSlave, Step, MoveOf, Inside, t, u
  <2> QED  BY <1>2, <2>1, Vacuous DEF Inside
<1>7. CASE TrLock(p)
  <2>1. u.pc = "first" /\ UNCHANGED dev /\ lock = NULL /\ lock' = p
    BY <1>5, <1>7 DEF TrLock
  <2> QED  BY <1>0, <1>2, <2>1 DEF CleanAt
<1>8. CASE TrFirst(p)
  <2>1. Known(p) /\ UNCHANGED <<dev, lock>> /\ t.pc = "first"
    BY <1>3, <1>8 DEF TrFirst, Step, Inside, t
  <2>2. u.pc = "next" /\ Feasible(dev.al, u.plan) /\ u.plan # <<>>
    BY <1>0, <1>2, <2>1, KnownLearns, LearnsAimed DEF Inside, t, u
  <2>3. Agrees(d, d.al)
    BY <1>2, <2>1 DEF CleanAt
  <2> QED  BY <1>2, <2>1, <2>2, <2>3 DEF CleanAt
<1>9. CASE TrNext(p)
  <2>1. t.pc = "next" /\ lock' = lock /\ lock = p
    BY <1>0, <1>9 DEF TrNext, Step, Inside, t
  <2>2. Agrees(dev, dev.al) /\ Feasible(dev.al, t.plan)
    BY <1>2, <2>1 DEF CleanAt
  <2>3. CASE t.plan = <<>>
    <3>1. Leave(p, TRUE) /\ UNCHANGED dev
      BY <1>9, <2>3 DEF TrNext, t
    <3>2. u.pc = "unlock" /\ u.jobs = t.jobs
      BY <1>0, <3>1, LeaveLeaves DEF Leaves, t, u
    <3>3. Head(t.jobs).st # "UNKNOWN" => dev.al = Head(t.jobs).st
      BY <1>2, <2>1, <2>3 DEF CleanAt
    <3> QED  BY <1>0, <1>2, <2>1, <2>2, <3>1, <3>2, <3>3 DEF CleanAt
  <2>4. CASE t.plan # <<>>
    <3>1. Goto(p, "write") /\ \E b \in BOOLEAN : dev' = [dev EXCEPT !.adr = dev.adr \/ b]
      BY <1>1, <1>9, <2>4 DEF TrNext, t
    <3>2. u.pc = "write" /\ u.plan = t.plan
      BY <1>5, <3>1
    <3>3. d.al = dev.al /\ d.ctl = dev.ctl /\ d.err = dev.err /\ d.adr
      BY <1>0, <1>3, <2>1, <3>1 DEF Inside
    <3> QED  BY <1>0, <1>2, <2>1, <2>2, <3>2, <3>3 DEF CleanAt, Agrees
  <2> QED  BY <2>3, <2>4
<1>10. CASE TrUnlock(p)
  <2>1. t.pc = "unlock" /\ UNCHANGED dev
    BY <1>10 DEF TrUnlock, Step, t
  <2>2. u.pc = "call"
    BY <1>0, <1>10 DEF TrUnlock, ThreadStates, t, u, JobDone
  <2>3. Agrees(dev, dev.al)
    BY <1>2, <2>1 DEF CleanAt
  <2> QED  BY <1>2, <2>1, <2>2, <2>3, Vacuous DEF Inside
<1>11. CASE SetWrite(p) \/ SetPoll(p)
  <2>1. /\ t.pc \in {"write", "poll"} /\ lock' = lock /\ lock = p
        /\ Goto(p, "status") /\ WriteControl(Request(p), FALSE)
    BY <1>0, <1>1, <1>11 DEF SetWrite, SetPoll, Step, Inside, t
  <2>2. u.pc = "status" /\ u.plan = t.plan
    BY <1>5, <2>1
  <2>3. Legal(dev.al, Head(t.plan).st) /\ Feasible(Head(t.plan).st, Tail(t.plan))
    <3>1. CASE t.pc = "write"
      <4>1. t.plan # <<>> /\ Feasible(dev.al, t.plan)
        BY <1>0, <1>2, <3>1 DEF CleanAt, Fits, OnStep
      <4> QED  BY <1>0, <4>1, FeasibleTail
    <3>2. CASE t.pc = "poll"
      BY <1>2, <3>2 DEF CleanAt
    <3> QED  BY <2>1, <3>1, <3>2
  <2>4. d.al = dev.al /\ d.err = dev.err /\ d.adr = dev.adr /\ d.ctl.st = Head(t.plan).st
    BY <1>0, <1>3, <2>1 DEF WriteControl, Request, Inside, t
  <2> QED  BY <1>0, <1>2, <2>1, <2>2, <2>3, <2>4 DEF CleanAt, Agrees
<1>12. CASE SetStatus(p)
  <2>1. /\ t.pc = "status" /\ lock' = lock /\ lock = p /\ UNCHANGED dev
        /\ u.pc = "judge" /\ u.plan = t.plan /\ u.got = Read
    BY <1>0, <1>1, <1>2, <1>3, <1>12 DEF SetStatus, Step, Inside, ThreadStates, t, u
  <2>2. u.got.al = dev.al
    BY <1>3, <2>1 DEF Read, Inside
  <2> QED  BY <1>0, <1>2, <2>1, <2>2 DEF CleanAt
<1>13. CASE AckWrite(p) \/ AckRead(p) \/ TrAddress(p) \/ TrAgain(p) \/ TrRecheck(p) \/ TrReset(p)
  BY <1>4, <1>13 DEF AckWrite, AckRead, TrAddress, TrAgain, TrRecheck, TrReset, Step, t
<1>14. CASE SetReached(p)
  <2>1. /\ t.pc = "judge" /\ lock' = lock /\ lock = p /\ UNCHANGED dev /\ t.plan # <<>>
        /\ t.got = [al |-> Head(t.plan).st, err |-> FALSE]
    BY <1>0, <1>14 DEF SetReached, Step, Inside, Fits, OnStep, Reached, Request, t
  <2>2. u.jobs = t.jobs /\ u.plan = Tail(t.plan) /\ u.pc = "next"
    BY <1>0, <1>14 DEF SetReached, ThreadStates, t, u
  <2>3. /\ dev.al = Head(t.plan).st /\ Agrees(dev, dev.al) /\ Feasible(dev.al, Tail(t.plan))
    BY <1>2, <2>1 DEF CleanAt
  <2>4. Tail(t.plan) = <<>> /\ Head(t.jobs).st # "UNKNOWN" => dev.al = Head(t.jobs).st
    <3>1. AimsAt(t)
      BY <1>0, <2>1 DEF AimedAt, OnStep
    <3> QED  BY <1>0, <2>1, <2>3, <3>1, FeasibleTail DEF AimsAt
  <2> QED  BY <1>0, <1>2, <2>1, <2>2, <2>3, <2>4 DEF CleanAt
<1>15. CASE SetRepeat(p)
  <2>1. /\ t.pc = "judge" /\ lock' = lock /\ lock = p /\ UNCHANGED dev /\ u.pc = "poll" /\ u.plan = t.plan
    BY <1>0, <1>5, <1>15 DEF SetRepeat, Step, Inside, t
  <2> QED  BY <1>0, <1>2, <2>1 DEF CleanAt
<1>16. ~SetExpired(p)
  BY <1>1, <1>4 DEF SetExpired, Step, t
<1> QED
  BY <1>6, <1>7, <1>8, <1>9, <1>10, <1>11, <1>12, <1>13, <1>14, <1>15, <1>16 DEF TransitionNext

LEMMA InitReached == Init => Aimed /\ CleanInv
<1> SUFFICES ASSUME Init PROVE Aimed /\ CleanInv
  OBVIOUS
<1>1. \A p \in Threads : thr[p] = [IdleThread EXCEPT !.strict = p = "async"]
  BY DEF Init
<1>2. \A p \in Threads : thr[p].pc \notin Inside
  <2>1. ASSUME NEW strict PROVE [IdleThread EXCEPT !.strict = strict].pc = "idle"
    BY DEF IdleThread
  <2>2. ASSUME NEW p \in Threads PROVE thr[p].pc = "idle"
    <3> DEFINE strict == p = "async"
    <3>1. thr[p] = [IdleThread EXCEPT !.strict = strict]
      BY <1>1
    <3> HIDE DEF strict
    <3>2. QED
      BY <2>1, <3>1
  <2>3. QED
    BY <2>2 DEF Inside
<1>3. ~dev.err /\ ~known /\ Agrees(dev, dev.al)
  BY DEF Init, Agrees
<1> QED  BY <1>2, <1>3, Vacuous DEF Aimed, CleanInv

\* A step that no transition makes.
LEMMA OutsideReached ==
    ASSUME Owned, Owned', Aimed, CleanInv,
           \A p \in Threads : thr'[p] = thr[p] \/ thr'[p].pc \notin Inside,
           faults' \in Nat /\ losses' \in Nat,
           Clean' => /\ Clean /\ (lock' = NULL <=> lock = NULL)
                     /\ \/ UNCHANGED <<dev, known>>
                        \/ ~dev'.err /\ (known' => dev'.adr) /\ Agrees(dev', dev'.al) /\ lock = NULL
    PROVE  Aimed' /\ CleanInv'
<1>1. ASSUME NEW p \in Threads PROVE AimedAt(thr'[p])
  BY Vacuous DEF Aimed
<1>2. ASSUME Clean'
      PROVE  /\ ~dev'.err /\ (known' => dev'.adr) /\ (lock' = NULL => Agrees(dev', dev'.al))
             /\ \A p \in Threads : CleanAt(thr'[p], dev')
  <2>1. Clean /\ (lock' = NULL <=> lock = NULL) /\ \A p \in Threads : CleanAt(thr[p], dev)
    BY <1>2 DEF CleanInv
  <2>2. CASE UNCHANGED <<dev, known>>
    BY <2>1, <2>2, Vacuous DEF CleanInv
  <2>3. CASE ~dev'.err /\ (known' => dev'.adr) /\ Agrees(dev', dev'.al) /\ lock = NULL
    <3>1. \A p \in Threads : thr'[p].pc \notin Inside
      BY <2>3, SlaveAssumption DEF Owned, Mutex
    <3> QED  BY <2>3, <3>1, Vacuous
  <2> QED  BY <1>2, <2>2, <2>3
<1> QED  BY <1>1, <1>2 DEF Aimed, CleanInv

LEMMA TransitionReached ==
    ASSUME Owned, Owned', Aimed, CleanInv, NEW p \in Threads, TransitionNext(p), Rest
    PROVE  Aimed' /\ CleanInv'
<1>1. MoveOf(p)
  BY TransitionMoves DEF Owned
<1>2. \A q \in Threads \ {p} : thr'[q] = thr[q] /\ (thr'[q].pc \in Inside => UNCHANGED dev)
  <2>1. ASSUME NEW q \in Threads \ {p}, thr[q].pc \in Inside PROVE UNCHANGED dev
    <3>1. lock = q
      BY <2>1 DEF Owned, Mutex
    <3>2. thr[p].pc \notin Inside
      BY <3>1 DEF Owned, Mutex
    <3> QED  BY <1>1, <3>2 DEF MoveOf
  <2> QED  BY <1>1, <2>1 DEF MoveOf, Others
<1>3. ASSUME NEW q \in Threads PROVE AimedAt(thr'[q])
  BY <1>2, TransitionAimed DEF Aimed
<1>4. ASSUME Clean'
      PROVE  /\ ~dev'.err /\ (known' => dev'.adr) /\ (lock' = NULL => Agrees(dev', dev'.al))
             /\ \A q \in Threads : CleanAt(thr'[q], dev')
  <2>1. /\ Clean /\ ~dev'.err /\ (known' => dev'.adr)
        /\ lock' = NULL => Agrees(dev', dev'.al)
        /\ CleanAt(thr'[p], dev')
    BY <1>4, TransitionClean
  <2>2. ASSUME NEW q \in Threads \ {p} PROVE CleanAt(thr'[q], dev')
    BY <1>2, <2>1, <2>2, Vacuous DEF CleanInv
  <2> QED  BY <2>1, <2>2
<1> QED  BY <1>3, <1>4 DEF Aimed, CleanInv

LEMMA NextReached ==
    OneScan /\ Watched /\ Owned /\ Aimed /\ CleanInv /\ [Next]_vars => Owned' /\ Aimed' /\ CleanInv'
<1> SUFFICES ASSUME OneScan, Watched, Owned, Aimed, CleanInv, [Next]_vars
             PROVE  Owned' /\ Aimed' /\ CleanInv'
  OBVIOUS
<1>1. Owned' /\ {"app", "async"} = Threads /\ faults' \in Nat /\ losses' \in Nat /\ losses \in Nat /\ faults \in Nat
  <2>1. Owned'
    BY NextOwned
  <2> QED  BY <2>1, SlaveAssumption, SupervisionAssumption DEF Owned, Shaped, TypeOK
<1>2. CASE AppCall \/ AppMaster \/ AppReturn
  <2>1. \E pc \in {"idle", "call", "scan"} : \E jobs : AppMoves(pc, jobs)
    BY <1>2, AppThread DEF AppCall, AppMaster, AppReturn
  <2>2. \A p \in Threads : thr'[p] = thr[p] \/ thr'[p].pc \notin Inside
    BY <1>1, <2>1 DEF AppMoves, Inside
  <2>3. UNCHANGED <<dev, known, lock, faults, losses>>
    BY <1>2 DEF AppCall, AppMaster, AppReturn
  <2> QED  BY <1>1, <2>2, <2>3, OutsideReached DEF Clean
<1>3. CASE AppScan \/ AppFound
  <2>1. \E pc \in {"idle", "call", "scan"} : \E jobs : AppMoves(pc, jobs)
    BY <1>3, AppThread DEF AppScan, AppFound
  <2>2. \A p \in Threads : thr'[p] = thr[p] \/ thr'[p].pc \notin Inside
    BY <1>1, <2>1 DEF AppMoves, Inside
  <2>3. ~known
    <3>1. thr["app"].pc \in {"call", "scan"} /\ thr["app"].jobs # <<>> /\ AppWork(thr["app"], known, found)
          /\ (thr["app"].pc = "call" => Head(thr["app"].jobs).do \in {"scan", "rescan"})
      BY <1>1, <1>3 DEF AppScan, AppFound, Doing, Step, Owned, Work, Shaped, Fits
    <3> QED  BY <3>1, HeadIn, JobsAre DEF AppWork
  <2>4. lock = NULL /\ lock' = lock /\ dev.al = "INIT"
    BY <1>3, <2>3 DEF AppScan, AppFound, Owned, Unseen
  <2>5. ASSUME Clean'
        PROVE  /\ Clean
               /\ \/ UNCHANGED <<dev, known>>
                  \/ ~dev'.err /\ (known' => dev'.adr) /\ Agrees(dev', dev'.al)
    <3>1. faults' = faults /\ losses' \in {losses, losses + 1}
      BY <1>3 DEF AppScan, AppFound, Kept, Loss
    <3>2. Clean /\ ~Loss
      BY <1>1, <2>5, <3>1 DEF Clean, Loss
    <3>3. ~dev.err /\ dev \in [al : States \ {"UNKNOWN"}, err : BOOLEAN, adr : BOOLEAN,
                               ctl : {NULL} \cup [st : States, ack : BOOLEAN]]
      BY <3>2 DEF CleanInv, Owned, Shaped, TypeOK
    <3> DEFINE request == [st |-> "INIT", ack |-> TRUE]
    <3>4. request.st = "INIT"
      OBVIOUS
    <3>5. \/ dev' = [dev EXCEPT !.ctl = request] /\ known' = FALSE
          \/ dev' = [dev EXCEPT !.adr = TRUE, !.ctl = request]
      BY <1>3, <3>2 DEF AppScan, AppFound
    <3> HIDE DEF request
    <3>6. /\ dev'.ctl = request /\ dev'.al = "INIT" /\ dev'.err = dev.err /\ (known' => dev'.adr)
      BY <2>4, <3>3, <3>5
    <3> QED  BY <3>2, <3>3, <3>4, <3>6 DEF Agrees
  <2> QED  BY <1>1, <2>2, <2>4, <2>5, OutsideReached
<1>4. CASE \E p \in Threads : TransitionNext(p) /\ Rest
  BY <1>1, <1>4, TransitionReached
<1>5. CASE AsyncTake \/ AsyncCheck \/ AsyncDecide \/ AsyncRepair \/ AsyncDone
  <2>1. /\ thr' = thr \/ \E pc \in Watching : \E jobs : AsyncMoves(pc, jobs)
        /\ UNCHANGED <<dev, lock, known, faults>>
    BY <1>5, AsyncSteps
  <2>2. \A p \in Threads : thr'[p] = thr[p] \/ thr'[p].pc \notin Inside
    BY <1>1, <2>1 DEF AsyncMoves, Watching, Inside
  <2>3. losses' \in {losses, losses + 1}
    BY <1>5 DEF AsyncTake, AsyncCheck, AsyncDecide, AsyncRepair, AsyncDone, Kept, Loss
  <2>4. Clean' => Clean
    BY <1>1, <2>1, <2>3 DEF Clean
  <2> QED  BY <1>1, <2>1, <2>2, <2>4, OutsideReached
<1>6. CASE Fault /\ Rest
  <2>1. UNCHANGED <<thr, lock>> /\ ~Clean'
    <3>1. faults' = faults + 1 /\ UNCHANGED <<thr, lock>>
      BY <1>6 DEF Fault
    <3> QED  BY <1>1, <3>1 DEF Clean
  <2> QED  BY <1>1, <2>1, OutsideReached
<1>7. CASE Serve /\ Rest
  <2>1. UNCHANGED <<slv, lock, known, thr, faults, losses>> /\ dev.ctl # NULL /\ dev' = Served(dev)
    BY <1>7 DEF Serve
  <2>2. ASSUME NEW p \in Threads PROVE AimedAt(thr'[p])
    BY <2>1 DEF Aimed
  <2>3. ASSUME Clean
        PROVE  /\ ~dev'.err /\ (known' => dev'.adr) /\ (lock' = NULL => Agrees(dev', dev'.al))
               /\ \A p \in Threads : CleanAt(thr'[p], dev')
    <3>1. /\ ~dev.err /\ (known => dev.adr) /\ (lock = NULL => Agrees(dev, dev.al))
          /\ \A p \in Threads : CleanAt(thr[p], dev)
          /\ dev \in [al : States \ {"UNKNOWN"}, err : BOOLEAN, adr : BOOLEAN,
                      ctl : {NULL} \cup [st : States, ack : BOOLEAN]]
      BY <2>3 DEF CleanInv, Owned, Shaped, TypeOK
    <3> DEFINE to == dev.ctl.st
    <3>2. Legal(dev.al, to)
      <4>1. CASE lock = NULL
        BY <2>1, <3>1, <4>1, LegalSelf DEF Agrees
      <4>2. CASE lock \in Threads
        <5>1. thr[lock].pc \in Inside
          BY <4>2 DEF Owned, Mutex
        <5> QED  BY <2>1, <3>1, <4>2, <5>1, LegalSelf DEF CleanAt, Inside, Agrees
      <4> QED  BY <4>1, <4>2 DEF Owned, Shaped, TypeOK
    <3>3. dev'.al = to /\ dev'.ctl = NULL /\ ~dev'.err /\ dev'.adr = dev.adr
      BY <2>1, <3>1, <3>2 DEF Served
    <3>4. to \in States \ {"UNKNOWN"} /\ Legal(to, to)
      <4>1. to \in States
        BY <2>1, <3>1
      <4> QED  BY <3>1, <3>2, <4>1, LegalSelf
    <3>5. ASSUME NEW p \in Threads PROVE CleanAt(thr[p], dev')
      <4>1. CleanAt(thr[p], dev)
        BY <3>1
      <4>2. thr[p].pc \in {"first", "next", "write", "unlock"} => dev'.al = dev.al
        BY <2>1, <3>3, <4>1 DEF CleanAt, Agrees
      <4>3. thr[p].pc \in {"poll", "status", "judge"} => to = Head(thr[p].plan).st
        BY <2>1, <4>1 DEF CleanAt, Agrees
      <4> QED  BY <3>3, <3>4, <4>1, <4>2, <4>3 DEF CleanAt, Agrees
    <3> QED  BY <2>1, <3>1, <3>3, <3>5 DEF Agrees
  <2>4. Clean' => Clean
    BY <2>1 DEF Clean
  <2> QED  BY <1>1, <2>2, <2>3, <2>4 DEF Aimed, CleanInv
<1>8. CASE UNCHANGED <<dev, slv, lock, known, thr, faults, losses>>
  BY <1>1, <1>8, OutsideReached DEF Clean
<1>9. CASE (\E i \in DOMAIN Groups : RxGroup(Groups[i])) \/ RxState \/ TimerExpires \/ UNCHANGED vars
  BY <1>8, <1>9 DEF RxGroup, RxState, ec_async_check_group, TimerExpires, vars, svars
<1> QED
  BY <1>1, <1>2, <1>3, <1>4, <1>5, <1>6, <1>7, <1>9 DEF Next, AppNext, AsyncNext

-----------------------------------------------------------------------------

\* The two threads are never in ec_slave_state_transition at the same time: whoever is in it
\* owns slave->transition_mutex, whatever is lost and whatever the slave does.
THEOREM OneTransition ==
    ASSUME OneScan, Watched
    PROVE  Spec => [](\A p \in Threads : thr[p].pc \in Inside <=> lock = p)
<1>1. Init => Owned
  BY InitOwned
<1>2. Owned /\ [Next]_vars => Owned'
  BY NextOwned
<1>3. Owned => \A p \in Threads : thr[p].pc \in Inside <=> lock = p
  BY DEF Owned, Mutex
<1> QED  BY <1>1, <1>2, <1>3, PTL DEF Spec

LEMMA Reaches ==
    ASSUME OneScan, Watched
    PROVE  Spec => [](Owned /\ Aimed /\ CleanInv)
<1> DEFINE Inv == Owned /\ Aimed /\ CleanInv
<1>1. Init => Inv
  BY InitOwned, InitReached
<1>2. Inv /\ [Next]_vars => Inv'
  BY NextReached
<1> QED  BY <1>1, <1>2, PTL DEF Spec

\* As long as nothing fails, the slave never has to refuse a request, although ec_set_state and
\* the supervision drive it at the same time (ec_slave_state_transition).
THEOREM OnlyLegalRequests ==
    ASSUME OneScan, Watched
    PROVE  Spec => []NoIllegalRequest
<1>1. Owned /\ Aimed /\ CleanInv => NoIllegalRequest
  BY DEF CleanInv, NoIllegalRequest
<1> QED  BY <1>1, Reaches, PTL

\* EC_OK of ec_slave_state_transition is what the slave has answered, and if nothing has failed
\* it is what the slave still is when the mutex is given back.
THEOREM OkIsReached ==
    ASSUME OneScan, Watched
    PROVE  Spec => []OkMeansReached
<1>1. ASSUME Owned, Aimed, CleanInv PROVE OkMeansReached
  <2>1. ASSUME NEW p \in Threads, Step(p, "unlock"), thr[p].ok, Target(p) # "UNKNOWN"
        PROVE  thr[p].got = [al |-> Target(p), err |-> FALSE] /\ (Clean => dev.al = Target(p))
    BY <1>1, <2>1 DEF Aimed, AimedAt, Seen, CleanInv, CleanAt, Step, Target
  <2> QED  BY <2>1 DEF OkMeansReached
<1> QED  BY <1>1, Reaches, PTL

-----------------------------------------------------------------------------
(* The mailbox handler of a slave at work.  Who waits for it, a request    *)
(* for PREOP that is still pending, and what has been lost so far tell     *)
(* whether the handler is there, or will have been ended by then.          *)

\* The slave is at work, or will be when it has served what it was asked.
Up(d) == d.al \in Working \/ (d.ctl # NULL /\ d.ctl.st = "PREOP" /\ (d.err => d.ctl.ack))

\* A slave in INIT, without an error, is asked for PREOP.
Ready(d) == d.al = "INIT" /\ ~d.err /\ d.ctl # NULL /\ d.ctl.st = "PREOP"

\* A slave at work is asked to acknowledge an error it had in INIT.
Late(d) == /\ d.ctl # NULL /\ d.ctl.ack /\ d.ctl.st = "INIT"
           /\ d.al \in Working /\ (d.err \/ d.al # "PREOP")

\* A plan that goes to PREOP, SAFEOP or OP, and one that frees the slave, which is on its
\* way to INIT.
Climbs(plan) == \E i \in DOMAIN plan : plan[i].st \in Working
Falling(plan) == (\E i \in DOMAIN plan : plan[i].prep = "free")
                 => \A i \in DOMAIN plan : plan[i].st = "INIT"

\* The thread has freed the slave and asks it for INIT.
Freeing(t) == OnStep(t) /\ Head(t.plan).prep = "free"
Acking(t)  == t.pc \in {"ack", "acked"}
Judging(t) == t.pc \in {"poll", "judge"}
Has(t, s)  == t.got = [al |-> s, err |-> FALSE] /\ Head(t.plan).st = s

\* As long as nothing is lost: a slave that will go to PREOP is waited for, ...
Awaited(t, d) == /\ Ready(d) => OnStep(t) /\ Head(t.plan).st = "PREOP"
                 /\ Late(d) => Acking(t) /\ t.got.al = "INIT"
                 /\ t.pc = "next" /\ t.plan # <<>> /\ Head(t.plan).prep = "free" => ~Up(d)

\* ... and an error that is acknowledged is the one of the state it has been read in.
AckFits(t, d) ==
    /\ t.got.al = "PREOP" => /\ d.al = "INIT" /\ ~d.err => ~d.adr
                             /\ d.ctl # NULL /\ d.ctl.st = "INIT" => ~d.ctl.ack /\ d.err
    /\ t.got.al = "INIT" => /\ d.al \in {"INIT", "PREOP"}
                            /\ d.al = "PREOP" /\ d.ctl # NULL => d.ctl.st = "INIT"

\* With one loss at most: what brings the slave to work has its mailbox handler, and one
\* without it is being taken to INIT.
Handled(t, d, m, n) ==
    /\ Up(d) /\ ~m => n = 1 /\ Freeing(t)
    /\ t.pc = "next" /\ Climbs(t.plan) => m \/ Head(t.plan).prep = "mbx"
    /\ OnStep(t) /\ Climbs(t.plan) => m
    /\ Acking(t) /\ t.got.al \in Working => m \/ (n = 1 /\ Freeing(t))

\* Whatever is lost: how the answers of the slave agree with its requests.
Answered(t, d) ==
    /\ t.pc = "next" \/ OnStep(t) => Falling(t.plan)
    /\ t.pc = "status" /\ Head(t.plan).st = "INIT" => Agrees(d, "INIT")
    /\ Judging(t) /\ Has(t, "INIT") => ~Up(d)
    /\ Judging(t) /\ Has(t, "PREOP") => ~Ready(d)
    /\ Acking(t) /\ t.back = "judge" => t.got.err

MailAt(t, d, m, n) == /\ n = 0 => Awaited(t, d) /\ (Acking(t) => AckFits(t, d))
                      /\ n < 2 => Handled(t, d, m, n)
                      /\ Answered(t, d)

\* Nobody is in a transition.
MailFree(d, m, n) == /\ n = 0 => ~Ready(d) /\ ~Late(d)
                     /\ n < 2 /\ ~m => ~Up(d)

Unaddressed(d) == ~d.adr => d.al = "INIT" /\ Agrees(d, "INIT")

MailInv == /\ Unaddressed(dev)
           /\ lock = NULL => MailFree(dev, slv.mbx, losses)
           /\ \A p \in Threads : thr[p].pc \in Inside => MailAt(thr[p], dev, slv.mbx, losses)

Devices == [al : {"INIT"} \cup Working, err : BOOLEAN, adr : BOOLEAN,
            ctl : {NULL} \cup [st : States \ {"BOOT"}, ack : BOOLEAN]]

\* A step of the slave itself.
Acts(d, e) == \/ d.ctl # NULL /\ e = Served(d)
              \/ e.adr = d.adr /\ e.al = d.al /\ e.ctl = NULL /\ e.err
              \/ e.adr = d.adr /\ d.al # "INIT" /\ e.al # "OP" /\ e.ctl = d.ctl /\ e.err
                 /\ (e.al = "SAFEOP" => d.al = "OP") /\ (e.al = "PREOP" => d.al \in {"SAFEOP", "OP"})
              \/ e.al = "INIT" /\ ~e.err /\ e.ctl = NULL /\ ~e.adr

LEMMA ActsSafe ==
    ASSUME NEW d \in Devices, NEW e \in Devices, Acts(d, e)
    PROVE  /\ Up(e) => Up(d)
           /\ ~Ready(e)
           /\ Late(e) => Late(d)
           /\ \A s : Agrees(d, s) => Agrees(e, s)
           /\ Unaddressed(d) => Unaddressed(e)
           /\ \A t : AckFits(t, d) => AckFits(t, e)
<1>1. CASE d.ctl # NULL /\ e = Served(d)
  <2>1. /\ e.ctl = NULL /\ e.adr = d.adr
        /\ IF d.err /\ ~d.ctl.ack THEN e.al = d.al /\ e.err
           ELSE IF Legal(d.al, d.ctl.st) THEN e.al = d.ctl.st /\ ~e.err
           ELSE e.al = d.al /\ e.err
    BY <1>1 DEF Served, Devices
  <2>2. d.al \in {"INIT", "PREOP", "SAFEOP", "OP"} /\ d.ctl \in [st : States \ {"BOOT"}, ack : BOOLEAN]
    BY <1>1 DEF Devices, Working
  <2>3. e.al = d.ctl.st => Legal(d.al, d.ctl.st) \/ e.al = d.al
    BY <2>1
  <2>4. d.al = "INIT" /\ Legal(d.al, d.ctl.st) => d.ctl.st \in {"INIT", "PREOP"}
    BY <2>2 DEF Legal
  <2>5. Up(e) => Up(d)
    BY <1>1, <2>1, <2>2, <2>4 DEF Up, Working
  <2>6. ~Ready(e) /\ ~Late(e) /\ \A s : Agrees(e, s)
    BY <2>1 DEF Ready, Late, Agrees
  <2>7. Unaddressed(d) => Unaddressed(e)
    BY <1>1, <2>1, <2>6 DEF Unaddressed, Agrees
  <2>8. ASSUME NEW t, AckFits(t, d) PROVE AckFits(t, e)
    BY <1>1, <2>1, <2>2, <2>4, <2>8 DEF AckFits
  <2> QED  BY <2>5, <2>6, <2>7, <2>8
<1>2. CASE ~(d.ctl # NULL /\ e = Served(d))
  <2>1. d.al \in {"INIT", "PREOP", "SAFEOP", "OP"} /\ e.al \in {"INIT", "PREOP", "SAFEOP", "OP"}
    BY DEF Devices, Working
  <2>2. \/ e.adr = d.adr /\ e.al = d.al /\ e.ctl = NULL /\ e.err
        \/ e.adr = d.adr /\ d.al # "INIT" /\ e.al # "OP" /\ e.ctl = d.ctl /\ e.err
           /\ (e.al = "SAFEOP" => d.al = "OP") /\ (e.al = "PREOP" => d.al \in {"SAFEOP", "OP"})
        \/ e.al = "INIT" /\ ~e.err /\ e.ctl = NULL /\ ~e.adr
    BY <1>2 DEF Acts
  <2>3. Up(e) => Up(d)
    BY <2>1, <2>2 DEF Up, Working
  <2>4. ~Ready(e)
    BY <2>2 DEF Ready
  <2>5. Late(e) => Late(d)
    BY <2>1, <2>2 DEF Late, Working
  <2>6. \A s : Agrees(d, s) => Agrees(e, s)
    BY <2>2 DEF Agrees
  <2>7. Unaddressed(d) => Unaddressed(e)
    BY <2>2 DEF Unaddressed, Agrees
  <2>8. ASSUME NEW t, AckFits(t, d) PROVE AckFits(t, e)
    <3>1. t.got.al = "PREOP" => /\ e.al = "INIT" /\ ~e.err => ~e.adr
                                /\ e.ctl # NULL /\ e.ctl.st = "INIT" => ~e.ctl.ack /\ e.err
      BY <2>2, <2>8 DEF AckFits
    <3>2. t.got.al = "INIT" => e.al \in {"INIT", "PREOP"}
      BY <2>1, <2>2, <2>8 DEF AckFits
    <3>3. t.got.al = "INIT" => (e.al = "PREOP" /\ e.ctl # NULL => e.ctl.st = "INIT")
      BY <2>1, <2>2, <2>8 DEF AckFits
    <3> QED  BY <3>1, <3>2, <3>3 DEF AckFits
  <2> QED  BY <2>3, <2>4, <2>5, <2>6, <2>7, <2>8
<1> QED  BY <1>1, <1>2

\* What a slave does on its own keeps all of it.
LEMMA MailActs ==
    ASSUME NEW d \in Devices, NEW e \in Devices, Acts(d, e), NEW t, NEW m, NEW n
    PROVE  /\ MailAt(t, d, m, n) => MailAt(t, e, m, n)
           /\ MailFree(d, m, n) => MailFree(e, m, n)
<1>1. /\ Up(e) => Up(d)
      /\ ~Ready(e)
      /\ Late(e) => Late(d)
      /\ \A s : Agrees(d, s) => Agrees(e, s)
      /\ AckFits(t, d) => AckFits(t, e)
  BY ActsSafe
<1>2. Awaited(t, d) => Awaited(t, e)
  BY <1>1 DEF Awaited
<1>3. Handled(t, d, m, n) => Handled(t, e, m, n)
  BY <1>1 DEF Handled
<1>4. Answered(t, d) => Answered(t, e)
  BY <1>1 DEF Answered
<1> QED  BY <1>1, <1>2, <1>3, <1>4 DEF MailAt, MailFree

\* The plans of the switch.
LEMMA PlanMail ==
    ASSUME NEW from \in {"INIT"} \cup Working, NEW to \in States
    PROVE  /\ Falling(Plan(from, to))
           /\ Plan(from, to) # <<>> /\ Head(Plan(from, to)).prep = "free" => from = "INIT"
           /\ Climbs(Plan(from, to)) => from \in Working \/ Head(Plan(from, to)).prep = "mbx"
<1> DEFINE plan == Plan(from, to)
           Goal == /\ Falling(plan)
                   /\ plan # <<>> /\ Head(plan).prep = "free" => from = "INIT"
                   /\ Climbs(plan) => from \in Working \/ Head(plan).prep = "mbx"
<1>0. \A x, s : Set(x, s).prep = x /\ Set(x, s).st = s
  BY DEF Set
<1>1. CASE to = "INIT"
  <2> DEFINE s == <<Set("none", to), Set("adr", to), Set("free", to)>>
  <2>1. plan = SubSeq(s, Entry[from], 3)
    BY <1>1 DEF Plan, Working
  <2>2. Entry[from] \in {1, 3} /\ (Entry[from] = 3 <=> from = "INIT")
    BY DEF Entry, Working
  <2>3. /\ s \in Seq(Steps) /\ Len(s) = 3 /\ s[1].prep = "none"
        /\ \A i \in 1 .. 3 : s[i].st = "INIT"
    BY <1>0, <1>1, StateSet DEF Set, Steps
  <2> HIDE DEF s, plan
  <2>4. PICK k \in 1 .. 3, l \in 1 .. 3 : k = Entry[from] /\ l = 3 /\ l \in k .. 3
    BY <2>2
  <2>5. /\ plan \in Seq(Steps) /\ Len(plan) = l - k + 1
        /\ \A i \in 1 .. Len(plan) : i + k - 1 \in 1 .. 3 /\ plan[i] = s[i + k - 1]
    <3>1. plan = SubSeq(s, k, l)
      BY <2>1, <2>4
    <3>2. s \in Seq(Steps) /\ Len(s) = 3 /\ l \in k .. 3
      BY <2>3, <2>4
    <3> QED  BY <3>1, <3>2, PartOfThree, SMTT(30)
  <2>6. /\ DOMAIN plan = 1 .. Len(plan) /\ \A i \in 1 .. Len(plan) : plan[i].st = "INIT"
        /\ Head(plan) = s[k]
    <3>1. Len(plan) \in Nat /\ Len(plan) >= 1 /\ DOMAIN plan = 1 .. Len(plan) /\ Head(plan) = plan[1]
      BY <2>4, <2>5
    <3> QED  BY <2>3, <2>4, <2>5, <3>1, SMTT(30)
  <2>7. Falling(plan) /\ ~Climbs(plan)
    BY <2>6 DEF Falling, Climbs, Working
  <2> QED  BY <2>2, <2>3, <2>4, <2>6, <2>7 DEF plan
<1>2. CASE from \in {"INIT", "PREOP", "SAFEOP"} /\ to \in Working /\ Rank[from] < Rank[to]
  <2> DEFINE s == <<Set("mbx", "PREOP"), Set("dc", "SAFEOP"), Set("none", "OP")>>
  <2>1. Stage[from] \in 0 .. 2 /\ Stage[to] \in 1 .. 3 /\ Stage[from] < Stage[to]
    BY <1>2, StageIs, StateSet DEF Working
  <2>2. plan = SubSeq(s, Stage[from] + 1, Stage[to])
    <3>1. Rank[from] \in Int /\ Rank[to] \in Int /\ ~(Rank[from] >= Rank[to])
      BY <1>2, StateSet DEF Working
    <3>2. from \notin {"UNKNOWN", "BOOT", "OP"} /\ to \notin {"INIT", "BOOT", "UNKNOWN"}
      BY <1>2, StateSet DEF Working
    <3>3. plan = Rise(from, to)
      BY <1>2, <3>1, <3>2 DEF Plan, Working
    <3> QED  BY <3>3 DEF Rise
  <2>3. /\ s \in Seq(Steps) /\ Len(s) = 3
        /\ s[1].prep = "mbx" /\ s[2].prep = "dc" /\ s[3].prep = "none"
    BY <1>0, StateSet DEF Set, Steps
  <2> HIDE DEF s, plan
  <2>4. PICK k \in 1 .. 3, l \in 1 .. 3 : k = Stage[from] + 1 /\ l = Stage[to] /\ l \in k .. 3
    BY <2>1
  <2>5. /\ plan \in Seq(Steps) /\ Len(plan) = l - k + 1
        /\ \A i \in 1 .. Len(plan) : i + k - 1 \in 1 .. 3 /\ plan[i] = s[i + k - 1]
    <3>1. plan = SubSeq(s, k, l)
      BY <2>2, <2>4
    <3>2. s \in Seq(Steps) /\ Len(s) = 3 /\ l \in k .. 3
      BY <2>3, <2>4
    <3> QED  BY <3>1, <3>2, PartOfThree, SMTT(30)
  <2>6. \A i \in 1 .. 3 : s[i].prep # "free"
    BY <2>3
  <2>7. plan # <<>> /\ Head(plan) = s[k]
    BY <2>4, <2>5
  <2>8. from = "INIT" => s[k].prep = "mbx"
    BY <2>3, <2>4, StageIs
  <2> QED  BY <1>2, <2>5, <2>6, <2>7, <2>8, SMTT(30) DEF Falling, Climbs, Working, plan
<1>3. CASE from = "OP" /\ to = "PREOP"
  <2>1. plan = <<Set("none", to), Set("none", to)>>
    BY <1>3, StateSet DEF Plan, Working
  <2>2. DOMAIN plan = 1 .. 2 /\ Head(plan).prep = "none" /\ \A i \in 1 .. 2 : plan[i].prep = "none"
    BY <1>0, <2>1
  <2> QED  BY <1>3, <2>2 DEF Falling, Climbs, Working
<1>4. ASSUME NEW x \in {"none", "mbx"}, NEW s, plan = <<Set(x, s)>>, from = "INIT" /\ s \in Working => x = "mbx"
      PROVE  Goal
  <2>1. DOMAIN plan = 1 .. 1 /\ Head(plan).prep = x /\ plan[1].prep = x /\ plan[1].st = s
    BY <1>0, <1>4
  <2> HIDE DEF plan
  <2> QED  BY <1>4, <2>1 DEF Falling, Climbs
<1>5. CASE from = "INIT" /\ to = "BOOT"
  <2>1. plan = <<Set("mbx", to)>>
    BY <1>5 DEF Plan, Working
  <2> QED  BY <2>1, <1>4
<1>6. CASE {from, to} \subseteq Working /\ Rank[from] >= Rank[to] /\ ~(from = "OP" /\ to = "PREOP")
  <2>1. Rank[from] \in Int /\ Rank[to] \in Int /\ ~(Rank[from] < Rank[to])
    BY <1>6, StateSet DEF Working
  <2>2. from \in Working /\ to \in Working
    BY <1>6
  <2>3. plan = <<Set("none", to)>>
    BY <1>6, <2>1, <2>2 DEF Plan, Working
  <2>4. from # "INIT"
    BY <2>2 DEF Working
  <2> QED  BY <2>3, <2>4, <1>4
<1>7. CASE to \in {"UNKNOWN", "BOOT"} /\ ~(from = "INIT" /\ to = "BOOT")
  <2>1. plan = <<Set("none", "INIT")>>
    BY <1>7, StateSet DEF Plan, Working
  <2>2. "INIT" \notin Working
    BY DEF Working
  <2> QED  BY <2>1, <2>2, <1>4
<1> QED
  BY <1>1, <1>2, <1>3, <1>5, <1>6, <1>7, StateSet DEF Working

\* What is left of a plan.
LEMMA PlanTail ==
    ASSUME NEW plan \in Seq(Steps), plan # <<>>, Falling(plan)
    PROVE  /\ Falling(Tail(plan))
           /\ Climbs(Tail(plan)) => Climbs(plan)
           /\ Head(plan).st \in Working => Climbs(plan)
           /\ Head(plan).prep = "free" => Head(plan).st = "INIT" /\ ~Climbs(plan)
           /\ Tail(plan) # <<>> /\ Head(Tail(plan)).prep = "free" => Head(plan).st = "INIT"
<1>1. /\ Tail(plan) \in Seq(Steps) /\ Len(Tail(plan)) = Len(plan) - 1 /\ Len(plan) \in Nat \ {0}
      /\ \A i \in 1 .. Len(plan) - 1 : Tail(plan)[i] = plan[i + 1] /\ i + 1 \in 1 .. Len(plan)
      /\ DOMAIN plan = 1 .. Len(plan) /\ DOMAIN Tail(plan) = 1 .. Len(plan) - 1
      /\ Head(plan) = plan[1] /\ 1 \in 1 .. Len(plan)
  OBVIOUS
<1>2. Tail(plan) # <<>> => 1 \in 1 .. Len(plan) - 1 /\ Head(Tail(plan)) = Tail(plan)[1]
  BY <1>1
<1> DEFINE rest == Tail(plan)
<1> HIDE DEF rest
<1>3. Falling(rest)
  BY <1>1 DEF Falling, rest
<1>4. Climbs(rest) => Climbs(plan)
  BY <1>1 DEF Climbs, rest
<1>5. Head(plan).st \in Working => Climbs(plan)
  BY <1>1 DEF Climbs
<1>6. "INIT" \notin Working
  BY DEF Working
<1>7. Head(plan).prep = "free" => Head(plan).st = "INIT" /\ ~Climbs(plan)
  BY <1>1, <1>6 DEF Falling, Climbs
<1>8. rest # <<>> /\ Head(rest).prep = "free" => Head(plan).st = "INIT"
  BY <1>1, <1>2 DEF Falling, rest
<1> QED  BY <1>3, <1>4, <1>5, <1>7, <1>8 DEF rest

\* A place between the steps of a plan and the acknowledgement of an error.
Neutral(t) == ~OnStep(t) /\ ~Acking(t) /\ t.pc # "next"

LEMMA NeutralMail ==
    ASSUME NEW t, Neutral(t), NEW d, NEW m, NEW n
    PROVE  MailAt(t, d, m, n) <=> MailFree(d, m, n)
<1>1. ~Judging(t) /\ ~Freeing(t) /\ t.pc # "status"
  BY DEF Neutral, Judging, Freeing, OnStep
<1>2. Answered(t, d)
  BY <1>1 DEF Answered, Neutral
<1>3. Handled(t, d, m, n) <=> (Up(d) => m)
  BY <1>1 DEF Handled, Neutral
<1>4. Awaited(t, d) <=> ~Ready(d) /\ ~Late(d)
  BY <1>1 DEF Awaited, Neutral
<1> QED  BY <1>2, <1>3, <1>4 DEF MailAt, MailFree, Neutral

\* With the next loss only what the handler is for remains.
LEMMA LossMail ==
    ASSUME NEW n \in Nat, NEW d, NEW m
    PROVE  /\ MailFree(d, m, n) => MailFree(d, m, n + 1)
           /\ \A t : MailAt(t, d, m, n) => MailFree(d, m, n + 1)
<1>1. n + 1 # 0 /\ (n + 1 < 2 => n = 0 /\ n # 1 /\ n < 2)
  OBVIOUS
<1> QED  BY <1>1 DEF MailFree, MailAt, Handled

\* A slave that is asked for another state.
LEMMA AsksMail ==
    ASSUME NEW d, NEW e, NEW s, e.al = d.al, e.err = d.err, e.adr = d.adr, e.ctl.st = s
    PROVE  /\ Up(e) => Up(d) \/ s = "PREOP"
           /\ Ready(e) => s = "PREOP" /\ d.al = "INIT" /\ ~d.err
           /\ Late(e) => e.ctl.ack /\ s = "INIT"
           /\ Agrees(e, s)
  BY DEF Up, Ready, Late, Agrees

\* The read state leads to a plan, or to the acknowledgement of its error.
LEMMA LearnsMail ==
    ASSUME Owned, MailInv, NEW p \in Threads, Neutral(thr[p]), thr[p].pc \in Inside, Learns(p), dev.adr,
           dev \in Devices, MailFree(dev, slv.mbx, losses)
    PROVE  MailAt(thr'[p], dev, slv.mbx, losses)
<1> DEFINE u == thr'[p]
           m == slv.mbx
           n == losses
<1>1. u.got = [al |-> dev.al, err |-> dev.err]
  BY DEF Learns, Read
<1>2. /\ n = 0 => ~Ready(dev) /\ ~Late(dev)
      /\ n < 2 /\ ~m => ~Up(dev)
  BY DEF MailFree
<1>3. dev.al \in {"INIT"} \cup Working /\ "INIT" \notin Working
  BY DEF Devices, Working
<1>4. CASE dev.err
  <2>1. u.pc = "ack" /\ u.back = "recheck"
    BY <1>4 DEF Learns
  <2> HIDE DEF u, m, n
  <2>2. Acking(u) /\ ~OnStep(u) /\ ~Judging(u) /\ u.pc # "next" /\ u.pc # "status" /\ u.back # "judge"
    BY <2>1 DEF Acking, OnStep, Judging
  <2>3. Answered(u, dev)
    BY <2>2 DEF Answered
  <2>4. n < 2 => Handled(u, dev, m, n)
    BY <1>1, <1>2, <2>2 DEF Handled, Up
  <2>5. n = 0 => Awaited(u, dev)
    BY <1>2, <2>2 DEF Awaited
  <2>6. n = 0 => AckFits(u, dev)
    BY <1>1, <1>2, <1>4 DEF AckFits, Late, Working
  <2> QED  BY <2>3, <2>4, <2>5, <2>6 DEF MailAt, u, m, n
<1>5. CASE ~dev.err
  <2>1. u.pc = "next" /\ u.plan = Plan(dev.al, Target(p))
    BY <1>5 DEF Learns
  <2>2. Target(p) \in States
    BY TargetIs DEF Owned
  <2>3. /\ Falling(u.plan)
        /\ u.plan # <<>> /\ Head(u.plan).prep = "free" => dev.al = "INIT"
        /\ Climbs(u.plan) => dev.al \in Working \/ Head(u.plan).prep = "mbx"
    BY <1>3, <2>1, <2>2, PlanMail
  <2> HIDE DEF u, m, n
  <2>4. ~Acking(u) /\ ~OnStep(u) /\ ~Judging(u)
    BY <2>1 DEF Acking, OnStep, Judging
  <2>5. Answered(u, dev)
    BY <2>1, <2>3, <2>4 DEF Answered
  <2>6. n < 2 => Handled(u, dev, m, n)
    BY <1>2, <2>1, <2>3, <2>4 DEF Handled, Up
  <2>7. n = 0 => Awaited(u, dev)
    <3>1. dev.al = "INIT" /\ ~Ready(dev) => ~Up(dev)
      BY <1>3, <1>5 DEF Up, Ready
    <3> QED  BY <1>2, <2>3, <2>4, <3>1 DEF Awaited
  <2> QED  BY <2>4, <2>5, <2>6, <2>7 DEF MailAt, u, m, n
<1> QED  BY <1>4, <1>5

\* A step of the transition, for its thread.
LEMMA TransitionMail ==
    ASSUME Owned, Owned', MailInv, NEW p \in Threads, TransitionNext(p), Rest
    PROVE  /\ Unaddressed(dev')
           /\ lock' = NULL => MailFree(dev', slv'.mbx, losses')
           /\ thr'[p].pc \in Inside => MailAt(thr'[p], dev', slv'.mbx, losses')
<1> DEFINE t == thr[p]
           u == thr'[p]
           d == dev
           e == dev'
           m == slv.mbx
           n == losses
           k == losses'
           Good == /\ Unaddressed(e)
                   /\ lock' = NULL => MailFree(e, slv'.mbx, k)
                   /\ u.pc \in Inside => MailAt(u, e, slv'.mbx, k)
<1> SUFFICES Good
  OBVIOUS
<1>0. /\ t \in ThreadStates /\ u \in ThreadStates /\ Fits(t) /\ thr \in [Threads -> ThreadStates] /\ Shaped
      /\ t.plan \in Seq(Steps) /\ t.got.al \in States
      /\ d \in Devices /\ e \in Devices
      /\ slv \in [expected : States, active : BOOLEAN, mbx : BOOLEAN]
      /\ n \in Nat /\ k \in Nat
      /\ p # NULL /\ (t.pc \in Inside <=> lock = p) /\ (u.pc \in Inside <=> lock' = p)
  <2>1. dev \in Devices /\ dev' \in Devices
    BY StateSet DEF Owned, Shaped, TypeOK, NoBoot, Devices, Working
  <2>2. t.plan \in Seq(Steps) /\ t.got.al \in States
    BY ThreadParts DEF Owned, Shaped, TypeOK
  <2> QED  BY <2>1, <2>2, SlaveAssumption DEF Owned, Shaped, TypeOK, Mutex
<1>1. /\ Unaddressed(d)
      /\ lock = NULL => MailFree(d, m, n)
      /\ t.pc \in Inside => MailAt(t, d, m, n)
  BY DEF MailInv
<1>2. ASSUME NEW q, Goto(p, q) PROVE u.pc = q /\ u.plan = t.plan /\ u.got = t.got /\ u.back = t.back
  BY <1>0, <1>2, GotoMoves DEF Moves
<1>3. ASSUME NEW ok, Leave(p, ok) PROVE u.pc = "unlock" /\ Neutral(u) /\ u.pc \in Inside
  BY <1>0, <1>3, LeaveLeaves DEF Leaves, Neutral, OnStep, Acking, Inside
<1>4. (Kept => k = n) /\ (Loss => k = n + 1)
  BY DEF Kept, Loss
<1>5. NoAnswer => k \in {n, n + 1} /\ (k = n => ~d.adr)
  BY <1>0, <1>4 DEF NoAnswer
<1>6. MailFree(d, m, n) /\ k \in {n, n + 1} => MailFree(d, m, k)
  BY <1>0, LossMail
<1>7. (t.pc \in Inside => lock # NULL) /\ (u.pc \in Inside => lock' # NULL)
  BY <1>0
<1>8. Neutral(t) /\ t.pc \in Inside => MailFree(d, m, n)
  BY <1>1, NeutralMail
<1>9. ASSUME Neutral(u), u.pc \in Inside, UNCHANGED slv, e = d, MailFree(d, m, k) PROVE Good
  BY <1>1, <1>7, <1>9, NeutralMail
<1>10. ASSUME t.pc \in Inside, k = n + 1, Neutral(u), u.pc \in Inside, slv'.mbx = m, e = d PROVE Good
  BY <1>0, <1>1, <1>7, <1>10, NeutralMail, LossMail
<1>11. ASSUME Known(p), d.adr, Neutral(t), t.pc \in Inside, k = n, UNCHANGED <<dev, slv, lock>> PROVE Good
  <2>1. Learns(p)
    BY <1>0, <1>11, KnownLearns
  <2>2. MailAt(u, d, m, n)
    BY <1>0, <1>8, <1>11, <2>1, LearnsMail
  <2> QED  BY <1>1, <1>7, <1>11, <2>2
<1> HIDE DEF t, u, d, e, m, n, k
<1>12. CASE TrCall(p) \/ PrepareSlave(p)
  <2>1. MoveOf(p) /\ UNCHANGED <<dev, slv, lock>> /\ t.pc = "call" /\ k \in {n, n + 1}
    BY <1>0, <1>4, <1>12, TransitionMoves DEF TrCall, PrepareSlave, Step, t, k, n
  <2>2. u.pc \notin Inside
    BY <1>0, <2>1 DEF Inside
  <2> QED  BY <1>1, <1>6, <2>1, <2>2 DEF e, d, m
<1>13. CASE TrLock(p)
  <2>1. u.pc = "first" /\ UNCHANGED <<dev, slv, losses>> /\ lock = NULL
    BY <1>2, <1>13 DEF TrLock
  <2>2. Neutral(u) /\ u.pc \in Inside
    BY <2>1 DEF Neutral, OnStep, Acking, Inside
  <2> QED  BY <1>1, <1>9, <2>1, <2>2 DEF e, d, k, n
<1>14. CASE TrFirst(p)
  <2>1. t.pc = "first" /\ UNCHANGED <<dev, slv, lock>>
    BY <1>14 DEF TrFirst, Step, t
  <2>2. Neutral(t) /\ t.pc \in Inside
    BY <2>1 DEF Neutral, OnStep, Acking, Inside
  <2>3. CASE d.adr /\ Kept /\ Known(p)
    BY <1>4, <1>11, <2>1, <2>2, <2>3
  <2>4. CASE NoAnswer /\ Goto(p, "address")
    <3>1. u.pc = "address"
      BY <1>2, <2>4
    <3>2. Neutral(u) /\ u.pc \in Inside
      BY <3>1 DEF Neutral, OnStep, Acking, Inside
    <3> QED  BY <1>5, <1>6, <1>8, <1>9, <2>1, <2>2, <2>4, <3>2 DEF e, d
  <2> QED  BY <1>14, <2>3, <2>4 DEF TrFirst, d
<1>15. CASE TrAddress(p)
  <2>1. t.pc = "address" /\ UNCHANGED <<slv, lock>>
    BY <1>15 DEF TrAddress, Step, t
  <2>2. Neutral(t) /\ t.pc \in Inside
    BY <2>1 DEF Neutral, OnStep, Acking, Inside
  <2>3. Neutral(u) /\ u.pc \in Inside
    <3>1. u.pc = "again" \/ \E ok : Leave(p, ok)
      BY <1>2, <1>15 DEF TrAddress
    <3>2. u.pc = "again" => Neutral(u) /\ u.pc \in Inside
      BY DEF Neutral, OnStep, Acking, Inside
    <3> QED  BY <1>3, <3>1, <3>2
  <2>4. CASE Kept /\ dev' = [dev EXCEPT !.adr = TRUE]
    <3>1. e.al = d.al /\ e.err = d.err /\ e.ctl = d.ctl /\ e.adr
      BY <1>0, <2>4 DEF Devices, e, d
    <3>2. Unaddressed(e) /\ MailFree(e, m, n)
      BY <1>8, <2>2, <3>1 DEF Unaddressed, MailFree, Up, Ready, Late
    <3> QED  BY <1>4, <1>7, <2>1, <2>3, <2>4, <3>2, NeutralMail DEF m
  <2>5. CASE Loss /\ UNCHANGED dev
    BY <1>4, <1>10, <2>1, <2>2, <2>3, <2>5 DEF e, d, m
  <2> QED  BY <1>15, <2>4, <2>5 DEF TrAddress
<1>16. CASE TrAgain(p)
  <2>1. t.pc = "again" /\ UNCHANGED <<dev, slv, lock>>
    BY <1>16 DEF TrAgain, Step, t
  <2>2. Neutral(t) /\ t.pc \in Inside
    BY <2>1 DEF Neutral, OnStep, Acking, Inside
  <2>3. CASE d.adr /\ Kept /\ Known(p)
    BY <1>4, <1>11, <2>1, <2>2, <2>3
  <2>4. CASE NoAnswer /\ Leave(p, FALSE)
    BY <1>3, <1>5, <1>6, <1>8, <1>9, <2>1, <2>2, <2>4 DEF e, d
  <2> QED  BY <1>16, <2>3, <2>4 DEF TrAgain, d
<1>17. CASE TrRecheck(p)
  <2>1. t.pc = "recheck" /\ UNCHANGED <<dev, slv, lock>>
    BY <1>17 DEF TrRecheck, Step, t
  <2>2. Neutral(t) /\ t.pc \in Inside /\ t.back = "recheck"
    BY <1>0, <2>1 DEF Neutral, OnStep, Acking, Inside, Fits
  <2>3. CASE d.adr /\ Kept /\ Known(p)
    BY <1>4, <1>11, <2>1, <2>2, <2>3
  <2>4. CASE Loss /\ thr' = [thr EXCEPT ![p].pc = "ack", ![p].got = Lost]
    <3>1. u.pc = "ack" /\ u.back = "recheck" /\ u.got = Lost
      BY <1>0, <2>2, <2>4 DEF ThreadStates, t, u
    <3>2. k = n + 1 /\ MailFree(d, m, k)
      BY <1>4, <1>6, <1>8, <2>2, <2>4
    <3>3. u.pc \in Inside /\ Acking(u) /\ ~OnStep(u) /\ ~Judging(u) /\ u.pc # "next" /\ u.pc # "status"
      BY <3>1 DEF Inside, Acking, OnStep, Judging
    <3>4. u.got.al \notin Working
      BY <3>1 DEF Lost, Working
    <3>5. Answered(u, d) /\ (k < 2 => Handled(u, d, m, k)) /\ k # 0
      BY <1>0, <3>1, <3>2, <3>3, <3>4 DEF Answered, Handled, MailFree
    <3> QED  BY <1>1, <1>7, <2>1, <3>3, <3>5 DEF MailAt, e, d, m
  <2>5. CASE NoAnswer /\ Goto(p, "reset")
    <3>1. u.pc = "reset"
      BY <1>2, <2>5
    <3>2. Neutral(u) /\ u.pc \in Inside
      BY <3>1 DEF Neutral, OnStep, Acking, Inside
    <3> QED  BY <1>5, <1>6, <1>8, <1>9, <2>1, <2>2, <2>5, <3>2 DEF e, d
  <2> QED  BY <1>17, <2>3, <2>4, <2>5 DEF TrRecheck, d
<1>18. CASE TrReset(p)
  <2>1. t.pc = "reset" /\ UNCHANGED <<slv, lock, losses>> /\ Leave(p, FALSE)
    BY <1>18 DEF TrReset, Step, t
  <2>2. Neutral(t) /\ t.pc \in Inside /\ Neutral(u) /\ u.pc \in Inside
    BY <1>3, <2>1 DEF Neutral, OnStep, Acking, Inside
  <2>3. CASE UNCHANGED dev
    BY <1>8, <1>9, <2>1, <2>2, <2>3 DEF e, d, k, n
  <2>4. CASE dev' = [al |-> "INIT", err |-> FALSE, ctl |-> NULL, adr |-> FALSE]
    <3>1. e.al = "INIT" /\ e.ctl = NULL
      BY <2>4 DEF e
    <3>2. Unaddressed(e) /\ MailFree(e, m, k)
      BY <3>1 DEF Unaddressed, Agrees, MailFree, Up, Ready, Late, Working
    <3> QED  BY <1>7, <2>1, <2>2, <3>2, NeutralMail DEF m
  <2> QED  BY <1>18, <2>3, <2>4 DEF TrReset
<1>19. CASE TrUnlock(p)
  <2>1. t.pc = "unlock" /\ UNCHANGED <<dev, slv, losses>>
    BY <1>19 DEF TrUnlock, Step, t
  <2>2. Neutral(t) /\ t.pc \in Inside
    BY <2>1 DEF Neutral, OnStep, Acking, Inside
  <2>3. u.pc \notin Inside
    BY <1>0, <1>19 DEF TrUnlock
  <2> QED  BY <1>1, <1>8, <2>1, <2>2, <2>3 DEF e, d, m, k, n
<1>20. OnStep(t) => /\ t.pc \in Inside /\ t.plan # <<>> /\ Falling(t.plan)
                    /\ Head(t.plan).st \in Working => Climbs(t.plan)
                    /\ Head(t.plan).prep = "free" => Head(t.plan).st = "INIT"
  BY <1>0, <1>1, PlanTail DEF OnStep, Inside, Fits, MailAt, Answered
<1>21. CASE TrNext(p)
  <2>1. t.pc = "next" /\ UNCHANGED lock /\ t.pc \in Inside
    BY <1>21 DEF TrNext, Step, t, Inside
  <2>2. ~OnStep(t) /\ ~Acking(t) /\ ~Freeing(t)
    BY <2>1 DEF OnStep, Acking, Freeing
  <2>3. MailFree(d, m, n)
    BY <1>1, <2>1, <2>2 DEF MailAt, Awaited, Handled, MailFree
  <2>4. CASE t.plan = <<>>
    <3>1. Leave(p, TRUE) /\ k = n /\ UNCHANGED <<dev, slv>>
      BY <1>4, <1>21, <2>4 DEF TrNext, t
    <3> QED  BY <1>3, <1>9, <2>3, <3>1 DEF e, d
  <2>5. CASE t.plan # <<>> /\ Goto(p, "write")
    <3> DEFINE prep == Head(t.plan).prep
    <3>1. /\ slv'.mbx = ((m \/ prep = "mbx") /\ prep # "free")
          /\ e.al = d.al /\ e.err = d.err /\ e.ctl = d.ctl /\ (d.adr => e.adr)
          /\ k \in {n, n + 1}
      <4>0. thr'[p].pc # "unlock"
        BY <1>2, <2>5 DEF u
      <4>1. ~Leave(p, FALSE)
        BY <1>3, <4>0 DEF u
      <4>2. /\ UNCHANGED dev \/ \E b : dev' = [dev EXCEPT !.adr = dev.adr \/ b]
            /\ slv' = [slv EXCEPT !.mbx = (slv.mbx \/ prep = "mbx") /\ prep # "free"]
            /\ k \in {n, n + 1}
        BY <1>4, <1>21, <2>5, <4>1 DEF TrNext, t
      <4> HIDE DEF prep
      <4>3. e.al = d.al /\ e.err = d.err /\ e.ctl = d.ctl /\ (d.adr => e.adr)
        BY <1>0, <4>2 DEF Devices, e, d
      <4>4. slv'.mbx = ((m \/ prep = "mbx") /\ prep # "free")
        BY <1>0, <4>2 DEF m
      <4> QED  BY <4>2, <4>3, <4>4
    <3>2. u.pc = "write" /\ u.plan = t.plan
      BY <1>2, <2>5
    <3>3. u.pc \in Inside /\ OnStep(u) /\ ~Acking(u) /\ ~Judging(u)
      BY <3>2 DEF Inside, OnStep, Acking, Judging
    <3>4. (Up(e) <=> Up(d)) /\ (Ready(e) <=> Ready(d)) /\ (Late(e) <=> Late(d)) /\ Unaddressed(e)
      BY <1>1, <3>1 DEF Up, Ready, Late, Unaddressed, Agrees
    <3>5. Falling(t.plan) /\ (prep = "free" => ~Climbs(t.plan))
      BY <1>0, <1>1, <2>1, <2>5, PlanTail DEF MailAt, Answered
    <3>6. Answered(u, e)
      BY <3>2, <3>3, <3>5 DEF Answered
    <3>7. k = 0 => n = 0 /\ ~Ready(d) /\ ~Late(d) /\ (prep = "free" => ~Up(d))
      BY <1>0, <1>1, <2>1, <2>2, <2>5, <3>1 DEF MailAt, Awaited
    <3>8. k = 0 => Awaited(u, e)
      BY <3>2, <3>4, <3>7 DEF Awaited
    <3>9. ASSUME k < 2 PROVE Handled(u, e, slv'.mbx, k)
      <4>1. n < 2 /\ (k = 0 \/ k = 1)
        BY <1>0, <3>1, <3>9
      <4>2. (Up(d) => m) /\ (Climbs(t.plan) => m \/ prep = "mbx")
        BY <1>1, <2>1, <2>2, <4>1 DEF MailAt, Handled
      <4>3. prep = "free" => Freeing(u)
        BY <3>2, <3>3 DEF Freeing
      <4>4. Up(e) /\ ~slv'.mbx => k = 1 /\ Freeing(u)
        BY <3>1, <3>4, <3>7, <4>1, <4>2, <4>3
      <4>5. Climbs(u.plan) => slv'.mbx
        BY <3>1, <3>2, <3>5, <4>2
      <4> QED  BY <3>2, <3>3, <4>4, <4>5 DEF Handled
    <3> QED  BY <1>7, <3>3, <3>4, <3>6, <3>8, <3>9 DEF MailAt
  <2>6. CASE Loss /\ Leave(p, FALSE) /\ UNCHANGED <<dev, slv>>
    BY <1>3, <1>4, <1>10, <2>1, <2>6 DEF e, d, m
  <2> QED  BY <1>21, <2>4, <2>5, <2>6 DEF TrNext, t
<1>22. CASE SetWrite(p) \/ SetPoll(p)
  <2>1. t.pc \in {"write", "poll"} /\ UNCHANGED lock /\ OnStep(t) /\ t.pc \in Inside /\ ~Acking(t)
    BY <1>22 DEF SetWrite, SetPoll, Step, t, OnStep, Inside, Acking
  <2>2. CASE Kept /\ WriteControl(Request(p), FALSE) /\ Goto(p, "status")
    <3> DEFINE s == Head(t.plan).st
    <3>1. u.pc = "status" /\ u.plan = t.plan /\ k = n
      BY <1>2, <1>4, <2>2
    <3>2. u.pc \in Inside /\ OnStep(u) /\ ~Acking(u) /\ ~Judging(u) /\ (Freeing(t) => Freeing(u))
      BY <3>1 DEF Inside, OnStep, Acking, Judging, Freeing
    <3>3. slv'.mbx = m
      BY <1>0, <1>22 DEF SetWrite, SetPoll, m
    <3>4. e = IF d.adr THEN [d EXCEPT !.ctl = [st |-> s, ack |-> FALSE]] ELSE d
      BY <2>2 DEF WriteControl, Request, e, d, t
    <3>5. s = "PREOP" => Climbs(t.plan)
      BY <1>20, <2>1 DEF Working
    <3> HIDE DEF s
    <3>6. /\ Up(e) => Up(d) \/ s = "PREOP"
          /\ Ready(e) => Ready(d) \/ s = "PREOP"
          /\ ~Late(e)
          /\ s = "INIT" => Agrees(e, "INIT")
          /\ Unaddressed(e)
      <4>1. CASE d.adr
        <5>0. e = [d EXCEPT !.ctl = [st |-> s, ack |-> FALSE]]
          BY <3>4, <4>1
        <5>1. e.al = d.al /\ e.err = d.err /\ e.adr = d.adr /\ e.ctl.st = s /\ ~e.ctl.ack
          BY <1>0, <5>0 DEF Devices
        <5>2. /\ e.adr = d.adr
              /\ Up(e) => Up(d) \/ s = "PREOP"
              /\ Ready(e) => s = "PREOP"
              /\ ~Late(e)
              /\ Agrees(e, s)
          BY ONLY <5>1, AsksMail
        <5> QED  BY <4>1, <5>1, <5>2 DEF Unaddressed
      <4>2. CASE ~d.adr
        BY <1>1, <3>4, <4>2 DEF Unaddressed, Late, Working
      <4> QED  BY <4>1, <4>2
    <3>7. Answered(u, e)
      BY <1>20, <2>1, <3>1, <3>2, <3>6 DEF Answered, s
    <3>8. k = 0 => Awaited(u, e)
      BY <1>1, <2>1, <3>1, <3>2, <3>6 DEF MailAt, Awaited, s
    <3>9. k < 2 => Handled(u, e, m, k)
      BY <1>1, <2>1, <3>1, <3>2, <3>5, <3>6 DEF MailAt, Handled
    <3> QED  BY <1>7, <3>2, <3>3, <3>6, <3>7, <3>8, <3>9 DEF MailAt
  <2>3. CASE Loss /\ Leave(p, FALSE) /\ UNCHANGED <<dev, slv>>
    BY <1>3, <1>4, <1>10, <2>1, <2>3 DEF e, d, m
  <2>4. CASE Loss /\ Goto(p, "judge") /\ UNCHANGED <<dev, slv>> /\ t.pc = "poll"
    <3>1. u.pc = "judge" /\ u.plan = t.plan /\ u.got = t.got /\ k = n + 1
      BY <1>2, <1>4, <2>4
    <3>2. u.pc \in Inside /\ OnStep(u) /\ ~Acking(u) /\ Judging(u) /\ Judging(t) /\ u.pc # "status"
      BY <2>4, <3>1 DEF Inside, OnStep, Acking, Judging
    <3>3. Answered(u, d)
      BY <1>1, <1>20, <2>1, <3>1, <3>2 DEF MailAt, Answered, Has
    <3>4. k # 0 /\ (k < 2 => n = 0 /\ n < 2 /\ n # 1)
      BY <1>0, <3>1
    <3>5. k < 2 => Handled(u, d, m, k)
      BY <1>1, <2>1, <3>1, <3>2, <3>4 DEF MailAt, Handled
    <3> QED  BY <1>1, <1>7, <2>4, <3>2, <3>3, <3>4, <3>5 DEF MailAt, e, d, m
  <2> QED  BY <1>22, <2>2, <2>3, <2>4 DEF SetWrite, SetPoll, Step, t
<1>23. CASE SetRepeat(p)
  <2>1. t.pc = "judge" /\ UNCHANGED <<dev, slv, lock, losses>> /\ Goto(p, "poll")
    BY <1>23 DEF SetRepeat, Step, t
  <2>2. u.pc = "poll" /\ u.plan = t.plan /\ u.got = t.got
    BY <1>2, <2>1
  <2>3. /\ u.pc \in Inside /\ OnStep(u) /\ ~Acking(u) /\ Judging(u) /\ Judging(t) /\ (Freeing(t) => Freeing(u))
        /\ OnStep(t) /\ ~Acking(t) /\ t.pc \in Inside
    BY <2>1, <2>2 DEF Inside, OnStep, Acking, Judging, Freeing
  <2>4. Answered(u, d)
    BY <1>1, <2>1, <2>2, <2>3 DEF MailAt, Answered, Has
  <2>5. (n = 0 => Awaited(u, d)) /\ (n < 2 => Handled(u, d, m, n))
    BY <1>1, <2>1, <2>2, <2>3 DEF MailAt, Awaited, Handled
  <2> QED  BY <1>1, <1>7, <2>1, <2>3, <2>4, <2>5 DEF MailAt, e, d, m, k, n
<1>24. CASE SetReached(p)
  <2> DEFINE s == Head(t.plan).st
  <2>1. /\ t.pc = "judge" /\ UNCHANGED <<dev, lock, losses>>
        /\ t.got = [al |-> s, err |-> FALSE] /\ slv'.mbx = m
    BY <1>0, <1>24 DEF SetReached, Step, Reached, Request, t, m
  <2>2. u.pc = "next" /\ u.plan = Tail(t.plan)
    BY <1>0, <1>24 DEF SetReached, ThreadStates, t, u
  <2>3. /\ u.pc \in Inside /\ ~OnStep(u) /\ ~Acking(u) /\ ~Judging(u) /\ Judging(t)
        /\ OnStep(t) /\ ~Acking(t) /\ t.pc \in Inside
    BY <2>1, <2>2 DEF Inside, OnStep, Acking, Judging
  <2>4. /\ Falling(u.plan) /\ (Climbs(u.plan) => Climbs(t.plan))
        /\ u.plan # <<>> /\ Head(u.plan).prep = "free" => s = "INIT"
    BY <1>0, <1>20, <2>2, <2>3, PlanTail
  <2> HIDE DEF s
  <2>5. (s = "INIT" => ~Up(d)) /\ (s = "PREOP" => ~Ready(d))
    BY <1>1, <2>1, <2>3 DEF MailAt, Answered, Has, s
  <2>6. Answered(u, d)
    BY <2>2, <2>3, <2>4 DEF Answered
  <2>7. n = 0 => Awaited(u, d)
    BY <1>1, <2>3, <2>4, <2>5 DEF MailAt, Awaited, s
  <2>8. n < 2 => Handled(u, d, m, n)
    BY <1>1, <1>20, <2>3, <2>4, <2>5 DEF MailAt, Handled, Freeing, s
  <2> QED  BY <1>1, <1>7, <2>1, <2>3, <2>6, <2>7, <2>8 DEF MailAt, e, d, k, n
<1>25. CASE SetExpired(p)
  <2>1. /\ t.pc = "judge" /\ UNCHANGED <<dev, lock>> /\ Leave(p, FALSE) /\ slv'.mbx = m
        /\ IF ~Reached(p) /\ Stuck(Request(p)) THEN Kept ELSE Loss
    BY <1>0, <1>25 DEF SetExpired, Step, t, m
  <2>2. OnStep(t) /\ ~Acking(t) /\ t.pc \in Inside
    BY <2>1 DEF Inside, OnStep, Acking
  <2>3. CASE Loss
    BY <1>3, <1>4, <1>10, <2>1, <2>2, <2>3 DEF e, d
  <2>4. CASE Kept /\ Stuck(Request(p))
    <3> DEFINE s == Head(t.plan).st
    <3>1. ~d.adr \/ ~Legal(d.al, s)
      BY <2>4 DEF Stuck, Request, t, d
    <3> HIDE DEF s
    <3>2. d.al \in {"INIT", "PREOP", "SAFEOP", "OP"}
      BY <1>0 DEF Devices, Working
    <3>3. s \in {"INIT", "PREOP"} => ~d.adr
      BY <3>1, <3>2 DEF Legal
    <3>4. ~d.adr => ~Ready(d) /\ ~Up(d)
      BY <1>1 DEF Unaddressed, Agrees, Ready, Up, Working
    <3>5. MailFree(d, m, n)
      BY <1>1, <1>20, <2>2, <3>3, <3>4 DEF MailAt, Awaited, Handled, Freeing, MailFree, s
    <3>6. Neutral(u) /\ u.pc \in Inside /\ k = n
      BY <1>3, <1>4, <2>1, <2>4
    <3> QED  BY <1>1, <1>7, <2>1, <3>5, <3>6, NeutralMail DEF e, d
  <2> QED  BY <2>1, <2>3, <2>4
<1>26. CASE SetStatus(p)
  <2>1. /\ t.pc = "status" /\ UNCHANGED <<dev, slv, lock>> /\ u.plan = t.plan
        /\ \/ /\ u.pc = "ack" /\ u.back = "judge" /\ u.got = Read /\ d.err /\ d.adr /\ k = n
           \/ /\ u.pc = "judge" /\ u.got = Read /\ d.adr /\ (~d.err => k = n) /\ k \in {n, n + 1}
           \/ /\ u.pc = "judge" /\ u.got = Lost /\ k \in {n, n + 1}
    BY <1>0, <1>4, <1>5, <1>26 DEF SetStatus, Step, ThreadStates, t, u, d
  <2>2. OnStep(t) /\ ~Acking(t) /\ t.pc \in Inside
    BY <2>1 DEF Inside, OnStep, Acking
  <2>3. d.adr => Read = [al |-> d.al, err |-> d.err]
    BY DEF Read, d
  <2>4. /\ Falling(t.plan) /\ (Head(t.plan).st = "INIT" => Agrees(d, "INIT"))
        /\ n = 0 => ~Late(d) /\ (Ready(d) => Head(t.plan).st = "PREOP")
        /\ n < 2 => (Up(d) /\ ~m => n = 1 /\ Freeing(t)) /\ (Climbs(t.plan) => m)
    BY <1>1, <1>20, <2>1, <2>2 DEF MailAt, Awaited, Handled, Answered
  <2>5. k \in {n, n + 1} /\ (k = 0 => n = 0) /\ (k < 2 => n < 2) /\ (k = 1 /\ k # n => n = 0 /\ n # 1)
    BY <1>0, <2>1
  <2>6. CASE u.pc = "ack"
    <3>1. /\ u.pc \in Inside /\ OnStep(u) /\ Acking(u) /\ ~Judging(u) /\ (Freeing(t) => Freeing(u))
          /\ u.got.al = d.al /\ u.got.err /\ d.err /\ k = n
      BY <2>1, <2>3, <2>6 DEF Inside, OnStep, Acking, Judging, Freeing
    <3>2. Answered(u, d)
      BY <2>1, <2>4, <2>6, <3>1 DEF Answered
    <3>3. k < 2 => Handled(u, d, m, k)
      BY <2>1, <2>4, <2>6, <3>1 DEF Handled, Up
    <3>4. k = 0 => Awaited(u, d)
      BY <2>1, <2>4, <2>6, <3>1 DEF Awaited
    <3>5. k = 0 => AckFits(u, d)
      BY <2>4, <3>1 DEF AckFits, Late, Working
    <3> QED  BY <1>1, <1>7, <2>1, <3>1, <3>2, <3>3, <3>4, <3>5 DEF MailAt, e, d, m
  <2>7. CASE u.pc = "judge"
    <3>1. u.pc \in Inside /\ OnStep(u) /\ ~Acking(u) /\ Judging(u) /\ (Freeing(t) => Freeing(u))
      BY <2>1, <2>7 DEF Inside, OnStep, Acking, Judging, Freeing
    <3>2. Has(u, "INIT") => ~Up(d)
      <4>1. Has(u, "INIT") => d.al = "INIT" /\ Agrees(d, "INIT")
        BY <2>1, <2>3, <2>4, <2>7 DEF Has, Lost
      <4> QED  BY <4>1 DEF Up, Agrees, Working
    <3>3. Has(u, "PREOP") => ~Ready(d)
      BY <2>1, <2>3, <2>7 DEF Has, Lost, Ready
    <3>4. Answered(u, d)
      BY <2>1, <2>4, <2>7, <3>1, <3>2, <3>3 DEF Answered
    <3>5. k = 0 => Awaited(u, d)
      BY <2>1, <2>4, <2>5, <2>7, <3>1 DEF Awaited
    <3>6. k < 2 => Handled(u, d, m, k)
      BY <1>0, <2>1, <2>4, <2>5, <2>7, <3>1 DEF Handled
    <3> QED  BY <1>1, <1>7, <2>1, <3>1, <3>4, <3>5, <3>6 DEF MailAt, e, d, m
  <2> QED  BY <2>1, <2>6, <2>7
\* From the acknowledgement back to where the error has been found.
<1>27. ASSUME Acking(t), UNCHANGED <<dev, slv, lock>>, Goto(p, t.back), k \in {n, n + 1},
              k = 0 => ~Late(d)
       PROVE  Good
  <2>1. /\ u.pc = t.back /\ u.plan = t.plan /\ u.got = t.got
        /\ t.pc \in Inside /\ t.back \in {"recheck", "judge"}
    BY <1>0, <1>2, <1>27 DEF Acking, Inside, Fits
  <2>2. (k = 0 => n = 0) /\ (k < 2 => n < 2) /\ (k = 1 /\ k # n => n = 0 /\ n # 1)
    BY <1>0, <1>27
  <2>3. CASE t.back = "recheck"
    <3>1. Neutral(u) /\ u.pc \in Inside
      BY <2>1, <2>3 DEF Neutral, OnStep, Acking, Inside
    <3>2. ~OnStep(t) /\ ~Freeing(t)
      BY <1>27, <2>3 DEF OnStep, Acking, Freeing
    <3>3. MailFree(d, m, k)
      BY <1>1, <1>27, <2>1, <2>2, <3>2 DEF MailAt, Awaited, Handled, MailFree
    <3> QED  BY <1>9, <1>27, <3>1, <3>3 DEF e, d
  <2>4. CASE t.back = "judge"
    <3>1. /\ u.pc \in Inside /\ OnStep(u) /\ ~Acking(u) /\ OnStep(t) /\ (Freeing(t) => Freeing(u))
          /\ u.pc = "judge" /\ u.got.err
      BY <1>1, <1>27, <2>1, <2>4 DEF Inside, OnStep, Acking, Freeing, MailAt, Answered
    <3>2. ~Has(u, "INIT") /\ ~Has(u, "PREOP")
      BY <3>1 DEF Has
    <3>3. Answered(u, d)
      BY <1>20, <2>1, <3>1, <3>2 DEF Answered
    <3>4. k = 0 => Awaited(u, d)
      BY <1>1, <1>27, <2>1, <2>2, <3>1 DEF MailAt, Awaited
    <3>5. k < 2 => Handled(u, d, m, k)
      BY <1>0, <1>1, <1>27, <2>1, <2>2, <3>1 DEF MailAt, Handled
    <3> QED  BY <1>1, <1>7, <1>27, <3>1, <3>3, <3>4, <3>5 DEF MailAt, e, d, m
  <2> QED  BY <2>1, <2>3, <2>4
<1>28. CASE AckWrite(p)
  <2>1. t.pc = "ack" /\ UNCHANGED <<slv, lock>> /\ Acking(t) /\ t.pc \in Inside
    BY <1>28 DEF AckWrite, Step, t, Acking, Inside
  <2>2. CASE Kept /\ WriteControl(thr[p].got.al, TRUE) /\ Goto(p, "acked")
    <3> DEFINE s == t.got.al
    <3>1. u.pc = "acked" /\ u.plan = t.plan /\ u.got = t.got /\ u.back = t.back /\ k = n
      BY <1>2, <1>4, <2>2
    <3>2. /\ u.pc \in Inside /\ Acking(u) /\ ~Judging(u) /\ (Freeing(t) => Freeing(u))
          /\ (OnStep(t) <=> OnStep(u))
      BY <2>1, <3>1 DEF Inside, OnStep, Acking, Judging, Freeing
    <3>3. e = IF d.adr THEN [d EXCEPT !.ctl = [st |-> s, ack |-> TRUE]] ELSE d
      BY <2>2 DEF WriteControl, e, d, t
    <3>4. u.got.al = s
      BY <3>1
    <3> HIDE DEF s
    <3>5. /\ e.al = d.al /\ e.err = d.err /\ e.adr = d.adr
          /\ e = d \/ e.ctl.st = s
          /\ Up(e) => Up(d) \/ s = "PREOP"
          /\ Ready(e) => Ready(d) \/ (s = "PREOP" /\ d.al = "INIT" /\ ~d.err /\ d.adr)
          /\ Late(e) => s = "INIT"
          /\ Unaddressed(e)
      <4>1. CASE d.adr
        <5>0. e = [d EXCEPT !.ctl = [st |-> s, ack |-> TRUE]]
          BY <3>3, <4>1
        <5>1. e.al = d.al /\ e.err = d.err /\ e.adr = d.adr /\ e.ctl.st = s
          BY <1>0, <5>0 DEF Devices
        <5>2. /\ Up(e) => Up(d) \/ s = "PREOP"
              /\ Ready(e) => s = "PREOP" /\ d.al = "INIT" /\ ~d.err
              /\ Late(e) => s = "INIT"
          BY ONLY <5>1, AsksMail
        <5> QED  BY <4>1, <5>1, <5>2 DEF Unaddressed
      <4>2. CASE ~d.adr
        BY <1>1, <3>3, <4>2 DEF Unaddressed, Late, Working
      <4> QED  BY <4>1, <4>2
    <3>6. Answered(u, e)
      BY <1>1, <2>1, <3>1, <3>2 DEF MailAt, Answered
    <3>7. k = 0 => AckFits(t, d)
      BY <1>1, <2>1, <3>1 DEF MailAt
    <3>8. k = 0 => AckFits(u, e)
      BY <3>4, <3>5, <3>7 DEF AckFits, s
    <3>9. k = 0 => Awaited(u, e)
      BY <1>1, <2>1, <3>1, <3>2, <3>4, <3>5, <3>7 DEF MailAt, Awaited, AckFits, s
    <3>10. k < 2 => Handled(u, e, m, k)
      BY <1>1, <2>1, <3>1, <3>2, <3>4, <3>5 DEF MailAt, Handled, Working, s
    <3> QED  BY <1>7, <2>1, <3>2, <3>5, <3>6, <3>8, <3>9, <3>10 DEF MailAt, m
  <2>3. CASE Loss /\ Goto(p, thr[p].back) /\ UNCHANGED dev
    <3>1. k = n + 1 /\ k # 0
      BY <1>0, <1>4, <2>3
    <3> QED  BY <1>27, <2>1, <2>3, <3>1 DEF t
  <2> QED  BY <1>28, <2>2, <2>3 DEF AckWrite
<1>29. CASE AckRead(p)
  <2>1. t.pc = "acked" /\ UNCHANGED <<dev, slv, lock>> /\ Acking(t) /\ t.pc \in Inside
    BY <1>29 DEF AckRead, Step, t, Acking, Inside
  <2>2. CASE d.adr /\ Kept /\ Goto(p, "ack")
    <3>1. u.pc = "ack" /\ u.plan = t.plan /\ u.got = t.got /\ u.back = t.back /\ k = n
      BY <1>2, <1>4, <2>2
    <3>2. /\ u.pc \in Inside /\ Acking(u) /\ ~Judging(u) /\ (Freeing(t) <=> Freeing(u))
          /\ (OnStep(t) <=> OnStep(u))
      BY <2>1, <3>1 DEF Inside, OnStep, Acking, Judging, Freeing
    <3>3. Answered(u, d)
      BY <1>1, <2>1, <3>1, <3>2 DEF MailAt, Answered
    <3>4. k = 0 => Awaited(u, d) /\ AckFits(u, d)
      BY <1>1, <2>1, <3>1, <3>2 DEF MailAt, Awaited, AckFits
    <3>5. k < 2 => Handled(u, d, m, k)
      BY <1>1, <2>1, <3>1, <3>2 DEF MailAt, Handled
    <3> QED  BY <1>1, <1>7, <2>1, <3>2, <3>3, <3>4, <3>5 DEF MailAt, e, d, m
  <2>3. CASE d.adr /\ Kept /\ Goto(p, t.back) /\ ~(d.err /\ Legal(d.al, t.got.al))
    <3>1. k = n
      BY <1>4, <2>3
    <3>2. k = 0 => ~Late(d)
      <4>1. k = 0 => AckFits(t, d) /\ (Late(d) => t.got.al = "INIT")
        BY <1>1, <2>1, <3>1 DEF MailAt, Awaited
      <4>2. Legal("INIT", "INIT") /\ Legal("PREOP", "INIT")
        BY DEF Legal
      <4> QED  BY <2>3, <4>1, <4>2 DEF AckFits, Late, Working
    <3> QED  BY <1>27, <2>1, <2>3, <3>1, <3>2
  <2>4. CASE NoAnswer /\ Goto(p, t.back)
    <3>1. ~d.adr => ~Late(d)
      BY <1>1 DEF Unaddressed, Late, Working
    <3>2. k = n + 1 => k # 0
      BY <1>0
    <3> QED  BY <1>5, <1>27, <2>1, <2>4, <3>1, <3>2
  <2> QED
    BY <1>29, <2>2, <2>3, <2>4 DEF AckRead, t, d
<1> QED
  BY <1>12, <1>13, <1>14, <1>15, <1>16, <1>17, <1>18, <1>19, <1>21, <1>22, <1>23, <1>24, <1>25,
     <1>26, <1>28, <1>29 DEF TransitionNext

\* A thread that another one lost a frame beside.
LEMMA OthersLoss ==
    ASSUME NEW n \in Nat, NEW k \in {n, n + 1}, NEW t, NEW d, NEW m, MailAt(t, d, m, n)
    PROVE  MailAt(t, d, m, k)
<1>1. CASE k = n
  BY <1>1
<1>2. CASE k = n + 1
  <2>1. k # 0 /\ (k < 2 => n < 2 /\ n # 1)
    BY <1>2
  <2>2. k < 2 => Handled(t, d, m, k)
    BY <2>1 DEF MailAt, Handled
  <2> QED  BY <2>1, <2>2 DEF MailAt
<1> QED  BY <1>1, <1>2

\* A step outside the transition that leaves the slave and its mutex alone.
LEMMA OutsideMail ==
    ASSUME Owned, MailInv, UNCHANGED <<dev, lock, slv>>, losses' \in {losses, losses + 1},
           \A p \in Threads : thr'[p] = thr[p] \/ thr'[p].pc \notin Inside
    PROVE  MailInv'
<1>1. losses \in Nat
  BY SlaveAssumption DEF Owned, Shaped, TypeOK
<1>2. lock' = NULL => MailFree(dev', slv'.mbx, losses')
  <2>1. lock = NULL => MailFree(dev, slv.mbx, losses) /\ MailFree(dev, slv.mbx, losses + 1)
    BY <1>1, LossMail DEF MailInv
  <2> QED  BY <2>1
<1>3. ASSUME NEW p \in Threads, thr'[p].pc \in Inside PROVE MailAt(thr'[p], dev', slv'.mbx, losses')
  <2>1. thr'[p] = thr[p] /\ MailAt(thr[p], dev, slv.mbx, losses)
    BY <1>3 DEF MailInv
  <2>2. MailAt(thr[p], dev, slv.mbx, losses')
    BY <1>1, <2>1, OthersLoss
  <2> QED  BY <2>1, <2>2
<1>4. Unaddressed(dev')
  BY DEF MailInv
<1> QED  BY <1>2, <1>3, <1>4 DEF MailInv

LEMMA InitMail == Init => MailInv
<1> SUFFICES ASSUME Init PROVE MailInv
  OBVIOUS
<1>1. dev.al = "INIT" /\ dev.ctl = NULL /\ ~dev.err
  BY DEF Init
<1>2. Unaddressed(dev) /\ MailFree(dev, slv.mbx, losses)
  BY <1>1 DEF Unaddressed, MailFree, Up, Ready, Late, Agrees, Working
<1>3. \A p \in Threads : thr[p].pc \notin Inside
  BY DEF Init, IdleThread, Inside
<1> QED  BY <1>2, <1>3 DEF MailInv

LEMMA NextMail == OneScan /\ Watched /\ Owned /\ MailInv /\ [Next]_vars => MailInv'
<1> SUFFICES ASSUME OneScan, Watched, Owned, MailInv, [Next]_vars
             PROVE  MailInv'
  OBVIOUS
<1>1. Owned' /\ {"app", "async"} = Threads /\ losses \in Nat /\ dev \in Devices /\ dev' \in Devices
  <2>1. Owned'
    BY NextOwned
  <2>2. dev \in Devices /\ dev' \in Devices
    BY <2>1, StateSet DEF Owned, Shaped, TypeOK, NoBoot, Devices, Working
  <2> QED  BY <2>1, <2>2, SlaveAssumption, SupervisionAssumption DEF Owned, Shaped, TypeOK
<1>2. CASE AppCall \/ AppMaster \/ AppReturn
  <2>1. \E pc \in {"idle", "call", "scan"} : \E jobs : AppMoves(pc, jobs)
    BY <1>2, AppThread DEF AppCall, AppMaster, AppReturn
  <2>2. \A p \in Threads : thr'[p] = thr[p] \/ thr'[p].pc \notin Inside
    BY <1>1, <2>1 DEF AppMoves, Inside
  <2>3. UNCHANGED <<dev, slv, lock, losses>>
    BY <1>2 DEF AppCall, AppMaster, AppReturn
  <2> QED  BY <2>2, <2>3, OutsideMail
<1>3. CASE AppScan \/ AppFound
  <2>1. \E pc \in {"idle", "call", "scan"} : \E jobs : AppMoves(pc, jobs)
    BY <1>3, AppThread DEF AppScan, AppFound
  <2>2. \A p \in Threads : thr'[p] = thr[p] \/ thr'[p].pc \notin Inside
    BY <1>1, <2>1 DEF AppMoves, Inside
  <2>3. ~known
    <3>1. thr["app"].pc \in {"call", "scan"} /\ thr["app"].jobs # <<>> /\ AppWork(thr["app"], known, found)
          /\ (thr["app"].pc = "call" => Head(thr["app"].jobs).do \in {"scan", "rescan"})
      BY <1>1, <1>3 DEF AppScan, AppFound, Doing, Step, Owned, Work, Shaped, Fits
    <3> QED  BY <3>1, HeadIn, JobsAre DEF AppWork
  <2>4. lock = NULL /\ dev.al = "INIT" /\ (dev.ctl # NULL => dev.ctl.st = "INIT")
    BY <2>3 DEF Owned, Unseen
  <2>5. \A p \in Threads : thr'[p].pc \notin Inside
    BY <2>2, <2>4, SlaveAssumption DEF Owned, Mutex
  <2>6. dev'.al = "INIT" /\ (dev'.ctl # NULL => dev'.ctl.st = "INIT")
    <3> DEFINE request == [st |-> "INIT", ack |-> TRUE]
    <3>1. request.st = "INIT"
      OBVIOUS
    <3>2. dev' \in {dev, [dev EXCEPT !.ctl = request], [dev EXCEPT !.adr = TRUE, !.ctl = request]}
      BY <1>3 DEF AppScan, AppFound
    <3> HIDE DEF request
    <3>3. dev'.al = dev.al /\ dev'.ctl \in {dev.ctl, request}
      BY <1>1, <3>2 DEF Devices
    <3> QED  BY <2>4, <3>1, <3>3
  <2>7. Unaddressed(dev') /\ ~Up(dev') /\ ~Ready(dev') /\ ~Late(dev')
    BY <2>6 DEF Unaddressed, Agrees, Up, Ready, Late, Working
  <2> QED  BY <2>5, <2>7 DEF MailInv, MailFree
<1>4. ASSUME NEW p \in Threads, TransitionNext(p), Rest PROVE MailInv'
  <2>1. /\ Unaddressed(dev')
        /\ lock' = NULL => MailFree(dev', slv'.mbx, losses')
        /\ thr'[p].pc \in Inside => MailAt(thr'[p], dev', slv'.mbx, losses')
    BY <1>1, <1>4, TransitionMail
  <2>2. ASSUME NEW q \in Threads \ {p}, thr'[q].pc \in Inside
        PROVE  MailAt(thr'[q], dev', slv'.mbx, losses')
    <3>1. MoveOf(p)
      BY <1>4, TransitionMoves DEF Owned
    <3>2. thr'[q] = thr[q] /\ lock = q /\ thr[p].pc \notin Inside
      BY <2>2, <3>1 DEF MoveOf, Others, Owned, Mutex
    <3>3. UNCHANGED <<dev, slv>>
      BY <3>1, <3>2 DEF MoveOf
    <3>4. losses' \in {losses, losses + 1}
      <4>1. TrCall(p) \/ TrLock(p) \/ PrepareSlave(p)
        BY <1>4, <3>2 DEF TransitionNext, Inside, Step, TrFirst, TrAddress, TrAgain, TrRecheck, TrReset,
              TrNext, TrUnlock, SetWrite, SetPoll, SetStatus, AckWrite, AckRead, SetReached, SetRepeat,
              SetExpired
      <4> QED  BY <4>1 DEF TrCall, TrLock, PrepareSlave, Kept, Loss
    <3>5. MailAt(thr[q], dev, slv.mbx, losses)
      BY <2>2, <3>2 DEF MailInv
    <3>6. MailAt(thr[q], dev, slv.mbx, losses')
      BY <1>1, <3>4, <3>5, OthersLoss
    <3> QED  BY <3>2, <3>3, <3>6
  <2> QED  BY <2>1, <2>2 DEF MailInv
<1>5. CASE AsyncTake \/ AsyncCheck \/ AsyncDecide \/ AsyncRepair \/ AsyncDone
  <2>1. /\ thr' = thr \/ \E pc \in Watching : \E jobs : AsyncMoves(pc, jobs)
        /\ UNCHANGED <<dev, slv, lock>>
    BY <1>5, AsyncSteps
  <2>2. \A p \in Threads : thr'[p] = thr[p] \/ thr'[p].pc \notin Inside
    BY <1>1, <2>1 DEF AsyncMoves, Watching, Inside
  <2>3. losses' \in {losses, losses + 1}
    BY <1>5 DEF AsyncTake, AsyncCheck, AsyncDecide, AsyncRepair, AsyncDone, Kept, Loss
  <2> QED  BY <2>1, <2>2, <2>3, OutsideMail
<1>6. CASE (Serve \/ Fault) /\ Rest
  <2>1. UNCHANGED <<slv, lock, thr, losses>>
    BY <1>6 DEF Serve, Fault
  <2>2. Acts(dev, dev')
    <3>1. CASE Serve
      BY <3>1 DEF Serve, Acts
    <3>2. CASE Fault /\ dev' = [dev EXCEPT !.ctl = NULL, !.err = TRUE]
      BY <1>1, <3>2 DEF Acts, Devices
    <3>3. CASE Fault /\ \E s \in Falls : Rank[s] < Rank[dev.al] /\ dev' = [dev EXCEPT !.al = s, !.err = TRUE]
      <4>1. PICK s \in Falls : Rank[s] < Rank[dev.al] /\ dev' = [dev EXCEPT !.al = s, !.err = TRUE]
        BY <3>3
      <4>2. dev'.adr = dev.adr /\ dev'.al = s /\ dev'.ctl = dev.ctl /\ dev'.err
        BY <1>1, <4>1 DEF Devices
      <4>3. /\ dev.al # "INIT" /\ s # "OP"
            /\ s = "SAFEOP" => dev.al = "OP"
            /\ s = "PREOP" => dev.al \in {"SAFEOP", "OP"}
        <5>1. dev.al \in {"INIT", "PREOP", "SAFEOP", "OP"} /\ s \in {"INIT", "PREOP", "SAFEOP"}
          BY <1>1, SlaveAssumption DEF Devices, Working
        <5> QED  BY <4>1, <5>1, StateSet
      <4> QED  BY <4>2, <4>3 DEF Acts
    <3>4. CASE Fault /\ dev' = [al |-> "INIT", err |-> FALSE, ctl |-> NULL, adr |-> FALSE]
      BY <3>4 DEF Acts
    <3> QED  BY <1>6, <3>1, <3>2, <3>3, <3>4 DEF Fault
  <2>3. Unaddressed(dev')
    BY <1>1, <2>2, ActsSafe DEF MailInv
  <2>4. lock' = NULL => MailFree(dev', slv'.mbx, losses')
    <3>1. \A m, n : MailFree(dev, m, n) => MailFree(dev', m, n)
      BY <1>1, <2>2, MailActs
    <3> QED  BY <2>1, <3>1 DEF MailInv
  <2>5. ASSUME NEW p \in Threads, thr'[p].pc \in Inside PROVE MailAt(thr'[p], dev', slv'.mbx, losses')
    <3>1. MailAt(thr[p], dev, slv.mbx, losses)
      BY <2>1, <2>5 DEF MailInv
    <3>2. \A t, m, n : MailAt(t, dev, m, n) => MailAt(t, dev', m, n)
      BY <1>1, <2>2, MailActs
    <3> QED  BY <2>1, <3>1, <3>2
  <2> QED  BY <2>3, <2>4, <2>5 DEF MailInv
<1>7. CASE UNCHANGED <<dev, slv, lock, thr, losses>>
  BY <1>7, OutsideMail
<1>8. CASE (\E i \in DOMAIN Groups : RxGroup(Groups[i])) \/ RxState \/ TimerExpires \/ UNCHANGED vars
  BY <1>7, <1>8 DEF RxGroup, RxState, ec_async_check_group, TimerExpires, vars, svars
<1> QED
  BY <1>1, <1>2, <1>3, <1>4, <1>5, <1>6, <1>8 DEF Next, AppNext, AsyncNext

\* Between two transitions a slave in PREOP, SAFEOP or OP has its mailbox handler (ec_mbx_init on
\* the way up, ec_slave_free on the way down), whatever errors the slave makes on its own, as
\* long as one access at most is lost or given up too early.
THEOREM MailboxIsUp ==
    ASSUME OneScan, Watched
    PROVE  Spec => []MailboxUp
<1>1. Init => Owned /\ MailInv
  BY InitOwned, InitMail
<1>2. Owned /\ MailInv /\ [Next]_vars => Owned' /\ MailInv'
  BY NextOwned, NextMail
<1>3. Owned /\ MailInv => MailboxUp
  BY DEF MailInv, MailFree, MailboxUp, Up
<1> QED  BY <1>1, <1>2, <1>3, PTL DEF Spec
=============================================================================
