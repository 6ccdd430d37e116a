\* The EoE receive pool: the mailbox thread puts, one thread waits with a
\* timeout, another one takes without.
SPECIFICATION Spec
CONSTANTS
    Entries = {e1, e2, e3}
    TimedUsers = {t1, t2}
    UntimedUsers = {u1}
    SemMax = 4
INVARIANTS TypeOK Conservation NoStarvedWaiter
