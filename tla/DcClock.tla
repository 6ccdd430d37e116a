-------------------------------- MODULE DcClock --------------------------------
(***************************************************************************)
(* The clock of the bus as the master sees it: cb_distributed_clocks       *)
(* (ec.c) extends the 32-bit system time of the reference slave to 64 bits *)
(* each time the cyclic datagram brings a reading.                         *)
(***************************************************************************)
EXTENDS Integers

CONSTANTS
    UintMax,   \* UINT_MAX, the largest reading: the slave counts modulo UintMax + 1
    MaxTurns   \* bound: overflows of the slave's clock

ASSUME DcClockAssumption == UintMax \in Nat \ {0} /\ MaxTurns \in Nat

VARIABLES
    clock,    \* the reference clock: how often it overflowed, and its reading
    dc_time,  \* pec->dc.dc_time
    seen,     \* the clock at the last reading that arrived
    base,     \* the turn of the first reading since dc_time was reset, or -1
    steady    \* since then each reading came less than a turn after the one before

cvars == <<clock, dc_time, seen, base, steady>>

Reading == 0 .. UintMax
Times   == [turns : Nat, low : Reading]

Earlier(a, b) == a.turns < b.turns \/ (a.turns = b.turns /\ a.low < b.low)

\* b is less than a turn after a.
WithinTurn(a, b) == b.turns = a.turns \/ (b.turns = a.turns + 1 /\ b.low < a.low)

\* Time goes on (external).
ClockRuns == /\ \E t \in clock.turns .. clock.turns + 2, l \in Reading :
                    /\ t <= MaxTurns
                    /\ clock' = [turns |-> t, low |-> l]
                    /\ Earlier(clock, clock')
             /\ UNCHANGED <<dc_time, seen, base, steady>>

\* Mutant: the overflow is not looked for.
ExtendedTime_plain(low, old) == low + (old \div UintMax) * UintMax

\* Turns are counted in multiples of UINT_MAX, not of UINT_MAX + 1.
ExtendedTime(low, old) ==
    low + (old \div UintMax) * UintMax + (IF low < old % UintMax THEN UintMax ELSE 0)

Noticed == /\ seen' = clock
           /\ base' = IF base = -1 THEN clock.turns ELSE base
           /\ steady' = (base = -1 \/ (steady /\ WithinTurn(seen, clock)))
           /\ UNCHANGED clock

\* Mutant: a reading nobody answered (working counter 0, time 0) is used as well.
cb_distributed_clocks_unanswered ==
    /\ Earlier(seen, clock) \/ base = -1
    /\ \E low \in {0, clock.low} : dc_time' = ExtendedTime(low, dc_time)
    /\ Noticed

\* A reading arrives; those without a working counter are not looked at.
cb_distributed_clocks ==
    /\ Earlier(seen, clock) \/ base = -1
    /\ dc_time' = ExtendedTime(clock.low, dc_time)
    /\ Noticed

\* ec_set_state on the way from SAFEOP to PREOP.
DcReset == /\ dc_time' = 0
           /\ base' = -1 /\ steady' = TRUE
           /\ UNCHANGED <<clock, seen>>

DcClockInit == /\ clock = [turns |-> 0, low |-> 0]
               /\ dc_time = 0 /\ seen = clock /\ base = -1 /\ steady = TRUE

-----------------------------------------------------------------------------
\* As long as readings are less than a turn of the slave's clock apart, dc_time is the true
\* time since the turn of the first one, less one nanosecond for each overflow: the clock
\* the sync pulses are planned with neither jumps nor drifts faster (ec.c:1931-1937).
DcTimeExact == steady /\ base # -1 => dc_time = (seen.turns - base) * UintMax + seen.low

\* dc_time never goes back, however many overflows were missed, unless it is reset.
DcTimeMonotone == [][dc_time' >= dc_time \/ base' = -1]_cvars
=============================================================================
