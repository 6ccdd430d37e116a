----------------------------- MODULE StartupProofs -----------------------------
(***************************************************************************)
(* The clock of module DcClock, for every UINT_MAX, every number of turns  *)
(* and every bus: dc_time is exact as long as readings come often enough,  *)
(* and it never goes back.                                                 *)
(***************************************************************************)
EXTENDS Startup, QueueLemmas

\* Division by UINT_MAX takes the turns and the reading apart again.
LEMMA DivMod == ASSUME NEW k \in Nat, NEW U \in Nat \ {0}, NEW l \in 0 .. U - 1
                PROVE  (k * U + l) \div U = k /\ (k * U + l) % U = l
OBVIOUS

LEMMA DivParts == ASSUME NEW a \in Nat, NEW U \in Nat \ {0}
                  PROVE  /\ a \div U \in Nat /\ a % U \in 0 .. U - 1
                         /\ a = (a \div U) * U + (a % U)
OBVIOUS

\* The extension of a reading is at least what was known before (ec.c:1931-1937).
LEMMA ExtendedGrows ==
    ASSUME NEW low \in Reading, NEW old \in Nat
    PROVE  ExtendedTime(low, old) \in Nat /\ ExtendedTime(low, old) >= old
<1> DEFINE k == old \div UintMax
           l == old % UintMax
<1>1. k \in Nat /\ l \in 0 .. UintMax - 1 /\ old = k * UintMax + l
  BY DivParts, DcClockAssumption
<1>2. k * UintMax \in Nat
  BY <1>1, DcClockAssumption
<1>3. ExtendedTime(low, old) = low + k * UintMax + (IF low < l THEN UintMax ELSE 0)
  BY DEF ExtendedTime
<1> HIDE DEF k, l
<1>4. QED
  BY <1>1, <1>2, <1>3, DcClockAssumption DEF Reading

\* A reading of the same turn, or of the next one below the reading before, is extended to
\* the time since turn b.  A reading of UINT_MAX itself divides like the start of the next
\* turn, and no later reading of that turn can follow it.
LEMMA ExtendedExact ==
    ASSUME NEW a \in Times, NEW c \in Times, NEW b \in Nat, b <= a.turns,
           Earlier(a, c), WithinTurn(a, c)
    PROVE  ExtendedTime(c.low, (a.turns - b) * UintMax + a.low) = (c.turns - b) * UintMax + c.low
<1> DEFINE k == a.turns - b
           old == k * UintMax + a.low
<1>1. /\ k \in Nat /\ a.low \in 0 .. UintMax /\ c.low \in 0 .. UintMax
      /\ c.turns \in Nat /\ a.turns \in Nat
  BY DcClockAssumption DEF Times, Reading
<1>2. ExtendedTime(c.low, old)
         = c.low + (old \div UintMax) * UintMax + (IF c.low < old % UintMax THEN UintMax ELSE 0)
  BY DEF ExtendedTime
<1>3. (k + 1) * UintMax = k * UintMax + UintMax /\ k * UintMax \in Nat
  BY <1>1, DcClockAssumption
<1>4. \/ c.turns - b = k /\ a.low < c.low
      \/ c.turns - b = k + 1 /\ c.low < a.low
  BY <1>1 DEF Earlier, WithinTurn
<1> DEFINE new == ExtendedTime(c.low, old)
<1> SUFFICES new = (c.turns - b) * UintMax + c.low
  OBVIOUS
<1> HIDE DEF k, new
<1>5. CASE a.low < UintMax
  <2>1. a.low \in 0 .. UintMax - 1
    BY <1>1, <1>5, DcClockAssumption
  <2>2. old \div UintMax = k /\ old % UintMax = a.low
    BY <2>1, <1>1, DivMod, DcClockAssumption
  <2>3. new = c.low + k * UintMax + (IF c.low < a.low THEN UintMax ELSE 0)
    BY <2>2, <1>2 DEF new
  <2>4. QED
    <3>1. CASE c.turns - b = k /\ a.low < c.low
      BY <3>1, <2>3, <1>1, <1>3
    <3>2. CASE c.turns - b = k + 1 /\ c.low < a.low
      BY <3>2, <2>3, <1>1, <1>3, DcClockAssumption
    <3>3. QED
      BY <3>1, <3>2, <1>4
<1>6. CASE a.low = UintMax
  <2>1. old = (k + 1) * UintMax + 0 /\ 0 \in 0 .. UintMax - 1 /\ k + 1 \in Nat
    BY <1>1, <1>3, <1>6, DcClockAssumption
  <2>2. old \div UintMax = k + 1 /\ old % UintMax = 0
    <3> HIDE DEF old
    <3>1. QED
      BY <2>1, DivMod, DcClockAssumption
  <2>3. c.turns - b = k + 1
    BY <1>1, <1>4, <1>6
  <2>4. new = c.low + (k + 1) * UintMax
    BY <2>2, <1>1, <1>2, <1>3, DcClockAssumption DEF new
  <2>5. QED
    BY <2>3, <2>4, <1>1, <1>3, DcClockAssumption
<1>7. QED
  BY <1>1, <1>5, <1>6, DcClockAssumption

-----------------------------------------------------------------------------
\* What DcTimeExact rests on: the last reading is not in the future, and dc_time is 0 until
\* the first one has come.
ClockInv == /\ clock \in Times /\ seen \in Times
            /\ dc_time \in Nat /\ steady \in BOOLEAN
            /\ base = -1 => dc_time = 0
            /\ base # -1 => base \in Nat /\ base <= seen.turns /\ ~Earlier(clock, seen)
            /\ DcTimeExact

LEMMA ClockInit == DcClockInit => ClockInv
BY DcClockAssumption DEF DcClockInit, ClockInv, DcTimeExact, Times, Reading, Earlier

LEMMA ReadingKeepsClock == ClockInv /\ cb_distributed_clocks => ClockInv'
<1> SUFFICES ASSUME ClockInv, cb_distributed_clocks PROVE ClockInv'
  OBVIOUS
<1> USE DcClockAssumption
<1>1. /\ clock \in Times /\ seen' = clock /\ clock' = clock
      /\ clock.low \in Reading /\ clock.turns \in Nat
  BY DEF ClockInv, cb_distributed_clocks, Noticed, Times
<1>2. dc_time' = ExtendedTime(clock.low, dc_time) /\ dc_time' \in Nat
  BY <1>1, ExtendedGrows DEF ClockInv, cb_distributed_clocks
<1>3. steady' \in BOOLEAN
  BY DEF ClockInv, cb_distributed_clocks, Noticed
<1>4. CASE base = -1
  <2>1. base' = clock.turns
    BY <1>4 DEF cb_distributed_clocks, Noticed
  <2>2. dc_time' = clock.low
    <3>1. 0 \div UintMax = 0 /\ 0 % UintMax = 0
      OBVIOUS
    <3>2. QED
      BY <1>1, <1>2, <1>4, <3>1 DEF ClockInv, ExtendedTime, Reading
  <2>3. DcTimeExact'
    BY <1>1, <2>1, <2>2 DEF DcTimeExact, Reading
  <2>4. QED
    BY <1>1, <1>2, <1>3, <2>1, <2>3 DEF ClockInv, Earlier, Reading
<1>5. CASE base # -1
  <2>1. Earlier(seen, clock) /\ base' = base /\ base \in Nat /\ base <= seen.turns
    BY <1>5 DEF ClockInv, cb_distributed_clocks, Noticed
  <2>2. seen.turns <= clock.turns /\ seen.turns \in Nat /\ seen \in Times
    BY <1>1, <2>1 DEF Earlier, ClockInv, Times
  <2>3. steady' = (steady /\ WithinTurn(seen, clock))
    BY <1>5 DEF cb_distributed_clocks, Noticed
  <2>4. DcTimeExact'
    <3> SUFFICES ASSUME steady' PROVE dc_time' = (clock.turns - base) * UintMax + clock.low
      BY <1>1, <2>1 DEF DcTimeExact
    <3>1. dc_time = (seen.turns - base) * UintMax + seen.low
      BY <1>5, <2>3 DEF ClockInv, DcTimeExact
    <3>2. QED
      BY <1>1, <1>2, <2>1, <2>2, <2>3, <3>1, ExtendedExact
  <2>5. QED
    BY <1>1, <1>2, <1>3, <2>1, <2>2, <2>4 DEF ClockInv, Earlier, Reading
<1>6. QED
  BY <1>4, <1>5

LEMMA TimeKeepsClock == ClockInv /\ ClockRuns => ClockInv'
<1> SUFFICES ASSUME ClockInv, ClockRuns PROVE ClockInv'
  OBVIOUS
<1>1. PICK t \in clock.turns .. clock.turns + 2, l \in Reading :
         clock' = [turns |-> t, low |-> l] /\ Earlier(clock, clock')
  BY DEF ClockRuns
<1>2. clock' \in Times /\ clock \in Times /\ seen \in Times
  BY <1>1 DEF ClockInv, Times
<1>3. UNCHANGED <<dc_time, seen, base, steady>>
  BY DEF ClockRuns
<1>4. ~Earlier(clock, seen) => ~Earlier(clock', seen)
  BY <1>1, <1>2, DcClockAssumption DEF Earlier, Times, Reading
<1>5. DcTimeExact'
  BY <1>3 DEF ClockInv, DcTimeExact
<1>6. QED
  BY <1>2, <1>3, <1>4, <1>5 DEF ClockInv

LEMMA ResetKeepsClock == ClockInv /\ DcReset => ClockInv'
BY DEF ClockInv, DcReset, DcTimeExact

-----------------------------------------------------------------------------
LEMMA StepKeepsClock == ClockInv /\ [Next]_vars => ClockInv'
<1> SUFFICES ASSUME ClockInv, [Next]_vars PROVE ClockInv'
  OBVIOUS
<1>1. CASE UNCHANGED cvars
  BY <1>1 DEF ClockInv, DcTimeExact, cvars
<1>2. CASE Next
  <2>1. CASE ClockCycle
    BY <2>1, ReadingKeepsClock DEF ClockCycle
  <2>2. CASE Time
    BY <2>2, TimeKeepsClock DEF Time
  <2>3. CASE BackToPreop
    BY <2>3, ResetKeepsClock DEF BackToPreop
  <2>4. CASE Scan \/ ToPreop \/ ConfigureClocks \/ ToSafeop \/ Cycle \/ MailCycle
    BY <2>4, <1>1 DEF Scan, ToPreop, ConfigureClocks, ToSafeop, Cycle, MailCycle
  <2>5. QED
    BY <1>2, <2>1, <2>2, <2>3, <2>4 DEF Next
<1>3. QED
  BY <1>1, <1>2 DEF vars

\* On every bus, with every process data and in every group: while readings of the
\* reference clock come less than a turn apart, dc_time is the true time (ec.c:1931-1937).
THEOREM DcTimeIsExact ==
    ASSUME NEW w, NEW devices, NEW group
    PROVE  StartupInit(w, devices, group) /\ [][Next]_vars => []DcTimeExact
<1>1. StartupInit(w, devices, group) => ClockInv
  BY ClockInit DEF StartupInit
<1>2. ClockInv => DcTimeExact
  BY DEF ClockInv
<1>3. QED
  BY <1>1, <1>2, StepKeepsClock, PTL

LEMMA StepIsMonotone == ClockInv /\ [Next]_vars => [dc_time' >= dc_time \/ base' = -1]_cvars
<1> SUFFICES ASSUME ClockInv, Next, ~UNCHANGED cvars PROVE dc_time' >= dc_time \/ base' = -1
  BY DEF vars, cvars
<1>1. CASE ClockCycle
  <2>1. clock.low \in Reading /\ dc_time' = ExtendedTime(clock.low, dc_time)
    BY <1>1 DEF ClockCycle, cb_distributed_clocks, ClockInv, Times
  <2>2. QED
    BY <2>1, ExtendedGrows DEF ClockInv
<1>2. CASE Time
  BY <1>2 DEF Time, ClockRuns, ClockInv
<1>3. CASE BackToPreop
  BY <1>3 DEF BackToPreop, DcReset
<1>4. CASE Scan \/ ToPreop \/ ConfigureClocks \/ ToSafeop \/ Cycle \/ MailCycle
  BY <1>4 DEF Scan, ToPreop, ConfigureClocks, ToSafeop, Cycle, MailCycle, cvars
<1>5. QED
  BY <1>1, <1>2, <1>3, <1>4 DEF Next

\* However readings are lost or late, dc_time never goes back but by the reset on the way
\* to PREOP (ec.c:1054, 1931-1937).
THEOREM DcTimeNeverBack ==
    ASSUME NEW w, NEW devices, NEW group
    PROVE  StartupInit(w, devices, group) /\ [][Next]_vars => DcTimeMonotone
<1>1. StartupInit(w, devices, group) => ClockInv
  BY ClockInit DEF StartupInit
<1>2. QED
  BY <1>1, StepKeepsClock, StepIsMonotone, PTL DEF DcTimeMonotone
-----------------------------------------------------------------------------
(* Sums over finite sets. *)

AreSums(g, f, S) == g = [s \in SUBSET S |-> IF s = {} THEN 0
                                            ELSE f[CHOOSE x \in s : TRUE] + g[s \ {CHOOSE x \in s : TRUE}]]

LEMMA SumIs == ASSUME NEW f, NEW S PROVE SumFunctionOnSet(f, S) = (CHOOSE g : AreSums(g, f, S))[S]
BY DEF SumFunctionOnSet, FoldFunctionOnSet, MapThenFoldSet, AreSums

\* Among subsets of a finite set there is one that is in B, but not with an element less.
LEMMA SmallestOf ==
    ASSUME NEW S, IsFiniteSet(S), NEW B, B \subseteq SUBSET S, B # {}
    PROVE  \E s \in B : IsFiniteSet(s) /\ \A x \in s : s \ {x} \notin B
<1> DEFINE T == {Cardinality(s) : s \in B}
<1>1. \A s \in B : IsFiniteSet(s) /\ Cardinality(s) \in Nat
  BY FS_Subset, FS_CardinalityType
<1>2. PICK n \in T : \A m \in T : n <= m
  <2>1. T \subseteq Nat /\ T # {}
    BY <1>1
  <2> HIDE DEF T
  <2> QED  BY <2>1, LeastOf
<1>3. PICK s \in B : Cardinality(s) = n
  OBVIOUS
<1>4. ASSUME NEW x \in s PROVE s \ {x} \notin B
  <2>1. Cardinality(s \ {x}) = Cardinality(s) - 1
    BY <1>1, <1>4, FS_RemoveElement
  <2>2. s \ {x} \in B => Cardinality(s) <= Cardinality(s \ {x})
    BY <1>2, <1>3
  <2> QED  BY <1>1, <2>1, <2>2
<1> QED  BY <1>1, <1>4

LEMMA SumsExist ==
    ASSUME NEW f, NEW S, IsFiniteSet(S)
    PROVE  \E g : AreSums(g, f, S)
<1> DEFINE F(g) == [s \in SUBSET S |-> IF s = {} THEN 0
                        ELSE f[CHOOSE x \in s : TRUE] + g[s \ {CHOOSE x \in s : TRUE}]]
           Up(n) == \E g : \A s \in SUBSET S : Cardinality(s) <= n => g[s] = F(g)[s]
           T == {n \in Nat : ~Up(n)}
<1>1. \A s \in SUBSET S : /\ IsFiniteSet(s) /\ Cardinality(s) \in Nat /\ Cardinality(s) <= Cardinality(S)
                          /\ (Cardinality(s) = 0 <=> s = {})
  BY FS_Subset, FS_CardinalityType, FS_EmptySet
<1>2. Up(0)
  <2> DEFINE g == [s \in SUBSET S |-> 0]
  <2>1. ASSUME NEW s \in SUBSET S, Cardinality(s) <= 0 PROVE g[s] = F(g)[s]
    BY <1>1, <2>1
  <2> HIDE DEF g, F
  <2> QED  BY <2>1
<1>3. ASSUME NEW n \in Nat, Up(n) PROVE Up(n + 1)
  <2>1. PICK g : \A s \in SUBSET S : Cardinality(s) <= n => g[s] = F(g)[s]
    BY <1>3
  <2> DEFINE h == [s \in SUBSET S |-> IF Cardinality(s) <= n THEN g[s] ELSE F(g)[s]]
  <2>2. ASSUME NEW s \in SUBSET S, Cardinality(s) <= n + 1 PROVE h[s] = F(h)[s]
    <3>1. h[s] = F(g)[s]
      <4> HIDE DEF F
      <4> QED  BY <2>1
    <3>2. CASE s = {}
      BY <3>1, <3>2
    <3>3. CASE s # {}
      <4> DEFINE c == CHOOSE x \in s : TRUE
      <4>1. c \in s
        BY <3>3
      <4> HIDE DEF c
      <4>2. s \ {c} \in SUBSET S /\ Cardinality(s \ {c}) = Cardinality(s) - 1
        BY <1>1, <4>1, FS_RemoveElement
      <4>3. h[s \ {c}] = g[s \ {c}]
        BY <1>1, <2>2, <4>2
      <4> HIDE DEF h
      <4>4. F(g)[s] = f[c] + g[s \ {c}] /\ F(h)[s] = f[c] + h[s \ {c}]
        BY <3>3 DEF c
      <4> HIDE DEF F
      <4> QED  BY <3>1, <4>3, <4>4
    <3> QED  BY <3>2, <3>3
  <2> HIDE DEF h, F
  <2> QED  BY <2>2
<1>4. ASSUME T # {} PROVE FALSE
  <2>1. PICK n \in T : \A m \in T : n <= m
    <3>1. T \subseteq Nat
      OBVIOUS
    <3> HIDE DEF T
    <3> QED  BY <1>4, <3>1, LeastOf
  <2> HIDE DEF Up
  <2>2. n # 0 /\ n \in Nat
    BY <1>2
  <2>3. n - 1 \in Nat /\ n - 1 \notin T
    BY <2>1, <2>2
  <2>4. Up(n - 1) /\ (n - 1) + 1 = n
    BY <2>2, <2>3
  <2> QED  BY <1>3, <2>3, <2>4
<1>5. PICK g : \A s \in SUBSET S : Cardinality(s) <= Cardinality(S) => g[s] = F(g)[s]
  <2>1. Cardinality(S) \in Nat
    BY FS_CardinalityType
  <2> HIDE DEF Up
  <2>2. Up(Cardinality(S))
    BY <1>4, <2>1
  <2> QED  BY <2>2 DEF Up
<1>6. PICK h : h = [s \in SUBSET S |-> g[s]]
  OBVIOUS
<1>7. ASSUME NEW s \in SUBSET S PROVE h[s] = F(h)[s]
  <2>1. h[s] = F(g)[s]
    <3> HIDE DEF F
    <3> QED  BY <1>1, <1>5, <1>6
  <2>2. s # {} => (CHOOSE x \in s : TRUE) \in s
    OBVIOUS
  <2>3. s # {} => h[s \ {CHOOSE x \in s : TRUE}] = g[s \ {CHOOSE x \in s : TRUE}]
    BY <1>6
  <2> QED  BY <2>1, <2>3
<1>8. h = F(h)
  BY <1>6, <1>7
<1> QED  BY <1>8 DEF AreSums

LEMMA AreSumsIs ==
    ASSUME NEW f, NEW S, NEW g, AreSums(g, f, S), NEW s \in SUBSET S
    PROVE  /\ s = {} => g[s] = 0
           /\ s # {} => LET c == CHOOSE x \in s : TRUE
                        IN  c \in s /\ s \ {c} \in SUBSET S /\ g[s] = f[c] + g[s \ {c}]
BY DEF AreSums

LEMMA SumsAgree ==
    ASSUME NEW f, NEW S, NEW g, AreSums(g, f, S), IsFiniteSet(S),
           NEW h, NEW T \in SUBSET S, NEW k, AreSums(k, h, T), \A x \in T : f[x] = h[x]
    PROVE  g[T] = k[T]
<1> DEFINE B == {s \in SUBSET T : g[s] # k[s]}
<1>1. ASSUME B # {} PROVE FALSE
  <2>1. PICK s \in B : \A x \in s : s \ {x} \notin B
    <3>1. B \subseteq SUBSET S
      OBVIOUS
    <3> HIDE DEF B
    <3> QED  BY <1>1, <3>1, SmallestOf
  <2>2. s \in SUBSET S /\ s \in SUBSET T /\ g[s] # k[s]
    OBVIOUS
  <2>3. s # {}
    <3>1. s = {} => g[s] = 0
      BY <2>2, AreSumsIs
    <3>2. s = {} => k[s] = 0
      BY <2>2, AreSumsIs, SMTT(30)
    <3> HIDE DEF B
    <3> QED  BY <2>2, <3>1, <3>2
  <2> DEFINE c == CHOOSE x \in s : TRUE
  <2>4. c \in s /\ g[s] = f[c] + g[s \ {c}] /\ k[s] = h[c] + k[s \ {c}]
    BY <2>2, <2>3, AreSumsIs
  <2>5. g[s \ {c}] = k[s \ {c}]
    <3>1. s \ {c} \notin B /\ s \ {c} \in SUBSET T
      BY <2>1, <2>2, <2>4
    <3> QED  BY <3>1
  <2> HIDE DEF c
  <2> QED  BY <2>2, <2>4, <2>5
<1> QED  BY <1>1

\* The recursion, with any element taken out.
LEMMA SumStep ==
    ASSUME NEW f, NEW S, IsFiniteSet(S), S # {}
    PROVE  LET c == CHOOSE x \in S : TRUE
           IN  c \in S /\ SumFunctionOnSet(f, S) = f[c] + SumFunctionOnSet(f, S \ {c})
<1> DEFINE c == CHOOSE x \in S : TRUE
           T == S \ {c}
           g == CHOOSE g : AreSums(g, f, S)
           k == CHOOSE k : AreSums(k, f, T)
<1>1. c \in S /\ T \in SUBSET S /\ IsFiniteSet(T)
  BY FS_RemoveElement
<1>2. AreSums(g, f, S)
  BY SumsExist
<1> HIDE DEF c
<1>3. AreSums(k, f, T)
  <2> HIDE DEF T
  <2> QED  BY <1>1, SumsExist
<1>4. SumFunctionOnSet(f, S) = g[S]
  BY SumIs
<1>5. SumFunctionOnSet(f, T) = k[T]
  <2> HIDE DEF T
  <2> QED  BY SumIs
<1> HIDE DEF g, k
<1>6. g[S] = f[c] + g[S \ {c}]
  BY <1>2, AreSumsIs DEF c
<1>7. g[T] = k[T]
  <2> HIDE DEF T
  <2> QED  BY <1>1, <1>2, <1>3, SumsAgree
<1> QED  BY <1>1, <1>4, <1>5, <1>6, <1>7 DEF c

LEMMA SumEmpty == ASSUME NEW f PROVE SumFunctionOnSet(f, {}) = 0
<1>1. IsFiniteSet({})
  BY FS_EmptySet
<1>2. AreSums(CHOOSE g : AreSums(g, f, {}), f, {})
  BY <1>1, SumsExist
<1>3. {} \in SUBSET {}
  OBVIOUS
<1> QED  BY <1>2, <1>3, SumIs, AreSumsIs, SMTT(30)

LEMMA SumSame ==
    ASSUME NEW f, NEW h, NEW S, IsFiniteSet(S), \A x \in S : f[x] = h[x]
    PROVE  SumFunctionOnSet(f, S) = SumFunctionOnSet(h, S)
<1>1. AreSums(CHOOSE g : AreSums(g, f, S), f, S) /\ AreSums(CHOOSE g : AreSums(g, h, S), h, S)
  BY SumsExist
<1>2. S \in SUBSET S
  OBVIOUS
<1> QED  BY <1>1, <1>2, SumIs, SumsAgree

LEMMA SumIsNat ==
    ASSUME NEW f, NEW S, IsFiniteSet(S), \A x \in S : f[x] \in Nat
    PROVE  SumFunctionOnSet(f, S) \in Nat
<1> DEFINE B == {s \in SUBSET S : SumFunctionOnSet(f, s) \notin Nat}
<1>1. ASSUME B # {} PROVE FALSE
  <2>1. PICK s \in B : IsFiniteSet(s) /\ \A x \in s : s \ {x} \notin B
    <3>1. B \subseteq SUBSET S
      OBVIOUS
    <3> HIDE DEF B
    <3> QED  BY <1>1, <3>1, SmallestOf
  <2>2. s # {}
    BY SumEmpty
  <2>3. PICK c \in s : SumFunctionOnSet(f, s) = f[c] + SumFunctionOnSet(f, s \ {c})
    BY <2>1, <2>2, SumStep
  <2>4. SumFunctionOnSet(f, s \ {c}) \in Nat
    <3>1. s \ {c} \notin B /\ s \ {c} \in SUBSET S
      BY <2>1
    <3> QED  BY <3>1
  <2>5. SumFunctionOnSet(f, s) \notin Nat /\ f[c] \in Nat
    OBVIOUS
  <2> QED  BY <2>3, <2>4, <2>5
<1> QED  BY <1>1

\* The sum without one of the elements, whichever it is.
LEMMA SumTake ==
    ASSUME NEW f, NEW S, IsFiniteSet(S), \A x \in S : f[x] \in Nat, NEW a \in S
    PROVE  SumFunctionOnSet(f, S) = f[a] + SumFunctionOnSet(f, S \ {a})
<1> DEFINE Bad(s, b) == SumFunctionOnSet(f, s) # f[b] + SumFunctionOnSet(f, s \ {b})
           B == {s \in SUBSET S : \E b \in s : Bad(s, b)}
<1>1. ASSUME B # {} PROVE FALSE
  <2>1. PICK s \in B : IsFiniteSet(s) /\ \A x \in s : s \ {x} \notin B
    <3>1. B \subseteq SUBSET S
      OBVIOUS
    <3> HIDE DEF B
    <3> QED  BY <1>1, <3>1, SmallestOf
  <2>2. PICK b \in s : Bad(s, b)
    OBVIOUS
  <2>3. PICK c \in s : SumFunctionOnSet(f, s) = f[c] + SumFunctionOnSet(f, s \ {c})
    <3>1. s # {}
      BY <2>2
    <3> HIDE DEF B
    <3> QED  BY <2>1, <3>1, SumStep
  <2>4. c # b /\ s \in SUBSET S
    BY <2>2, <2>3
  <2> DEFINE both == s \ {b, c}
  <2>5. SumFunctionOnSet(f, s \ {c}) = f[b] + SumFunctionOnSet(f, both)
    <3>1. s \ {c} \notin B /\ s \ {c} \in SUBSET S /\ b \in s \ {c} /\ (s \ {c}) \ {b} = both
      BY <2>1, <2>4
    <3> HIDE DEF both
    <3> QED  BY <3>1
  <2>6. SumFunctionOnSet(f, s \ {b}) = f[c] + SumFunctionOnSet(f, both)
    <3>1. s \ {b} \notin B /\ s \ {b} \in SUBSET S /\ c \in s \ {b} /\ (s \ {b}) \ {c} = both
      BY <2>1, <2>4
    <3> HIDE DEF both
    <3> QED  BY <3>1
  <2>7. SumFunctionOnSet(f, both) \in Nat /\ f[b] \in Nat /\ f[c] \in Nat
    <3>1. both \in SUBSET S /\ IsFiniteSet(both)
      BY <2>4, FS_Subset
    <3> QED  BY <2>4, <3>1, SumIsNat
  <2> HIDE DEF both, B
  <2> QED  BY <2>2, <2>3, <2>5, <2>6, <2>7
<1>2. S \notin B
  <2> HIDE DEF B
  <2> QED  BY <1>1
<1> QED  BY <1>2

\* More elements, more sum.
LEMMA SumMore ==
    ASSUME NEW f, NEW S, IsFiniteSet(S), \A x \in S : f[x] \in Nat, NEW T \in SUBSET S
    PROVE  /\ SumFunctionOnSet(f, T) <= SumFunctionOnSet(f, S)
           /\ \A a \in S \ T : SumFunctionOnSet(f, T) + f[a] <= SumFunctionOnSet(f, S)
<1> DEFINE Sum(s) == SumFunctionOnSet(f, s)
           B == {s \in SUBSET S : T \subseteq s /\ ~(Sum(T) <= Sum(s))}
<1>1. \A s \in SUBSET S : IsFiniteSet(s) /\ Sum(s) \in Nat
  BY FS_Subset, SumIsNat
<1>2. ASSUME B # {} PROVE FALSE
  <2>1. PICK s \in B : IsFiniteSet(s) /\ \A x \in s : s \ {x} \notin B
    <3>1. B \subseteq SUBSET S
      OBVIOUS
    <3> HIDE DEF B
    <3> QED  BY <1>2, <3>1, SmallestOf
  <2>2. s \in SUBSET S /\ T \subseteq s /\ ~(Sum(T) <= Sum(s))
    OBVIOUS
  <2>3. PICK c \in s : c \notin T
    BY <1>1, <2>2
  <2>4. s \ {c} \in SUBSET S /\ T \subseteq s \ {c} /\ s \ {c} \notin B
    BY <2>1, <2>2, <2>3
  <2>5. Sum(T) <= Sum(s \ {c})
    BY <2>4
  <2>6. Sum(s) = f[c] + Sum(s \ {c}) /\ f[c] \in Nat
    BY <2>1, <2>2, SumTake
  <2> HIDE DEF Sum, B
  <2> QED  BY <1>1, <2>2, <2>4, <2>5, <2>6
<1>3. \A s \in SUBSET S : T \subseteq s => Sum(T) <= Sum(s)
  <2>1. B = {}
    <3> HIDE DEF B
    <3> QED  BY <1>2
  <2> HIDE DEF Sum
  <2> QED  BY <2>1
<1>4. ASSUME NEW a \in S \ T PROVE Sum(T) + f[a] <= Sum(S)
  <2>1. Sum(S) = f[a] + Sum(S \ {a}) /\ f[a] \in Nat
    BY SumTake
  <2>2. S \ {a} \in SUBSET S /\ T \subseteq S \ {a}
    OBVIOUS
  <2> HIDE DEF Sum
  <2> QED  BY <1>1, <1>3, <2>1, <2>2
<1> QED  BY <1>3, <1>4

LEMMA SumPlus ==
    ASSUME NEW f, NEW g, NEW h, NEW S, IsFiniteSet(S),
           \A x \in S : f[x] \in Nat /\ g[x] \in Nat /\ h[x] = f[x] + g[x]
    PROVE  SumFunctionOnSet(h, S) = SumFunctionOnSet(f, S) + SumFunctionOnSet(g, S)
<1> DEFINE Sum(k, s) == SumFunctionOnSet(k, s)
           B == {s \in SUBSET S : Sum(h, s) # Sum(f, s) + Sum(g, s)}
<1>1. \A s \in SUBSET S : Sum(f, s) \in Nat /\ Sum(g, s) \in Nat
  BY FS_Subset, SumIsNat
<1>2. ASSUME B # {} PROVE FALSE
  <2>1. PICK s \in B : IsFiniteSet(s) /\ \A x \in s : s \ {x} \notin B
    <3>1. B \subseteq SUBSET S
      OBVIOUS
    <3> HIDE DEF B
    <3> QED  BY <1>2, <3>1, SmallestOf
  <2>2. s # {}
    <3>1. Sum(h, {}) = 0 /\ Sum(f, {}) = 0 /\ Sum(g, {}) = 0
      BY SumEmpty
    <3>2. Sum(h, s) # Sum(f, s) + Sum(g, s)
      OBVIOUS
    <3> HIDE DEF Sum, B
    <3> QED  BY <3>1, <3>2
  <2>3. PICK c : c \in s
    BY <2>2
  <2>4. s \in SUBSET S /\ c \in S /\ s \ {c} \in SUBSET S
    BY <2>3
  <2>5. Sum(f, s) = f[c] + Sum(f, s \ {c}) /\ Sum(g, s) = g[c] + Sum(g, s \ {c})
        /\ Sum(h, s) = h[c] + Sum(h, s \ {c})
    <3>1. \A x \in s : f[x] \in Nat /\ g[x] \in Nat /\ h[x] \in Nat
      BY <2>4
    <3> QED  BY <2>1, <2>3, <3>1, SumTake
  <2>6. Sum(h, s \ {c}) = Sum(f, s \ {c}) + Sum(g, s \ {c})
    <3>1. s \ {c} \notin B
      BY <2>1, <2>3
    <3> HIDE DEF Sum
    <3> QED  BY <2>4, <3>1
  <2>7. Sum(h, s) # Sum(f, s) + Sum(g, s)
    OBVIOUS
  <2> HIDE DEF Sum, B
  <2> QED  BY <1>1, <2>4, <2>5, <2>6, <2>7
<1>3. S \notin B
  <2> HIDE DEF B
  <2> QED  BY <1>2
<1> QED  BY <1>3

\* Counting the elements of A.
LEMMA SumCounts ==
    ASSUME NEW f, NEW S, IsFiniteSet(S), NEW A, A \subseteq S,
           \A x \in S : f[x] = IF x \in A THEN 1 ELSE 0
    PROVE  SumFunctionOnSet(f, S) = Cardinality(A)
<1> DEFINE B == {s \in SUBSET S : SumFunctionOnSet(f, s) # Cardinality(A \cap s)}
<1>1. ASSUME B # {} PROVE FALSE
  <2>1. PICK s \in B : IsFiniteSet(s) /\ \A x \in s : s \ {x} \notin B
    <3>1. B \subseteq SUBSET S
      OBVIOUS
    <3> HIDE DEF B
    <3> QED  BY <1>1, <3>1, SmallestOf
  <2>2. s # {}
    BY SumEmpty, FS_EmptySet
  <2>3. PICK c : c \in s
    BY <2>2
  <2>4. s \in SUBSET S /\ c \in S /\ s \ {c} \in SUBSET S /\ \A x \in s : f[x] \in Nat
    BY <2>3
  <2>5. SumFunctionOnSet(f, s) = f[c] + SumFunctionOnSet(f, s \ {c})
    BY <2>1, <2>3, <2>4, SumTake
  <2>6. SumFunctionOnSet(f, s \ {c}) = Cardinality(A \cap (s \ {c}))
    BY <2>1, <2>3, <2>4
  <2>7. IsFiniteSet(A \cap s) /\ Cardinality(A \cap s) \in Nat /\ A \cap (s \ {c}) = (A \cap s) \ {c}
    BY <2>1, FS_Subset, FS_CardinalityType
  <2>8. Cardinality((A \cap s) \ {c}) = IF c \in A THEN Cardinality(A \cap s) - 1 ELSE Cardinality(A \cap s)
    <3>1. c \in A \cap s <=> c \in A
      BY <2>3
    <3> HIDE DEF B
    <3> QED  BY <2>7, <3>1, FS_RemoveElement
  <2>9. SumFunctionOnSet(f, s) # Cardinality(A \cap s)
    OBVIOUS
  <2>10. f[c] = IF c \in A THEN 1 ELSE 0
    BY <2>4
  <2>11. SumFunctionOnSet(f, s \ {c}) = Cardinality((A \cap s) \ {c})
    BY <2>6, <2>7
  <2> HIDE DEF B
  <2> QED  BY <2>5, <2>7, <2>8, <2>9, <2>10, <2>11
<1>2. S \notin B
  <2> HIDE DEF B
  <2> QED  BY <1>1
<1>3. A \cap S = A
  OBVIOUS
<1> QED  BY <1>2, <1>3

\* Elements that add nothing.
LEMMA SumZeros ==
    ASSUME NEW f, NEW S, IsFiniteSet(S), \A x \in S : f[x] \in Nat, NEW T \in SUBSET S,
           \A x \in S \ T : f[x] = 0
    PROVE  SumFunctionOnSet(f, T) = SumFunctionOnSet(f, S)
<1> DEFINE Sum(s) == SumFunctionOnSet(f, s)
           B == {s \in SUBSET S : T \subseteq s /\ Sum(T) # Sum(s)}
<1>1. \A s \in SUBSET S : IsFiniteSet(s) /\ Sum(s) \in Nat
  BY FS_Subset, SumIsNat
<1>2. ASSUME B # {} PROVE FALSE
  <2>1. PICK s \in B : IsFiniteSet(s) /\ \A x \in s : s \ {x} \notin B
    <3>1. B \subseteq SUBSET S
      OBVIOUS
    <3> HIDE DEF B
    <3> QED  BY <1>2, <3>1, SmallestOf
  <2>2. s \in SUBSET S /\ T \subseteq s /\ Sum(T) # Sum(s)
    OBVIOUS
  <2>3. PICK c \in s : c \notin T
    <3>1. s # T
      <4> HIDE DEF B, Sum
      <4> QED  BY <2>2
    <3> QED  BY <2>2, <3>1
  <2>4. s \ {c} \in SUBSET S /\ T \subseteq s \ {c} /\ s \ {c} \notin B
    BY <2>1, <2>2, <2>3
  <2>5. Sum(T) = Sum(s \ {c})
    <3> HIDE DEF Sum
    <3> QED  BY <2>4
  <2>6. Sum(s) = f[c] + Sum(s \ {c}) /\ f[c] = 0
    BY <2>1, <2>2, <2>3, SumTake
  <2> HIDE DEF Sum, B
  <2> QED  BY <1>1, <2>2, <2>4, <2>5, <2>6
<1>3. S \notin B
  <2> HIDE DEF B
  <2> QED  BY <1>2
<1> QED  BY <1>3

-----------------------------------------------------------------------------
(* The layout of the process data: where sync managers and slaves start.   *)

Direction  == {Outputs, Inputs}
SlaveTypes == [sm : Seq([dir : Direction, len : Nat]), fmmus : Nat, mbx : BOOLEAN, lrw : BOOLEAN,
               member : BOOLEAN]
Planned    == plan \in Seq(SlaveTypes)

SmLen(i, k) == plan[i].sm[k].len

LEMMA PlanIs ==
    ASSUME Planned, NEW i \in DOMAIN plan
    PROVE  /\ i \in Nat /\ IsFiniteSet(Managers(i)) /\ Managers(i) \subseteq Nat
           /\ \A k \in Managers(i) : SmLen(i, k) \in Nat /\ plan[i].sm[k].dir \in Direction
           /\ plan[i].fmmus \in Nat /\ plan[i].mbx \in BOOLEAN
           /\ Used(i) \subseteq Managers(i) /\ Mapped(i) \subseteq Used(i)
           /\ \A dir \in Direction : Of(i, dir) \subseteq Managers(i)
<1>1. plan[i] \in SlaveTypes /\ i \in 1 .. Len(plan)
  BY DEF Planned
<1>2. plan[i].sm \in Seq([dir : Direction, len : Nat]) /\ plan[i].fmmus \in Nat /\ plan[i].mbx \in BOOLEAN
  BY <1>1 DEF SlaveTypes
<1>3. Managers(i) = 1 .. Len(plan[i].sm) /\ Len(plan[i].sm) \in Nat
  BY <1>2 DEF Managers
<1>4. \A k \in Managers(i) : plan[i].sm[k] \in [dir : Direction, len : Nat]
  <2> DEFINE s == plan[i].sm
             T == [dir : Direction, len : Nat]
  <2>1. s \in Seq(T) /\ Managers(i) = 1 .. Len(s)
    BY <1>2, <1>3
  <2> HIDE DEF s, T
  <2>2. \A k \in Managers(i) : s[k] \in T
    BY <2>1
  <2> QED  BY <2>2 DEF s, T
<1>5. IsFiniteSet(1 .. Len(plan[i].sm))
  BY <1>3, FS_Interval
<1> QED  BY <1>1, <1>2, <1>3, <1>4, <1>5 DEF Used, Mapped, Of, SmLen

LEMMA MembersAre ==
    ASSUME Planned
    PROVE  IsFiniteSet(Members) /\ Members \subseteq Nat /\ Members \subseteq DOMAIN plan
<1>1. DOMAIN plan = 1 .. Len(plan) /\ Len(plan) \in Nat
  BY DEF Planned
<1>2. IsFiniteSet(1 .. Len(plan))
  BY <1>1, FS_Interval
<1>3. Members \in SUBSET (1 .. Len(plan))
  BY <1>1 DEF Members
<1>4. IsFiniteSet(Members)
  BY <1>2, <1>3, FS_Subset
<1> QED  BY <1>1, <1>3, <1>4

\* The bytes of some sync managers.
LEMMA BytesAre ==
    ASSUME Planned, NEW i \in DOMAIN plan, NEW S \in SUBSET Managers(i)
    PROVE  /\ Bytes(i, S) \in Nat
           /\ \A T \in SUBSET S : /\ Bytes(i, T) <= Bytes(i, S)
                                  /\ \A k \in S \ T : Bytes(i, T) + SmLen(i, k) <= Bytes(i, S)
                                  /\ (\A k \in S \ T : SmLen(i, k) = 0) => Bytes(i, T) = Bytes(i, S)
<1> DEFINE f == [k \in Managers(i) |-> plan[i].sm[k].len]
<1>1. IsFiniteSet(S) /\ \A k \in S : f[k] \in Nat /\ f[k] = SmLen(i, k)
  BY PlanIs, FS_Subset DEF SmLen
<1>2. \A T : Bytes(i, T) = SumFunctionOnSet(f, T)
  BY DEF Bytes
<1> HIDE DEF f
<1>3. Bytes(i, S) \in Nat
  BY <1>1, <1>2, SumIsNat
<1>4. ASSUME NEW T \in SUBSET S
      PROVE  /\ Bytes(i, T) <= Bytes(i, S)
             /\ \A k \in S \ T : Bytes(i, T) + SmLen(i, k) <= Bytes(i, S)
             /\ (\A k \in S \ T : SmLen(i, k) = 0) => Bytes(i, T) = Bytes(i, S)
  <2>1. Bytes(i, T) <= Bytes(i, S) /\ \A k \in S \ T : Bytes(i, T) + SmLen(i, k) <= Bytes(i, S)
    BY <1>1, <1>2, SumMore
  <2>2. ASSUME \A k \in S \ T : SmLen(i, k) = 0 PROVE Bytes(i, T) = Bytes(i, S)
    <3>1. \A k \in S \ T : f[k] = 0
      BY <1>1, <2>2
    <3> QED  BY <1>1, <1>2, <3>1, SumZeros
  <2> QED  BY <2>1, <2>2
<1> QED  BY <1>3, <1>4

\* The sync managers of one direction follow each other.
LEMMA OffsetsAre ==
    ASSUME Planned, NEW i \in DOMAIN plan, NEW dir \in Direction, NEW k \in Of(i, dir)
    PROVE  /\ Offset(i, k) \in Nat /\ Size(i, dir) \in Nat /\ SmLen(i, k) \in Nat
           /\ Offset(i, k) + SmLen(i, k) <= Size(i, dir)
           /\ \A l \in Of(i, dir) : k < l => Offset(i, k) + SmLen(i, k) <= Offset(i, l)
<1> DEFINE Up(n) == {j \in Of(i, dir) : j < n}
<1>1. /\ Of(i, dir) \in SUBSET Managers(i) /\ Of(i, dir) \subseteq Nat /\ k \in Managers(i)
      /\ \A n \in Of(i, dir) : plan[i].sm[n].dir = dir
  BY PlanIs DEF Of
<1>2. \A n \in Of(i, dir) : Offset(i, n) = Bytes(i, Up(n))
  BY <1>1 DEF Offset
<1>3. Up(k) \in SUBSET Of(i, dir) /\ Up(k) \in SUBSET Managers(i) /\ k \in Of(i, dir) \ Up(k)
  BY <1>1
<1>4. SmLen(i, k) \in Nat
  BY <1>1, PlanIs
<1>5. Offset(i, k) \in Nat
  <2> HIDE DEF Up
  <2> QED  BY <1>2, <1>3, BytesAre
<1>6. Size(i, dir) \in Nat /\ Offset(i, k) + SmLen(i, k) <= Size(i, dir)
  <2> HIDE DEF Up
  <2> QED  BY <1>1, <1>2, <1>3, BytesAre DEF Size
<1>7. ASSUME NEW l \in Of(i, dir), k < l PROVE Offset(i, k) + SmLen(i, k) <= Offset(i, l)
  <2>1. Up(k) \in SUBSET Up(l) /\ Up(l) \in SUBSET Managers(i) /\ k \in Up(l) \ Up(k)
    BY <1>1, <1>7
  <2> HIDE DEF Up
  <2> QED  BY <1>2, <2>1, BytesAre
<1> QED  BY <1>4, <1>5, <1>6, <1>7

\* What the members have lies one behind the other.
LEMMA BeforeAre ==
    ASSUME Planned, NEW f, \A j \in Members : f[j] \in Nat, NEW i \in Members
    PROVE  /\ Before(i, f) \in Nat /\ Total(f) \in Nat
           /\ Before(i, f) + f[i] <= Total(f)
           /\ \A j \in Members : i < j => Before(i, f) + f[i] <= Before(j, f)
<1> DEFINE Up(n) == {j \in Members : j < n}
<1>1. IsFiniteSet(Members) /\ Members \subseteq Nat /\ i \in Nat
  BY MembersAre
<1>2. Up(i) \in SUBSET Members /\ i \in Members \ Up(i)
  BY <1>1
<1>3. \A n : Before(n, f) = SumFunctionOnSet(f, Up(n))
  BY DEF Before
<1>4. Total(f) \in Nat
  BY <1>1, SumIsNat DEF Total
<1>5. Before(i, f) \in Nat
  <2>1. IsFiniteSet(Up(i)) /\ \A j \in Up(i) : f[j] \in Nat
    BY <1>1, <1>2, FS_Subset
  <2> HIDE DEF Up
  <2> QED  BY <1>3, <2>1, SumIsNat
<1>6. Before(i, f) + f[i] <= Total(f)
  <2> HIDE DEF Up
  <2> QED  BY <1>1, <1>2, <1>3, SumMore DEF Total
<1>7. ASSUME NEW j \in Members, i < j PROVE Before(i, f) + f[i] <= Before(j, f)
  <2>1. Up(i) \in SUBSET Up(j) /\ i \in Up(j) \ Up(i) /\ Up(j) \in SUBSET Members
    <3>1. i \in Nat /\ j \in Nat /\ ~(i < i)
      BY <1>1, <1>7
    <3>2. \A n \in Members : n < i => n < j
      BY <1>1, <1>7, <3>1
    <3> QED  BY <1>7, <3>1, <3>2
  <2>2. IsFiniteSet(Up(j)) /\ \A n \in Up(j) : f[n] \in Nat
    BY <1>1, <2>1, FS_Subset
  <2> HIDE DEF Up
  <2> QED  BY <1>3, <2>1, <2>2, SumMore
<1> QED  BY <1>4, <1>5, <1>6, <1>7

\* Where the FMMUs of a slave start, and where its process data starts in the image.
Base(i, dir) == IF pd.overlapping THEN Before(i, Areas)
                ELSE Before(i, Sizes(dir)) + (IF dir = Inputs THEN Total(Sizes(Outputs)) ELSE 0)
ImageBase(i, dir) == IF pd.overlapping THEN Before(i, Areas) + (IF dir = Inputs THEN Total(Areas) ELSE 0)
                     ELSE Base(i, dir)

\* The slaves that take part in a transfer.
Hitting(dir) == {i \in Members : Mapped(i) \cap Of(i, dir) # {}}

GroupTypes == [useLrw : BOOLEAN, overlapping : BOOLEAN, skip : BOOLEAN, outLen : Nat, inLen : Nat,
               logLen : Nat, lrw : Nat, lrd : Nat, lwr : Nat]

\* The group behind a mapping: its lengths, and its counters as far as they are right.
Laid ==
    /\ pd.useLrw => \A i \in Members : plan[i].lrw
    /\ pd.overlapping =>
          /\ pd.useLrw
          /\ pd.outLen = Total(Areas) /\ pd.inLen = Total(Areas) /\ pd.logLen = Total(Areas)
          /\ pd.lrw = 2 * Cardinality(Hitting(Outputs)) + Cardinality(Hitting(Inputs))
    /\ ~pd.overlapping =>
          /\ pd.outLen = Total(Sizes(Outputs)) /\ pd.inLen = Total(Sizes(Inputs))
          /\ pd.logLen = pd.outLen + pd.inLen
          /\ OneEach => /\ pd.lrd = Cardinality(Hitting(Inputs))
                        /\ pd.lrw = Cardinality(Hitting(Inputs)) + 2 * Cardinality(Hitting(Outputs))
                        /\ mappings = 1 => pd.lwr = Cardinality(Hitting(Outputs))

\* A slave of the group behind a mapping.
Placed(i) ==
    /\ \A dir \in Direction : \A k \in Mapped(i) \cap Of(i, dir) :
          maps[i].log[k] = Base(i, dir) + Offset(i, k)
    /\ AllMapped =>
          /\ Mapped(i) \cap Of(i, Outputs) # {} =>
                maps[i].out.len # 0 /\ maps[i].out.pd = ImageBase(i, Outputs)
          /\ Mapped(i) \cap Of(i, Inputs) # {} =>
                maps[i].in.len # 0 /\ maps[i].in.pd = ImageBase(i, Inputs)
    /\ HasMbxBit(i) => maps[i].bitno = MbxBit(i)
    /\ plan[i].mbx /\ ~HasMbxBit(i) => ~maps[i].sm_state

Layout ==
    /\ Planned /\ pd \in GroupTypes /\ mappings \in Nat /\ DOMAIN maps = DOMAIN plan
    /\ \A i \in Members : maps[i].out.len \in Nat /\ maps[i].in.len \in Nat
    /\ mappings = 0 => /\ pd.lwr = 0 /\ image = Nothing /\ mailed = [new |-> {}, read |-> {}]
                       /\ \A i \in Members : maps[i].out.len = 0 /\ maps[i].in.len = 0
    /\ mappings # 0 => Laid /\ \A i \in Members : Placed(i)

\* What depends on the slaves only never changes.
LEMMA PlanStays ==
    ASSUME plan' = plan
    PROVE  /\ (Planned' <=> Planned) /\ Members' = Members
           /\ \A i : /\ Mapped(i)' = Mapped(i) /\ Used(i)' = Used(i) /\ Managers(i)' = Managers(i)
                     /\ (HasMbxBit(i)' <=> HasMbxBit(i)) /\ MbxBit(i)' = MbxBit(i)
                     /\ \A dir : Of(i, dir)' = Of(i, dir) /\ Size(i, dir)' = Size(i, dir)
                     /\ \A k : Offset(i, k)' = Offset(i, k)
                     /\ Before(i, Areas)' = Before(i, Areas)
                     /\ \A dir : Before(i, Sizes(dir))' = Before(i, Sizes(dir))
           /\ Total(Areas)' = Total(Areas)
           /\ \A dir : Total(Sizes(dir))' = Total(Sizes(dir)) /\ Hitting(dir)' = Hitting(dir)
           /\ (AllMapped' <=> AllMapped) /\ (OneEach' <=> OneEach)
<1>1. (Planned' <=> Planned) /\ Members' = Members
  BY DEF Planned, Members
<1>2. \A i : Managers(i)' = Managers(i) /\ Used(i)' = Used(i)
  BY DEF Managers, Used
<1>3. \A i : Mapped(i)' = Mapped(i)
  BY DEF Mapped, Fmmu, Used, Managers
<1>4. \A i, dir : Of(i, dir)' = Of(i, dir)
  BY DEF Of, Managers
<1>5. \A i, dir : Size(i, dir)' = Size(i, dir)
  BY DEF Size, Bytes, Of, Managers
<1>6. \A i, k : Offset(i, k)' = Offset(i, k)
  BY DEF Offset, Bytes, Of, Managers
<1>7. \A i : (HasMbxBit(i)' <=> HasMbxBit(i)) /\ MbxBit(i)' = MbxBit(i)
  BY DEF HasMbxBit, MbxBit, Used, Managers, Members
<1>8. \A i : /\ Before(i, Areas)' = Before(i, Areas)
             /\ \A dir : Before(i, Sizes(dir))' = Before(i, Sizes(dir))
  BY DEF Before, Areas, Sizes, Size, Bytes, Of, Managers, Members
<1>9. /\ Total(Areas)' = Total(Areas)
      /\ \A dir : Total(Sizes(dir))' = Total(Sizes(dir))
  BY DEF Total, Areas, Sizes, Size, Bytes, Of, Managers, Members
<1>10. \A dir : Hitting(dir)' = Hitting(dir)
  BY DEF Hitting, Mapped, Fmmu, Used, Of, Managers, Members
<1>11. (AllMapped' <=> AllMapped) /\ (OneEach' <=> OneEach)
  BY DEF AllMapped, OneEach, Mapped, Fmmu, Used, Of, Managers, Members
<1> QED  BY <1>1, <1>2, <1>3, <1>4, <1>5, <1>6, <1>7, <1>8, <1>9, <1>10, <1>11

LEMMA SizesAre ==
    ASSUME Planned, NEW i \in Members
    PROVE  /\ \A dir \in Direction : Size(i, dir) \in Nat /\ Sizes(dir)[i] = Size(i, dir)
           /\ Areas[i] \in Nat /\ \A dir \in Direction : Size(i, dir) <= Areas[i]
           /\ Areas[i] = Larger(Size(i, Inputs), Size(i, Outputs))
<1>1. \A dir \in Direction : Size(i, dir) \in Nat
  <2> TAKE dir \in Direction
  <2>1. i \in DOMAIN plan /\ Of(i, dir) \in SUBSET Managers(i)
    BY PlanIs, MembersAre
  <2> QED  BY <2>1, BytesAre DEF Size
<1> QED  BY <1>1 DEF Sizes, Areas, Larger, Direction

\* The start of a slave's process data, and room for it.
LEMMA BasesAre ==
    ASSUME Planned, NEW i \in Members
    PROVE  /\ Before(i, Areas) \in Nat /\ Total(Areas) \in Nat
           /\ Before(i, Areas) + Areas[i] <= Total(Areas)
           /\ \A j \in Members : i < j => Before(i, Areas) + Areas[i] <= Before(j, Areas)
           /\ \A dir \in Direction :
                 /\ Before(i, Sizes(dir)) \in Nat /\ Total(Sizes(dir)) \in Nat
                 /\ Before(i, Sizes(dir)) + Size(i, dir) <= Total(Sizes(dir))
                 /\ \A j \in Members : i < j => Before(i, Sizes(dir)) + Size(i, dir) <= Before(j, Sizes(dir))
<1>1. \A j \in Members : Areas[j] \in Nat
  BY SizesAre
<1>2. ASSUME NEW dir \in Direction
      PROVE  /\ Before(i, Sizes(dir)) \in Nat /\ Total(Sizes(dir)) \in Nat
             /\ Before(i, Sizes(dir)) + Size(i, dir) <= Total(Sizes(dir))
             /\ \A j \in Members : i < j => Before(i, Sizes(dir)) + Size(i, dir) <= Before(j, Sizes(dir))
  <2>1. \A j \in Members : Sizes(dir)[j] \in Nat /\ Sizes(dir)[i] = Size(i, dir)
    BY SizesAre
  <2> QED  BY <2>1, BeforeAre
<1> QED  BY <1>1, <1>2, BeforeAre

\* The number of slaves in a transfer, as the two mappings count it.
LEMMA CountsAre ==
    ASSUME Planned
    PROVE  /\ \A dir \in Direction : Hitting(dir) \subseteq Members /\ IsFiniteSet(Hitting(dir))
                                     /\ Cardinality(Hitting(dir)) \in Nat
           /\ Total([j \in Members |-> 2 * (IF Mapped(j) \cap Of(j, Outputs) = {} THEN 0 ELSE 1)
                                       + (IF Mapped(j) \cap Of(j, Inputs) = {} THEN 0 ELSE 1)])
              = 2 * Cardinality(Hitting(Outputs)) + Cardinality(Hitting(Inputs))
           /\ \A dir \in Direction :
                 LET sms == [j \in Members |-> Cardinality(Mapped(j) \cap Of(j, dir))]
                 IN  Total(sms) \in Nat /\ (OneEach => Total(sms) = Cardinality(Hitting(dir)))
<1> DEFINE hit(dir) == [j \in Members |-> IF j \in Hitting(dir) THEN 1 ELSE 0]
           both == [j \in Members |-> hit(Outputs)[j] + hit(Inputs)[j]]
           wkc == [j \in Members |-> 2 * (IF Mapped(j) \cap Of(j, Outputs) = {} THEN 0 ELSE 1)
                                       + (IF Mapped(j) \cap Of(j, Inputs) = {} THEN 0 ELSE 1)]
           sms(dir) == [j \in Members |-> Cardinality(Mapped(j) \cap Of(j, dir))]
<1>1. IsFiniteSet(Members) /\ Members \subseteq Nat /\ Members \subseteq DOMAIN plan
  BY MembersAre
<1>2. \A dir \in Direction : Hitting(dir) \in SUBSET Members
  BY DEF Hitting
<1>3. \A dir \in Direction : IsFiniteSet(Hitting(dir)) /\ Cardinality(Hitting(dir)) \in Nat
  BY <1>1, <1>2, FS_Subset, FS_CardinalityType
<1>4. ASSUME NEW dir \in Direction PROVE Total(hit(dir)) = Cardinality(Hitting(dir))
  <2>1. \A j \in Members : hit(dir)[j] = IF j \in Hitting(dir) THEN 1 ELSE 0
    OBVIOUS
  <2>2. Hitting(dir) \subseteq Members
    BY <1>2
  <2> HIDE DEF hit
  <2> QED  BY <1>1, <2>1, <2>2, SumCounts DEF Total
<1>5. Total(wkc) = 2 * Cardinality(Hitting(Outputs)) + Cardinality(Hitting(Inputs))
  <2> DEFINE out == hit(Outputs)
             in  == hit(Inputs)
  <2>1. \A j \in Members : /\ out[j] \in Nat /\ in[j] \in Nat /\ both[j] \in Nat
                           /\ both[j] = out[j] + in[j] /\ wkc[j] = out[j] + both[j]
    BY DEF Hitting
  <2>2. Total(out) = Cardinality(Hitting(Outputs)) /\ Total(in) = Cardinality(Hitting(Inputs))
    BY <1>4 DEF Direction
  <2>3. Outputs \in Direction /\ Inputs \in Direction
    BY DEF Direction
  <2> HIDE DEF hit, out, in, both, wkc
  <2> DEFINE M == Members
  <2>4. IsFiniteSet(M)
    BY <1>1
  <2>5. \A x \in M : out[x] \in Nat /\ in[x] \in Nat /\ both[x] = out[x] + in[x]
    BY <2>1
  <2>6. \A x \in M : out[x] \in Nat /\ both[x] \in Nat /\ wkc[x] = out[x] + both[x]
    BY <2>1
  <2> HIDE DEF M
  <2>7. SumFunctionOnSet(both, M) = SumFunctionOnSet(out, M) + SumFunctionOnSet(in, M)
    BY ONLY <2>4, <2>5, SumPlus
  <2>8. SumFunctionOnSet(wkc, M) = SumFunctionOnSet(out, M) + SumFunctionOnSet(both, M)
    BY ONLY <2>4, <2>6, SumPlus
  <2> QED  BY <2>2, <2>3, <2>7, <2>8, <1>3 DEF Total, M
<1>6. ASSUME NEW dir \in Direction
      PROVE  Total(sms(dir)) \in Nat /\ (OneEach => Total(sms(dir)) = Cardinality(Hitting(dir)))
  <2>1. ASSUME NEW j \in Members
        PROVE  /\ sms(dir)[j] = Cardinality(Mapped(j) \cap Of(j, dir)) /\ sms(dir)[j] \in Nat
               /\ OneEach => sms(dir)[j] = hit(dir)[j]
    <3> DEFINE ms == Mapped(j) \cap Of(j, dir)
               us == Used(j) \cap Of(j, dir)
    <3>1. j \in DOMAIN plan
      BY <1>1
    <3>2. IsFiniteSet(us) /\ ms \in SUBSET us
      <4>1. IsFiniteSet(Managers(j)) /\ us \in SUBSET Managers(j) /\ ms \in SUBSET us
        BY <3>1, PlanIs
      <4> HIDE DEF us, ms
      <4> QED  BY <4>1, FS_Subset
    <3>3. sms(dir)[j] = Cardinality(ms)
      OBVIOUS
    <3>4. j \in Hitting(dir) <=> ms # {}
      BY DEF Hitting
    <3>5. hit(dir)[j] = IF ms = {} THEN 0 ELSE 1
      BY <3>4
    <3>6. OneEach => Cardinality(us) <= 1
      BY DEF OneEach, Direction
    <3>7. IsFiniteSet(ms) /\ Cardinality(ms) \in Nat /\ Cardinality(us) \in Nat
          /\ Cardinality(ms) <= Cardinality(us) /\ (Cardinality(ms) = 0 <=> ms = {})
      <4> HIDE DEF us, ms
      <4> QED  BY <3>2, FS_Subset, FS_CardinalityType, FS_EmptySet
    <3>8. OneEach => Cardinality(ms) = IF ms = {} THEN 0 ELSE 1
      <4> HIDE DEF us, ms
      <4> QED  BY <3>6, <3>7
    <3> QED  BY <3>3, <3>5, <3>7, <3>8
  <2> HIDE DEF sms, hit
  <2>2. Total(sms(dir)) \in Nat
    BY <1>1, <2>1, SumIsNat DEF Total
  <2>3. OneEach => Total(sms(dir)) = Total(hit(dir))
    BY <1>1, <2>1, SumSame DEF Total
  <2> QED  BY <2>2, <2>3, <1>4
<1> QED  BY <1>2, <1>3, <1>5, <1>6

\* What a slave gets mapped in one direction.
LEMMA MappedBytes ==
    ASSUME Planned, NEW i \in Members, NEW dir \in Direction
    PROVE  LET ks == Mapped(i) \cap Of(i, dir)
           IN  /\ Bytes(i, ks) \in Nat /\ (ks # {} => Bytes(i, ks) # 0)
               /\ AllMapped => /\ Bytes(i, ks) = Size(i, dir)
                               /\ ks # {} => Offset(i, Min(ks)) = 0
<1> DEFINE ks == Mapped(i) \cap Of(i, dir)
           none == {}
<1>1. /\ i \in DOMAIN plan /\ Of(i, dir) \in SUBSET Managers(i) /\ ks \in SUBSET Of(i, dir)
      /\ ks \in SUBSET Managers(i) /\ none \in SUBSET ks /\ ks \subseteq Nat
      /\ \A k \in Managers(i) : SmLen(i, k) \in Nat
  BY MembersAre, PlanIs
<1>2. \A k \in ks : SmLen(i, k) > 0
  BY <1>1 DEF Mapped, Used, SmLen
<1>3. Bytes(i, none) = 0
  BY SumEmpty DEF Bytes
<1>4. Bytes(i, ks) \in Nat
  <2> HIDE DEF ks, none
  <2> QED  BY <1>1, BytesAre
<1>5. ASSUME ks # {} PROVE Bytes(i, ks) # 0
  <2>1. PICK k \in ks : TRUE
    BY <1>5
  <2>2. k \in ks \ none /\ SmLen(i, k) \in Nat /\ SmLen(i, k) > 0
    BY <2>1, <1>1, <1>2
  <2> HIDE DEF ks, none
  <2>3. Bytes(i, none) + SmLen(i, k) <= Bytes(i, ks)
    BY <2>2, <1>1, BytesAre
  <2> QED  BY <2>2, <2>3, <1>3, <1>4
<1>6. ASSUME AllMapped PROVE Bytes(i, ks) = Size(i, dir)
  <2>1. \A k \in Of(i, dir) \ ks : SmLen(i, k) = 0
    BY <1>6, <1>1 DEF AllMapped, Used, SmLen
  <2> HIDE DEF ks, none
  <2> QED  BY <2>1, <1>1, BytesAre DEF Size
<1>7. ASSUME AllMapped, ks # {} PROVE Offset(i, Min(ks)) = 0
  <2>1. PICK m \in ks : \A n \in ks : m <= n
    <3> HIDE DEF ks, none
    <3> QED  BY <1>1, <1>7, LeastOf
  <2>2. Min(ks) \in ks /\ \A n \in ks : Min(ks) <= n
    <3> HIDE DEF ks, none
    <3> QED  BY <2>1 DEF Min
  <2> HIDE DEF none
  <2> DEFINE low == {j \in Of(i, plan[i].sm[Min(ks)].dir) : j < Min(ks)}
  <2>3. plan[i].sm[Min(ks)].dir = dir
    BY <2>2 DEF Of
  <2>4. low \in SUBSET Of(i, dir) /\ \A j \in low : j \notin ks
    BY <2>2, <2>3, <1>1
  <2>5. \A k \in low : SmLen(i, k) = 0
    <3>1. \A k \in Of(i, dir) \ ks : SmLen(i, k) = 0
      BY <1>7, <1>1 DEF AllMapped, Used, SmLen
    <3> HIDE DEF low, ks
    <3> QED  BY <2>4, <3>1
  <2>6. low \in SUBSET Managers(i) /\ none \in SUBSET low
    BY <2>4, <1>1 DEF none
  <2>7. Offset(i, Min(ks)) = Bytes(i, low)
    BY DEF Offset
  <2> HIDE DEF ks, low
  <2> QED  BY <2>5, <2>6, <2>7, <1>1, <1>3, BytesAre
<1> QED  BY <1>4, <1>5, <1>6, <1>7

\* The first mapping of an overlapping group, when every sync manager gets its FMMU.
LEMMA OverlaidAre ==
    ASSUME Planned, NEW i \in Members, NEW dir \in Direction
    PROVE  /\ Overlaid(i, dir).log = Before(i, Areas)
           /\ AllMapped /\ (\A j \in Members : maps[j].out.len = 0 /\ maps[j].in.len = 0)
              => Overlaid(i, dir).pd = Before(i, Areas) + (IF dir = Inputs THEN Total(Areas) ELSE 0)
<1>1. Overlaid(i, dir).log = Before(i, Areas)
  BY DEF Overlaid
<1>2. ASSUME AllMapped, \A j \in Members : maps[j].out.len = 0 /\ maps[j].in.len = 0
      PROVE  Overlaid(i, dir).pd = Before(i, Areas) + (IF dir = Inputs THEN Total(Areas) ELSE 0)
  <2> DEFINE mapped(j, d) == maps[j][d].len + Bytes(j, Mapped(j) \cap Of(j, d))
             ahead == [j \in Members |-> Larger(mapped(j, Inputs), mapped(j, Outputs))]
             Up == {j \in Members : j < i}
  <2>1. Overlaid(i, dir).pd = Before(i, ahead) + (IF dir = Inputs THEN Total(Areas) ELSE 0)
    BY DEF Overlaid
  <2>2. ASSUME NEW j \in Members PROVE ahead[j] = Areas[j]
    <3>1. /\ Bytes(j, Mapped(j) \cap Of(j, Inputs)) = Size(j, Inputs)
          /\ Bytes(j, Mapped(j) \cap Of(j, Outputs)) = Size(j, Outputs)
      BY <1>2, MappedBytes DEF Direction
    <3>2. maps[j][Inputs].len = 0 /\ maps[j][Outputs].len = 0
      BY <1>2 DEF Inputs, Outputs
    <3>3. Size(j, Inputs) \in Nat /\ Size(j, Outputs) \in Nat
      BY SizesAre DEF Direction
    <3>4. mapped(j, Inputs) = Size(j, Inputs) /\ mapped(j, Outputs) = Size(j, Outputs)
      BY <3>1, <3>2, <3>3
    <3>5. ahead[j] = Larger(mapped(j, Inputs), mapped(j, Outputs))
      OBVIOUS
    <3> HIDE DEF mapped, ahead
    <3> QED  BY <3>4, <3>5, SizesAre
  <2>3. IsFiniteSet(Up) /\ \A j \in Up : ahead[j] = Areas[j]
    <3>1. Up \in SUBSET Members
      OBVIOUS
    <3> HIDE DEF Up, ahead
    <3> QED  BY <3>1, <2>2, MembersAre, FS_Subset
  <2>4. Before(i, ahead) = SumFunctionOnSet(ahead, Up) /\ Before(i, Areas) = SumFunctionOnSet(Areas, Up)
    BY DEF Before
  <2> HIDE DEF ahead, Up
  <2>5. Before(i, ahead) = Before(i, Areas)
    BY <2>3, <2>4, SumSame
  <2> QED  BY <2>1, <2>5
<1> QED  BY <1>1, <1>2

\* What the two mappings write to a slave.
OverlaidSlave(i) == MapSlave(i, [dir \in {Outputs, Inputs} |-> Overlaid(i, dir)])
SplitSlave(i)    == MapSlave(i, [dir \in {Outputs, Inputs} |-> Split(i, dir)])

\* A mapping, field by field.
LEMMA MappingDoes ==
    ASSUME Layout, CreateMapping
    PROVE  LET lrw == pd.useLrw /\ \A i \in Members : plan[i].lrw
               over == pd.overlapping /\ lrw
           IN  /\ plan' = plan /\ mappings' = mappings + 1 /\ DOMAIN maps' = DOMAIN plan
               /\ pd' \in GroupTypes /\ pd'.useLrw = lrw /\ pd'.overlapping = over
               /\ over => /\ pd'.outLen = Total(Areas) /\ pd'.inLen = Total(Areas)
                          /\ pd'.logLen = Total(Areas)
                          /\ pd'.lrw = 2 * Cardinality(Hitting(Outputs)) + Cardinality(Hitting(Inputs))
                          /\ \A i \in Members : maps'[i] = OverlaidSlave(i)
               /\ ~over => /\ pd'.outLen = Total(Sizes(Outputs)) /\ pd'.inLen = Total(Sizes(Inputs))
                           /\ pd'.logLen = pd'.outLen + pd'.inLen
                           /\ OneEach => /\ pd'.lrd = Cardinality(Hitting(Inputs))
                                         /\ pd'.lrw = Cardinality(Hitting(Inputs))
                                                      + 2 * Cardinality(Hitting(Outputs))
                                         /\ pd'.lwr = pd.lwr + Cardinality(Hitting(Outputs))
                           /\ \A i \in Members : maps'[i] = SplitSlave(i)
<1> DEFINE lrw == pd.useLrw /\ \A i \in Members : plan[i].lrw
           over == pd.overlapping /\ lrw
           group == [pd EXCEPT !.useLrw = lrw, !.overlapping = @ /\ lrw]
           wkc == Total([j \in Members |-> 2 * (IF Mapped(j) \cap Of(j, Outputs) = {} THEN 0 ELSE 1)
                                           + (IF Mapped(j) \cap Of(j, Inputs) = {} THEN 0 ELSE 1)])
           out == Total([j \in Members |-> Cardinality(Mapped(j) \cap Of(j, Outputs))])
           in  == Total([j \in Members |-> Cardinality(Mapped(j) \cap Of(j, Inputs))])
           outLen == Total(Sizes(Outputs))
           inLen  == Total(Sizes(Inputs))
           len    == Total(Areas)
<1>1. pd \in GroupTypes /\ Planned /\ DOMAIN maps = DOMAIN plan /\ Members \subseteq DOMAIN plan
  BY MembersAre DEF Layout
<1>2. /\ wkc \in Nat /\ wkc = 2 * Cardinality(Hitting(Outputs)) + Cardinality(Hitting(Inputs))
      /\ out \in Nat /\ in \in Nat
      /\ OneEach => out = Cardinality(Hitting(Outputs)) /\ in = Cardinality(Hitting(Inputs))
  <2>1. Outputs \in Direction /\ Inputs \in Direction
    BY DEF Direction
  <2>2. wkc = 2 * Cardinality(Hitting(Outputs)) + Cardinality(Hitting(Inputs))
    BY <1>1, CountsAre
  <2>3. out \in Nat /\ (OneEach => out = Cardinality(Hitting(Outputs)))
    BY <1>1, <2>1, CountsAre
  <2>4. in \in Nat /\ (OneEach => in = Cardinality(Hitting(Inputs)))
    BY <1>1, <2>1, CountsAre
  <2>5. Cardinality(Hitting(Outputs)) \in Nat /\ Cardinality(Hitting(Inputs)) \in Nat
    BY <1>1, <2>1, CountsAre
  <2> HIDE DEF wkc, out, in
  <2> QED  BY <2>2, <2>3, <2>4, <2>5
<1>3. outLen \in Nat /\ inLen \in Nat /\ len \in Nat
  <2>1. IsFiniteSet(Members) /\ \A j \in Members : /\ Sizes(Outputs)[j] \in Nat /\ Sizes(Inputs)[j] \in Nat
                                                  /\ Areas[j] \in Nat
    BY <1>1, MembersAre, SizesAre DEF Direction
  <2> QED  BY <2>1, SumIsNat DEF Total
<1>4. lrw \in BOOLEAN /\ over \in BOOLEAN /\ group \in GroupTypes
      /\ group.useLrw = lrw /\ group.overlapping = over /\ group.lwr = pd.lwr /\ group.lwr \in Nat
  BY <1>1 DEF GroupTypes
<1>5. /\ plan' = plan /\ mappings' = mappings + 1
      /\ maps' = [i \in DOMAIN plan |->
                       IF i \notin Members THEN maps[i]
                       ELSE IF group.overlapping THEN OverlaidSlave(i) ELSE SplitSlave(i)]
      /\ pd' = IF group.overlapping THEN OverlaidGroup(group) ELSE SplitGroup(group)
  BY DEF CreateMapping, OverlaidSlave, SplitSlave
<1>6. DOMAIN maps' = DOMAIN plan
  BY <1>5
<1>7. \A i \in Members : maps'[i] = IF over THEN OverlaidSlave(i) ELSE SplitSlave(i)
  BY <1>5, <1>4, <1>1
<1>8. /\ OverlaidGroup(group) = [group EXCEPT !.outLen = len, !.inLen = len, !.logLen = len, !.lrw = wkc]
      /\ SplitGroup(group) = [group EXCEPT !.outLen = outLen, !.inLen = inLen, !.logLen = outLen + inLen,
                                           !.lrd = in, !.lwr = @ + out, !.lrw = in + 2 * out]
  BY DEF OverlaidGroup, SplitGroup
<1>9. SUFFICES ASSUME NEW g, g = group, NEW L, L = lrw, NEW O, O = over,
                      NEW ol, ol = outLen, NEW il, il = inLen, NEW al, al = len,
                      NEW w, w = wkc, NEW o, o = out, NEW n, n = in
               PROVE  /\ pd' \in GroupTypes /\ pd'.useLrw = lrw /\ pd'.overlapping = over
                      /\ over => pd'.outLen = al /\ pd'.inLen = al /\ pd'.logLen = al /\ pd'.lrw = w
                      /\ ~over => /\ pd'.outLen = ol /\ pd'.inLen = il /\ pd'.logLen = ol + il
                                  /\ pd'.lrd = n /\ pd'.lrw = n + 2 * o /\ pd'.lwr = pd.lwr + o
  <2> HIDE DEF group, lrw, over, outLen, inLen, len, wkc, out, in
  <2>1. /\ pd' \in GroupTypes /\ pd'.useLrw = lrw /\ pd'.overlapping = over
        /\ over => pd'.outLen = len /\ pd'.inLen = len /\ pd'.logLen = len /\ pd'.lrw = wkc
        /\ ~over => /\ pd'.outLen = outLen /\ pd'.inLen = inLen /\ pd'.logLen = outLen + inLen
                    /\ pd'.lrd = in /\ pd'.lrw = in + 2 * out /\ pd'.lwr = pd.lwr + out
    BY <1>9
  <2>2. over => \A i \in Members : maps'[i] = OverlaidSlave(i)
    BY <1>7
  <2>3. ~over => \A i \in Members : maps'[i] = SplitSlave(i)
    BY <1>7
  <2> QED  BY <1>2, <1>5, <1>6, <2>1, <2>2, <2>3 DEF lrw, over, outLen, inLen, len
<1> HIDE DEF group, lrw, over, outLen, inLen, len, wkc, out, in
<1>10. /\ pd' = IF O THEN [g EXCEPT !.outLen = al, !.inLen = al, !.logLen = al, !.lrw = w]
                ELSE [g EXCEPT !.outLen = ol, !.inLen = il, !.logLen = ol + il,
                               !.lrd = n, !.lwr = @ + o, !.lrw = n + 2 * o]
       /\ g \in GroupTypes /\ g.useLrw = L /\ g.overlapping = O /\ g.lwr = pd.lwr
       /\ {w, o, n, ol, il, al} \subseteq Nat /\ L \in BOOLEAN /\ O \in BOOLEAN
  BY <1>2, <1>3, <1>4, <1>5, <1>8, <1>9
<1>11. CASE O
  <2>1. pd' = [g EXCEPT !.outLen = al, !.inLen = al, !.logLen = al, !.lrw = w]
    BY <1>10, <1>11
  <2>2. pd' \in GroupTypes
    BY <2>1, <1>10 DEF GroupTypes
  <2>3. /\ pd'.useLrw = g.useLrw /\ pd'.overlapping = g.overlapping
        /\ pd'.outLen = al /\ pd'.inLen = al /\ pd'.logLen = al /\ pd'.lrw = w
    BY <2>1, <1>10 DEF GroupTypes
  <2> QED  BY <2>2, <2>3, <1>9, <1>10, <1>11
<1>12. CASE ~O
  <2>1. pd' = [g EXCEPT !.outLen = ol, !.inLen = il, !.logLen = ol + il,
                        !.lrd = n, !.lwr = @ + o, !.lrw = n + 2 * o]
    BY <1>10, <1>12
  <2>2. pd' \in GroupTypes
    <3>1. PICK a \in Nat, b \in Nat, c \in Nat : a = ol + il /\ b = g.lwr + o /\ c = n + 2 * o
      BY <1>4, <1>9, <1>10
    <3>2. /\ pd' = [g EXCEPT !.outLen = ol, !.inLen = il, !.logLen = a, !.lrd = n, !.lwr = b, !.lrw = c]
          /\ ol \in Nat /\ il \in Nat /\ n \in Nat /\ g \in GroupTypes
      BY <2>1, <3>1, <1>10
    <3> QED  BY ONLY <3>2, a \in Nat, b \in Nat, c \in Nat DEF GroupTypes
  <2>3. pd'.useLrw = g.useLrw /\ pd'.overlapping = g.overlapping
    BY <2>1, <1>10 DEF GroupTypes
  <2>4. pd'.outLen = ol /\ pd'.inLen = il /\ pd'.logLen = ol + il
    BY <2>1, <1>10 DEF GroupTypes
  <2>5. pd'.lrd = n /\ pd'.lrw = n + 2 * o
    BY <2>1, <1>10 DEF GroupTypes
  <2>6. pd'.lwr = g.lwr + o
    BY <2>1, <1>10 DEF GroupTypes
  <2> QED  BY <2>2, <2>3, <2>4, <2>5, <2>6, <1>9, <1>10, <1>12
<1> QED  BY <1>11, <1>12, <1>10

LEMMA OverlaidSlaveIs ==
    ASSUME NEW i, \A k \in Mapped(i) : plan[i].sm[k].dir \in Direction
    PROVE  /\ \A k \in Mapped(i) : OverlaidSlave(i).log[k] = Overlaid(i, plan[i].sm[k].dir).log + Offset(i, k)
           /\ OverlaidSlave(i).out = Extended(maps[i].out, i, Outputs, Overlaid(i, Outputs).pd)
           /\ OverlaidSlave(i).in = Extended(maps[i].in, i, Inputs, Overlaid(i, Inputs).pd)
           /\ HasMbxBit(i) => OverlaidSlave(i).bitno = MbxBit(i)
           /\ plan[i].mbx /\ ~HasMbxBit(i) => OverlaidSlave(i).sm_state = FALSE
BY DEF OverlaidSlave, MapSlave, Direction, Outputs, Inputs

LEMMA SplitSlaveIs ==
    ASSUME NEW i, \A k \in Mapped(i) : plan[i].sm[k].dir \in Direction
    PROVE  /\ \A k \in Mapped(i) : SplitSlave(i).log[k] = Split(i, plan[i].sm[k].dir).log + Offset(i, k)
           /\ SplitSlave(i).out = Extended(maps[i].out, i, Outputs, Split(i, Outputs).pd)
           /\ SplitSlave(i).in = Extended(maps[i].in, i, Inputs, Split(i, Inputs).pd)
           /\ HasMbxBit(i) => SplitSlave(i).bitno = MbxBit(i)
           /\ plan[i].mbx /\ ~HasMbxBit(i) => SplitSlave(i).sm_state = FALSE
BY DEF SplitSlave, MapSlave, Direction, Outputs, Inputs

LEMMA ImageBasesAre ==
    ASSUME Planned, NEW i \in Members, NEW dir \in Direction
    PROVE  /\ Base(i, dir) \in Nat /\ ImageBase(i, dir) \in Nat
           /\ Split(i, dir).log = Before(i, Sizes(dir)) + (IF dir = Inputs THEN Total(Sizes(Outputs)) ELSE 0)
           /\ Split(i, dir).pd = Split(i, dir).log
<1>1. /\ Before(i, Areas) \in Nat /\ Total(Areas) \in Nat /\ Before(i, Sizes(dir)) \in Nat
      /\ Total(Sizes(Outputs)) \in Nat
  BY BasesAre DEF Direction
<1> QED  BY <1>1 DEF Base, ImageBase, Split

\* One direction of a slave: its first mapping fixes where its process data starts.
LEMMA ExtendedIs ==
    ASSUME Planned, NEW i \in Members, NEW dir \in Direction, NEW start \in Nat,
           NEW old, old.len \in Nat
    PROVE  LET new == Extended(old, i, dir, start)
           IN  /\ new.len \in Nat
               /\ Mapped(i) \cap Of(i, dir) # {} =>
                     /\ new.len # 0
                     /\ old.len # 0 => new.pd = old.pd
                     /\ AllMapped /\ old.len = 0 => new.pd = start
<1> DEFINE ks == Mapped(i) \cap Of(i, dir)
           new == Extended(old, i, dir, start)
<1>1. Bytes(i, ks) \in Nat /\ (ks # {} => Bytes(i, ks) # 0)
      /\ (AllMapped /\ ks # {} => Offset(i, Min(ks)) = 0)
  BY MappedBytes
<1>2. /\ ks = {} => new = old
      /\ ks # {} => new = [pd  |-> IF old.len = 0 THEN start + Offset(i, Min(ks)) ELSE old.pd,
                           len |-> old.len + Bytes(i, ks)]
  BY DEF Extended
<1> HIDE DEF ks, new
<1>3. CASE ks = {}
  BY <1>2, <1>3 DEF ks, new
<1>4. CASE ks # {}
  <2>1. new.len = old.len + Bytes(i, ks) /\ new.pd = IF old.len = 0 THEN start + Offset(i, Min(ks)) ELSE old.pd
    BY <1>2, <1>4
  <2>2. new.len \in Nat /\ new.len # 0
    BY <2>1, <1>1, <1>4
  <2>3. old.len # 0 => new.pd = old.pd
    BY <2>1
  <2>4. AllMapped /\ old.len = 0 => new.pd = start
    BY <2>1, <1>1, <1>4
  <2> QED  BY <2>2, <2>3, <2>4 DEF ks, new
<1> QED  BY <1>3, <1>4

LEMMA MappingLays == ASSUME Layout, CreateMapping PROVE Layout'
<1> DEFINE lrw == pd.useLrw /\ \A i \in Members : plan[i].lrw
           over == pd.overlapping /\ lrw
<1>1. /\ plan' = plan /\ mappings' = mappings + 1 /\ DOMAIN maps' = DOMAIN plan
      /\ pd' \in GroupTypes /\ pd'.useLrw = lrw /\ pd'.overlapping = over
      /\ over => /\ pd'.outLen = Total(Areas) /\ pd'.inLen = Total(Areas)
                 /\ pd'.logLen = Total(Areas)
                 /\ pd'.lrw = 2 * Cardinality(Hitting(Outputs)) + Cardinality(Hitting(Inputs))
      /\ ~over => /\ pd'.outLen = Total(Sizes(Outputs)) /\ pd'.inLen = Total(Sizes(Inputs))
                  /\ pd'.logLen = pd'.outLen + pd'.inLen
                  /\ OneEach => /\ pd'.lrd = Cardinality(Hitting(Inputs))
                                /\ pd'.lrw = Cardinality(Hitting(Inputs))
                                             + 2 * Cardinality(Hitting(Outputs))
                                /\ pd'.lwr = pd.lwr + Cardinality(Hitting(Outputs))
  BY MappingDoes
<1>2. \A i \in Members : maps'[i] = IF over THEN OverlaidSlave(i) ELSE SplitSlave(i)
  <2>1. over => \A i \in Members : maps'[i] = OverlaidSlave(i)
    BY MappingDoes
  <2>2. ~over => \A i \in Members : maps'[i] = SplitSlave(i)
    BY MappingDoes
  <2> QED  BY <2>1, <2>2
<1>3. Planned /\ mappings \in Nat /\ pd \in GroupTypes /\ Members \subseteq DOMAIN plan
      /\ \A i \in Members : maps[i].out.len \in Nat /\ maps[i].in.len \in Nat
  BY MembersAre DEF Layout
<1>4. lrw \in BOOLEAN /\ over \in BOOLEAN
  BY <1>3 DEF GroupTypes
<1>5. mappings # 0 => (lrw <=> pd.useLrw) /\ (over <=> pd.overlapping)
  <2>1. mappings # 0 => Laid
    BY DEF Layout
  <2> QED  BY <2>1, <1>3 DEF Laid, GroupTypes
<1>6. Laid'
  <2>1. pd'.useLrw => \A i \in Members' : plan'[i].lrw
    BY <1>1, PlanStays
  <2>2. pd'.overlapping => over /\ pd'.useLrw
    BY <1>1
  <2>3. /\ Total(Areas)' = Total(Areas)
        /\ \A dir : Total(Sizes(dir))' = Total(Sizes(dir)) /\ Hitting(dir)' = Hitting(dir)
        /\ (OneEach' <=> OneEach)
    BY <1>1, PlanStays
  <2>4. over => pd'.overlapping
    BY <1>1
  <2>5. mappings' = 1 => pd.lwr = 0
    BY <1>1, <1>3 DEF Layout
  <2>6. Cardinality(Hitting(Outputs)) \in Nat
    BY <1>3, CountsAre DEF Direction
  <2>7. mappings' = 1 => pd.lwr + Cardinality(Hitting(Outputs)) = Cardinality(Hitting(Outputs))
    BY <2>5, <2>6
  <2>8. /\ Total(Sizes(Outputs))' = Total(Sizes(Outputs)) /\ Total(Sizes(Inputs))' = Total(Sizes(Inputs))
        /\ Hitting(Outputs)' = Hitting(Outputs) /\ Hitting(Inputs)' = Hitting(Inputs)
    BY <2>3
  <2> HIDE DEF lrw, over
  <2> QED  BY <1>1, <2>1, <2>2, <2>3, <2>4, <2>7, <2>8 DEF Laid
<1>7. ASSUME NEW i \in Members
      PROVE  Placed(i)' /\ maps'[i].out.len \in Nat /\ maps'[i].in.len \in Nat
  <2> DEFINE at == [dir \in Direction |-> IF over THEN Overlaid(i, dir) ELSE Split(i, dir)]
  <2>1. i \in DOMAIN plan /\ Outputs \in Direction /\ Inputs \in Direction
        /\ \A k \in Mapped(i) : plan[i].sm[k].dir \in Direction
    <3>1. i \in DOMAIN plan
      BY <1>3
    <3> QED  BY <3>1, <1>3, PlanIs DEF Direction
  <2>2. /\ \A k \in Mapped(i) : maps'[i].log[k] = at[plan[i].sm[k].dir].log + Offset(i, k)
        /\ maps'[i].out = Extended(maps[i].out, i, Outputs, at[Outputs].pd)
        /\ maps'[i].in = Extended(maps[i].in, i, Inputs, at[Inputs].pd)
        /\ HasMbxBit(i) => maps'[i].bitno = MbxBit(i)
        /\ plan[i].mbx /\ ~HasMbxBit(i) => maps'[i].sm_state = FALSE
    <3>1. CASE over
      <4>1. maps'[i] = OverlaidSlave(i)
        BY <1>2, <3>1
      <4>2. \A dir \in Direction : at[dir] = Overlaid(i, dir)
        BY <3>1
      <4> HIDE DEF lrw, over, at
      <4> QED  BY <4>1, <4>2, <2>1, OverlaidSlaveIs
    <3>2. CASE ~over
      <4>1. maps'[i] = SplitSlave(i)
        BY <1>2, <3>2
      <4>2. \A dir \in Direction : at[dir] = Split(i, dir)
        BY <3>2
      <4> HIDE DEF lrw, over, at
      <4> QED  BY <4>1, <4>2, <2>1, SplitSlaveIs
    <3> QED  BY <3>1, <3>2
  <2>3. ASSUME NEW dir \in Direction
        PROVE  /\ Base(i, dir)' = at[dir].log /\ at[dir].log \in Nat
               /\ AllMapped /\ mappings = 0 => ImageBase(i, dir)' = at[dir].pd /\ at[dir].pd \in Nat
               /\ mappings # 0 => ImageBase(i, dir)' = ImageBase(i, dir)
    <3>1. /\ Base(i, dir)' = IF over THEN Before(i, Areas)
                             ELSE Before(i, Sizes(dir)) + (IF dir = Inputs THEN Total(Sizes(Outputs)) ELSE 0)
          /\ ImageBase(i, dir)' = IF over THEN Before(i, Areas) + (IF dir = Inputs THEN Total(Areas) ELSE 0)
                                  ELSE Before(i, Sizes(dir)) + (IF dir = Inputs THEN Total(Sizes(Outputs)) ELSE 0)
      <4> HIDE DEF lrw, over
      <4> QED  BY <1>1, PlanStays DEF Base, ImageBase
    <3>2. /\ Overlaid(i, dir).log = Before(i, Areas) /\ Before(i, Areas) \in Nat
          /\ AllMapped /\ mappings = 0
                => Overlaid(i, dir).pd = Before(i, Areas) + (IF dir = Inputs THEN Total(Areas) ELSE 0)
      <4>1. mappings = 0 => \A j \in Members : maps[j].out.len = 0 /\ maps[j].in.len = 0
        BY DEF Layout
      <4> QED  BY <4>1, <1>3, OverlaidAre, BasesAre
    <3>3. /\ Split(i, dir).log = Before(i, Sizes(dir)) + (IF dir = Inputs THEN Total(Sizes(Outputs)) ELSE 0)
          /\ Split(i, dir).pd = Split(i, dir).log
      BY <1>3, ImageBasesAre
    <3>4. at[dir] = IF over THEN Overlaid(i, dir) ELSE Split(i, dir)
      OBVIOUS
    <3>5. /\ Before(i, Sizes(dir)) \in Nat /\ Total(Sizes(Outputs)) \in Nat /\ Total(Areas) \in Nat
          /\ Before(i, Areas) \in Nat
      BY <1>3, <2>1, BasesAre
    <3> HIDE DEF lrw, over, at
    <3>6. Base(i, dir)' = at[dir].log /\ at[dir].log \in Nat
      BY <3>1, <3>2, <3>3, <3>4, <3>5
    <3>7. AllMapped /\ mappings = 0 => ImageBase(i, dir)' = at[dir].pd /\ at[dir].pd \in Nat
      BY <3>1, <3>2, <3>3, <3>4, <3>5
    <3>8. mappings # 0 => ImageBase(i, dir)' = ImageBase(i, dir)
      BY <3>1, <1>5 DEF ImageBase, Base
    <3> QED  BY <3>6, <3>7, <3>8
  <2>4. ASSUME NEW dir \in Direction, NEW old, old = (IF dir = Inputs THEN maps[i].in ELSE maps[i].out),
               NEW nxt, nxt = Extended(old, i, dir, at[dir].pd)
        PROVE  /\ nxt.len \in Nat
               /\ AllMapped /\ Mapped(i) \cap Of(i, dir) # {} => nxt.len # 0 /\ nxt.pd = ImageBase(i, dir)'
    \* Whether the start of an overlapping area is a number matters in the first mapping only.
    <3> DEFINE ks == Mapped(i) \cap Of(i, dir)
    <3>1. old.len \in Nat /\ (mappings = 0 => old.len = 0)
          /\ (mappings # 0 /\ AllMapped /\ ks # {} => old.len # 0 /\ old.pd = ImageBase(i, dir))
      <4>1. mappings # 0 => Placed(i)
        BY DEF Layout
      <4>2. maps[i].out.len \in Nat /\ maps[i].in.len \in Nat
            /\ (mappings = 0 => maps[i].out.len = 0 /\ maps[i].in.len = 0)
        BY <1>3 DEF Layout
      <4>3. dir = Outputs \/ dir = Inputs
        BY DEF Direction
      <4> QED  BY <4>1, <4>2, <4>3, <2>4 DEF Placed, Inputs, Outputs
    <3>2. Bytes(i, ks) \in Nat /\ (ks # {} => Bytes(i, ks) # 0)
      BY <1>3, MappedBytes
    <3>3. /\ ks = {} => nxt = old
          /\ ks # {} => /\ nxt.len = old.len + Bytes(i, ks)
                        /\ old.len # 0 => nxt.pd = old.pd
      BY <2>4 DEF Extended
    <3>4. nxt.len \in Nat /\ (ks # {} => nxt.len # 0)
      BY <3>1, <3>2, <3>3
    <3>5. ASSUME AllMapped, ks # {}, mappings = 0 PROVE nxt.pd = ImageBase(i, dir)'
      <4>1. at[dir].pd \in Nat /\ ImageBase(i, dir)' = at[dir].pd
        BY <2>3, <3>5
      <4> HIDE DEF at, lrw, over
      <4> QED  BY <4>1, <2>4, <3>1, <3>5, <1>3, ExtendedIs
    <3>6. ASSUME AllMapped, ks # {}, mappings # 0 PROVE nxt.pd = ImageBase(i, dir)'
      BY <2>3, <3>1, <3>3, <3>6
    <3> QED  BY <3>4, <3>5, <3>6
  <2>5. /\ maps'[i].out.len \in Nat
        /\ AllMapped /\ Mapped(i) \cap Of(i, Outputs) # {}
              => maps'[i].out.len # 0 /\ maps'[i].out.pd = ImageBase(i, Outputs)'
    <3>1. Outputs # Inputs
      BY DEF Outputs, Inputs
    <3> HIDE DEF at
    <3> QED  BY <2>1, <2>2, <2>4, <3>1
  <2>6. /\ maps'[i].in.len \in Nat
        /\ AllMapped /\ Mapped(i) \cap Of(i, Inputs) # {}
              => maps'[i].in.len # 0 /\ maps'[i].in.pd = ImageBase(i, Inputs)'
    <3> HIDE DEF at
    <3> QED  BY <2>1, <2>2, <2>4
  <2>7. ASSUME NEW dir \in Direction, NEW k \in Mapped(i) \cap Of(i, dir)
        PROVE  maps'[i].log[k] = Base(i, dir)' + Offset(i, k)
    <3>1. plan[i].sm[k].dir = dir
      BY DEF Of
    <3> HIDE DEF at
    <3> QED  BY <2>2, <2>3, <3>1
  <2>8. /\ Mapped(i)' = Mapped(i) /\ (HasMbxBit(i)' <=> HasMbxBit(i)) /\ MbxBit(i)' = MbxBit(i)
        /\ \A dir : Of(i, dir)' = Of(i, dir)
        /\ \A k : Offset(i, k)' = Offset(i, k)
        /\ (AllMapped' <=> AllMapped)
    BY <1>1, PlanStays
  <2>9. Placed(i)'
    <3>1. \A dir \in Direction : \A k \in Mapped(i)' \cap Of(i, dir)' :
             maps'[i].log[k] = Base(i, dir)' + Offset(i, k)'
      BY <2>7, <2>8
    <3>2. (HasMbxBit(i)' => maps'[i].bitno = MbxBit(i)') /\ (plan'[i].mbx /\ ~HasMbxBit(i)' => ~maps'[i].sm_state)
      BY <2>2, <2>8, <1>1
    <3> QED  BY <2>5, <2>6, <2>8, <3>1, <3>2 DEF Placed
  <2> QED  BY <2>5, <2>6, <2>9
<1>8. Members' = Members /\ Planned'
  BY <1>1, <1>3, PlanStays
<1> QED  BY <1>1, <1>3, <1>6, <1>7, <1>8 DEF Layout

-----------------------------------------------------------------------------
(* Where the FMMUs of a group put bytes, behind a mapping.                 *)

Mapping == Layout /\ mappings # 0

\* A byte of a sync manager lies in its slave's place.
LEMMA WindowsAre ==
    ASSUME Mapping, NEW i \in Members, NEW dir \in Direction, NEW kb \in Windows(i, dir)
    PROVE  /\ kb = <<kb[1], kb[2]>> /\ kb[1] \in Mapped(i) \cap Of(i, dir)
           /\ kb[2] \in Nat /\ Offset(i, kb[1]) \in Nat /\ kb[1] \in Nat
           /\ kb[2] < SmLen(i, kb[1]) /\ SmLen(i, kb[1]) \in Nat
           /\ At(i, kb) = Base(i, dir) + Offset(i, kb[1]) + kb[2] /\ At(i, kb) \in Nat
           /\ Base(i, dir) <= At(i, kb) /\ At(i, kb) < Base(i, dir) + Size(i, dir)
<1>1. Planned /\ Placed(i) /\ i \in DOMAIN plan
  BY MembersAre DEF Mapping, Layout
<1>2. PICK k \in Mapped(i) \cap Of(i, dir) : kb \in {k} \X (0 .. plan[i].sm[k].len - 1)
  BY DEF Windows
<1>3. SmLen(i, k) \in Nat /\ k \in Nat /\ Offset(i, k) \in Nat /\ Size(i, dir) \in Nat
      /\ Offset(i, k) + SmLen(i, k) <= Size(i, dir)
  <2>1. k \in Managers(i)
    BY <1>1, PlanIs
  <2> QED  BY <1>1, <2>1, PlanIs, OffsetsAre
<1>4. kb = <<kb[1], kb[2]>> /\ kb[1] = k /\ kb[2] \in Nat /\ kb[2] < SmLen(i, k)
  BY <1>2, <1>3 DEF SmLen
<1>5. Base(i, dir) \in Nat
  BY <1>1, ImageBasesAre
<1>6. maps[i].log[k] = Base(i, dir) + Offset(i, k)
  BY <1>1 DEF Placed
<1>7. At(i, kb) = Base(i, dir) + Offset(i, k) + kb[2]
  BY <1>4, <1>6 DEF At
<1> QED  BY <1>3, <1>4, <1>5, <1>7

\* Slaves have places of their own.
LEMMA PlacesApart ==
    ASSUME Mapping, NEW i \in Members, NEW j \in Members, i # j,
           NEW dir \in Direction, NEW d \in Direction, dir = d \/ pd.overlapping
    PROVE  Base(i, dir) + Size(i, dir) <= Base(j, d) \/ Base(j, d) + Size(j, d) <= Base(i, dir)
<1>1. Planned /\ i \in Nat /\ j \in Nat
  BY MembersAre DEF Mapping, Layout
<1>2. ASSUME NEW a \in Members, NEW b \in Members, NEW e \in Direction, NEW f \in Direction,
             e = f \/ pd.overlapping, a < b
      PROVE  Base(a, e) + Size(a, e) <= Base(b, f)
  <2>1. /\ Before(a, Areas) \in Nat /\ Before(b, Areas) \in Nat
        /\ Before(a, Areas) + Areas[a] <= Before(b, Areas)
        /\ Size(a, e) <= Areas[a] /\ Areas[a] \in Nat /\ Size(a, e) \in Nat
    BY <1>1, <1>2, SizesAre, BasesAre
  <2>2. /\ Before(a, Sizes(e)) \in Nat /\ Before(b, Sizes(e)) \in Nat
        /\ Before(a, Sizes(e)) + Size(a, e) <= Before(b, Sizes(e))
        /\ Total(Sizes(Outputs)) \in Nat
    BY <1>1, <1>2, BasesAre DEF Direction
  <2>3. CASE pd.overlapping
    BY <2>1, <2>3 DEF Base
  <2>4. CASE ~pd.overlapping
    BY <2>1, <2>2, <2>4, <1>2 DEF Base
  <2> QED  BY <2>3, <2>4
<1>3. CASE i < j
  BY <1>2, <1>3
<1>4. CASE j < i
  BY <1>2, <1>4
<1> QED  BY <1>1, <1>3, <1>4

\* Two bytes at the same address belong to one slave, and in one direction they are the same.
LEMMA WindowsApart ==
    ASSUME Mapping, NEW i \in Members, NEW j \in Members, NEW dir \in Direction, NEW d \in Direction,
           NEW kb \in Windows(i, dir), NEW lb \in Windows(j, d), At(i, kb) = At(j, lb)
    PROVE  /\ dir = d => i = j /\ kb = lb
           /\ dir # d => pd.overlapping /\ i = j
<1>1. Planned /\ i \in DOMAIN plan
  BY MembersAre DEF Mapping, Layout
<1>2. /\ At(i, kb) \in Nat /\ Base(i, dir) <= At(i, kb) /\ At(i, kb) < Base(i, dir) + Size(i, dir)
      /\ At(i, kb) = Base(i, dir) + Offset(i, kb[1]) + kb[2]
      /\ kb = <<kb[1], kb[2]>> /\ kb[1] \in Of(i, dir) /\ kb[2] \in Nat /\ kb[1] \in Nat
      /\ kb[2] < SmLen(i, kb[1]) /\ SmLen(i, kb[1]) \in Nat /\ Offset(i, kb[1]) \in Nat
  BY WindowsAre
<1>3. /\ At(j, lb) \in Nat /\ Base(j, d) <= At(j, lb) /\ At(j, lb) < Base(j, d) + Size(j, d)
      /\ At(j, lb) = Base(j, d) + Offset(j, lb[1]) + lb[2]
      /\ lb = <<lb[1], lb[2]>> /\ lb[1] \in Of(j, d) /\ lb[2] \in Nat /\ lb[1] \in Nat
      /\ lb[2] < SmLen(j, lb[1]) /\ SmLen(j, lb[1]) \in Nat /\ Offset(j, lb[1]) \in Nat
  BY WindowsAre
<1>4. Base(i, dir) \in Nat /\ Base(j, d) \in Nat /\ Size(i, dir) \in Nat /\ Size(j, d) \in Nat
  BY <1>1, ImageBasesAre, SizesAre
<1>5. ASSUME dir = d \/ pd.overlapping PROVE i = j
  <2>1. i # j => Base(i, dir) + Size(i, dir) <= Base(j, d) \/ Base(j, d) + Size(j, d) <= Base(i, dir)
    BY <1>5, PlacesApart
  <2> QED  BY <2>1, <1>2, <1>3, <1>4
<1>6. ASSUME dir = d PROVE kb = lb
  <2>1. i = j
    BY <1>5, <1>6
  <2>2. kb[1] < lb[1] => Offset(i, kb[1]) + SmLen(i, kb[1]) <= Offset(i, lb[1])
    BY <1>1, <1>2, <1>3, <1>6, <2>1, OffsetsAre
  <2>3. lb[1] < kb[1] => Offset(i, lb[1]) + SmLen(i, lb[1]) <= Offset(i, kb[1])
    BY <1>1, <1>2, <1>3, <1>6, <2>1, OffsetsAre
  <2>4. Offset(i, kb[1]) + kb[2] = Offset(i, lb[1]) + lb[2]
    <3>1. At(j, lb) = Base(i, dir) + Offset(i, lb[1]) + lb[2] /\ Offset(i, lb[1]) \in Nat
      BY <1>3, <1>6, <2>1
    <3>2. At(i, kb) = Base(i, dir) + Offset(i, kb[1]) + kb[2] /\ At(i, kb) = At(j, lb)
      BY <1>2
    <3> QED  BY <3>1, <3>2, <1>2, <1>3, <1>4
  <2>5. ~(kb[1] < lb[1]) /\ ~(lb[1] < kb[1])
    BY <2>1, <2>2, <2>3, <2>4, <1>2, <1>3
  <2>6. kb[1] = lb[1]
    BY <2>5, <1>2, <1>3
  <2>7. kb[2] = lb[2]
    BY <2>4, <2>6, <1>2, <1>3
  <2> QED  BY <2>6, <2>7, <1>2, <1>3
<1>7. ASSUME dir # d PROVE pd.overlapping
  <2> SUFFICES ASSUME ~pd.overlapping PROVE FALSE
    OBVIOUS
  <2>1. ASSUME NEW a \in Members, NEW b \in Members
        PROVE  Base(a, Outputs) + Size(a, Outputs) <= Base(b, Inputs)
    <3>1. /\ Before(a, Sizes(Outputs)) + Size(a, Outputs) <= Total(Sizes(Outputs))
          /\ Before(a, Sizes(Outputs)) \in Nat /\ Total(Sizes(Outputs)) \in Nat
          /\ Before(b, Sizes(Inputs)) \in Nat /\ Size(a, Outputs) \in Nat
      BY <1>1, BasesAre, SizesAre DEF Direction
    <3> QED  BY <3>1 DEF Base, Inputs, Outputs
  <2>2. (dir = Outputs /\ d = Inputs) \/ (dir = Inputs /\ d = Outputs)
    BY <1>7 DEF Direction
  <2> QED  BY <2>1, <2>2, <1>2, <1>3, <1>4
<1> QED  BY <1>5, <1>6, <1>7

\* The addresses of outputs and inputs, and their offsets in the image.
LEMMA ImagePlaces ==
    ASSUME Mapping, NEW i \in Members
    PROVE  /\ pd.outLen \in Nat /\ pd.inLen \in Nat /\ pd.logLen \in Nat
           /\ pd.outLen <= pd.logLen
           /\ pd.overlapping => pd.useLrw /\ pd.inLen = pd.logLen
           /\ ~pd.overlapping => pd.logLen = pd.outLen + pd.inLen
           /\ \A kb \in Windows(i, Outputs) :
                 /\ At(i, kb) < pd.outLen
                 /\ AllMapped => maps[i].out.pd + Offset(i, kb[1]) + kb[2] = At(i, kb)
           /\ \A kb \in Windows(i, Inputs) :
                 /\ pd.overlapping => /\ At(i, kb) < pd.inLen
                                      /\ AllMapped => maps[i].in.pd - pd.outLen + Offset(i, kb[1]) + kb[2]
                                                      = At(i, kb)
                 /\ ~pd.overlapping => /\ pd.outLen <= At(i, kb) /\ At(i, kb) < pd.outLen + pd.inLen
                                       /\ AllMapped => maps[i].in.pd - pd.outLen + Offset(i, kb[1]) + kb[2]
                                                       = At(i, kb) - pd.outLen
<1>1. Planned /\ Placed(i) /\ Laid /\ pd \in GroupTypes
  BY DEF Mapping, Layout
<1>2. pd.outLen \in Nat /\ pd.inLen \in Nat /\ pd.logLen \in Nat
  BY <1>1 DEF GroupTypes
<1>3. /\ pd.overlapping => pd.useLrw /\ pd.inLen = pd.logLen /\ pd.outLen = pd.logLen
      /\ ~pd.overlapping => pd.logLen = pd.outLen + pd.inLen
  BY <1>1 DEF Laid
<1>4. /\ Before(i, Areas) \in Nat /\ Total(Areas) \in Nat /\ Areas[i] \in Nat
      /\ Before(i, Areas) + Areas[i] <= Total(Areas)
      /\ \A dir \in Direction : /\ Size(i, dir) <= Areas[i] /\ Size(i, dir) \in Nat
                                /\ Before(i, Sizes(dir)) \in Nat /\ Total(Sizes(dir)) \in Nat
                                /\ Before(i, Sizes(dir)) + Size(i, dir) <= Total(Sizes(dir))
  BY <1>1, BasesAre, SizesAre
<1>5. ASSUME NEW kb \in Windows(i, Outputs)
      PROVE  /\ At(i, kb) < pd.outLen
             /\ AllMapped => maps[i].out.pd + Offset(i, kb[1]) + kb[2] = At(i, kb)
  <2>1. /\ At(i, kb) = Base(i, Outputs) + Offset(i, kb[1]) + kb[2] /\ At(i, kb) \in Nat
        /\ At(i, kb) < Base(i, Outputs) + Size(i, Outputs)
        /\ kb[1] \in Mapped(i) \cap Of(i, Outputs) /\ Offset(i, kb[1]) \in Nat /\ kb[2] \in Nat
    BY WindowsAre DEF Direction
  <2>2. Base(i, Outputs) + Size(i, Outputs) <= pd.outLen /\ Base(i, Outputs) \in Nat
        /\ Size(i, Outputs) \in Nat
    BY <1>1, <1>4 DEF Base, Laid, Direction, Inputs, Outputs
  <2>3. AllMapped => maps[i].out.pd = ImageBase(i, Outputs)
    BY <1>1, <2>1 DEF Placed
  <2>4. ImageBase(i, Outputs) = Base(i, Outputs)
    BY <1>4 DEF ImageBase, Base, Inputs, Outputs
  <2> QED  BY <2>1, <2>2, <2>3, <2>4, <1>2
<1>6. ASSUME NEW kb \in Windows(i, Inputs)
      PROVE  /\ pd.overlapping => /\ At(i, kb) < pd.inLen
                                  /\ AllMapped => maps[i].in.pd - pd.outLen + Offset(i, kb[1]) + kb[2]
                                                  = At(i, kb)
             /\ ~pd.overlapping => /\ pd.outLen <= At(i, kb) /\ At(i, kb) < pd.outLen + pd.inLen
                                   /\ AllMapped => maps[i].in.pd - pd.outLen + Offset(i, kb[1]) + kb[2]
                                                   = At(i, kb) - pd.outLen
  <2>1. /\ At(i, kb) = Base(i, Inputs) + Offset(i, kb[1]) + kb[2] /\ At(i, kb) \in Nat
        /\ At(i, kb) < Base(i, Inputs) + Size(i, Inputs) /\ Base(i, Inputs) <= At(i, kb)
        /\ kb[1] \in Mapped(i) \cap Of(i, Inputs) /\ Offset(i, kb[1]) \in Nat /\ kb[2] \in Nat
    BY WindowsAre DEF Direction
  <2>2. AllMapped => maps[i].in.pd = ImageBase(i, Inputs)
    BY <1>1, <2>1 DEF Placed
  <2>3. Size(i, Inputs) \in Nat /\ Base(i, Inputs) \in Nat
    BY <1>1, <1>4, ImageBasesAre DEF Direction
  <2>4. CASE pd.overlapping
    <3>1. Base(i, Inputs) = Before(i, Areas) /\ ImageBase(i, Inputs) = Before(i, Areas) + Total(Areas)
          /\ pd.inLen = Total(Areas) /\ pd.outLen = Total(Areas) /\ Size(i, Inputs) <= Areas[i]
      BY <1>1, <1>4, <2>4 DEF Base, ImageBase, Laid, Direction
    <3> QED  BY <2>1, <2>2, <2>3, <2>4, <3>1, <1>4
  <2>5. CASE ~pd.overlapping
    <3>1. /\ Base(i, Inputs) = Before(i, Sizes(Inputs)) + Total(Sizes(Outputs))
          /\ ImageBase(i, Inputs) = Base(i, Inputs)
          /\ pd.inLen = Total(Sizes(Inputs)) /\ pd.outLen = Total(Sizes(Outputs))
          /\ Before(i, Sizes(Inputs)) \in Nat
          /\ Before(i, Sizes(Inputs)) + Size(i, Inputs) <= Total(Sizes(Inputs))
      BY <1>1, <1>4, <2>5 DEF Base, ImageBase, Laid, Direction
    <3> QED  BY <2>1, <2>2, <2>3, <2>5, <3>1, <1>2
  <2> QED  BY <2>4, <2>5
<1> QED  BY <1>2, <1>3, <1>5, <1>6

\* The inputs that pass a datagram, with their slaves.
Senders(present) == UNION {{i} \X Windows(i, Inputs) : i \in Members \cap present}

\* A datagram collects the inputs on its way: what a slave has put in stays in.
LEMMA BehindIs ==
    ASSUME Mapping, NEW present, NEW sent, sent = [a \in DOMAIN sent |-> sent[a]],
           NEW n \in 0 .. Len(plan)
    PROVE  LET b == Behind(sent, present)[n]
           IN  /\ DOMAIN b = DOMAIN sent
               /\ \A i \in Members \cap present : \A kb \in Windows(i, Inputs) :
                     i <= n /\ At(i, kb) \in DOMAIN sent => b[At(i, kb)] = <<i>> \o kb
               /\ \A a \in DOMAIN sent :
                     (\A x \in Senders(present) : x[1] <= n => At(x[1], x[2]) # a) => b[a] = sent[a]
<1> DEFINE N == 0 .. Len(plan)
           mine(i) == {kb \in Windows(i, Inputs) : At(i, kb) \in DOMAIN sent}
           Add(i, old) == [a \in DOMAIN sent |->
                             IF \E kb \in mine(i) : At(i, kb) = a
                             THEN <<i>> \o (CHOOSE kb \in mine(i) : At(i, kb) = a) ELSE old[a]]
           F(h) == [i \in N |-> IF i = 0 THEN sent
                                ELSE IF i \notin Members \cap present THEN h[i - 1]
                                ELSE Add(i, h[i - 1])]
           W(i, a) == {x \in Senders(present) : x[1] <= i /\ At(x[1], x[2]) = a}
           One(i, a) == CHOOSE x \in W(i, a) : TRUE
           g == [i \in N |-> [a \in DOMAIN sent |->
                   IF W(i, a) = {} THEN sent[a]
                   ELSE <<One(i, a)[1]>> \o One(i, a)[2]]]
           f == CHOOSE h : h = F(h)
<1>1. Planned /\ Len(plan) \in Nat /\ Members \subseteq 1 .. Len(plan) /\ Members \subseteq Nat
  BY MembersAre DEF Mapping, Layout, Planned
<1>2. \A x : x \in Senders(present) <=> \E i \in Members \cap present : x \in {i} \X Windows(i, Inputs)
  BY DEF Senders
<1>3. \A x \in Senders(present) : /\ x = <<x[1], x[2]>> /\ x[1] \in Members \cap present
                                  /\ x[2] \in Windows(x[1], Inputs) /\ x[1] \in Nat
  BY <1>1, <1>2
<1>4. \A i \in Members \cap present : \A kb \in Windows(i, Inputs) : <<i, kb>> \in Senders(present)
  BY <1>2
<1>5. \A i \in N : \A a : \A x \in W(i, a) : x \in Senders(present) /\ x[1] <= i /\ At(x[1], x[2]) = a
  OBVIOUS
<1>6. ASSUME NEW x \in Senders(present), NEW y \in Senders(present), At(x[1], x[2]) = At(y[1], y[2])
      PROVE  x = y
  <2>1. x[1] = y[1] /\ x[2] = y[2]
    BY <1>3, <1>6, WindowsApart DEF Direction
  <2> QED  BY <2>1, <1>3
\* The first i slaves write like the first i - 1, and the slave itself.
<1>7. ASSUME NEW i \in N, i # 0, i \in Members \cap present, NEW a \in DOMAIN sent
      PROVE  g[i][a] = Add(i, g[i - 1])[a]
  <2>1. i - 1 \in N /\ i \in Nat
    BY <1>7, <1>1
  <2>2. CASE \E kb \in mine(i) : At(i, kb) = a
    <3>1. PICK kb \in mine(i) : At(i, kb) = a
      BY <2>2
    <3>2. kb \in Windows(i, Inputs) /\ <<i, kb>> \in W(i, a)
      BY <3>1, <1>4, <1>7, <2>1
    <3>3. ASSUME NEW y \in W(i, a) PROVE y = <<i, kb>>
      BY <3>1, <3>2, <1>5, <1>6
    <3>4. One(i, a) = <<i, kb>>
      <4> HIDE DEF W, mine
      <4> QED  BY <3>2, <3>3
    <3>5. g[i][a] = <<i>> \o kb
      <4>1. W(i, a) # {}
        BY <3>2
      <4> HIDE DEF W, One, mine
      <4> QED  BY <3>4, <4>1
    <3>6. ASSUME NEW lb \in mine(i), At(i, lb) = a PROVE lb = kb
      BY <3>1, <3>6, <1>7, WindowsApart DEF Direction
    <3>7. Add(i, g[i - 1])[a] = <<i>> \o kb
      <4> DEFINE c == CHOOSE lb \in mine(i) : At(i, lb) = a
      <4>1. c = kb
        <5> HIDE DEF mine
        <5> QED  BY <3>1, <3>6
      <4>2. Add(i, g[i - 1])[a] = <<i>> \o c
        <5> HIDE DEF mine, g, c
        <5> QED  BY <2>2 DEF c
      <4> QED  BY <4>1, <4>2
    <3> QED  BY <3>5, <3>7
  <2>3. CASE ~\E kb \in mine(i) : At(i, kb) = a
    <3>1. W(i, a) = W(i - 1, a)
      <4>1. ASSUME NEW x \in W(i, a) PROVE x \in W(i - 1, a)
        <5>1. x \in Senders(present) /\ x[1] <= i /\ At(x[1], x[2]) = a /\ x[1] \in Nat
              /\ x[2] \in Windows(x[1], Inputs)
          BY <1>3, <1>5
        <5>2. x[1] # i
          BY <5>1, <2>3
        <5> QED  BY <5>1, <5>2, <2>1
      <4>2. ASSUME NEW x \in W(i - 1, a) PROVE x \in W(i, a)
        <5>1. x \in Senders(present) /\ x[1] <= i - 1 /\ At(x[1], x[2]) = a /\ x[1] \in Nat
          BY <1>3, <1>5, <2>1
        <5> QED  BY <5>1, <2>1
      <4> HIDE DEF W
      <4> QED  BY <4>1, <4>2
    <3>2. g[i][a] = g[i - 1][a]
      <4> HIDE DEF W
      <4> QED  BY <3>1, <2>1
    <3> HIDE DEF g, mine
    <3> QED  BY <2>3, <3>2
  <2> QED  BY <2>2, <2>3
<1>8. ASSUME NEW i \in N, i # 0, i \notin Members \cap present PROVE g[i] = g[i - 1]
  <2>1. i - 1 \in N /\ i \in Nat
    BY <1>8, <1>1
  <2>2. ASSUME NEW a \in DOMAIN sent PROVE W(i, a) = W(i - 1, a)
    <3>1. \A x \in Senders(present) : x[1] <= i <=> x[1] <= i - 1
      BY <1>3, <1>8, <2>1
    <3> QED  BY <3>1
  <2>3. ASSUME NEW a \in DOMAIN sent PROVE g[i][a] = g[i - 1][a]
    <3>1. W(i, a) = W(i - 1, a) /\ One(i, a) = One(i - 1, a)
      BY <2>2
    <3> HIDE DEF W, One
    <3> QED  BY <2>1, <3>1
  <2>4. /\ g[i] = [a \in DOMAIN sent |-> g[i][a]]
        /\ g[i - 1] = [a \in DOMAIN sent |-> g[i - 1][a]]
    <3> HIDE DEF W, One
    <3> QED  BY <2>1
  <2> HIDE DEF g
  <2> QED  BY <2>3, <2>4
<1>9. g[0] = sent
  <2>1. \A a \in DOMAIN sent : W(0, a) = {}
    <3>1. \A x \in Senders(present) : ~(x[1] <= 0)
      BY <1>1, <1>3
    <3> QED  BY <3>1
  <2>2. g[0] = [a \in DOMAIN sent |-> IF W(0, a) = {} THEN sent[a]
                   ELSE <<One(0, a)[1]>> \o One(0, a)[2]]
    BY <1>1
  <2> HIDE DEF W, One, g
  <2>3. g[0] = [a \in DOMAIN sent |-> sent[a]]
    BY <2>1, <2>2
  <2> QED  BY <2>3
<1>10. ASSUME NEW i \in N PROVE g[i] = F(g)[i]
  <2>1. CASE i = 0
    <3> HIDE DEF g
    <3> QED  BY <1>9, <2>1
  <2>2. CASE i # 0 /\ i \in Members \cap present
    <3>1. F(g)[i] = Add(i, g[i - 1])
      <4> HIDE DEF g, Add
      <4> QED  BY <2>2
    <3>2. /\ DOMAIN g[i] = DOMAIN sent /\ g[i] = [a \in DOMAIN sent |-> g[i][a]]
          /\ Add(i, g[i - 1]) = [a \in DOMAIN sent |-> Add(i, g[i - 1])[a]]
      <4> HIDE DEF W, mine
      <4> QED  OBVIOUS
    <3>3. \A a \in DOMAIN sent : g[i][a] = Add(i, g[i - 1])[a]
      BY <1>7, <2>2
    <3> HIDE DEF g, Add
    <3> QED  BY <3>1, <3>2, <3>3
  <2>3. CASE i # 0 /\ i \notin Members \cap present
    <3>1. F(g)[i] = g[i - 1]
      <4> HIDE DEF g, Add
      <4> QED  BY <2>3
    <3> QED  BY <1>8, <2>3, <3>1
  <2> QED  BY <2>1, <2>2, <2>3
<1>11. g = F(g)
  <2>1. g = [i \in N |-> g[i]] /\ F(g) = [i \in N |-> F(g)[i]]
    <3> HIDE DEF W, Add
    <3> QED  OBVIOUS
  <2> HIDE DEF g, F
  <2> QED  BY <1>10, <2>1
<1>12. f = F(f)
  <2> HIDE DEF F, g
  <2> QED  BY <1>11
<1>13. \A k \in N : f[k] = g[k]
  <2> DEFINE T == {k \in N : f[k] # g[k]}
  <2> SUFFICES ASSUME T # {} PROVE FALSE
    OBVIOUS
  <2>1. PICK k \in T : \A m \in T : k <= m
    <3>1. T \subseteq Nat
      <4>1. N \subseteq Nat
        BY <1>1
      <4> HIDE DEF f, g
      <4> QED  BY <4>1
    <3> HIDE DEF T
    <3> QED  BY <3>1, LeastOf
  <2>2. k \in N /\ f[k] # g[k] /\ k \in Nat
    <3> HIDE DEF f, g
    <3> QED  BY <2>1, <1>1
  <2>3. k # 0 => f[k - 1] = g[k - 1]
    <3>1. k # 0 => k - 1 \in N /\ ~(k <= k - 1)
      <4> HIDE DEF f, g, T
      <4> QED  BY <2>2, <1>1
    <3> HIDE DEF f, g
    <3> QED  BY <2>1, <3>1
  <2> HIDE DEF f, g, Add, T
  <2>4. f[k] = F(f)[k] /\ g[k] = F(g)[k]
    BY <1>11, <1>12
  <2>5. F(f)[k] = F(g)[k]
    BY <2>2, <2>3
  <2> QED  BY <2>2, <2>4, <2>5
<1>14. Behind(sent, present) = f
  BY DEF Behind
<1>15. DOMAIN g[n] = DOMAIN sent
  <2> HIDE DEF W
  <2> QED  OBVIOUS
<1>16. ASSUME NEW i \in Members \cap present, NEW kb \in Windows(i, Inputs), i <= n,
              At(i, kb) \in DOMAIN sent
       PROVE  g[n][At(i, kb)] = <<i>> \o kb
  <2> DEFINE a == At(i, kb)
  <2>1. <<i, kb>> \in W(n, a)
    BY <1>4, <1>16
  <2>2. \A y \in W(n, a) : y = <<i, kb>>
    BY <1>5, <1>6, <2>1
  <2>3. One(n, a) = <<i, kb>> /\ W(n, a) # {}
    <3> HIDE DEF W, a
    <3> QED  BY <2>1, <2>2
  <2> HIDE DEF W, One
  <2> QED  BY <2>3, <1>16
<1>17. ASSUME NEW a \in DOMAIN sent, \A x \in Senders(present) : x[1] <= n => At(x[1], x[2]) # a
       PROVE  g[n][a] = sent[a]
  <2>1. W(n, a) = {}
    BY <1>17
  <2> HIDE DEF W
  <2> QED  BY <2>1
<1> HIDE DEF f, g
<1> QED  BY <1>13, <1>14, <1>15, <1>16, <1>17

LEMMA LayoutKept ==
    ASSUME plan' = plan, pd' = pd, maps' = maps, mappings' = mappings,
           mappings = 0 => image' = image /\ mailed' = mailed
    PROVE  Layout => Layout'
<1> SUFFICES ASSUME Layout PROVE Layout'
  OBVIOUS
<1>1. Members' = Members /\ Planned' /\ (AllMapped' <=> AllMapped) /\ (OneEach' <=> OneEach)
      /\ Total(Areas)' = Total(Areas)
      /\ Total(Sizes(Outputs))' = Total(Sizes(Outputs)) /\ Total(Sizes(Inputs))' = Total(Sizes(Inputs))
      /\ Hitting(Outputs)' = Hitting(Outputs) /\ Hitting(Inputs)' = Hitting(Inputs)
  BY PlanStays DEF Layout
<1>2. mappings # 0 => Laid'
  BY <1>1 DEF Layout, Laid
<1>3. ASSUME mappings # 0, NEW i \in Members PROVE Placed(i)'
  <2>1. /\ Mapped(i)' = Mapped(i) /\ (HasMbxBit(i)' <=> HasMbxBit(i)) /\ MbxBit(i)' = MbxBit(i)
        /\ \A dir : Of(i, dir)' = Of(i, dir)
        /\ \A k : Offset(i, k)' = Offset(i, k)
    BY PlanStays
  <2>2. \A dir : Base(i, dir)' = Base(i, dir) /\ ImageBase(i, dir)' = ImageBase(i, dir)
    BY PlanStays DEF Base, ImageBase
  <2>3. ImageBase(i, Outputs)' = ImageBase(i, Outputs) /\ ImageBase(i, Inputs)' = ImageBase(i, Inputs)
        /\ Of(i, Outputs)' = Of(i, Outputs) /\ Of(i, Inputs)' = Of(i, Inputs)
    BY <2>1, <2>2
  <2>4. Placed(i)
    BY <1>3 DEF Layout
  <2> QED  BY <1>1, <2>1, <2>2, <2>3, <2>4 DEF Placed
<1> QED  BY <1>1, <1>2, <1>3 DEF Layout

LEMMA LayoutInit ==
    ASSUME NEW devices \in Seq(SlaveTypes), NEW group \in BOOLEAN \X BOOLEAN \X BOOLEAN,
           ProcessDataInit(devices, group)
    PROVE  Layout /\ image = Nothing /\ mailed = [new |-> {}, read |-> {}]
<1>1. Planned /\ DOMAIN maps = DOMAIN plan /\ mappings = 0 /\ Members \subseteq DOMAIN plan
  BY DEF ProcessDataInit, Planned, Members
<1>2. pd \in GroupTypes /\ pd.lwr = 0
  BY DEF ProcessDataInit, GroupTypes
<1>3. \A i \in Members : maps[i].out.len = 0 /\ maps[i].in.len = 0
  BY <1>1 DEF ProcessDataInit
<1> QED  BY <1>1, <1>2, <1>3 DEF ProcessDataInit, Layout

-----------------------------------------------------------------------------
(* The mailbox state datagram.                                             *)

\* Slaves with a bit have got bits of their own.
LEMMA BitsApart ==
    ASSUME Planned, NEW i \in Members, NEW j \in Members, HasMbxBit(i), i < j
    PROVE  MbxBit(i) # MbxBit(j)
<1> DEFINE Up(n) == {k \in Members : k < n /\ HasMbxBit(k)}
<1>1. IsFiniteSet(Members) /\ Members \subseteq Nat /\ i \in Nat /\ j \in Nat
  BY MembersAre
<1>2. Up(i) \in SUBSET Up(j) /\ Up(j) \in SUBSET Members /\ i \in Up(j) /\ i \notin Up(i)
  <2>1. \A k \in Members : k < i => k < j
    BY <1>1
  <2>2. Up(i) \in SUBSET Up(j) /\ Up(j) \in SUBSET Members
    BY <2>1
  <2>3. i \in Up(j)
    OBVIOUS
  <2>4. i \notin Up(i)
    BY <1>1
  <2> QED  BY <2>2, <2>3, <2>4
<1>3. MbxBit(i) = Cardinality(Up(i)) /\ MbxBit(j) = Cardinality(Up(j))
  BY DEF MbxBit
<1> HIDE DEF Up
<1>4. IsFiniteSet(Up(j))
  BY <1>1, <1>2, FS_Subset
<1> QED  BY <1>2, <1>3, <1>4, FS_Subset

LEMMA MailIsRead ==
    ASSUME Layout, NEW new \in SUBSET {i \in Members : plan[i].mbx}, MbxStates(new)
    PROVE  MailNoticed'
<1>1. mappings # 0 /\ Planned /\ \A i \in Members : Placed(i)
  BY DEF Layout, MbxStates
<1>2. mailed'.new = new /\ mailed'.read = {i \in Members : plan[i].mbx /\ Signals(new, i)} /\ maps' = maps
  BY DEF MbxStates
<1>3. \A i \in Members : /\ HasMbxBit(i) => maps[i].bitno = MbxBit(i)
                         /\ plan[i].mbx /\ ~HasMbxBit(i) => ~maps[i].sm_state
  BY <1>1 DEF Placed
<1>4. ASSUME NEW i \in new, maps[i].sm_state PROVE Signals(new, i)
  BY <1>3, <1>4 DEF Signals
<1>5. ASSUME NEW i \in Members, plan[i].mbx, Signals(new, i), maps[i].sm_state PROVE i \in new
  <2>1. PICK j \in new : HasMbxBit(j) /\ maps[j].bitno = maps[i].bitno
    BY <1>5 DEF Signals
  <2>2. MbxBit(i) = MbxBit(j) /\ HasMbxBit(i) /\ j \in Members
    BY <1>3, <1>5, <2>1
  <2>3. i \in Nat /\ j \in Nat
    BY <1>1, <2>2, MembersAre
  <2>4. ~(i < j) /\ ~(j < i)
    BY <1>1, <2>1, <2>2, BitsApart
  <2>5. i = j
    BY <2>3, <2>4
  <2> QED  BY <2>5
<1> QED  BY <1>2, <1>4, <1>5 DEF MailNoticed

-----------------------------------------------------------------------------
(* A cycle.                                                                *)

\* The slaves that take part in a transfer are those with bytes in it.
LEMMA HittersAre ==
    ASSUME Mapping, NEW present \in SUBSET Members, NEW dir \in Direction
    PROVE  /\ Hits(dir, present) \in Nat /\ Cardinality(Hitting(dir)) \in Nat
           /\ Hits(dir, present) <= Cardinality(Hitting(dir))
           /\ Hits(dir, present) = Cardinality(Hitting(dir)) <=> Hitting(dir) \subseteq present
<1> DEFINE H == {i \in Members \cap present : Windows(i, dir) # {}}
<1>1. Planned /\ IsFiniteSet(Hitting(dir))
  BY CountsAre DEF Mapping, Layout
<1>2. ASSUME NEW i \in Members PROVE Windows(i, dir) # {} <=> Mapped(i) \cap Of(i, dir) # {}
  <2>1. ASSUME NEW k \in Mapped(i) \cap Of(i, dir) PROVE <<k, 0>> \in Windows(i, dir)
    <3>1. i \in DOMAIN plan /\ k \in Used(i) /\ k \in Managers(i)
      BY <1>1, MembersAre, PlanIs
    <3>2. SmLen(i, k) \in Nat /\ SmLen(i, k) > 0
      BY <1>1, <3>1, PlanIs DEF Used, SmLen
    <3>3. 0 \in 0 .. plan[i].sm[k].len - 1
      BY <3>2 DEF SmLen
    <3> QED  BY <3>3 DEF Windows
  <2>2. Windows(i, dir) # {} => Mapped(i) \cap Of(i, dir) # {}
    BY DEF Windows
  <2> QED  BY <2>1, <2>2
<1>3. H = Hitting(dir) \cap present
  BY <1>2 DEF Hitting
<1>4. Hits(dir, present) = Cardinality(H) /\ H \in SUBSET Hitting(dir)
  BY <1>3 DEF Hits
<1> HIDE DEF H
<1>5. IsFiniteSet(H) /\ Cardinality(H) <= Cardinality(Hitting(dir))
      /\ (Cardinality(Hitting(dir)) = Cardinality(H) => H = Hitting(dir))
  BY <1>1, <1>4, FS_Subset
<1>6. Cardinality(H) \in Nat /\ Cardinality(Hitting(dir)) \in Nat
  BY <1>1, <1>5, FS_CardinalityType
<1>7. H = Hitting(dir) <=> Hitting(dir) \subseteq present
  BY <1>3
<1> QED  BY <1>4, <1>5, <1>6, <1>7

\* What is sent, byte by byte.
LEMMA SentIs ==
    ASSUME NEW first \in Nat, NEW len \in Nat
    PROVE  LET sent == Sent(first, len)
           IN  /\ sent = [a \in DOMAIN sent |-> sent[a]]
               /\ \A a \in Nat : a \in DOMAIN sent <=> first <= a /\ a < first + len
               /\ \A a \in DOMAIN sent : a < pd.outLen => sent[a] = <<"app", a>>
BY DEF Sent

LEMMA CycleDelivers ==
    ASSUME Layout, NEW absent \in SUBSET Members, Exchange(absent)
    PROVE  OutputsArrive'
<1> DEFINE present == Members \ absent
           sent == Sent(0, IF pd.useLrw THEN pd.logLen ELSE pd.outLen)
           write == Behind(sent, present)
<1>1. Mapping /\ Planned /\ plan' = plan /\ maps' = maps /\ image'.out = Received(write, present)
  BY DEF Mapping, Layout, Exchange
<1>2. SUFFICES ASSUME AllMapped, NEW i \in DOMAIN Received(write, present), NEW kb \in Windows(i, Outputs)
               PROVE  /\ kb \in DOMAIN Received(write, present)[i]
                      /\ Received(write, present)[i][kb]
                         = <<"app", maps[i].out.pd + Offset(i, kb[1]) + kb[2]>>
  <2>1. (AllMapped' <=> AllMapped) /\ \A i : \A k : Offset(i, k)' = Offset(i, k)
    BY <1>1, PlanStays
  <2>2. \A i : Windows(i, Outputs)' = Windows(i, Outputs)
    BY <1>1 DEF Windows, Mapped, Fmmu, Used, Of, Managers
  <2> HIDE DEF present, write
  <2> QED  BY <1>1, <1>2, <2>1, <2>2 DEF OutputsArrive
<1>3. i \in Members /\ i \in present /\ i \in 1 .. Len(plan) /\ Len(plan) \in Nat
  <2>1. i \in Members \cap present
    BY <1>2 DEF Received
  <2> QED  BY <1>1, <2>1, MembersAre DEF Planned
<1>4. /\ At(i, kb) < pd.outLen /\ pd.outLen \in Nat /\ pd.logLen \in Nat /\ pd.outLen <= pd.logLen
      /\ maps[i].out.pd + Offset(i, kb[1]) + kb[2] = At(i, kb)
  BY <1>1, <1>2, <1>3, ImagePlaces
<1>5. At(i, kb) \in Nat
  BY <1>1, <1>2, <1>3, WindowsAre DEF Direction
<1>6. sent = [a \in DOMAIN sent |-> sent[a]] /\ At(i, kb) \in DOMAIN sent
      /\ sent[At(i, kb)] = <<"app", At(i, kb)>>
  <2> DEFINE len == IF pd.useLrw THEN pd.logLen ELSE pd.outLen
  <2>1. len \in Nat /\ pd.outLen <= len
    BY <1>4
  <2>2. sent = Sent(0, len) /\ 0 \in Nat
    OBVIOUS
  <2> HIDE DEF len, sent
  <2>3. 0 <= At(i, kb) /\ At(i, kb) < 0 + len
    BY <2>1, <1>4, <1>5
  <2>4. sent = [a \in DOMAIN sent |-> sent[a]] /\ At(i, kb) \in DOMAIN sent
    BY <2>1, <2>2, <2>3, <1>5, SentIs
  <2> QED  BY <2>1, <2>2, <2>4, <1>4, SentIs
<1>7. \A x \in Senders(present) : x[1] <= i - 1 => At(x[1], x[2]) # At(i, kb)
  <2> SUFFICES ASSUME NEW x \in Senders(present), x[1] <= i - 1, At(x[1], x[2]) = At(i, kb) PROVE FALSE
    OBVIOUS
  <2>1. x[1] \in Members /\ x[2] \in Windows(x[1], Inputs)
    BY DEF Senders
  <2>2. Inputs # Outputs /\ Inputs \in Direction /\ Outputs \in Direction
    BY DEF Inputs, Outputs, Direction
  <2>3. x[1] = i
    BY <1>1, <1>2, <1>3, <2>1, <2>2, WindowsApart
  <2> QED  BY <2>3, <1>3
<1>8. i - 1 \in 0 .. Len(plan)
  BY <1>3
<1> HIDE DEF sent, present
<1>9. DOMAIN write[i - 1] = DOMAIN sent /\ write[i - 1][At(i, kb)] = sent[At(i, kb)]
  BY <1>1, <1>6, <1>7, <1>8, BehindIs
<1> HIDE DEF write
<1>10. /\ kb \in DOMAIN Received(write, present)[i]
       /\ Received(write, present)[i][kb] = write[i - 1][At(i, kb)]
  BY <1>2, <1>3, <1>6, <1>9 DEF Received
<1> QED  BY <1>4, <1>6, <1>9, <1>10

LEMMA CycleCollects ==
    ASSUME Layout, NEW absent \in SUBSET Members, Exchange(absent)
    PROVE  InputsArrive'
<1> DEFINE present == Members \ absent
           sent == Sent(0, IF pd.useLrw THEN pd.logLen ELSE pd.outLen)
           write == Behind(sent, present)
           byte(n) == IF n \in DOMAIN write[Len(plan)] THEN write[Len(plan)][n] ELSE <<>>
<1>1. Mapping /\ Planned /\ plan' = plan /\ maps' = maps /\ pd' = pd /\ Len(plan) \in Nat
  BY DEF Mapping, Layout, Exchange, Planned
<1>2. SUFFICES ASSUME pd.overlapping, AllMapped, image'.matched, DOMAIN image'.in # {},
                      NEW i \in Members \ absent, NEW kb \in Windows(i, Inputs)
               PROVE  image'.in[maps[i].in.pd - pd.outLen + Offset(i, kb[1]) + kb[2]] = <<i>> \o kb
  <2>1. (AllMapped' <=> AllMapped) /\ Members' = Members /\ \A i : \A k : Offset(i, k)' = Offset(i, k)
    BY <1>1, PlanStays
  <2>2. \A i : Windows(i, Inputs)' = Windows(i, Inputs)
    <3>1. plan' = plan
      BY <1>1
    <3>2. ASSUME NEW i PROVE Windows(i, Inputs)' = Windows(i, Inputs)
      <4>1. Of(i, Inputs)' = Of(i, Inputs) /\ Used(i)' = Used(i)
        BY <3>1 DEF Of, Used, Managers
      <4>2. \A k : Fmmu(i, k)' = Fmmu(i, k)
        BY <4>1 DEF Fmmu
      <4>3. Mapped(i)' = Mapped(i)
        <5>1. \A k : (Fmmu(i, k) <= plan[i].fmmus)' <=> Fmmu(i, k) <= plan[i].fmmus
          BY <3>1, <4>2
        <5>2. {k \in Used(i)' : (Fmmu(i, k) <= plan[i].fmmus)'} = {k \in Used(i) : Fmmu(i, k) <= plan[i].fmmus}
          BY <4>1, <5>1, ZenonT(60)
        <5> QED  BY <5>2 DEF Mapped
      <4> QED  BY <3>1, <4>1, <4>3 DEF Windows
    <3> QED  BY <3>2
  <2>3. image'.absent = absent
    BY DEF Exchange
  <2> QED  BY <1>1, <1>2, <2>1, <2>2, <2>3 DEF InputsArrive, InputsInPlace
<1>3. i \in Members /\ i \in present /\ i \in 1 .. Len(plan)
  <2>1. i \in Members \cap present
    BY <1>2
  <2> QED  BY <1>1, <2>1, MembersAre DEF Planned
<1>4. /\ At(i, kb) < pd.inLen /\ pd.inLen \in Nat /\ pd.logLen = pd.inLen /\ pd.useLrw
      /\ maps[i].in.pd - pd.outLen + Offset(i, kb[1]) + kb[2] = At(i, kb)
  BY <1>1, <1>2, <1>3, ImagePlaces
<1>5. At(i, kb) \in Nat
  BY <1>1, <1>2, <1>3, WindowsAre DEF Direction
<1>6. sent = [a \in DOMAIN sent |-> sent[a]] /\ At(i, kb) \in DOMAIN sent
  <2>1. sent = Sent(0, pd.inLen) /\ 0 \in Nat
    BY <1>4
  <2>2. 0 <= At(i, kb) /\ At(i, kb) < 0 + pd.inLen
    BY <1>4, <1>5
  <2> HIDE DEF sent
  <2> QED  BY <2>1, <2>2, <1>4, <1>5, SentIs, ZenonT(60)
<1>7. Len(plan) \in 0 .. Len(plan) /\ i \in Members \cap present /\ i <= Len(plan)
  BY <1>1, <1>3
<1>8. image'.in = [n \in 0 .. pd.inLen - 1 |-> byte(n)]
  <2>1. \A n \in Nat : 0 + 0 + n = n
    OBVIOUS
  <2>2. image'.in = [n \in 0 .. pd.inLen - 1 |->
                       IF 0 + 0 + n \in DOMAIN write[Len(plan)] THEN write[Len(plan)][0 + 0 + n] ELSE <<>>]
    BY <1>2, <1>4 DEF Exchange, CopyFrom
  <2>3. \A n \in 0 .. pd.inLen - 1 : n \in Nat
    BY <1>4
  <2> HIDE DEF write
  <2> QED  BY <2>1, <2>2, <2>3
<1> HIDE DEF sent, present
<1>9. DOMAIN write[Len(plan)] = DOMAIN sent /\ write[Len(plan)][At(i, kb)] = <<i>> \o kb
  BY <1>1, <1>2, <1>6, <1>7, BehindIs
<1> HIDE DEF write
<1>10. At(i, kb) \in 0 .. pd.inLen - 1
  BY <1>4, <1>5
<1>11. image'.in[At(i, kb)] = write[Len(plan)][At(i, kb)]
  BY <1>6, <1>8, <1>9, <1>10
<1> QED  BY <1>4, <1>9, <1>11

LEMMA CycleCounts ==
    ASSUME Layout, NEW absent \in SUBSET Members, Exchange(absent)
    PROVE  AbsenceNoticed'
<1> DEFINE present == Members \ absent
           wkc == IF pd.useLrw THEN Hits(Inputs, present) + 2 * Hits(Outputs, present)
                               ELSE Hits(Inputs, present)
           ok == wkc = IF pd.useLrw THEN pd.lrw ELSE pd.lrd
           okWrite == pd.useLrw \/ Hits(Outputs, present) = pd.lwr
<1>1. Mapping /\ Planned /\ Laid /\ plan' = plan /\ pd' = pd /\ mappings' = mappings /\ mappings # 0
  BY DEF Mapping, Layout, Exchange
<1>2. image'.absent = absent /\ image'.matched = (ok /\ okWrite)
  BY DEF Exchange
<1>3. SUFFICES ASSUME pd.overlapping \/ (OneEach /\ mappings = 1)
               PROVE  (ok /\ okWrite) <=> \A i \in absent : Mapped(i) = {}
  <2>1. Members' = Members /\ (OneEach' <=> OneEach) /\ (\A i : Mapped(i)' = Mapped(i))
    BY <1>1, PlanStays
  <2>2. absent \cap Members = absent
    OBVIOUS
  <2> HIDE DEF ok, okWrite
  <2> QED  BY <1>1, <1>2, <1>3, <2>1, <2>2 DEF AbsenceNoticed
<1> DEFINE hI == Hits(Inputs, present)
           hO == Hits(Outputs, present)
           cI == Cardinality(Hitting(Inputs))
           cO == Cardinality(Hitting(Outputs))
<1>4. /\ hI \in Nat /\ cI \in Nat /\ hI <= cI /\ (hI = cI <=> Hitting(Inputs) \subseteq present)
      /\ hO \in Nat /\ cO \in Nat /\ hO <= cO /\ (hO = cO <=> Hitting(Outputs) \subseteq present)
  <2>1. present \in SUBSET Members /\ Inputs \in Direction /\ Outputs \in Direction
    BY DEF Direction
  <2> HIDE DEF present
  <2> QED  BY <1>1, <2>1, HittersAre
<1>5. (ok /\ okWrite) <=> (hI = cI /\ hO = cO)
  <2>1. CASE pd.useLrw
    <3>1. pd.lrw = cI + 2 * cO
      <4>1. CASE pd.overlapping
        <5>1. pd.lrw = 2 * cO + cI
          BY <1>1, <4>1 DEF Laid
        <5> HIDE DEF cI, cO
        <5> QED  BY <1>4, <5>1
      <4>2. CASE ~pd.overlapping
        BY <1>1, <1>3, <4>2 DEF Laid
      <4> QED  BY <4>1, <4>2
    <3>2. (ok /\ okWrite) <=> hI + 2 * hO = pd.lrw
      BY <2>1
    <3> HIDE DEF hI, hO, cI, cO, ok, okWrite
    <3> QED  BY <1>4, <3>1, <3>2
  <2>2. CASE ~pd.useLrw
    <3>1. pd.lrd = cI /\ pd.lwr = cO
      BY <1>1, <1>3, <2>2 DEF Laid
    <3> QED  BY <2>2, <3>1
  <2> QED  BY <2>1, <2>2
<1>6. ASSUME NEW i \in Members PROVE Mapped(i) = {} <=> i \notin Hitting(Inputs) /\ i \notin Hitting(Outputs)
  <2>1. i \in DOMAIN plan
    BY <1>1, MembersAre
  <2>2. \A k \in Mapped(i) : k \in Of(i, Inputs) \/ k \in Of(i, Outputs)
    <3>1. \A k \in Mapped(i) : k \in Managers(i) /\ plan[i].sm[k].dir \in Direction
      BY <1>1, <2>1, PlanIs
    <3> QED  BY <3>1 DEF Of, Direction
  <2> QED  BY <2>2 DEF Hitting
<1>7. (Hitting(Inputs) \subseteq present /\ Hitting(Outputs) \subseteq present)
      <=> \A i \in absent : Mapped(i) = {}
  <2>1. \A dir \in Direction : Hitting(dir) \subseteq Members
    BY DEF Hitting
  <2>2. Hitting(Inputs) \subseteq Members /\ Hitting(Outputs) \subseteq Members
    BY <2>1 DEF Direction
  <2> QED  BY <1>6, <2>2
<1> HIDE DEF hI, hO, cI, cO, ok, okWrite, present
<1> QED  BY <1>4, <1>5, <1>7

-----------------------------------------------------------------------------
\* What holds of the process data in every state.
ProcessDataRight == Layout /\ OutputsArrive /\ InputsArrive /\ AbsenceNoticed /\ MailNoticed

LEMMA ProcessDataRightInit ==
    ASSUME NEW w, NEW devices \in Seq(SlaveTypes), NEW group \in BOOLEAN \X BOOLEAN \X BOOLEAN
    PROVE  StartupInit(w, devices, group) => ProcessDataRight
<1> SUFFICES ASSUME ProcessDataInit(devices, group) PROVE ProcessDataRight
  BY DEF StartupInit
<1>1. Layout /\ image = Nothing /\ mailed = [new |-> {}, read |-> {}]
  BY LayoutInit
<1>2. MailNoticed /\ OutputsArrive
  BY <1>1 DEF MailNoticed, OutputsArrive, Nothing
<1>3. InputsArrive /\ AbsenceNoticed
  BY <1>1 DEF InputsArrive, InputsInPlace, AbsenceNoticed, Nothing
<1> QED  BY <1>1, <1>2, <1>3 DEF ProcessDataRight

LEMMA ImageKept ==
    ASSUME plan' = plan, pd' = pd, maps' = maps, mappings' = mappings, image' = image
    PROVE  OutputsArrive /\ InputsArrive /\ AbsenceNoticed
           => OutputsArrive' /\ InputsArrive' /\ AbsenceNoticed'
<1>1. /\ Members' = Members /\ (AllMapped' <=> AllMapped) /\ (OneEach' <=> OneEach)
      /\ \A i : Mapped(i)' = Mapped(i) /\ \A k : Offset(i, k)' = Offset(i, k)
  BY PlanStays
<1>2. \A i : Windows(i, Outputs)' = Windows(i, Outputs) /\ Windows(i, Inputs)' = Windows(i, Inputs)
  BY DEF Windows, Mapped, Fmmu, Used, Of, Managers
<1>3. OutputsArrive => OutputsArrive'
  BY <1>1, <1>2 DEF OutputsArrive
<1>4. InputsArrive => InputsArrive'
  <2>1. InputsInPlace => InputsInPlace'
    <3> SUFFICES ASSUME InputsInPlace, AllMapped', image'.matched, DOMAIN image'.in # {},
                        NEW i \in Members' \ image'.absent, NEW kb \in Windows(i, Inputs)'
                 PROVE  image'.in[maps'[i].in.pd - pd'.outLen + Offset(i, kb[1])' + kb[2]] = <<i>> \o kb
      BY DEF InputsInPlace
    <3>1. /\ AllMapped /\ image.matched /\ DOMAIN image.in # {}
          /\ i \in Members \ image.absent /\ kb \in Windows(i, Inputs)
      BY <1>1, <1>2
    <3>2. image.in[maps[i].in.pd - pd.outLen + Offset(i, kb[1]) + kb[2]] = <<i>> \o kb
      BY <3>1 DEF InputsInPlace
    <3>3. Offset(i, kb[1])' = Offset(i, kb[1])
      BY <1>1
    <3> QED  BY <3>2, <3>3
  <2> QED  BY <2>1 DEF InputsArrive
<1>5. AbsenceNoticed => AbsenceNoticed'
  BY <1>1 DEF AbsenceNoticed, Nothing
<1> QED  BY <1>3, <1>4, <1>5

LEMMA ProcessDataStep == ProcessDataRight /\ [Next]_vars => ProcessDataRight'
<1> SUFFICES ASSUME ProcessDataRight, [Next]_vars PROVE ProcessDataRight'
  OBVIOUS
<1>1. CASE UNCHANGED pvars
  <2>1. /\ plan' = plan /\ pd' = pd /\ maps' = maps /\ mappings' = mappings /\ image' = image
        /\ mailed' = mailed
    BY <1>1 DEF pvars
  <2>2. MailNoticed'
    BY <2>1 DEF ProcessDataRight, MailNoticed
  <2> QED  BY <2>1, <2>2, LayoutKept, ImageKept DEF ProcessDataRight
<1>2. CASE ToSafeop
  <2>1. CreateMapping
    BY <1>2 DEF ToSafeop
  <2>2. image' = Nothing /\ mailed' = [new |-> {}, read |-> {}]
    BY <2>1 DEF CreateMapping
  <2>3. MailNoticed' /\ OutputsArrive'
    BY <2>2 DEF MailNoticed, OutputsArrive, Nothing
  <2>4. InputsArrive' /\ AbsenceNoticed'
    BY <2>2 DEF InputsArrive, InputsInPlace, AbsenceNoticed, Nothing
  <2> QED  BY <2>1, <2>3, <2>4, MappingLays DEF ProcessDataRight
<1>3. CASE Cycle
  <2>1. PICK absent \in SUBSET Members : Exchange(absent)
    BY <1>3 DEF Cycle
  <2>2. plan' = plan /\ pd' = pd /\ maps' = maps /\ mappings' = mappings /\ mailed' = mailed /\ mappings # 0
    BY <2>1 DEF Exchange, ProcessDataRight, Layout
  <2>3. MailNoticed'
    BY <2>2 DEF ProcessDataRight, MailNoticed
  <2> QED  BY <2>1, <2>2, <2>3, LayoutKept, CycleDelivers, CycleCollects, CycleCounts DEF ProcessDataRight
<1>4. CASE MailCycle
  <2>1. PICK new \in SUBSET {i \in Members : plan[i].mbx} : MbxStates(new)
    BY <1>4 DEF MailCycle
  <2>2. plan' = plan /\ pd' = pd /\ maps' = maps /\ mappings' = mappings /\ image' = image /\ mappings # 0
    BY <2>1 DEF MbxStates, ProcessDataRight, Layout
  <2>3. MailNoticed'
    BY <2>1, MailIsRead DEF ProcessDataRight
  <2> QED  BY <2>2, <2>3, LayoutKept, ImageKept DEF ProcessDataRight
<1>5. CASE Scan \/ ToPreop \/ ConfigureClocks \/ ClockCycle \/ Time \/ BackToPreop
  BY <1>1, <1>5 DEF Scan, ToPreop, ConfigureClocks, ClockCycle, Time, BackToPreop
<1> QED  BY <1>1, <1>2, <1>3, <1>4, <1>5 DEF Next, vars

\* On any number of slaves, each with any sync managers, any number of FMMUs and any lengths,
\* in a group with any settings, mapped any number of times, whoever misses a cycle: what the
\* application puts behind slv->pdout reaches the slave's sync managers (ec.c:1703-1790).
THEOREM OutputsDoArrive ==
    ASSUME NEW w, NEW devices \in Seq(SlaveTypes), NEW group \in BOOLEAN \X BOOLEAN \X BOOLEAN
    PROVE  StartupInit(w, devices, group) /\ [][Next]_vars => []OutputsArrive
<1>1. StartupInit(w, devices, group) => ProcessDataRight
  BY ProcessDataRightInit
<1>2. ProcessDataRight => OutputsArrive
  BY DEF ProcessDataRight
<1> QED  BY <1>1, <1>2, ProcessDataStep, PTL

\* Under the same hypotheses, what a slave sent is behind slv->pdin in a group whose inputs
\* and outputs overlap (ec.c:1607-1614).
THEOREM InputsDoArrive ==
    ASSUME NEW w, NEW devices \in Seq(SlaveTypes), NEW group \in BOOLEAN \X BOOLEAN \X BOOLEAN
    PROVE  StartupInit(w, devices, group) /\ [][Next]_vars => []InputsArrive
<1>1. StartupInit(w, devices, group) => ProcessDataRight
  BY ProcessDataRightInit
<1>2. ProcessDataRight => InputsArrive
  BY DEF ProcessDataRight
<1> QED  BY <1>1, <1>2, ProcessDataStep, PTL

\* Under the same hypotheses, the working counters match exactly when no slave with process
\* data is missing (ec.c:1556, 1622).
THEOREM AbsenceIsNoticed ==
    ASSUME NEW w, NEW devices \in Seq(SlaveTypes), NEW group \in BOOLEAN \X BOOLEAN \X BOOLEAN
    PROVE  StartupInit(w, devices, group) /\ [][Next]_vars => []AbsenceNoticed
<1>1. StartupInit(w, devices, group) => ProcessDataRight
  BY ProcessDataRightInit
<1>2. ProcessDataRight => AbsenceNoticed
  BY DEF ProcessDataRight
<1> QED  BY <1>1, <1>2, ProcessDataStep, PTL

\* Under the same hypotheses, new mail is found by its bit or by polling, and only a mailbox
\* that is polled is read without mail (ec.c:593-613, 1641-1694).
THEOREM MailIsNoticed ==
    ASSUME NEW w, NEW devices \in Seq(SlaveTypes), NEW group \in BOOLEAN \X BOOLEAN \X BOOLEAN
    PROVE  StartupInit(w, devices, group) /\ [][Next]_vars => []MailNoticed
<1>1. StartupInit(w, devices, group) => ProcessDataRight
  BY ProcessDataRightInit
<1>2. ProcessDataRight => MailNoticed
  BY DEF ProcessDataRight
<1> QED  BY <1>1, <1>2, ProcessDataStep, PTL
=============================================================================
