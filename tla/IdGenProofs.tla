---------------------------- MODULE IdGenProofs ----------------------------
(***************************************************************************)
(* Theorems about IdGen, for any number of goroutines, any width of the    *)
(* sequence and a clock that may be set back at any time.                  *)
(***************************************************************************)
EXTENDS IdGen, TLAPS

\* Whoever spins has the lock and has seen the generator's millisecond.
SpinInv ==
    /\ \A t \in Thread : pc[t] = "spin" => now[t] = time
    /\ \A t, u \in Thread : pc[t] = "spin" /\ pc[u] = "spin" => t = u

\* No identifier is of a millisecond that the generator has not reached.
ReachedInv == \A id \in issued : id[1] <= time

\* As long as only Next is called, the generator's fields are at or beyond every
\* identifier handed out.
NextInv ==
    /\ twice = {}
    /\ \A t \in Thread : cnt[t] = NoCount
    /\ 0 <= seq
    /\ \A id \in issued : id[1] < time \/ (id[1] = time /\ id[2] <= seq)

GenInv == TypeOK /\ SpinInv /\ ReachedInv /\ (~ranged => NextInv)

LEMMA GenInit == Init => GenInv
<1> SUFFICES ASSUME Init PROVE GenInv
  OBVIOUS
<1>1. TypeOK
  <2>1. 0 \in Int32
    BY IntAssumption DEF Int32
  <2>2. issued \subseteq Nat \X Int32 /\ twice \subseteq issued
    BY DEF Init
  <2> QED
    BY <2>1, <2>2 DEF Init, TypeOK
<1>2. NextInv /\ SpinInv /\ ReachedInv
  BY DEF Init, NextInv, SpinInv, ReachedInv
<1> QED
  BY <1>1, <1>2 DEF GenInv

\* Any integer is converted to an int32.
LEMMA WrapInInt32 ==
    ASSUME NEW n \in Int
    PROVE  Wrap(n) \in Int32
<1> DEFINE width == 2 * (MaxInt32 + 1)
<1>1. MaxInt32 \in Nat \ {0}
  BY IntAssumption
<1>2. width \in Nat \ {0} /\ n + MaxInt32 + 1 \in Int
  BY <1>1
<1>3. (n + MaxInt32 + 1) % width \in 0 .. (width - 1)
  <2> HIDE DEF width
  <2> QED
    BY <1>2
<1>4. PICK m \in 0 .. (width - 1) : m = (n + MaxInt32 + 1) % width
  BY <1>3
<1>5. Wrap(n) = m - (MaxInt32 + 1)
  BY <1>4 DEF Wrap
<1> QED
  BY <1>1, <1>5 DEF Int32

\* The count of a call, or the mark of a call of Next.
LEMMA CountIsInt == TypeOK => \A t \in Thread : cnt[t] \in Int
<1> SUFFICES ASSUME TypeOK, NEW t \in Thread PROVE cnt[t] \in Int
  OBVIOUS
<1>1. cnt[t] \in Counts \cup {NoCount}
  BY DEF TypeOK
<1>2. \A n \in Counts : n \in Int
  BY CountAssumption
<1>3. NoCount \in Int
  BY DEF NoCount
<1> QED
  BY <1>1, <1>2, <1>3

\* Whatever is handed out, int32 wraps and the ranges of NextN are in it.
LEMMA TypeStep == TypeOK /\ [Next]_vars => TypeOK'
<1> SUFFICES ASSUME TypeOK, [Next]_vars PROVE TypeOK'
  OBVIOUS
<1>0. /\ clock \in Nat /\ time \in Nat /\ seq \in Int32 /\ MaxInt32 \in Nat \ {0}
      /\ \A t \in Thread : now[t] \in Nat /\ cnt[t] \in Int
  <2>1. \A t \in Thread : cnt[t] \in Int
    BY CountIsInt
  <2>2. MaxInt32 \in Nat \ {0}
    BY IntAssumption
  <2> QED
    BY <2>1, <2>2 DEF TypeOK
<1>1. \A n \in Int : Wrap(n) \in Int32
  BY WrapInInt32
<1>2. ASSUME NEW t \in Thread, NEW ids \in SUBSET (Nat \X Int32), HandOut(t, ids),
             time' \in Nat, seq' \in Int32
      PROVE  TypeOK'
  BY <1>0, <1>2 DEF HandOut, Return, TypeOK
<1>3. \A ms \in Nat, m, n \in Int32, c \in Int : IdRange(ms, m, n, c) \subseteq Nat \X Int32
  BY <1>0 DEF IdRange, Int32
<1>4. ASSUME NEW t \in Thread, NEW ms \in Nat, NextAt(t, ms)
      PROVE  TypeOK'
  <2>1. time' = ms /\ seq' \in Int32 /\ {<<ms, 0>>} \in SUBSET (Nat \X Int32)
    BY <1>0, <1>4 DEF NextAt, Int32
  <2>2. HandOut(t, {<<ms, 0>>})
    BY <1>4 DEF NextAt
  <2> QED
    BY <1>2, <2>1, <2>2
<1>5. ASSUME NEW t \in Thread, NEW ms \in Nat, NextNAt(t, ms)
      PROVE  TypeOK'
  <2>1. 0 \in Int32 /\ Wrap(cnt[t] - 1) \in Int32
    BY <1>0, <1>1 DEF Int32
  <2>2. seq + Wrap(cnt[t] - 1) \in Int
    BY <1>0, <2>1 DEF Int32
  <2>3. time' = ms /\ seq' \in Int32
    BY <1>1, <1>5, <2>2 DEF NextNAt
  <2>4. HandOut(t, IdRange(ms, 0, Wrap(cnt[t] - 1), cnt[t]))
    BY <1>5 DEF NextNAt
  <2>5. IdRange(ms, 0, Wrap(cnt[t] - 1), cnt[t]) \in SUBSET (Nat \X Int32)
    BY <1>0, <1>3, <2>1
  <2> QED
    BY <1>2, <2>3, <2>4, <2>5
<1>6. ASSUME NEW t \in Thread, SameMillisecondN(t)
      PROVE  TypeOK'
  <2>1. Wrap(cnt[t] - 1) \in Int32
    BY <1>0, <1>1
  <2>2. seq + Wrap(cnt[t] - 1) \in Int
    BY <1>0, <2>1 DEF Int32
  <2>3. now[t] = time /\ time' = time /\ seq' \in Int32
    BY <1>1, <1>6, <2>2 DEF SameMillisecondN
  <2>4. seq' - 1 \in Int
    BY <1>0, <2>3 DEF Int32
  <2>5. Wrap(seq' - 1) \in Int32
    BY <1>1, <2>4
  <2>6. HandOut(t, IdRange(now[t], seq, Wrap(seq' - 1), cnt[t]))
    BY <1>6 DEF SameMillisecondN
  <2>7. IdRange(now[t], seq, Wrap(seq' - 1), cnt[t]) \in SUBSET (Nat \X Int32)
    BY <1>0, <1>3, <2>5
  <2> QED
    BY <1>0, <1>2, <2>3, <2>6, <2>7
<1>7. ASSUME NEW t \in Thread, SameMillisecond(t)
      PROVE  TypeOK'
  <2>1. seq + 1 \in Int32 /\ seq' = seq + 1 /\ time' = time /\ HandOut(t, {<<now[t], seq + 1>>})
    BY <1>0, <1>7 DEF SameMillisecond, Int32
  <2>2. {<<now[t], seq + 1>>} \in SUBSET (Nat \X Int32)
    BY <1>0, <2>1
  <2> QED
    BY <1>0, <1>2, <2>1, <2>2
<1>8. ASSUME NEW t \in Thread, NewMillisecond(t) \/ SpinEnds(t)
      PROVE  TypeOK'
  BY <1>0, <1>4, <1>5, <1>8 DEF NewMillisecond, SpinEnds
<1>9. ASSUME NEW t \in Thread, Exhausted(t) \/ ClockBackward(t)
      PROVE  TypeOK'
  BY <1>9 DEF Exhausted, ClockBackward, Return, TypeOK
<1>10. ASSUME NEW t \in Thread, NEW n \in Counts \cup {NoCount}, ReadClock(t, n)
       PROVE  TypeOK'
  BY <1>10 DEF ReadClock, TypeOK
<1>11. CASE Tick
  <2>1. clock' \in Nat
    BY <1>0, <1>11, ClockAssumption DEF Tick
  <2> QED
    BY <1>11, <2>1 DEF Tick, TypeOK
<1>12. CASE UNCHANGED vars
  BY <1>12 DEF vars, TypeOK
<1> QED
  BY <1>6, <1>7, <1>8, <1>9, <1>10, <1>11, <1>12 DEF Next

\* An identifier above all the others, as the new fields of the generator say.
LEMMA FreshId ==
    ASSUME TypeOK, NextInv, NEW t \in Thread, NEW ms \in Nat, NEW s \in 0 .. MaxInt32,
           HandOut(t, {<<ms, s>>}), time' = ms, seq' \in s .. MaxInt32,
           time < ms \/ (time = ms /\ seq < s)
    PROVE  NextInv' /\ \A new \in issued' \ issued, old \in issued : Less(old, new)
<1> USE DEF NextInv
<1>1. \A old \in issued : old[1] \in Nat /\ old[2] \in Int32
  BY DEF TypeOK
<1>2. time \in Nat /\ seq \in Int32 /\ s \in Int32 /\ seq' \in Int32 /\ 0 <= seq' /\ s <= seq'
  BY IntAssumption DEF TypeOK, Int32
<1>3. \A old \in issued : Less(old, <<ms, s>>)
  BY <1>1, <1>2, IntAssumption DEF Less, Int32
<1>4. <<ms, s>> \notin issued
  BY <1>1, <1>2, <1>3, IntAssumption DEF Less, Int32
<1>5. issued' = issued \cup {<<ms, s>>} /\ twice' = {}
  BY <1>4 DEF HandOut
<1>6. \A id \in issued' : id[1] < time' \/ (id[1] = time' /\ id[2] <= seq')
  BY <1>1, <1>2, <1>5, IntAssumption DEF Int32
<1>7. /\ pc' = [pc EXCEPT ![t] = "idle"] /\ now' = [now EXCEPT ![t] = 0]
      /\ cnt' = [cnt EXCEPT ![t] = NoCount] /\ clock' = clock
  BY DEF HandOut, Return
<1>8. \A u \in Thread : cnt'[u] = NoCount
  BY <1>7 DEF TypeOK
<1> QED
  BY <1>2, <1>3, <1>5, <1>6, <1>8

LEMMA GenStep ==
    ASSUME TypeOK, SpinInv, NextInv, ~ranged, [Next]_vars, ~ranged'
    PROVE  NextInv' /\ \A new \in issued' \ issued, old \in issued : Less(old, new)
<1> USE DEF NextInv
<1>0. /\ \A t \in Thread : cnt[t] = NoCount /\ now[t] \in Nat
      /\ clock \in Nat /\ time \in Nat /\ seq \in 0 .. MaxInt32 /\ MaxInt32 \in Nat \ {0}
  BY IntAssumption DEF TypeOK, Int32
<1>1. ASSUME NEW t \in Thread, NewMillisecond(t)
      PROVE  NextInv' /\ \A new \in issued' \ issued, old \in issued : Less(old, new)
  <2>1. time < now[t] /\ NextAt(t, now[t])
    BY <1>0, <1>1 DEF NewMillisecond
  <2>2. seq' \in 0 .. MaxInt32 /\ time' = now[t] /\ HandOut(t, {<<now[t], 0>>})
    BY <1>0, <2>1 DEF NextAt
  <2> QED
    BY <1>0, <2>1, <2>2, FreshId
<1>2. ASSUME NEW t \in Thread, SameMillisecond(t)
      PROVE  NextInv' /\ \A new \in issued' \ issued, old \in issued : Less(old, new)
  <2>1. /\ time = now[t] /\ seq < MaxInt32 /\ seq' = seq + 1 /\ time' = time
        /\ HandOut(t, {<<now[t], seq + 1>>})
    BY <1>2 DEF SameMillisecond
  <2>2. seq + 1 \in 0 .. MaxInt32 /\ seq' \in (seq + 1) .. MaxInt32 /\ seq < seq + 1
    BY <1>0, <2>1
  <2> QED
    BY <1>0, <2>1, <2>2, FreshId
<1>3. ASSUME NEW t \in Thread, SpinEnds(t)
      PROVE  NextInv' /\ \A new \in issued' \ issued, old \in issued : Less(old, new)
  <2>1. time < clock /\ NextAt(t, clock)
    BY <1>0, <1>3 DEF SpinEnds, SpinInv
  <2>2. seq' \in 0 .. MaxInt32 /\ time' = clock /\ HandOut(t, {<<clock, 0>>})
    BY <1>0, <2>1 DEF NextAt
  <2> QED
    BY <1>0, <2>1, <2>2, FreshId
<1>4. ASSUME NEW t \in Thread, SameMillisecondN(t)
      PROVE  FALSE
  BY <1>0, <1>4 DEF SameMillisecondN
<1>5. ASSUME NEW t \in Thread, Exhausted(t)
      PROVE  NextInv' /\ issued' = issued
  BY <1>5 DEF Exhausted, TypeOK
<1>6. ASSUME NEW t \in Thread, ClockBackward(t)
      PROVE  NextInv' /\ issued' = issued
  BY <1>6 DEF ClockBackward, Return, TypeOK
<1>7. ASSUME NEW t \in Thread, NEW n \in Counts \cup {NoCount}, ReadClock(t, n)
      PROVE  NextInv' /\ issued' = issued
  BY <1>7 DEF ReadClock, TypeOK
<1>8. CASE Tick
  <2>1. clock' \in Nat
    BY <1>0, <1>8, ClockAssumption DEF Tick
  <2> QED
    BY <1>8, <2>1 DEF Tick, TypeOK
<1>9. CASE UNCHANGED vars
  BY <1>9 DEF vars, TypeOK
<1> QED
  BY <1>1, <1>2, <1>3, <1>4, <1>5, <1>6, <1>7, <1>8, <1>9 DEF Next

\* What is handed out is of the generator's new millisecond, which is the old one
\* or a later one, or it is a zero.
Handed(t, ids) ==
    /\ HandOut(t, ids) /\ time' \in Nat /\ time <= time'
    /\ \A id \in ids : id[1] = time' \/ id = <<0, 0>>

LEMMA RangeIds ==
    ASSUME NEW ms \in Nat, NEW m \in Int, NEW n \in Int, NEW c \in Int
    PROVE  /\ IdRange(ms, m, n, c) \in SUBSET (Nat \X Int)
           /\ \A id \in IdRange(ms, m, n, c) : id[1] = ms \/ id = <<0, 0>>
<1>1. ASSUME NEW id \in IdRange(ms, m, n, c)
      PROVE  id \in Nat \X Int /\ (id[1] = ms \/ id = <<0, 0>>)
  <2>1. (\E s \in m .. n : id = <<ms, s>>) \/ id = <<0, 0>>
    BY DEF IdRange
  <2> QED
    BY <2>1
<1> QED
  BY <1>1

LEMMA Moves ==
    ASSUME TypeOK, SpinInv, NEW t \in Thread,
           \/ NewMillisecond(t) \/ SameMillisecond(t) \/ SameMillisecondN(t) \/ SpinEnds(t)
    PROVE  \E ids \in SUBSET (Nat \X Int) : Handed(t, ids)
<1>0. clock \in Nat /\ time \in Nat /\ now[t] \in Nat /\ seq \in Int /\ cnt[t] \in Int
  <2>1. cnt[t] \in Int
    BY CountIsInt
  <2>2. MaxInt32 \in Nat
    BY IntAssumption
  <2> QED
    BY <2>1, <2>2 DEF TypeOK, Int32
<1>1. \A n \in Int : Wrap(n) \in Int
  BY WrapInInt32, IntAssumption DEF Int32
<1>2. ASSUME NEW ms \in Nat, time < ms, NextAt(t, ms) \/ NextNAt(t, ms)
      PROVE  \E ids \in SUBSET (Nat \X Int) : Handed(t, ids)
  <2>1. CASE NextAt(t, ms)
    <3>1. Handed(t, {<<ms, 0>>}) /\ {<<ms, 0>>} \in SUBSET (Nat \X Int)
      BY <1>0, <1>2, <2>1 DEF NextAt, Handed
    <3> QED
      BY <3>1
  <2>2. CASE NextNAt(t, ms)
    <3> DEFINE ids == IdRange(ms, 0, Wrap(cnt[t] - 1), cnt[t])
    <3>1. ids \in SUBSET (Nat \X Int) /\ \A id \in ids : id[1] = ms \/ id = <<0, 0>>
      <4>1. 0 \in Int /\ Wrap(cnt[t] - 1) \in Int
        BY <1>0, <1>1
      <4> QED
        BY <1>0, <4>1, RangeIds
    <3>2. HandOut(t, ids) /\ time' = ms
      BY <2>2 DEF NextNAt
    <3> HIDE DEF ids
    <3>3. Handed(t, ids)
      BY <1>0, <1>2, <3>1, <3>2 DEF Handed
    <3> QED
      BY <3>1, <3>3
  <2> QED
    BY <1>2, <2>1, <2>2
<1>3. CASE NewMillisecond(t)
  BY <1>0, <1>2, <1>3 DEF NewMillisecond
<1>4. CASE SpinEnds(t)
  <2>1. time < clock
    BY <1>0, <1>4 DEF SpinEnds, SpinInv
  <2> QED
    BY <1>0, <1>2, <1>4, <2>1 DEF SpinEnds
<1>5. CASE SameMillisecond(t)
  <2>1. Handed(t, {<<time, seq + 1>>}) /\ {<<time, seq + 1>>} \in SUBSET (Nat \X Int)
    BY <1>0, <1>5 DEF SameMillisecond, Handed
  <2> QED
    BY <2>1
<1>6. CASE SameMillisecondN(t)
  <2> DEFINE ids == IdRange(time, seq, Wrap(seq' - 1), cnt[t])
  <2>1. seq' \in Int
    <3>1. Wrap(cnt[t] - 1) \in Int
      BY <1>0, <1>1
    <3>2. seq + Wrap(cnt[t] - 1) \in Int
      BY <1>0, <3>1
    <3> QED
      BY <1>1, <1>6, <3>2 DEF SameMillisecondN
  <2>2. ids \in SUBSET (Nat \X Int) /\ \A id \in ids : id[1] = time \/ id = <<0, 0>>
    <3>1. Wrap(seq' - 1) \in Int
      BY <1>1, <2>1
    <3> QED
      BY <1>0, <3>1, RangeIds
  <2>3. HandOut(t, ids) /\ time' = time
    BY <1>6 DEF SameMillisecondN
  <2> HIDE DEF ids
  <2>4. Handed(t, ids)
    BY <1>0, <2>2, <2>3 DEF Handed
  <2> QED
    BY <2>2, <2>4
<1> QED
  BY <1>3, <1>4, <1>5, <1>6

\* What is handed out again is of the millisecond the generator was in, or a zero.
LEMMA ReachedStep ==
    ASSUME TypeOK, SpinInv, ReachedInv, [Next]_vars
    PROVE  /\ SpinInv' /\ ReachedInv'
           /\ \A id \in twice' \ twice : id[1] \in {0, time}
<1> USE DEF SpinInv, ReachedInv
<1>0. time \in Nat /\ \A id \in issued : id[1] \in Nat
  BY DEF TypeOK
<1>1. ASSUME NEW t \in Thread,
             \/ NewMillisecond(t) \/ SameMillisecond(t) \/ SameMillisecondN(t) \/ SpinEnds(t)
      PROVE  /\ SpinInv' /\ ReachedInv'
             /\ \A id \in twice' \ twice : id[1] \in {0, time}
  <2>1. PICK ids \in SUBSET (Nat \X Int) : Handed(t, ids)
    BY <1>1, Moves
  <2>2. /\ pc' = [pc EXCEPT ![t] = "idle"] /\ issued' = issued \cup ids
        /\ twice' = twice \cup (ids \cap issued) /\ time' \in Nat /\ time <= time'
        /\ \A id \in ids : id[1] = time' \/ id = <<0, 0>>
    BY <2>1 DEF Handed, HandOut, Return
  <2>3. \A u \in Thread : pc[u] = "spin" => u = t
    BY <1>1 DEF NewMillisecond, SameMillisecond, SameMillisecondN, SpinEnds, Enters, Locked
  <2>4. SpinInv'
    BY <2>2, <2>3 DEF TypeOK
  <2>5. ReachedInv'
    BY <1>0, <2>2
  <2>6. \A id \in twice' \ twice : id[1] \in {0, time}
    BY <1>0, <2>2
  <2> QED
    BY <2>4, <2>5, <2>6
<1>2. ASSUME NEW t \in Thread, Exhausted(t)
      PROVE  SpinInv' /\ ReachedInv' /\ twice' = twice
  BY <1>2 DEF Exhausted, Enters, Locked, TypeOK
<1>3. ASSUME NEW t \in Thread, ClockBackward(t)
      PROVE  SpinInv' /\ ReachedInv' /\ twice' = twice
  BY <1>3 DEF ClockBackward, Return, Enters, Locked, TypeOK
<1>4. ASSUME NEW t \in Thread, NEW n \in Counts \cup {NoCount}, ReadClock(t, n)
      PROVE  SpinInv' /\ ReachedInv' /\ twice' = twice
  BY <1>4 DEF ReadClock, TypeOK
<1>5. CASE Tick \/ UNCHANGED vars
  BY <1>5 DEF Tick, vars
<1> QED
  BY <1>1, <1>2, <1>3, <1>4, <1>5 DEF Next

THEOREM GenInvariant == Spec => []GenInv
<1>1. GenInv /\ [Next]_vars => GenInv'
  <2> SUFFICES ASSUME GenInv, [Next]_vars PROVE GenInv'
    OBVIOUS
  <2>1. ~ranged' => ~ranged
    BY DEF Next, vars, Tick, ReadClock, NewMillisecond, SameMillisecond, SameMillisecondN,
           Exhausted, SpinEnds, ClockBackward, NextAt, NextNAt, HandOut
  <2> QED
    BY <2>1, TypeStep, ReachedStep, GenStep DEF GenInv
<1> QED
  BY <1>1, GenInit, PTL DEF Spec

\* Next never hands out an identifier twice, whatever the clock does.
THEOREM NextIsUnique == Spec => []Unique
<1>1. GenInv => Unique
  BY DEF GenInv, NextInv, Unique
<1> QED
  BY <1>1, GenInvariant, PTL

\* The identifiers of Next grow in the order in which its calls take the lock.
THEOREM NextIncreases == Spec => Increasing
<1>1. GenInv /\ [Next]_vars =>
        [~ranged => \A new \in issued' \ issued, old \in issued : Less(old, new)]_issued
  <2> SUFFICES ASSUME GenInv, [Next]_vars, ~ranged, issued' # issued
               PROVE  \A new \in issued' \ issued, old \in issued : Less(old, new)
    OBVIOUS
  <2>1. ~ranged'
    BY DEF Next, vars, Tick, ReadClock, NewMillisecond, SameMillisecond, SameMillisecondN,
           Exhausted, SpinEnds, ClockBackward, NextAt, NextNAt, HandOut
  <2> QED
    BY <2>1, GenStep DEF GenInv
<1> QED
  BY <1>1, GenInvariant, PTL DEF Spec, Increasing

\* NextN repeats nothing of an earlier millisecond but the zeroes it leaves in a
\* result, whatever the clock does.
THEOREM RepeatsAreRecent == Spec => EarlierAreSafe
<1>1. GenInv /\ [Next]_vars => [\A id \in twice' \ twice : id[1] \in {0, time}]_twice
  BY ReachedStep DEF GenInv
<1> QED
  BY <1>1, GenInvariant, PTL DEF Spec, EarlierAreSafe
=============================================================================
