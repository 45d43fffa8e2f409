------------------------------- MODULE IdGen -------------------------------
(***************************************************************************)
(* The identifier generator of utility/idgen/id.go, used by several        *)
(* goroutines.  An identifier is the pair of a millisecond and a sequence  *)
(* number; the node and element masks, the same for all identifiers of a   *)
(* generator, and the epoch are left out.                                  *)
(***************************************************************************)
EXTENDS Integers

CONSTANTS
    Thread,         \* goroutines that share the generator
    MaxInt32,       \* maxValueInt32
    NoRewindBelow,  \* opt.DoNotRewindElementIdBefore
    Counts,         \* the cnt of the calls of NextN; make panics at a negative one at once
    ClockGoesBack,  \* whether the wall clock may be set back
    MaxTime         \* bound of the model: the wall clock stops there

ASSUME IntAssumption == MaxInt32 \in Nat \ {0} /\ NoRewindBelow \in 0 .. MaxInt32
ASSUME CountAssumption == Counts \subseteq Nat
ASSUME ClockAssumption == ClockGoesBack \in BOOLEAN /\ MaxTime \in Nat

VARIABLES
    clock,      \* the wall clock, in milliseconds
    time, seq,  \* the fields of the generator
    pc,         \* "idle", "lock" (clock read, lock not taken), "spin" (in tillNextMillisecond)
    now,        \* timeInMills
    cnt,        \* the argument of NextN, NoCount in a call of Next
    issued,     \* all the identifiers handed out
    twice,      \* those handed out more than once
    ranged      \* history: NextN has been called

vars == <<clock, time, seq, pc, now, cnt, issued, twice, ranged>>

Int32 == (-MaxInt32 - 1) .. MaxInt32

NoCount == -1

\* Conversion to int32, and its arithmetic.
Wrap(n) == ((n + MaxInt32 + 1) % (2 * (MaxInt32 + 1))) - (MaxInt32 + 1)

TypeOK ==
    /\ clock \in Nat /\ time \in Nat
    /\ seq \in Int32
    /\ pc \in [Thread -> {"idle", "lock", "spin"}]
    /\ now \in [Thread -> Nat]
    /\ cnt \in [Thread -> Counts \cup {NoCount}]
    /\ issued \subseteq Nat \X Int32
    /\ twice \subseteq issued
    /\ ranged \in BOOLEAN

\* CompareTo(id1, id2) < 0.
Less(id1, id2) == id1[1] < id2[1] \/ (id1[1] = id2[1] /\ id1[2] < id2[2])

Init ==
    /\ clock = 1 /\ time = 0 /\ seq = 0
    /\ pc = [t \in Thread |-> "idle"]
    /\ now = [t \in Thread |-> 0]
    /\ cnt = [t \in Thread |-> NoCount]
    /\ issued = {} /\ twice = {} /\ ranged = FALSE

-----------------------------------------------------------------------------
\* getTimeMillis, before the lock is taken.
ReadClock(t, n) ==
    /\ pc[t] = "idle"
    /\ pc' = [pc EXCEPT ![t] = "lock"]
    /\ now' = [now EXCEPT ![t] = clock]
    /\ cnt' = [cnt EXCEPT ![t] = n]
    /\ ranged' = (ranged \/ n # NoCount)
    /\ UNCHANGED <<clock, time, seq, issued, twice>>

\* The lock is held across a step only by a goroutine that spins.
Locked == \E t \in Thread : pc[t] = "spin"
\* Mutant of Enters: the lock is released while spinning.
EntersAnyway(t) == pc[t] = "lock"

Enters(t) == pc[t] = "lock" /\ ~Locked

\* The call returns and its locals are gone.
Return(t) ==
    /\ pc' = [pc EXCEPT ![t] = "idle"]
    /\ now' = [now EXCEPT ![t] = 0]
    /\ cnt' = [cnt EXCEPT ![t] = NoCount]

HandOut(t, ids) ==
    /\ issued' = issued \cup ids
    /\ twice' = twice \cup (ids \cap issued)
    /\ Return(t)
    /\ UNCHANGED <<clock, ranged>>

\* makeIdRange counts in int32, which never gets past MaxInt32: beyond the result,
\* which has n elements, it panics.
Overruns(from, to, n) == to = MaxInt32 \/ to - from >= n

\* makeIdRange: a call that panics returns nothing, and what is left of the result
\* stays zero.  (The fields were set and the lock released before.)
IdRange(ms, from, to, n) ==
    IF Overruns(from, to, n) THEN {}
    ELSE {<<ms, s>> : s \in from .. to} \cup {id \in {<<0, 0>>} : n > 0 /\ to - from + 1 < n}

\* Next in a new millisecond: sequence 0, whatever is left in seq.
NextAt(t, ms) ==
    /\ time' = ms
    /\ seq' = IF NoRewindBelow < seq THEN 0 ELSE seq
    /\ HandOut(t, {<<ms, 0>>})

\* NextN in a new millisecond.
NextNAt(t, ms) ==
    /\ time' = ms
    /\ seq' = Wrap(seq + Wrap(cnt[t] - 1))
    /\ HandOut(t, IdRange(ms, 0, Wrap(cnt[t] - 1), cnt[t]))

\* Mutant of NewMillisecond: a clock that went back is taken for a new time.
AnyOtherMillisecond(t) ==
    /\ Enters(t) /\ now[t] # time
    /\ IF cnt[t] = NoCount THEN NextAt(t, now[t]) ELSE NextNAt(t, now[t])

NewMillisecond(t) ==
    /\ Enters(t) /\ now[t] > time
    /\ IF cnt[t] = NoCount THEN NextAt(t, now[t]) ELSE NextNAt(t, now[t])

SameMillisecond(t) ==
    /\ Enters(t) /\ now[t] = time /\ cnt[t] = NoCount
    /\ seq < MaxInt32
    /\ seq' = seq + 1
    /\ HandOut(t, {<<now[t], seq + 1>>})
    /\ UNCHANGED time

\* NextN again: the range starts at the sequence number handed out last.  A seq
\* that wraps makes it empty, or, at the least int32, the call panic.
SameMillisecondN(t) ==
    /\ Enters(t) /\ now[t] = time /\ cnt[t] # NoCount
    /\ seq' = Wrap(seq + Wrap(cnt[t] - 1))
    /\ seq' < MaxInt32
    /\ HandOut(t, IdRange(now[t], seq, Wrap(seq' - 1), cnt[t]))
    /\ UNCHANGED time

\* The sequence is used up: tillNextMillisecond, with the lock held.
Exhausted(t) ==
    /\ Enters(t) /\ now[t] = time
    /\ IF cnt[t] = NoCount THEN seq = MaxInt32 ELSE Wrap(seq + Wrap(cnt[t] - 1)) = MaxInt32
    /\ pc' = [pc EXCEPT ![t] = "spin"]
    /\ UNCHANGED <<clock, time, seq, now, cnt, issued, twice, ranged>>

SpinEnds(t) ==
    /\ pc[t] = "spin" /\ clock > now[t]
    /\ IF cnt[t] = NoCount THEN NextAt(t, clock) ELSE NextNAt(t, clock)

ClockBackward(t) ==
    /\ Enters(t) /\ now[t] < time
    /\ Return(t)
    /\ UNCHANGED <<clock, time, seq, issued, twice, ranged>>

Tick ==
    /\ \/ clock < MaxTime /\ clock' = clock + 1
       \/ ClockGoesBack /\ clock > 1 /\ clock' = clock - 1
    /\ UNCHANGED <<time, seq, pc, now, cnt, issued, twice, ranged>>

Next ==
    \/ Tick
    \/ \E t \in Thread :
          \/ \E n \in Counts \cup {NoCount} : ReadClock(t, n)
          \/ NewMillisecond(t)
          \/ SameMillisecond(t)
          \/ SameMillisecondN(t)
          \/ Exhausted(t)
          \/ SpinEnds(t)
          \/ ClockBackward(t)

Spec == Init /\ [][Next]_vars

-----------------------------------------------------------------------------
(***************************************************************************)
(* Properties.                                                             *)
(***************************************************************************)

\* id_test.go: "id should not equals".  As long as only Next is called, no
\* identifier is handed out twice.
Unique == ~ranged => twice = {}

\* As long as only Next is called, identifiers grow (CompareTo) in the order in
\* which the lock is taken, even when the clock is set back.
Increasing ==
    [][~ranged => \A new \in issued' \ issued, old \in issued : Less(old, new)]_issued

\* What NextN hands out twice (its FIXME) it hands out within the millisecond
\* the generator was in already, or it is the zero it leaves in a result: no
\* identifier of an earlier millisecond is repeated, even when the clock is set
\* back, and a new millisecond starts with none.
EarlierAreSafe == [][\A id \in twice' \ twice : id[1] \in {0, time}]_twice
=============================================================================
