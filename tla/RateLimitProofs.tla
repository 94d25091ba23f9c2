-------------------------- MODULE RateLimitProofs --------------------------
(***************************************************************************)
(* The rate limiter keeps to all its windows, whatever their number, spans *)
(* and caps and however many goroutines call it, and never has a caller    *)
(* wait twice for nothing, as long as two readings of the clock always     *)
(* differ.                                                                 *)
(***************************************************************************)
EXTENDS RateLimit, FiniteSetTheorems, WellFoundedInduction, TLAPS

LimiterTypes ==
  /\ now \in Nat
  /\ admitted \in Seq(Nat)
  /\ pruned \in [Window -> Nat]

\* Every call was let through at an earlier reading of the clock.
CallsArePast == \A i \in DOMAIN admitted : admitted[i] < now

\* What a window has dropped from its slice is too old to count.
PrunedAreOld ==
  \A w \in Window :
    /\ pruned[w] <= Len(admitted)
    /\ \A i \in 1 .. pruned[w] : admitted[i] + Per[w] < now

Inv == LimiterTypes /\ CallsArePast /\ PrunedAreOld /\ WindowsHold

LEMMA LimiterInit == Init => Inv
  BY WindowAssumption
  DEF Init, Inv, LimiterTypes, CallsArePast, PrunedAreOld, WindowsHold

\* Pruning a slice leaves what has been dropped old.
LEMMA PruneKeepsOld ==
  ASSUME Inv, NEW w \in Window, NEW k, PruneBefore(w, k)
  PROVE  /\ k \in 0 .. Len(admitted)
         /\ \A i \in 1 .. k : admitted[i] + Per[w] < now
         /\ k < Len(admitted) => admitted[k + 1] + Per[w] >= now
<1>1. pruned[w] \in Nat /\ Len(admitted) \in Nat
  BY DEF Inv, LimiterTypes
<1> QED
  BY <1>1 DEF Inv, PrunedAreOld, PruneBefore

\* A new call comes Per after the one Max places before it: that one has left
\* the slice, or it is the oldest in the slice and no delay is left.  It cannot
\* be a younger one: the slice would then hold a call that came Per after the
\* oldest, which is not in the past yet.
LEMMA NewCallIsLate ==
  ASSUME Inv, NEW w \in Window, NEW k, PruneBefore(w, k),
         Full(w, k) => Delay(w, k) <= 0,
         NEW i \in DOMAIN admitted, i + Max[w] = Len(admitted) + 1
  PROVE  now - admitted[i] >= Per[w]
<1> DEFINE n == Len(admitted)
<1>1. /\ now \in Nat /\ Per[w] \in Nat /\ Max[w] \in Nat \ {0} /\ n \in Nat
      /\ \A j \in 1 .. n : admitted[j] \in Nat
      /\ DOMAIN admitted = 1 .. n
  BY WindowAssumption DEF Inv, LimiterTypes
<1>2. /\ k \in 0 .. n
      /\ \A j \in 1 .. k : admitted[j] + Per[w] < now
      /\ k < n => admitted[k + 1] + Per[w] >= now
  BY PruneKeepsOld
<1>3. CASE i <= k
  BY <1>1, <1>2, <1>3
<1>4. CASE i = k + 1
  <2>1. admitted[k + 1] + Per[w] - now <= 0
    BY <1>1, <1>2, <1>4 DEF Full, Delay
  <2> QED
    BY <1>1, <1>4, <2>1
<1>5. CASE i > k + 1
  <2>1. k + 1 \in 1 .. n /\ k + 1 + Max[w] \in 1 .. n
    BY <1>1, <1>2, <1>5, SMTT(30)
  <2>2. admitted[k + 1 + Max[w]] - admitted[k + 1] >= Per[w]
    BY <1>1, <2>1 DEF Inv, WindowsHold
  <2>3. admitted[k + 1 + Max[w]] < now
    BY <1>1, <2>1 DEF Inv, CallsArePast
  <2> QED
    BY <1>1, <1>2, <2>1, <2>2, <2>3, SMTT(30)
<1> QED
  BY <1>1, <1>2, <1>3, <1>4, <1>5

LEMMA AcquireKeeps ==
  ASSUME DistinctReadings, Inv, NEW c, NEW kept \in [Window -> 0 .. Len(admitted)],
         Acquire(c, kept)
  PROVE  Inv'
<1> DEFINE n == Len(admitted)
<1>1. /\ now' = now + 1
      /\ pruned' = kept
      /\ admitted' = Append(admitted, now)
      /\ \A w \in Window : PruneBefore(w, kept[w])
  BY DEF Acquire, Attempt
<1>2. /\ now \in Nat /\ n \in Nat /\ admitted \in Seq(Nat)
      /\ DOMAIN admitted = 1 .. n
      /\ DOMAIN admitted' = 1 .. n + 1
      /\ admitted'[n + 1] = now
      /\ \A j \in 1 .. n : admitted[j] \in Nat /\ admitted'[j] = admitted[j]
      /\ Len(admitted') = n + 1
  BY <1>1 DEF Inv, LimiterTypes
<1>3. LimiterTypes'
  BY <1>1, <1>2 DEF LimiterTypes
<1>4. CallsArePast'
  BY <1>1, <1>2 DEF Inv, CallsArePast
<1>5. PrunedAreOld'
  <2>1. ASSUME NEW w \in Window
        PROVE  /\ kept[w] <= n + 1
               /\ \A i \in 1 .. kept[w] : admitted'[i] + Per[w] < now + 1
    <3>1. Per[w] \in Nat
      BY WindowAssumption
    <3>2. kept[w] \in 0 .. n /\ \A i \in 1 .. kept[w] : admitted[i] + Per[w] < now
      BY <1>1, PruneKeepsOld
    <3> QED
      BY <1>2, <3>1, <3>2
  <2> QED
    BY <1>1, <1>2, <2>1 DEF PrunedAreOld
<1>6. WindowsHold'
  <2> SUFFICES ASSUME NEW w \in Window, NEW i \in 1 .. n + 1, i + Max[w] \in 1 .. n + 1
               PROVE  admitted'[i + Max[w]] - admitted'[i] >= Per[w]
    BY <1>2 DEF WindowsHold
  <2>1. Max[w] \in Nat \ {0}
    BY WindowAssumption
  <2>2. i \in 1 .. n
    BY <1>2, <2>1
  <2>3. CASE i + Max[w] <= n
    <3>1. i + Max[w] \in 1 .. n
      BY <1>2, <2>1, <2>3
    <3>2. admitted[i + Max[w]] - admitted[i] >= Per[w]
      BY <1>2, <2>2, <3>1 DEF Inv, WindowsHold
    <3> QED
      BY <1>2, <2>2, <3>1, <3>2
  <2>4. CASE i + Max[w] = n + 1
    <3>1. Full(w, kept[w]) => Delay(w, kept[w]) <= 0
      BY DEF Acquire, Delays
    <3>2. now - admitted[i] >= Per[w]
      BY <1>1, <1>2, <2>2, <2>4, <3>1, NewCallIsLate
    <3> QED
      BY <1>2, <2>2, <2>4, <3>2
  <2> QED
    BY <1>2, <2>1, <2>3, <2>4
<1> QED
  BY <1>3, <1>4, <1>5, <1>6 DEF Inv

\* The clock moves on and slices are pruned; nothing new is let through.
LEMMA WaitingKeeps ==
  ASSUME Inv, admitted' = admitted, now' \in Nat, now <= now',
         pruned' \in [Window -> Nat],
         \A w \in Window : pruned'[w] = pruned[w] \/ PruneBefore(w, pruned'[w])
  PROVE  Inv'
<1>1. /\ now \in Nat /\ Len(admitted) \in Nat
      /\ \A i \in DOMAIN admitted : admitted[i] \in Nat
      /\ DOMAIN admitted = 1 .. Len(admitted)
  BY DEF Inv, LimiterTypes
<1>2. LimiterTypes' /\ WindowsHold'
  BY DEF Inv, LimiterTypes, WindowsHold
<1>3. CallsArePast'
  BY <1>1 DEF Inv, CallsArePast
<1>4. ASSUME NEW w \in Window
      PROVE  /\ pruned'[w] <= Len(admitted)
             /\ \A i \in 1 .. pruned'[w] : admitted[i] + Per[w] < now'
  <2>1. Per[w] \in Nat /\ pruned'[w] \in Nat
    BY WindowAssumption
  <2>2. /\ pruned'[w] <= Len(admitted)
        /\ \A i \in 1 .. pruned'[w] : admitted[i] + Per[w] < now
    BY <1>1, PruneKeepsOld DEF Inv, PrunedAreOld
  <2> QED
    BY <1>1, <2>1, <2>2, SMTT(30)
<1>5. PrunedAreOld'
  BY <1>4 DEF PrunedAreOld
<1> QED
  BY <1>2, <1>3, <1>5 DEF Inv

LEMMA LimiterStep ==
  ASSUME DistinctReadings
  PROVE  Inv /\ [Next]_vars => Inv'
<1> SUFFICES ASSUME Inv, [Next]_vars PROVE Inv'
  OBVIOUS
<1>1. now \in Nat /\ pruned \in [Window -> Nat]
  BY DEF Inv, LimiterTypes
<1>2. CASE Tick
  BY <1>1, <1>2, WaitingKeeps DEF Tick
<1>3. ASSUME NEW c \in Caller, Call(c) PROVE Inv'
  BY <1>1, <1>3, WaitingKeeps DEF Call
<1>4. ASSUME NEW c \in Caller, Cancel(c) PROVE Inv'
  BY <1>1, <1>4, WaitingKeeps DEF Cancel
<1>5. ASSUME NEW c \in Caller, TryAcquire(c) PROVE Inv'
  <2>1. PICK kept \in [Window -> 0 .. Len(admitted)] :
          Acquire(c, kept) \/ MustWait(c, kept)
    BY <1>5 DEF TryAcquire
  <2>2. CASE Acquire(c, kept)
    BY <2>2, AcquireKeeps
  <2>3. CASE MustWait(c, kept)
    <3>1. /\ admitted' = admitted /\ now' = now + 1 /\ pruned' = kept
          /\ \A w \in Window : PruneBefore(w, kept[w])
      BY <2>3 DEF MustWait, Attempt
    <3>2. kept \in [Window -> Nat]
      <4>1. 0 .. Len(admitted) \subseteq Nat
        BY DEF Inv, LimiterTypes
      <4> QED
        BY <4>1
    <3> QED
      BY <1>1, <3>1, <3>2, WaitingKeeps
  <2> QED
    BY <2>1, <2>2, <2>3
<1>6. CASE UNCHANGED vars
  BY <1>1, <1>6, WaitingKeeps DEF vars
<1> QED
  BY <1>2, <1>3, <1>4, <1>5, <1>6 DEF Next

\* No window ever lets more than Max calls through in a span of Per
\* (ratelimit.go, FixedWindow), if no two readings of the clock are the same.
THEOREM WindowsAlwaysHold ==
  ASSUME DistinctReadings
  PROVE  Spec => []WindowsHold
<1>1. Inv => WindowsHold
  BY DEF Inv
<1> QED
  BY LimiterInit, LimiterStep, <1>1, PTL DEF Spec

-----------------------------------------------------------------------------
\* The time a caller is told to wait

\* Of finitely many numbers one is the largest: the one that the fewest exceed.
LEMMA LargestExists ==
  ASSUME NEW S \in SUBSET Int, IsFiniteSet(S), S # {}
  PROVE  \E x \in S : \A y \in S : y <= x
<1> DEFINE Above(x) == {y \in S : y > x}
           counts == {Cardinality(Above(x)) : x \in S}
           R == {ss \in Nat \X Nat : ss[1] < ss[2]}
<1>1. ASSUME NEW x \in S
      PROVE  IsFiniteSet(Above(x)) /\ Cardinality(Above(x)) \in Nat
  BY FS_Subset, FS_CardinalityType
<1>2. counts \subseteq Nat /\ counts # {}
  BY <1>1
<1>3. \E n \in counts : \A m \in counts : <<m, n>> \notin R
  <2>1. IsWellFoundedOn(R, Nat)
    BY NatLessThanWellFounded DEF OpToRel
  <2> HIDE DEF R, counts
  <2> QED BY <1>2, <2>1, WFMin, Zenon
<1>4. PICK x \in S : \A m \in counts : ~(m < Cardinality(Above(x)))
  BY <1>1, <1>3
<1>5. ASSUME NEW y \in S, y > x PROVE FALSE
  <2>1. Above(y) \subseteq Above(x) /\ y \in Above(x) /\ y \notin Above(y)
    <3>1. x \in Int /\ y \in Int /\ \A z \in S : z \in Int
      OBVIOUS
    <3>2. \A z \in S : z > y => z > x
      BY <1>5, <3>1
    <3>3. ~(y > y)
      BY <3>1
    <3> QED BY <1>5, <3>2, <3>3
  <2>2. Cardinality(Above(y)) < Cardinality(Above(x))
    <3> HIDE DEF Above
    <3>1. /\ Cardinality(Above(y)) <= Cardinality(Above(x))
          /\ Cardinality(Above(y)) = Cardinality(Above(x)) => Above(y) = Above(x)
      BY <1>1, <2>1, FS_Subset
    <3> QED BY <1>1, <2>1, <3>1
  <2> QED BY <1>4, <2>2
<1> QED BY <1>5

WaitTypes == caller \in [Caller -> [pc : {"idle", "trying", "waiting"}, until : Nat, seen : Nat]]

\* What is true of a caller from the moment it sets its timer: as long as no
\* call is let through, every window has room when the timer fires.
TimersSuffice ==
  \A c \in Caller : caller[c].pc = "waiting" =>
    /\ caller[c].seen <= Len(admitted)
    /\ caller[c].seen = Len(admitted) =>
         \A w \in Window : \A i \in DOMAIN admitted :
           admitted[i] + Per[w] > caller[c].until => Len(admitted) - i + 1 < Max[w]

WaitInv == Inv /\ WaitTypes /\ TimersSuffice

\* No slice holds more than Max calls: the last would have come Per after the
\* first, which is not too old yet.
LEMMA SliceIsNeverOverfull ==
  ASSUME Inv, NEW w \in Window, NEW k, PruneBefore(w, k)
  PROVE  Len(admitted) - k <= Max[w]
<1> DEFINE n == Len(admitted)
<1>1. /\ now \in Nat /\ Per[w] \in Nat /\ Max[w] \in Nat \ {0} /\ n \in Nat
      /\ \A j \in 1 .. n : admitted[j] \in Nat
      /\ DOMAIN admitted = 1 .. n
  BY WindowAssumption DEF Inv, LimiterTypes
<1>2. /\ k \in 0 .. n
      /\ k < n => admitted[k + 1] + Per[w] >= now
  BY PruneKeepsOld
<1>3. ASSUME n - k > Max[w] PROVE FALSE
  <2>1. k + 1 \in 1 .. n /\ k + 1 + Max[w] \in 1 .. n
    BY <1>1, <1>2, <1>3
  <2>2. admitted[k + 1 + Max[w]] - admitted[k + 1] >= Per[w]
    BY <1>1, <2>1 DEF Inv, WindowsHold
  <2>3. admitted[k + 1 + Max[w]] < now
    BY <1>1, <2>1 DEF Inv, CallsArePast
  <2> QED BY <1>1, <1>2, <2>1, <2>2, <2>3
<1> QED BY <1>1, <1>2, <1>3

\* The timer that is set outlasts the delay of every window that is full.
LEMMA WaitCoversDelays ==
  ASSUME Inv, NEW kept \in [Window -> 0 .. Len(admitted)],
         \A w \in Window : PruneBefore(w, kept[w]),
         \E d \in Delays(kept) : d > 0
  PROVE  /\ Wait(kept) \in Nat \ {0}
         /\ \A w \in Window : Full(w, kept[w]) => Delay(w, kept[w]) <= Wait(kept)
<1> DEFINE full == {w \in Window : Full(w, kept[w])}
<1>1. Delays(kept) = {Delay(w, kept[w]) : w \in full}
  BY DEF Delays
<1>2. IsFiniteSet(Delays(kept))
  <2>1. IsFiniteSet(full)
    BY WindowAssumption, FS_Subset
  <2> DEFINE delay == [w \in full |-> Delay(w, kept[w])]
  <2>2. delay \in Surjection(full, Delays(kept))
    BY <1>1 DEF Surjection
  <2> HIDE DEF full, delay
  <2> QED BY <2>1, <2>2, FS_Surjection
<1>3. Delays(kept) \subseteq Int
  <2> SUFFICES ASSUME NEW w \in Window, Full(w, kept[w]) PROVE Delay(w, kept[w]) \in Int
    BY DEF Delays
  <2>1. /\ now \in Nat /\ Per[w] \in Nat /\ Max[w] \in Nat \ {0} /\ Len(admitted) \in Nat
        /\ \A j \in 1 .. Len(admitted) : admitted[j] \in Nat
    BY WindowAssumption DEF Inv, LimiterTypes
  <2>2. kept[w] + 1 \in 1 .. Len(admitted)
    BY <2>1 DEF Full
  <2> QED BY <2>1, <2>2 DEF Delay
<1>4. \E d \in Delays(kept) : \A e \in Delays(kept) : e <= d
  BY <1>2, <1>3, LargestExists
<1>5. Wait(kept) \in Delays(kept) /\ \A e \in Delays(kept) : e <= Wait(kept)
  BY <1>4 DEF Wait
<1>6. Wait(kept) \in Nat \ {0}
  BY <1>3, <1>5
<1> QED BY <1>5, <1>6 DEF Delays

LEMMA WaitInit == Init => WaitInv
  BY LimiterInit DEF Init, WaitInv, WaitTypes, TimersSuffice, Idle

\* A step of other callers, or of time, in which no call is let through.
LEMMA TimersStay ==
  ASSUME WaitInv, Inv', admitted' = admitted, WaitTypes',
         \A c \in Caller : caller'[c] = caller[c] \/ caller'[c].pc # "waiting"
  PROVE  WaitInv'
BY DEF WaitInv, TimersSuffice

LEMMA AcquireKeepsTimers ==
  ASSUME WaitInv, Inv', NEW c \in Caller, NEW kept \in [Window -> 0 .. Len(admitted)],
         Acquire(c, kept)
  PROVE  WaitInv'
<1>1. /\ admitted' = Append(admitted, now)
      /\ caller' = [caller EXCEPT ![c] = Idle]
      /\ admitted \in Seq(Nat) /\ now \in Nat
  BY DEF Acquire, WaitInv, Inv, LimiterTypes
<1>2. Len(admitted') = Len(admitted) + 1 /\ Len(admitted) \in Nat
  BY <1>1
<1>3. WaitTypes'
  BY <1>1 DEF WaitInv, WaitTypes, Idle
<1>4. ASSUME NEW d \in Caller, caller'[d].pc = "waiting"
      PROVE  caller'[d].seen <= Len(admitted') /\ caller'[d].seen # Len(admitted')
  <2>1. caller'[d] = caller[d] /\ caller[d].seen \in Nat
    BY <1>1, <1>4 DEF WaitInv, WaitTypes, Idle
  <2>2. caller[d].seen <= Len(admitted)
    BY <1>4, <2>1 DEF WaitInv, TimersSuffice
  <2> QED BY <1>2, <2>1, <2>2
<1>5. TimersSuffice'
  BY <1>4 DEF TimersSuffice
<1> QED BY <1>3, <1>5 DEF WaitInv

LEMMA MustWaitSetsTimer ==
  ASSUME WaitInv, Inv', NEW c \in Caller, NEW kept \in [Window -> 0 .. Len(admitted)],
         MustWait(c, kept)
  PROVE  WaitInv'
<1> DEFINE until == now + Wait(kept)
           n == Len(admitted)
<1>1. /\ \A w \in Window : PruneBefore(w, kept[w])
      /\ \E d \in Delays(kept) : d > 0
      /\ caller' = [caller EXCEPT ![c] = [pc |-> "waiting", until |-> until, seen |-> n]]
      /\ admitted' = admitted
  BY DEF MustWait, Attempt
<1>2. /\ now \in Nat /\ n \in Nat /\ DOMAIN admitted = 1 .. n
      /\ \A i \in 1 .. n : admitted[i] \in Nat
  BY DEF WaitInv, Inv, LimiterTypes
<1>3. /\ Wait(kept) \in Nat \ {0}
      /\ \A w \in Window : Full(w, kept[w]) => Delay(w, kept[w]) <= Wait(kept)
  BY <1>1, WaitCoversDelays DEF WaitInv
<1>4. ASSUME NEW w \in Window, NEW i \in DOMAIN admitted, admitted[i] + Per[w] > until
      PROVE  n - i + 1 < Max[w]
  <2>1. /\ Per[w] \in Nat /\ Max[w] \in Nat /\ kept[w] \in 0 .. n
    BY WindowAssumption
  <2>2. i > kept[w]
    <3>1. \A j \in 1 .. kept[w] : admitted[j] + Per[w] < now
      BY <1>1, PruneKeepsOld DEF WaitInv
    <3>2. admitted[i] + Per[w] > now /\ admitted[i] + Per[w] \in Nat /\ i \in 1 .. n
      <4>1. admitted[i] + Per[w] \in Nat /\ Wait(kept) \in Nat
        BY <1>2, <1>3, <2>1
      <4> QED BY <1>2, <1>4, <4>1
    <3>3. i \notin 1 .. kept[w]
      BY <1>2, <3>1, <3>2
    <3> QED BY <1>2, <2>1, <3>2, <3>3
  <2>3. CASE ~Full(w, kept[w])
    BY <1>2, <2>1, <2>2, <2>3 DEF Full
  <2>4. CASE Full(w, kept[w])
    <3>1. i # kept[w] + 1
      BY <1>2, <1>3, <1>4, <2>1, <2>4 DEF Delay
    <3>2. n - kept[w] <= Max[w]
      BY <1>1, SliceIsNeverOverfull DEF WaitInv
    <3> QED BY <1>2, <2>1, <2>2, <3>1, <3>2
  <2> QED BY <2>3, <2>4
<1>5. WaitTypes'
  <2>1. until \in Nat
    BY <1>2, <1>3
  <2> HIDE DEF until
  <2> QED BY <1>1, <1>2, <2>1 DEF WaitInv, WaitTypes
<1>6. TimersSuffice'
  <2> SUFFICES ASSUME NEW d \in Caller, caller'[d].pc = "waiting"
               PROVE  /\ caller'[d].seen <= n
                      /\ caller'[d].seen = n =>
                           \A w \in Window : \A i \in DOMAIN admitted :
                             admitted[i] + Per[w] > caller'[d].until => n - i + 1 < Max[w]
    BY <1>1 DEF TimersSuffice
  <2>1. CASE d = c
    <3>1. caller'[c] = [pc |-> "waiting", until |-> until, seen |-> n]
      BY <1>1 DEF WaitInv, WaitTypes
    <3> HIDE DEF until
    <3> QED BY <1>2, <1>4, <2>1, <3>1
  <2>2. CASE d # c
    <3>1. caller'[d] = caller[d]
      BY <1>1, <2>2 DEF WaitInv, WaitTypes
    <3> QED BY <3>1 DEF WaitInv, TimersSuffice
  <2> QED BY <2>1, <2>2
<1> QED BY <1>5, <1>6 DEF WaitInv

LEMMA WaitStep ==
  ASSUME DistinctReadings
  PROVE  WaitInv /\ [Next]_vars => WaitInv'
<1> SUFFICES ASSUME WaitInv, [Next]_vars PROVE WaitInv'
  OBVIOUS
<1>1. Inv'
  BY LimiterStep DEF WaitInv
<1>2. CASE Tick
  BY <1>1, <1>2, TimersStay DEF Tick, WaitInv, WaitTypes
<1>3. ASSUME NEW c \in Caller, Call(c) PROVE WaitInv'
  <2>1. now \in Nat
    BY DEF WaitInv, Inv, LimiterTypes
  <2> QED BY <1>1, <1>3, <2>1, TimersStay DEF Call, WaitInv, WaitTypes
<1>4. ASSUME NEW c \in Caller, Cancel(c) PROVE WaitInv'
  BY <1>1, <1>4, TimersStay DEF Cancel, WaitInv, WaitTypes, Idle
<1>5. ASSUME NEW c \in Caller, TryAcquire(c) PROVE WaitInv'
  BY <1>1, <1>5, AcquireKeepsTimers, MustWaitSetsTimer DEF TryAcquire
<1>6. CASE UNCHANGED vars
  BY <1>1, <1>6, TimersStay DEF vars, WaitInv, WaitTypes
<1> QED
  BY <1>2, <1>3, <1>4, <1>5, <1>6 DEF Next

\* Whoever waits as long as it was told to finds room in every window when its
\* timer fires, unless another call was let through meanwhile (ratelimit.go,
\* tryAcquire), if no two readings of the clock are the same.
THEOREM OneWaitIsAlwaysEnough ==
  ASSUME DistinctReadings
  PROVE  Spec => []OneWaitIsEnough
<1>1. WaitInv => OneWaitIsEnough
  <2> SUFFICES ASSUME WaitInv, NEW c \in Caller, caller[c].pc = "waiting",
                      caller[c].until <= now, caller[c].seen = Len(admitted),
                      NEW w \in Window, NEW i \in DOMAIN admitted, admitted[i] + Per[w] > now
               PROVE  Len(admitted) - i + 1 < Max[w]
    BY DEF OneWaitIsEnough
  <2>1. now \in Nat /\ caller[c].until \in Nat /\ Per[w] \in Nat /\ admitted[i] \in Nat
    BY WindowAssumption DEF WaitInv, WaitTypes, Inv, LimiterTypes
  <2>2. admitted[i] + Per[w] \in Nat
    BY <2>1
  <2>3. admitted[i] + Per[w] > caller[c].until
    BY <2>1, <2>2
  <2> QED BY <2>3 DEF WaitInv, TimersSuffice
<1> QED
  BY WaitInit, WaitStep, <1>1, PTL DEF Spec
=============================================================================
