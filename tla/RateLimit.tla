----------------------------- MODULE RateLimit -----------------------------
(***************************************************************************)
(* internal/ratelimit: callers of FixedWindow.Wait share one limiter that  *)
(* enforces several windows at once (googleflights.go gives one to every   *)
(* client of a collector process).                                         *)
(*                                                                         *)
(* tryAcquire holds the mutex from its reading of the clock to its last    *)
(* append, so it is one step.  It appends the same time to the slice of    *)
(* every window and drops only from the front: each slice is the list of   *)
(* all calls let through, without a prefix.                                *)
(***************************************************************************)
EXTENDS Integers, Sequences, FiniteSets

CONSTANTS
  Caller,           \* the goroutines that call Wait
  Window,           \* the windows enforced
  Per, Max,         \* at most Max[w] calls in a span of Per[w]
  DistinctReadings, \* whether two readings of the clock always differ
  LastCall,         \* bound: no Wait is called after this time
  Horizon           \* bound: from here on the clock runs for set timers only

ASSUME WindowAssumption ==
  /\ IsFiniteSet(Window)
  /\ Per \in [Window -> Nat \ {0}] /\ Max \in [Window -> Nat \ {0}]
ASSUME ClockAssumption == DistinctReadings \in BOOLEAN

VARIABLES
  now,       \* the clock
  admitted,  \* when each call was let through, oldest first
  pruned,    \* how many of them each window has dropped from its slice
  caller     \* what each goroutine is doing

vars == <<now, admitted, pruned, caller>>

\* until is when the timer of a waiting caller fires; seen is how many calls
\* had been let through when it was set.
Idle == [pc |-> "idle", until |-> 0, seen |-> 0]

Init ==
  /\ now = 0
  /\ admitted = <<>>
  /\ pruned = [w \in Window |-> 0]
  /\ caller = [c \in Caller |-> Idle]

Call(c) ==
  /\ caller[c].pc = "idle"
  /\ now <= LastCall
  /\ caller' = [caller EXCEPT ![c] = [pc |-> "trying", until |-> now, seen |-> 0]]
  /\ UNCHANGED <<now, admitted, pruned>>

-----------------------------------------------------------------------------
\* tryAcquire

\* pruneBefore: the calls older than the window, and no more than these, go
\* from the front of its slice.
PruneBefore(w, k) ==
  /\ k \in pruned[w] .. Len(admitted)
  /\ \A i \in pruned[w] + 1 .. k : admitted[i] + Per[w] < now
  /\ k < Len(admitted) => admitted[k + 1] + Per[w] >= now

FullMutantOffByOne(w, k) == Len(admitted) - k > Max[w]
Full(w, k) == Len(admitted) - k >= Max[w]

\* How long until the oldest call in a window's slice has left the window.
Delay(w, k) == admitted[k + 1] + Per[w] - now

Delays(kept) == {Delay(w, kept[w]) : w \in {v \in Window : Full(v, kept[v])}}

WaitMutantShortest(kept) ==
  CHOOSE d \in Delays(kept) : d > 0 /\ \A e \in Delays(kept) : e > 0 => d <= e
Wait(kept) == CHOOSE d \in Delays(kept) : \A e \in Delays(kept) : e <= d

\* The goroutine has the mutex, its timer, if it set one, has fired, and every
\* window's slice is pruned.
Attempt(c, kept) ==
  /\ caller[c].pc \in {"trying", "waiting"}
  /\ caller[c].until <= now
  /\ \A w \in Window : PruneBefore(w, kept[w])
  /\ pruned' = kept
  /\ now' = IF DistinctReadings THEN now + 1 ELSE now

Acquire(c, kept) ==
  /\ Attempt(c, kept)
  /\ \A d \in Delays(kept) : d <= 0
  /\ admitted' = Append(admitted, now)
  /\ caller' = [caller EXCEPT ![c] = Idle]

MustWaitMutantNoTimer(c, kept) ==
  /\ Attempt(c, kept)
  /\ \E d \in Delays(kept) : d > 0
  /\ caller' = [caller EXCEPT ![c] =
       [pc |-> "blocked", until |-> now, seen |-> Len(admitted)]]
  /\ UNCHANGED admitted
MustWait(c, kept) ==
  /\ Attempt(c, kept)
  /\ \E d \in Delays(kept) : d > 0
  /\ caller' = [caller EXCEPT ![c] =
       [pc |-> "waiting", until |-> now + Wait(kept), seen |-> Len(admitted)]]
  /\ UNCHANGED admitted

TryAcquire(c) ==
  \E kept \in [Window -> 0 .. Len(admitted)] : Acquire(c, kept) \/ MustWait(c, kept)

-----------------------------------------------------------------------------

\* The context is done before the timer.
Cancel(c) ==
  /\ caller[c].pc = "waiting"
  /\ caller' = [caller EXCEPT ![c] = Idle]
  /\ UNCHANGED <<now, admitted, pruned>>

Tick ==
  /\ now < Horizon \/ \E c \in Caller : caller[c].until > now
  /\ now' = now + 1
  /\ UNCHANGED <<admitted, pruned, caller>>

Next == Tick \/ \E c \in Caller : Call(c) \/ TryAcquire(c) \/ Cancel(c)

Spec == Init /\ [][Next]_vars

\* Time passes, and a goroutine whose timer has fired gets the mutex.
Fairness == WF_vars(Tick) /\ \A c \in Caller : WF_vars(TryAcquire(c))

FairSpec == Spec /\ Fairness

-----------------------------------------------------------------------------
\* Properties

\* Of any Max + 1 calls in a row, the last comes no less than Per after the
\* first, in every window and whichever goroutines make them: "at most Max
\* calls within any trailing Per-long span" (ratelimit.go, Window).
WindowsHold ==
  \A w \in Window : \A i \in DOMAIN admitted :
    i + Max[w] \in DOMAIN admitted => admitted[i + Max[w]] - admitted[i] >= Per[w]

\* A caller that was told how long to wait is let through when its timer fires,
\* unless another call was let through meanwhile (ratelimit.go, tryAcquire).
OneWaitIsEnough ==
  \A c \in Caller :
    caller[c].pc = "waiting" /\ caller[c].until <= now /\ caller[c].seen = Len(admitted)
      => \A w \in Window : \A i \in DOMAIN admitted :
           admitted[i] + Per[w] > now => Len(admitted) - i + 1 < Max[w]

\* Once no more calls come in, every Wait returns: no two callers keep each
\* other waiting (ratelimit.go, Wait).
EveryWaitReturns == \A c \in Caller : caller[c].pc # "idle" ~> caller[c].pc = "idle"
=============================================================================
