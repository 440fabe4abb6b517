------------------------- MODULE SupervisionProofs --------------------------
(***************************************************************************)
(* Proofs about Supervision: its types and its safety properties, for      *)
(* every minimal delay, stuck interval, number of PIDs and interval of the *)
(* guard.                                                                  *)
(***************************************************************************)
EXTENDS Supervision, TLAPS

Place == {"idle", "check", "tune", "clock", "store", "stop", "start"}

(* The types; timers do not exceed their intervals. *)
TypeOK ==
    /\ alive \in BOOLEAN
    /\ stuckinterval \in Nat
    /\ pc \in [Thread -> Place]
    /\ tunelast \in 0 .. MinDelay
    /\ stamp \in [Thread -> 0 .. MinDelay]
    /\ since \in [Thread -> 0 .. MinDelay]
    /\ raced \in 0 .. MinDelay
    /\ checkDue \in 0 .. CheckInterval
    /\ stuckDue \in 0 .. stuckinterval
    /\ reads \in {0, 1}
    /\ quiet \in 0 .. stuckinterval
    /\ open \subseteq Pid \cup {Full}
    /\ running \subseteq open

(* The event loop bounces filters within one handler: between the two      *)
(* loops some are stopped, at any other time none is.                      *)
BounceInv == pc["loop"] # "start" => running = open

(* A thread t has tuned after the moment a time was read only if both were *)
(* tuning since t did.                                                     *)
NotAfter(t, time) == since[t] >= time \/ since[t] >= raced

(* tunelast is not older than a tuning, and neither is a time that is about *)
(* to be stored, unless the threads have raced since that tuning; so no    *)
(* thread passes the check too early but after a race.                     *)
DebounceInv ==
    /\ (\A t \in Thread : pc[t] \in {"tune", "clock", "store"}) => raced = 0
    /\ \A t \in Thread :
         /\ pc[t] \notin {"clock", "store"} => NotAfter(t, tunelast)
         /\ pc[t] = "store" => \A u \in Thread : NotAfter(u, stamp[t])
         /\ pc[t] = "tune" => \A u \in Thread : since[u] >= raced

(* With no reads counted, the time since the timer was set has been quiet; *)
(* and so has the whole interval once a lockup is found, as the event loop *)
(* that would read is busy.                                                *)
QuietInv ==
    /\ pc["loop"] = "idle" /\ reads = 0 => quiet >= stuckinterval - stuckDue
    /\ pc["loop"] \in {"check", "tune", "clock", "store", "stop"} => quiet >= stuckinterval

CardInv == TypeOK /\ BounceInv /\ DebounceInv /\ QuietInv

GuardTypeOK ==
    /\ guardcounter \in {0, 1}
    /\ guard \in {"wait", "reset", "aborted"}
    /\ guardDue \in 0 .. GuardInterval
    /\ beatDue \in 0 .. BeatInterval
    /\ silent \in 0 .. GuardInterval

(* If the counter is 0 after the reset, guard_evtimer has not come since;  *)
(* and without the stuck timer the event loop only waits, so guard_evtimer *)
(* is never late.                                                          *)
GuardInv ==
    /\ guard = "wait" /\ guardcounter = 0 => silent >= GuardInterval - guardDue
    /\ stuckinterval = 0 =>
         pc["loop"] = "idle" /\ silent + beatDue <= BeatInterval
    /\ guard = "aborted" => ~alive /\ silent >= GuardInterval

IInv == CardInv /\ GuardTypeOK /\ GuardInv
USE DEF Thread

(* Tick is monotone: a bounded clock goes on or stays at its bound. *)
LEMMA LaterBetween ==
    ASSUME NEW top \in Nat, NEW time \in 0 .. top
    PROVE  /\ Later(time, top) \in 0 .. top
           /\ Later(time, top) >= time
           /\ time < top => Later(time, top) = time + 1
BY DEF Later

LEMMA SoonerBetween ==
    ASSUME NEW top \in Nat, NEW time \in 0 .. top
    PROVE  /\ Sooner(time) \in 0 .. top
           /\ Sooner(time) >= time - 1
           /\ Sooner(time) <= time
BY DEF Sooner

(* dmx_bounce_filter reaches every filter, that of the transponder too. *)
LEMMA BounceAll ==
    ASSUME NEW o \in SUBSET (Pid \cup {Full})
    PROVE  Stopped(o) = o /\ Started(o) = o
<1>1. \A p \in o : p \in 0 .. PidMax + 1
  BY SupervisionAssumption DEF Pid, Full
<1> QED BY <1>1 DEF Stopped, Started

(* Both threads are tuning. *)
LEMMA BothTuning ==
    ASSUME NEW p
    PROVE  Tuning(p) = Thread <=>
             \A t \in Thread : p[t] \in {"tune", "clock", "store"}
BY DEF Tuning

(* The step of Return: the thread goes on where fe_retune was called. *)
LEMMA ReturnType ==
    ASSUME TypeOK, NEW t \in Thread, Return(t)
    PROVE  /\ pc' \in [Thread -> Place]
           /\ checkDue' \in 0 .. CheckInterval
           /\ pc'["loop"] = IF t = "loop" THEN "stop" ELSE pc["loop"]
           /\ pc'[t] \in {"idle", "stop"}
           /\ \A u \in Thread \ {t} : pc'[u] = pc[u]
BY SupervisionAssumption DEF TypeOK, Return, Place

-----------------------------------------------------------------------------
(* The invariant holds when main enters the event loop. *)
LEMMA InitKeeps ==
    ASSUME Init PROVE CardInv
<1>1. 0 \in Pid /\ MinDelay \in Nat /\ CheckInterval \in Nat /\ stuckinterval \in Nat
  BY SupervisionAssumption DEF Init, Pid
<1>2. open \subseteq Pid \cup {Full} /\ running = open
  BY <1>1 DEF Init
<1>3. TypeOK
  BY <1>1, <1>2 DEF Init, TypeOK, debounce, Place
<1>4. BounceInv /\ QuietInv
  BY <1>1, <1>2 DEF Init, BounceInv, QuietInv
<1>5. DebounceInv
  BY <1>1 DEF Init, DebounceInv, debounce, NotAfter
<1> QED BY <1>3, <1>4, <1>5 DEF CardInv

(* fe_retune keeps the invariant, in either thread. *)
LEMMA RetuneKeeps ==
    ASSUME CardInv, NEW t \in Thread, Retune(t)
    PROVE  CardInv'
<1> USE SupervisionAssumption DEF CardInv
<1>1. CASE TooEarly(t)
  <2>1. /\ pc[t] = "check" /\ Return(t) /\ TypeOK
        /\ UNCHANGED <<alive, stuckinterval, debounce, stuckDue, quiet, reads,
                       open, running>>
    BY <1>1 DEF TooEarly, fixed, debounce, filters, card
  <2>2. TypeOK'
    BY <2>1, ReturnType DEF TypeOK, debounce, Place
  <2>3. BounceInv'
    BY <2>1, ReturnType DEF BounceInv
  <2>4. DebounceInv'
    BY <2>1, ReturnType DEF DebounceInv, debounce, NotAfter
  <2>5. QuietInv'
    BY <2>1, ReturnType DEF QuietInv
  <2> QED BY <2>2, <2>3, <2>4, <2>5
<1>2. CASE LateEnough(t)
  <2>1. /\ pc[t] = "check" /\ pc' = [pc EXCEPT ![t] = "tune"] /\ tunelast >= MinDelay
        /\ raced' = IF Tuning(pc') = Thread THEN 0 ELSE raced
        /\ UNCHANGED <<alive, stuckinterval, tunelast, stamp, since, checkDue, stuckDue,
                       quiet, reads, open, running>>
    BY <1>2 DEF LateEnough, fixed, filters, card
  <2>2. TypeOK'
    BY <2>1 DEF TypeOK, Place
  <2>3. BounceInv'
    BY <2>1 DEF BounceInv, TypeOK
  <2>4. DebounceInv'
    <3>1. pc'[t] = "tune" /\ \A u \in Thread \ {t} : pc'[u] = pc[u]
      BY <2>1 DEF TypeOK
    <3>2. CASE Tuning(pc') = Thread
      <4>1. raced' = 0
        BY <2>1, <3>2
      <4>2. since' = since /\ \A u \in Thread : since[u] \in 0 .. MinDelay
        BY <2>1 DEF TypeOK
      <4>3. \A u \in Thread : since'[u] >= raced'
        BY <4>1, <4>2
      <4> QED BY <4>1, <4>3 DEF DebounceInv, NotAfter
    <3>3. CASE Tuning(pc') # Thread
      <4>1. raced' = raced
        BY <2>1, <3>3
      <4>2. ASSUME NEW u \in Thread PROVE since[u] >= raced
        <5>1. pc[u] \notin {"clock", "store"}
          BY <3>1, <3>3, BothTuning, <2>1
        <5> QED BY <5>1, <2>1 DEF DebounceInv, NotAfter, TypeOK
      <4> QED BY <2>1, <3>1, <3>3, <4>1, <4>2, BothTuning DEF DebounceInv, NotAfter
    <3> QED BY <3>2, <3>3
  <2>5. QuietInv'
    BY <2>1 DEF QuietInv, TypeOK
  <2> QED BY <2>2, <2>3, <2>4, <2>5
<1>3. CASE Tune(t)
  <2>1. /\ pc[t] = "tune" /\ pc' = [pc EXCEPT ![t] = "clock"]
        /\ since' = [since EXCEPT ![t] = 0]
        /\ UNCHANGED <<alive, stuckinterval, tunelast, stamp, raced, checkDue, stuckDue,
                       quiet, reads, open, running>>
    BY <1>3 DEF Tune, fixed, filters
  <2>2. TypeOK'
    BY <2>1 DEF TypeOK, Place
  <2>3. BounceInv'
    BY <2>1 DEF BounceInv, TypeOK
  <2>4. DebounceInv'
    <3>1. pc'[t] = "clock" /\ \A u \in Thread \ {t} : pc'[u] = pc[u] /\ since'[u] = since[u]
      BY <2>1 DEF TypeOK
    <3>2. CASE \A u \in Thread : pc[u] \in {"tune", "clock", "store"}
      <4>1. raced' = 0 /\ \A u \in Thread : since'[u] >= raced'
        BY <2>1, <2>2, <3>2 DEF DebounceInv, TypeOK
      <4> QED BY <4>1 DEF DebounceInv, NotAfter
    <3>3. CASE \E u \in Thread : pc[u] \notin {"tune", "clock", "store"}
      BY <2>1, <3>1, <3>3 DEF DebounceInv, NotAfter
    <3> QED BY <3>2, <3>3
  <2>5. QuietInv'
    BY <2>1 DEF QuietInv, TypeOK
  <2> QED BY <2>2, <2>3, <2>4, <2>5
<1>4. CASE TuneFails(t)
  BY <1>4 DEF TuneFails, fixed, clocks, debounce, filters, card, TypeOK, BounceInv,
              DebounceInv, NotAfter, QuietInv
<1>5. CASE ReadClock(t)
  <2>1. /\ pc[t] = "clock" /\ pc' = [pc EXCEPT ![t] = "store"]
        /\ stamp' = [stamp EXCEPT ![t] = 0]
        /\ UNCHANGED <<alive, stuckinterval, tunelast, since, raced, checkDue, stuckDue,
                       quiet, reads, open, running>>
    BY <1>5 DEF ReadClock, fixed, filters
  <2>2. TypeOK'
    BY <2>1 DEF TypeOK, Place
  <2>3. BounceInv'
    BY <2>1 DEF BounceInv, TypeOK
  <2>4. DebounceInv'
    BY <2>1 DEF DebounceInv, NotAfter, TypeOK
  <2>5. QuietInv'
    BY <2>1 DEF QuietInv, TypeOK
  <2> QED BY <2>2, <2>3, <2>4, <2>5
<1>6. CASE Store(t)
  <2>1. /\ pc[t] = "store" /\ Return(t) /\ TypeOK
        /\ tunelast' = stamp[t] /\ stamp' = [stamp EXCEPT ![t] = 0]
        /\ UNCHANGED <<alive, stuckinterval, since, raced, stuckDue, quiet, reads, open,
                       running>>
    BY <1>6 DEF Store, Stored, fixed, filters, card
  <2>2. TypeOK'
    BY <2>1, ReturnType DEF TypeOK
  <2>3. BounceInv'
    BY <2>1, ReturnType DEF BounceInv
  <2>4. DebounceInv'
    <3>1. \A u \in Thread : NotAfter(u, stamp[t])
      BY <2>1 DEF DebounceInv
    <3>2. \A u \in Thread : NotAfter(u, tunelast)'
      BY <2>1, <3>1 DEF NotAfter
    <3>3. /\ pc'[t] \in {"idle", "stop"}
          /\ \A u \in Thread \ {t} : pc'[u] = pc[u] /\ stamp'[u] = stamp[u]
      BY <2>1, ReturnType DEF TypeOK
    <3> QED BY <2>1, <3>2, <3>3 DEF DebounceInv, NotAfter
  <2>5. QuietInv'
    BY <2>1, ReturnType DEF QuietInv
  <2> QED BY <2>2, <2>3, <2>4, <2>5
<1> QED BY <1>1, <1>2, <1>3, <1>4, <1>5, <1>6 DEF Retune

(* The rounds of the frontend thread keep the invariant. *)
LEMMA PollKeeps ==
    ASSUME CardInv, Poll \/ PollFails
    PROVE  CardInv'
<1> USE SupervisionAssumption DEF CardInv
<1>1. /\ pc["thread"] = "idle"
      /\ pc' \in {pc, [pc EXCEPT !["thread"] = "check"]}
      /\ checkDue' \in 0 .. CheckInterval
      /\ UNCHANGED <<alive, stuckinterval, debounce, stuckDue, quiet, reads,
                     open, running>>
  BY DEF Poll, PollFails, fixed, debounce, filters, card
<1>2. TypeOK'
  BY <1>1 DEF TypeOK, debounce, Place
<1>3. BounceInv'
  BY <1>1 DEF BounceInv, TypeOK
<1>4. DebounceInv'
  BY <1>1 DEF DebounceInv, TypeOK, debounce, NotAfter, Place
<1>5. QuietInv'
  BY <1>1 DEF QuietInv, TypeOK
<1> QED BY <1>2, <1>3, <1>4, <1>5

-----------------------------------------------------------------------------
(* Reading packets, during which callbacks open and close filters. *)
LEMMA ReadKeeps ==
    ASSUME CardInv, DvrRead \/ DvrReadFails
    PROVE  CardInv'
<1> USE SupervisionAssumption DEF CardInv
<1>1. /\ pc["loop"] = "idle" /\ reads' = 1 /\ quiet' = 0
      /\ UNCHANGED <<alive, stuckinterval, pc, debounce, checkDue, stuckDue>>
  BY DEF DvrRead, DvrReadFails, Counted, fixed, debounce, filters, card
<1>2. running = open
  BY <1>1 DEF BounceInv
<1>3. open' \subseteq Pid \cup {Full} /\ running' = open'
  <2>1. CASE DvrRead
    BY <2>1, <1>2 DEF DvrRead, TypeOK
  <2>2. CASE DvrReadFails
    BY <2>2, <1>2 DEF DvrReadFails, filters, TypeOK
  <2> QED BY <2>1, <2>2
<1>4. TypeOK'
  BY <1>1, <1>3 DEF TypeOK, debounce, Place
<1>5. BounceInv'
  BY <1>3 DEF BounceInv
<1>6. DebounceInv'
  BY <1>1 DEF DebounceInv, debounce, NotAfter
<1>7. QuietInv'
  BY <1>1 DEF QuietInv
<1> QED BY <1>4, <1>5, <1>6, <1>7

(* The stuck timer and the bounce keep the invariant. *)
LEMMA LoopKeeps ==
    ASSUME CardInv, Loop
    PROVE  CardInv'
<1> USE SupervisionAssumption DEF CardInv
<1>1. CASE StuckTimer
  <2>1. /\ pc["loop"] = "idle" /\ reads' = 0 /\ stuckDue' = stuckinterval
        /\ UNCHANGED <<alive, stuckinterval, pc, debounce, checkDue, quiet, open,
                       running>>
    BY <1>1 DEF StuckTimer, fixed, debounce, filters, card
  <2> QED BY <2>1 DEF TypeOK, BounceInv, DebounceInv, QuietInv, debounce, NotAfter, Place
<1>2. CASE StuckTimerLockup
  <2>1. /\ pc["loop"] = "idle" /\ stuckDue = 0 /\ reads = 0
        /\ pc' = [pc EXCEPT !["loop"] = "check"]
        /\ UNCHANGED <<alive, stuckinterval, debounce, checkDue, stuckDue, quiet,
                       reads, open, running>>
    BY <1>2 DEF StuckTimerLockup, fixed, clocks, debounce, filters, card
  <2>2. TypeOK'
    BY <2>1 DEF TypeOK, debounce, Place
  <2>3. BounceInv' /\ DebounceInv'
    BY <2>1 DEF BounceInv, DebounceInv, TypeOK, debounce, NotAfter, Place
  <2>4. QuietInv'
    BY <2>1 DEF QuietInv, TypeOK
  <2> QED BY <2>2, <2>3, <2>4
<1>3. CASE BounceStop
  <2>1. /\ pc["loop"] = "stop" /\ pc' = [pc EXCEPT !["loop"] = "start"]
        /\ running' \subseteq running
        /\ UNCHANGED <<alive, stuckinterval, debounce, checkDue, stuckDue, quiet,
                       reads, open>>
    BY <1>3 DEF BounceStop, fixed, clocks, debounce, card
  <2>2. TypeOK'
    BY <2>1 DEF TypeOK, debounce, Place
  <2>3. BounceInv' /\ DebounceInv'
    BY <2>1 DEF BounceInv, DebounceInv, TypeOK, debounce, NotAfter, Place
  <2>4. QuietInv'
    BY <2>1 DEF QuietInv, TypeOK
  <2> QED BY <2>2, <2>3, <2>4
<1>4. CASE BounceStart
  <2>1. /\ pc["loop"] = "start" /\ pc' = [pc EXCEPT !["loop"] = "idle"]
        /\ running' = running \cup Started(open)
        /\ reads' = 0 /\ stuckDue' = stuckinterval
        /\ UNCHANGED <<alive, stuckinterval, debounce, checkDue, quiet, open>>
    BY <1>4 DEF BounceStart, fixed, debounce
  <2>2. running' = open'
    BY <2>1, BounceAll DEF TypeOK
  <2>3. TypeOK'
    BY <2>1, <2>2 DEF TypeOK, debounce, Place
  <2>4. BounceInv' /\ DebounceInv'
    BY <2>1, <2>2 DEF BounceInv, DebounceInv, NotAfter, TypeOK, debounce
  <2>5. QuietInv'
    BY <2>1 DEF QuietInv, TypeOK
  <2> QED BY <2>3, <2>4, <2>5
<1> QED BY <1>1, <1>2, <1>3, <1>4 DEF Loop

(* Time passes for all clocks at once. *)
LEMMA TickKeeps ==
    ASSUME CardInv, Tick
    PROVE  CardInv'
<1> USE SupervisionAssumption DEF CardInv
<1>1. /\ UNCHANGED <<alive, stuckinterval, pc, reads, open, running>>
      /\ tunelast' = Later(tunelast, MinDelay)
      /\ stamp' = [t \in Thread |-> IF pc[t] = "store" THEN Later(stamp[t], MinDelay) ELSE 0]
      /\ since' = [t \in Thread |-> Later(since[t], MinDelay)]
      /\ raced' = IF Tuning(pc) = Thread THEN 0 ELSE Later(raced, MinDelay)
      /\ quiet' = Later(quiet, stuckinterval)
      /\ checkDue' = Sooner(checkDue)
      /\ stuckDue' = Sooner(stuckDue)
  BY DEF Tick, fixed, filters, card
<1>2. /\ MinDelay \in Nat /\ CheckInterval \in Nat /\ stuckinterval \in Nat
      /\ tunelast \in 0 .. MinDelay /\ quiet \in 0 .. stuckinterval
      /\ checkDue \in 0 .. CheckInterval /\ stuckDue \in 0 .. stuckinterval
      /\ raced \in 0 .. MinDelay
      /\ \A t \in Thread : since[t] \in 0 .. MinDelay /\ stamp[t] \in 0 .. MinDelay
  BY DEF TypeOK
<1>3. TypeOK'
  <2>1. /\ since' \in [Thread -> 0 .. MinDelay] /\ stamp' \in [Thread -> 0 .. MinDelay]
        /\ raced' \in 0 .. MinDelay
    <3>1. /\ \A t \in Thread : Later(since[t], MinDelay) \in 0 .. MinDelay
          /\ \A t \in Thread : Later(stamp[t], MinDelay) \in 0 .. MinDelay
          /\ Later(raced, MinDelay) \in 0 .. MinDelay
      BY <1>2, LaterBetween
    <3>2. 0 \in 0 .. MinDelay
      BY <1>2
    <3> HIDE SupervisionAssumption
    <3> QED BY <1>1, <3>1, <3>2
  <2>2. tunelast' \in 0 .. MinDelay /\ quiet' \in 0 .. stuckinterval
    BY <1>1, <1>2, LaterBetween
  <2>3. checkDue' \in 0 .. CheckInterval /\ stuckDue' \in 0 .. stuckinterval
    BY <1>1, <1>2, SoonerBetween
  <2> QED BY <1>1, <2>1, <2>2, <2>3 DEF TypeOK
<1>4. BounceInv'
  BY <1>1 DEF BounceInv
<1>5. DebounceInv'
  <2>1. ASSUME NEW t \in Thread
        PROVE  /\ since'[t] = Later(since[t], MinDelay)
               /\ pc[t] = "store" => stamp'[t] = Later(stamp[t], MinDelay)
    BY <1>1
  <2>2. raced' = 0 \/ raced' = Later(raced, MinDelay)
    BY <1>1
  <2>3. ASSUME NEW t \in Thread, since[t] >= raced
        PROVE  since'[t] >= raced'
    BY <1>2, <2>1, <2>2, <2>3 DEF Later
  <2>4. ASSUME NEW t \in Thread, NEW time \in 0 .. MinDelay, since[t] >= time
        PROVE  since'[t] >= Later(time, MinDelay)
    BY <1>2, <2>1, <2>4 DEF Later
  <2>5. (\A t \in Thread : pc'[t] \in {"tune", "clock", "store"}) => raced' = 0
    BY <1>1, BothTuning
  <2>6. \A t \in Thread : pc'[t] \notin {"clock", "store"} => NotAfter(t, tunelast)'
    BY <1>1, <1>2, <2>3, <2>4 DEF DebounceInv, NotAfter
  <2>7. \A t \in Thread : pc'[t] = "store" => \A u \in Thread : NotAfter(u, stamp[t])'
    BY <1>1, <1>2, <2>1, <2>3, <2>4 DEF DebounceInv, NotAfter
  <2>8. \A t \in Thread : pc'[t] = "tune" => \A u \in Thread : since'[u] >= raced'
    BY <1>1, <2>3 DEF DebounceInv
  <2> QED BY <2>5, <2>6, <2>7, <2>8 DEF DebounceInv
<1>6. QuietInv'
  BY <1>1, <1>2 DEF QuietInv, Later, Sooner
<1> QED BY <1>3, <1>4, <1>5, <1>6

(* The card changes nothing of what the invariant is about. *)
LEMMA CardKeeps ==
    ASSUME CardInv, LoseLock \/ GetLock \/ LockUp \/ UNCHANGED vars
    PROVE  CardInv'
<1>1. UNCHANGED <<alive, stuckinterval, pc, debounce, checkDue, stuckDue, quiet,
                  reads, open, running>>
  BY DEF LoseLock, GetLock, LockUp, fixed, clocks, debounce, filters, vars
<1> QED BY <1>1 DEF CardInv, TypeOK, BounceInv, DebounceInv, NotAfter, QuietInv, debounce

(* The guard changes nothing of what CardInv is about. *)
LEMMA WatchKeeps ==
    ASSUME CardInv, Beat \/ Guard
    PROVE  CardInv'
<1>1. /\ UNCHANGED <<stuckinterval, pc, debounce, checkDue, stuckDue, quiet,
                     reads, open, running>>
      /\ alive' \in BOOLEAN
  BY DEF Beat, Guard, GuardCheck, GuardReset, fixed, clocks, debounce, filters, CardInv, TypeOK
<1> QED BY <1>1 DEF CardInv, TypeOK, BounceInv, DebounceInv, NotAfter, QuietInv, debounce

(* Every step keeps CardInv. *)
LEMMA StepKeeps ==
    ASSUME CardInv, [Next]_vars
    PROVE  CardInv'
<1>1. ASSUME NEW t \in Thread, Retune(t) PROVE CardInv'
  BY <1>1, RetuneKeeps
<1>2. CASE Poll \/ PollFails
  BY <1>2, PollKeeps
<1>3. CASE Loop
  BY <1>3, LoopKeeps
<1>4. CASE DvrRead \/ DvrReadFails
  BY <1>4, ReadKeeps
<1>5. CASE Tick
  BY <1>5, TickKeeps
<1>6. CASE LoseLock \/ GetLock \/ LockUp \/ UNCHANGED vars
  BY <1>6, CardKeeps
<1>7. CASE Beat \/ Guard
  BY <1>7, WatchKeeps
<1> QED BY <1>1, <1>2, <1>3, <1>4, <1>5, <1>6, <1>7 DEF Next

(* No handler of the event loop begins with the stuck timer disabled, and  *)
(* time goes on for the guard as for guard_evtimer.                        *)
LEMMA GuardKeeps ==
    ASSUME IInv, [Next]_vars
    PROVE  GuardTypeOK' /\ GuardInv'
<1> USE SupervisionAssumption DEF IInv
<1>1. /\ GuardInterval \in Nat /\ BeatInterval \in Nat /\ stuckinterval \in Nat
      /\ BeatInterval > 0 /\ BeatInterval < GuardInterval
      /\ pc \in [Thread -> Place]
  BY DEF CardInv, TypeOK
<1>2. CASE Beat
  <2>1. /\ guardcounter' = 1 /\ beatDue' = BeatInterval /\ silent' = 0 /\ alive
        /\ UNCHANGED <<stuckinterval, pc, guard, guardDue, alive>>
    BY <1>2 DEF Beat, Incremented, fixed
  <2> QED BY <1>1, <2>1 DEF GuardTypeOK, GuardInv
<1>3. CASE GuardCheck
  <2>1. /\ guard = "wait" /\ guardDue = 0
        /\ UNCHANGED <<stuckinterval, pc, guardcounter, guardDue, beatDue, silent>>
    BY <1>3 DEF GuardCheck, fixed
  <2>2. CASE guardcounter = 0 /\ alive' = FALSE /\ guard' = "aborted"
    <3>1. silent >= GuardInterval
      BY <1>1, <2>1, <2>2 DEF GuardTypeOK, GuardInv
    <3> QED BY <2>1, <2>2, <3>1 DEF GuardTypeOK, GuardInv
  <2>3. CASE guard' = "reset"
    BY <2>1, <2>3 DEF GuardTypeOK, GuardInv
  <2> QED BY <1>3, <2>2, <2>3 DEF GuardCheck
<1>4. CASE GuardReset
  <2>1. /\ guardDue' = GuardInterval /\ guardcounter' = 0 /\ guard' = "wait" /\ alive
        /\ UNCHANGED <<stuckinterval, pc, beatDue, silent, alive>>
    BY <1>4 DEF GuardReset, Reset, fixed
  <2> QED BY <1>1, <2>1 DEF GuardTypeOK, GuardInv
<1>5. CASE Tick
  <2>1. /\ alive /\ UNCHANGED <<stuckinterval, pc, guardcounter, guard, alive>>
        /\ pc["loop"] = "idle" => beatDue > 0
        /\ guardDue' = Sooner(guardDue)
        /\ beatDue' = Sooner(beatDue)
        /\ silent' = Later(silent, GuardInterval)
    BY <1>5 DEF Tick, fixed
  <2>2. GuardTypeOK'
    BY <1>1, <2>1, LaterBetween, SoonerBetween DEF GuardTypeOK
  <2>3. guard' = "wait" /\ guardcounter' = 0 => silent' >= GuardInterval - guardDue'
    BY <1>1, <2>1 DEF GuardTypeOK, GuardInv, Later, Sooner
  <2>4. stuckinterval' = 0 =>
          pc'["loop"] = "idle" /\ silent' + beatDue' <= BeatInterval
    BY <1>1, <2>1 DEF GuardTypeOK, GuardInv, Later, Sooner
  <2> QED BY <2>1, <2>2, <2>3, <2>4 DEF GuardInv
<1>6. ASSUME UNCHANGED watch, alive \/ UNCHANGED alive, stuckinterval' = stuckinterval,
             stuckinterval = 0 => pc'["loop"] = "idle"
      PROVE  GuardTypeOK' /\ GuardInv'
  BY <1>1, <1>6 DEF GuardTypeOK, GuardInv, watch
<1>7. ASSUME NEW t \in Thread, Retune(t)
      PROVE  GuardTypeOK' /\ GuardInv'
  <2>1. /\ UNCHANGED watch /\ alive /\ stuckinterval' = stuckinterval
        /\ pc[t] # "idle"
        /\ t # "loop" => pc'["loop"] = pc["loop"]
    BY <1>1, <1>7 DEF Retune, TooEarly, LateEnough, Tune, TuneFails,
               ReadClock, Store, Return, fixed
  <2> QED BY <1>6, <2>1 DEF GuardInv
<1>8. CASE Loop
  <2>1. /\ UNCHANGED watch /\ alive /\ stuckinterval' = stuckinterval
        /\ stuckinterval # 0 \/ pc["loop"] # "idle"
    BY <1>8 DEF Loop, StuckTimer, StuckTimerLockup, BounceStop, BounceStart, fixed
  <2> QED BY <1>6, <2>1 DEF GuardInv
<1>9. CASE Poll \/ PollFails
  <2>1. /\ UNCHANGED watch /\ alive /\ stuckinterval' = stuckinterval
        /\ pc'["loop"] = pc["loop"]
    BY <1>1, <1>9 DEF Poll, PollFails, fixed
  <2> QED BY <1>6, <2>1 DEF GuardInv
<1>10. CASE DvrRead \/ DvrReadFails \/ LoseLock \/ GetLock \/ LockUp \/ UNCHANGED vars
  <2>1. /\ UNCHANGED watch /\ UNCHANGED alive /\ stuckinterval' = stuckinterval
        /\ pc' = pc
    BY <1>10 DEF DvrRead, DvrReadFails, LoseLock, GetLock, LockUp, fixed, vars, watch
  <2> QED BY <1>6, <2>1 DEF GuardInv
<1> QED BY <1>2, <1>3, <1>4, <1>5, <1>7, <1>8, <1>9, <1>10 DEF Next, Guard

(* The invariant is inductive. *)
THEOREM Invariance == Spec => []IInv
<1>1. Init => IInv
  <2>1. Init => GuardTypeOK /\ GuardInv
    BY SupervisionAssumption DEF Init, GuardTypeOK, GuardInv
  <2> QED BY <2>1, InitKeeps DEF IInv
<1>2. IInv /\ [Next]_vars => IInv'
  BY StepKeeps, GuardKeeps DEF IInv
<1> QED BY <1>1, <1>2, PTL DEF Spec

-----------------------------------------------------------------------------
(* Every state has the types of TypeOK: no timer exceeds its interval, and *)
(* only PIDs that have a filter have one that runs.                        *)
THEOREM TypeCorrect == Spec => [](TypeOK /\ GuardTypeOK)
<1>1. IInv => TypeOK /\ GuardTypeOK
  BY DEF IInv, CardInv
<1> QED BY <1>1, Invariance, PTL

(* While the event loop waits, all open filters run: the bounce leaves     *)
(* none stopped, in budget mode and without.                               *)
THEOREM FiltersStarted == Spec => []FiltersRun
<1>1. IInv => FiltersRun
  BY DEF IInv, CardInv, BounceInv, FiltersRun
<1> QED BY <1>1, Invariance, PTL

(* Filters are bounced only after an interval without a read. *)
THEOREM QuietBounced == Spec => BouncesOnlyQuiet
<1>1. IInv => (pc["loop"] = "stop" /\ pc'["loop"] = "start" => quiet >= stuckinterval)
  BY DEF IInv, CardInv, QuietInv
<1> QED BY <1>1, Invariance, PTL DEF BouncesOnlyQuiet

(* The card is tuned twice within the minimal delay only after both        *)
(* threads were tuning at once within it; a time that is stored over a     *)
(* newer one does no more than that.                                       *)
THEOREM OnlyRacesDefeatDebounce == Spec => DebouncedUnlessRaced
<1>1. IInv => \A t \in Thread :
                pc[t] = "tune" /\ pc'[t] = "clock" =>
                  raced < MinDelay \/ \A u \in Thread : since[u] >= MinDelay
  BY SupervisionAssumption DEF IInv, CardInv, TypeOK, DebounceInv
<1> QED BY <1>1, Invariance, PTL DEF DebouncedUnlessRaced

(* The guard aborts only an event loop in which guard_evtimer has not come *)
(* for a whole interval of the guard, and never with the stuck timer       *)
(* disabled (getstream.c).                                                 *)
THEOREM GuardIsJust == Spec => []GuardJust
<1>1. IInv => GuardJust
  BY SupervisionAssumption
     DEF IInv, CardInv, TypeOK, GuardTypeOK, GuardInv, GuardJust
<1> QED BY <1>1, Invariance, PTL
=============================================================================
