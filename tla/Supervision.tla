---------------------------- MODULE Supervision -----------------------------
(***************************************************************************)
(* Who watches over a card: the thread that polls the lock of the frontend *)
(* (fe_event_checkstatus_thread), and the timer of the event loop that     *)
(* finds that no packets come any more (dvr_stuck_timer).  Both retune the *)
(* frontend through fe_retune, without a lock; the timer also bounces the  *)
(* filters, which only the event loop touches.  And who watches over the   *)
(* event loop: guard_thread aborts the process when guard_evtimer did not  *)
(* come for a whole interval.                                              *)
(*                                                                         *)
(* Time passes in ticks, at any point of either thread: tuning a satellite *)
(* takes a while (with DiSEqC the code sleeps for more than a second).     *)
(* Times are represented by how long ago they were, up to the longest time *)
(* that is compared with.  guard_evtimer is on time when the event loop    *)
(* waits.                                                                  *)
(*                                                                         *)
(* External: the card.  It may lose its lock, which it gets again when it  *)
(* is tuned, and it may lock up, so that no packets come; then it works    *)
(* again once the number of running filters goes from 0 to 1 (the comment  *)
(* on dmx_bounce_filter).                                                  *)
(*                                                                         *)
(* The thread waits in select with the descriptor itself as the number of  *)
(* descriptors, so select never looks at it and always times out: the      *)
(* branch for events of the frontend is not reached.                       *)
(***************************************************************************)
EXTENDS Integers

CONSTANTS
    MinDelay,       \* FE_TUNE_MINDELAY
    CheckInterval,  \* FE_CHECKSTATUS_INTERVAL
    StuckIntervals, \* the values that stuck-interval may have, 0 disables
    PidMax,         \* PID_MAX
    GuardInterval,  \* the interval of guard_thread (1 s)
    BeatInterval    \* the interval of guard_evtimer (50 ms)

ASSUME SupervisionAssumption ==
    /\ MinDelay \in Nat \ {0}
    /\ CheckInterval \in Nat \ {0}
    /\ StuckIntervals \subseteq Nat
    /\ PidMax \in Nat \ {0}
    /\ BeatInterval \in Nat \ {0}
    /\ GuardInterval \in Nat
    /\ BeatInterval < GuardInterval

Thread == {"loop", "thread"}

Pid == 0 .. PidMax - 1

(* The pseudo PID of the whole transponder. *)
Full == PidMax + 1

VARIABLES
    alive,         \* the process has not called exit
    stuckinterval, \* a->dvr.stuckinterval
    pc,            \* where a thread is; "idle": in event_dispatch or select
    tunelast,      \* the time since adapter->fe.tunelast
    stamp,         \* the time since a thread has read what it is about to store
    since,         \* the time since a thread has tuned
    raced,         \* the time since both threads were tuning
    checkDue,      \* the time until select returns
    stuckDue,      \* the time until the stuck timer fires
    reads,         \* a->dvr.stat.reads, 1 for more than none
    quiet,         \* the time since read was last called
    open,          \* the PIDs with a filter
    running,       \* the PIDs with a filter that is started
    lock,          \* the frontend: "locked", "lost", or "tuned" but no lock yet
    stuck,         \* the card is locked up
    guardcounter,  \* guardcounter, 1 for more than none
    guard,         \* guard_thread: in select, before the reset, or done
    guardDue,      \* the time until its select returns
    beatDue,       \* the time until guard_evtimer fires
    silent         \* the time since it was last called

vars == <<alive, stuckinterval, pc, tunelast, stamp, since, raced, checkDue, stuckDue,
          reads, quiet, open, running, lock, stuck, guardcounter, guard, guardDue,
          beatDue, silent>>

card == <<lock, stuck>>
filters == <<open, running>>
debounce == <<tunelast, stamp, since, raced>>
clocks == <<debounce, checkDue, stuckDue, quiet>>
fixed == <<stuckinterval>>
watch == <<guardcounter, guard, guardDue, beatDue, silent>>

-----------------------------------------------------------------------------
(* fe_retune: called by both threads.  It reads the time just before       *)
(* tunelast; the two are one step here, as an older time only finds more   *)
(* retunings too early.                                                    *)

(* The threads that have passed the check and have not stored the time. *)
Tuning(p) == {t \in Thread : p[t] \in {"tune", "clock", "store"}}

(* The place to which fe_retune returns. *)
Return(t) ==
    /\ pc' = [pc EXCEPT ![t] = IF t = "loop" THEN "stop" ELSE "idle"]
    /\ checkDue' = IF t = "loop" THEN checkDue ELSE CheckInterval

(* Debounce the retuning. *)
TooEarly(t) ==
    /\ alive /\ pc[t] = "check"
    /\ tunelast < MinDelay
    /\ Return(t)
    /\ UNCHANGED <<alive, fixed, watch, debounce, stuckDue, quiet, reads, filters, card>>

LateEnough(t) ==
    /\ alive /\ pc[t] = "check"
    /\ tunelast >= MinDelay
    /\ pc' = [pc EXCEPT ![t] = "tune"]
    /\ raced' = IF Tuning(pc') = Thread THEN 0 ELSE raced
    /\ UNCHANGED <<alive, fixed, watch, tunelast, stamp, since, checkDue, stuckDue, quiet,
                   reads, filters, card>>

(* fe_tune: FE_SET_FRONTEND ... *)
Tune(t) ==
    /\ alive /\ pc[t] = "tune"
    /\ pc' = [pc EXCEPT ![t] = "clock"]
    /\ since' = [since EXCEPT ![t] = 0]
    /\ lock' = "tuned"
    /\ UNCHANGED <<alive, fixed, watch, tunelast, stamp, raced, checkDue, stuckDue, quiet,
                   reads, filters, stuck>>

(* ... which ends the process if it fails. *)
TuneFails(t) ==
    /\ alive /\ pc[t] = "tune"
    /\ alive' = FALSE
    /\ UNCHANGED <<fixed, watch, pc, clocks, reads, filters, card>>

(* adapter->fe.tunelast=time(NULL): the thread reads the clock ... *)
ReadClock(t) ==
    /\ alive /\ pc[t] = "clock"
    /\ stamp' = [stamp EXCEPT ![t] = 0]
    /\ pc' = [pc EXCEPT ![t] = "store"]
    /\ UNCHANGED <<alive, fixed, watch, tunelast, since, raced, checkDue, stuckDue, quiet,
                   reads, filters, card>>

\* Mutant: fe_tune does not store the time.
MutStored(was, read) == was

(* ... and stores what it read, over what the other one may have stored    *)
(* since.                                                                  *)
Stored(was, read) == read

Store(t) ==
    /\ alive /\ pc[t] = "store"
    /\ tunelast' = Stored(tunelast, stamp[t])
    /\ stamp' = [stamp EXCEPT ![t] = 0]
    /\ Return(t)
    /\ UNCHANGED <<alive, fixed, watch, since, raced, stuckDue, quiet, reads, filters, card>>

-----------------------------------------------------------------------------
(* The frontend thread.                                                    *)

\* Mutant: another bit of the status is tested.
MutHasLock(s) == s \in {"locked", "lost"}

(* status & FE_HAS_LOCK *)
HasLock(s) == s = "locked"

(* select times out and FE_READ_STATUS succeeds. *)
Poll ==
    /\ alive /\ pc["thread"] = "idle" /\ checkDue = 0
    /\ IF HasLock(lock) THEN pc' = pc /\ checkDue' = CheckInterval
       ELSE pc' = [pc EXCEPT !["thread"] = "check"] /\ checkDue' = 0
    /\ UNCHANGED <<alive, fixed, watch, debounce, stuckDue, quiet, reads, filters, card>>

PollFails ==
    /\ alive /\ pc["thread"] = "idle" /\ checkDue = 0
    /\ checkDue' = CheckInterval
    /\ UNCHANGED <<alive, fixed, watch, pc, debounce, stuckDue, quiet, reads, filters, card>>

-----------------------------------------------------------------------------
(* The event loop.                                                         *)

\* Mutant: reads are not counted.
MutCounted(n) == n

(* adapter->dvr.stat.reads++ *)
Counted(n) == 1

(* dvr_read when read fails: EAGAIN, or packets were lost in the kernel.  A *)
(* locked up card makes no read available (comment on dmx_bounce_filter).  *)
DvrReadFails ==
    /\ alive /\ pc["loop"] = "idle"
    /\ ~stuck
    /\ reads' = Counted(reads)
    /\ quiet' = 0
    /\ UNCHANGED <<alive, fixed, watch, pc, debounce, checkDue, stuckDue, filters, card>>

(* dvr_read; the callbacks of the packets may open and close filters. *)
DvrRead ==
    /\ alive /\ pc["loop"] = "idle"
    /\ ~stuck /\ lock = "locked" /\ running # {}
    /\ reads' = Counted(reads)
    /\ quiet' = 0
    /\ open' \in (IF Full \in open THEN {open} ELSE {o \in SUBSET Pid : 0 \in o})
    /\ running' = (running \cap open') \cup (open' \ open)
    /\ UNCHANGED <<alive, fixed, watch, pc, debounce, checkDue, stuckDue, card>>

(* dvr_stuck_timer, when packets were read ... *)
StuckTimer ==
    /\ alive /\ pc["loop"] = "idle"
    /\ stuckinterval > 0 /\ stuckDue = 0
    /\ reads # 0
    /\ reads' = 0
    /\ stuckDue' = stuckinterval
    /\ UNCHANGED <<alive, fixed, watch, pc, debounce, checkDue, quiet, filters, card>>

(* ... and when none were: fe_retune, dmx_bounce_filter. *)
StuckTimerLockup ==
    /\ alive /\ pc["loop"] = "idle"
    /\ stuckinterval > 0 /\ stuckDue = 0
    /\ reads = 0
    /\ pc' = [pc EXCEPT !["loop"] = "check"]
    /\ UNCHANGED <<alive, fixed, watch, clocks, reads, filters, card>>

\* Mutant: the first loop ends before the filter of the transponder.
MutStopped(o) == o \ {Full}

(* The filters the two loops of dmx_bounce_filter stop and start. *)
Stopped(o) == o \cap 0 .. PidMax + 1

\* Mutant: the second loop ends before the filter of the transponder.
MutStarted(o) == o \ {Full}

Started(o) == o \cap 0 .. PidMax + 1

BounceStop ==
    /\ alive /\ pc["loop"] = "stop"
    /\ running' = running \ Stopped(open)
    /\ pc' = [pc EXCEPT !["loop"] = "start"]
    /\ UNCHANGED <<alive, fixed, watch, clocks, reads, open, card>>

BounceStart ==
    /\ alive /\ pc["loop"] = "start"
    /\ running' = running \cup Started(open)
    /\ stuck' = (stuck /\ ~(running = {} /\ running' # {}))
    /\ reads' = 0
    /\ stuckDue' = stuckinterval
    /\ pc' = [pc EXCEPT !["loop"] = "idle"]
    /\ UNCHANGED <<alive, fixed, watch, debounce, checkDue, quiet, open, lock>>

-----------------------------------------------------------------------------
(* The guard.  guardcounter is not locked; what guard_evtimer stores is not *)
(* 0, whatever the guard stores meanwhile, so its steps are not split.      *)

\* Mutant: the timer does not count.
MutIncremented(n) == n

(* guardcounter++ *)
Incremented(n) == 1

(* guard_evtimer *)
Beat ==
    /\ alive /\ pc["loop"] = "idle" /\ beatDue = 0
    /\ guardcounter' = Incremented(guardcounter)
    /\ beatDue' = BeatInterval
    /\ silent' = 0
    /\ UNCHANGED <<alive, fixed, pc, clocks, reads, filters, card, guard, guardDue>>

(* guard_thread: select has returned ... *)
GuardCheck ==
    /\ alive /\ guard = "wait" /\ guardDue = 0
    /\ IF guardcounter = 0 THEN alive' = FALSE /\ guard' = "aborted"
       ELSE guard' = "reset" /\ UNCHANGED alive
    /\ UNCHANGED <<fixed, pc, clocks, reads, filters, card, guardcounter, guardDue,
                   beatDue, silent>>

\* Mutant: the guard does not reset the counter.
MutReset(n) == n

(* guardcounter=0 *)
Reset(n) == 0

(* ... and is called again; so it begins. *)
GuardReset ==
    /\ alive /\ guard = "reset"
    /\ guardcounter' = Reset(guardcounter)
    /\ guardDue' = GuardInterval
    /\ guard' = "wait"
    /\ UNCHANGED <<alive, fixed, pc, clocks, reads, filters, card, beatDue, silent>>

-----------------------------------------------------------------------------
(* Time and the card.                                                      *)

Later(time, top) == IF time < top THEN time + 1 ELSE top

Sooner(time) == IF time > 0 THEN time - 1 ELSE 0

Tick ==
    /\ alive
    /\ pc["loop"] = "idle" => beatDue > 0
    /\ tunelast' = Later(tunelast, MinDelay)
    /\ stamp' = [t \in Thread |-> IF pc[t] = "store" THEN Later(stamp[t], MinDelay) ELSE 0]
    /\ since' = [t \in Thread |-> Later(since[t], MinDelay)]
    /\ raced' = IF Tuning(pc) = Thread THEN 0 ELSE Later(raced, MinDelay)
    /\ quiet' = Later(quiet, stuckinterval)
    /\ checkDue' = Sooner(checkDue)
    /\ stuckDue' = Sooner(stuckDue)
    /\ guardDue' = Sooner(guardDue)
    /\ beatDue' = Sooner(beatDue)
    /\ silent' = Later(silent, GuardInterval)
    /\ UNCHANGED <<alive, fixed, pc, reads, filters, card, guardcounter, guard>>

LoseLock ==
    /\ alive /\ lock # "lost"
    /\ lock' = "lost"
    /\ UNCHANGED <<alive, fixed, watch, pc, clocks, reads, filters, stuck>>

GetLock ==
    /\ alive /\ lock = "tuned"
    /\ lock' = "locked"
    /\ UNCHANGED <<alive, fixed, watch, pc, clocks, reads, filters, stuck>>

LockUp ==
    /\ alive /\ ~stuck
    /\ stuck' = TRUE
    /\ UNCHANGED <<alive, fixed, watch, pc, clocks, reads, filters, lock>>

-----------------------------------------------------------------------------
(* main has tuned, opened the filter of the PAT or of the transponder, and *)
(* started the threads and the timers.                                     *)
Init ==
    /\ alive = TRUE
    /\ stuckinterval \in StuckIntervals
    /\ pc = [t \in Thread |-> "idle"]
    /\ tunelast = 0
    /\ since = [t \in Thread |-> IF t = "loop" THEN 0 ELSE MinDelay]
    /\ stamp = [t \in Thread |-> 0]
    /\ raced = MinDelay
    /\ checkDue = CheckInterval
    /\ stuckDue = stuckinterval
    /\ reads = 0
    /\ quiet = 0
    /\ open \in {{0}, {Full}}
    /\ running = open
    /\ lock = "tuned"
    /\ stuck = FALSE
    /\ guardcounter = 0
    /\ guard = "reset"
    /\ guardDue = 0
    /\ beatDue = BeatInterval
    /\ silent = 0

Retune(t) == TooEarly(t) \/ LateEnough(t) \/ Tune(t) \/ TuneFails(t) \/ ReadClock(t) \/ Store(t)

Loop == StuckTimer \/ StuckTimerLockup \/ BounceStop \/ BounceStart

Guard == GuardCheck \/ GuardReset

Next ==
    \/ \E t \in Thread : Retune(t)
    \/ Poll \/ PollFails
    \/ Loop \/ DvrRead \/ DvrReadFails \/ Beat
    \/ Guard
    \/ Tick
    \/ LoseLock \/ GetLock \/ LockUp

(* The threads run, the event loop serves its timers, time passes, and     *)
(* reading the status does not fail for ever.  Nothing is assumed of the   *)
(* lock, the packets and the lockups, nor that tuning ends when the event  *)
(* loop does it.                                                           *)
Fairness ==
    /\ WF_vars(Retune("thread"))
    /\ WF_vars(Loop)
    /\ WF_vars(Beat)
    /\ WF_vars(Guard)
    /\ SF_vars(Poll)
    /\ WF_vars(Tick)

Spec == Init /\ [][Next]_vars /\ Fairness

-----------------------------------------------------------------------------
(* Properties.                                                             *)

(* The bounce leaves every open filter running, that of the transponder    *)
(* included, however the event loop and the frontend thread interleave.    *)
FiltersRun == alive /\ pc["loop"] = "idle" => running = open

(* Filters are bounced, which costs packets, only when none were read for  *)
(* a whole interval: a read at any time of it prevents the bounce at its   *)
(* end.                                                                    *)
BouncesOnlyQuiet == [][pc["loop"] = "stop" /\ pc'["loop"] = "start" => quiet >= stuckinterval]_vars

(* The card is tuned twice within the minimal delay, by whichever threads, *)
(* only after both have been in fe_tune at once within that delay, although *)
(* the time that one of them stores then may be older than the other's.    *)
DebouncedUnlessRaced ==
    [][\A t \in Thread :
           pc[t] = "tune" /\ pc'[t] = "clock" =>
               raced < MinDelay \/ \A u \in Thread : since[u] >= MinDelay]_vars

(* A lost lock is noticed, also with the stuck timer disabled and when the *)
(* first attempts come too early after the last tuning.                    *)
LostLockRetuned == lock = "lost" ~> (lock # "lost" \/ ~alive)

(* A card that locks up is brought to work again, in budget mode and with  *)
(* single filters, if the stuck timer is enabled.                          *)
LockupEnded == (stuck /\ stuckinterval > 0) ~> (~stuck \/ ~alive)

(* A handler of the event loop that does not return, because tuning hangs, *)
(* ends the process: the guard notices, although both threads write to the *)
(* counter.                                                                *)
HangEnded == pc["loop"] # "idle" ~> (pc["loop"] = "idle" \/ ~alive)

(* The guard does not abort an event loop that serves its timers: none has *)
(* come for a whole interval, which a handler has taken; and without the   *)
(* stuck timer, which tunes, there is no such handler.                     *)
GuardJust == guard = "aborted" => silent >= GuardInterval /\ stuckinterval > 0

-----------------------------------------------------------------------------
(* What comments say and the code does not do.                             *)

(* fe_retune is to "Debounce the retuning": the frontend is not tuned      *)
(* twice within the minimal delay.  Both threads may pass the check before *)
(* either stores the time.                                                 *)
RetuneDebounced ==
    [][\A t \in Thread :
           pc[t] = "tune" /\ pc'[t] = "clock" =>
               \A u \in Thread : since[u] >= MinDelay]_vars
=============================================================================
