------------------------ MODULE PeriodicTaskManager ------------------------
(***************************************************************************)
(* outpost::rtos::PeriodicTaskManager of the POSIX and the FreeRTOS port   *)
(* (rtos, arch/posix and arch/freertos, periodic_task_manager.cpp, and     *)
(* arch/posix, internal/time.h, time.cpp).  A task calls nextPeriod() in a *)
(* loop and is to be released once per period.                             *)
(*                                                                         *)
(* POSIX keeps the next release as a timespec of seconds and nanoseconds;  *)
(* FreeRTOS keeps the last one as a tick count that wraps around, and cuts *)
(* a period to whole milliseconds and ticks.  `now' is the true time in the*)
(* units of the port's clock, nanoseconds or ticks; a call between two     *)
(* ticks sees the first.  nextPeriod() sleeps with mMutex locked, so       *)
(* status() and cancel() of other threads wait for the end of the period.  *)
(*                                                                         *)
(* The interface says that a late call starts a period of full length      *)
(* (periodic_task_manager.h, nextPeriod()); both ports go on from the      *)
(* release that was missed, and the model follows them.                    *)
(***************************************************************************)
EXTENDS Integers

CONSTANTS
    PerSecond,  \* nanosecondsPerSecond, the base of tv_nsec
    TickRange,  \* number of values of a TickType_t
    TickRate,   \* configTICK_RATE_HZ
    MillisPerSecond,
    PerMillisecond,     \* units of a Duration in a millisecond
    LongPeriod, \* milliseconds from which on whole seconds are converted
    Period,     \* periods handed to nextPeriod(), in units of a Duration
    MaxTime,    \* bound: end of the observation
    MaxLate     \* bound: delay of a task behind its release

(* FreeRTOS: the ticks of a period. *)
milliseconds(p) == p \div PerMillisecond
nextPeriodTicks(p) ==
    IF milliseconds(p) < LongPeriod THEN (milliseconds(p) * TickRate) \div MillisPerSecond
    ELSE (milliseconds(p) \div MillisPerSecond) * TickRate

(* A period of FreeRTOS has at least a tick (vTaskDelayUntil() asserts it) *)
(* and ends, with the delay of the task, before a signed difference of     *)
(* tick counts overflows.                                                  *)
ASSUME PeriodAssumption ==
    /\ {PerSecond, TickRate, MillisPerSecond, PerMillisecond} \subseteq Nat \ {0}
    /\ LongPeriod \in Nat
    /\ Period \subseteq Nat \ {0}
    /\ MaxTime \in Nat /\ MaxLate \in Nat /\ TickRange \in Nat \ {0}
    /\ \A p \in Period : /\ nextPeriodTicks(p) \in Nat \ {0}
                         /\ nextPeriodTicks(p) + MaxLate < TickRange \div 2

VARIABLES
    port,           \* "posix" or "freertos"
    now,            \* time since the start
    mTimerRunning,
    mNextWakeTime,  \* POSIX
    mLastWakeTime, mCurrentPeriod,  \* FreeRTOS
    sleeping,       \* the Duration of a nextPeriod() that sleeps, or 0
    release,        \* when the task is to be released: the first call of
    period,         \* ... nextPeriod() plus all periods, and the current period
    result,         \* what the last nextPeriod() returned
    returned        \* ... and when

periodVars == <<port, now, mTimerRunning, mNextWakeTime, mLastWakeTime, mCurrentPeriod,
                sleeping, release, period, result, returned>>

(* A period in the units of the port's clock. *)
InClock(p) == IF port = "posix" THEN p ELSE nextPeriodTicks(p)

Timespec(t) == [tv_sec |-> t \div PerSecond, tv_nsec |-> t % PerSecond]
ticks == now % TickRange

PeriodInit ==
    /\ port \in {"posix", "freertos"}
    /\ now \in {0, TickRange - 1}
    /\ mTimerRunning = FALSE
    /\ mNextWakeTime = Timespec(0)
    /\ mLastWakeTime = 0
    /\ mCurrentPeriod = 0
    /\ sleeping = 0
    /\ release = 0
    /\ period = 0
    /\ result = "idle"
    /\ returned = 0

(* internal/time: addTime() of two normalised times, and isBigger(). *)
addTime(t, d) ==
    LET nsec  == t.tv_nsec + d.tv_nsec
        carry == IF nsec >= PerSecond THEN 1 ELSE 0
    IN  [tv_sec |-> t.tv_sec + carry + d.tv_sec, tv_nsec |-> nsec - carry * PerSecond]

isBigger(t, u) ==
    \/ t.tv_sec > u.tv_sec
    \/ t.tv_sec = u.tv_sec /\ t.tv_nsec >= u.tv_nsec

(* A tick count read as a signed number, and the ticks since the last      *)
(* release.                                                                *)
Signed(n) == IF n >= TickRange \div 2 THEN n - TickRange ELSE n
Elapsed == Signed((ticks - mLastWakeTime) % TickRange)

(* The period in progress is over. *)
Missed ==
    IF port = "posix" THEN isBigger(Timespec(now), mNextWakeTime)
    ELSE Elapsed > Signed(mCurrentPeriod)

(* vTaskDelayUntil() wakes at mLastWakeTime + mCurrentPeriod, at once when *)
(* that is in the past; the comparison knows about the wrap-around.        *)
WakeTick == (mLastWakeTime + mCurrentPeriod) % TickRange
DelayOver ==
    IF port = "posix" THEN isBigger(Timespec(now), mNextWakeTime)
    ELSE IF ticks < mLastWakeTime
    THEN ~ (WakeTick < mLastWakeTime /\ WakeTick > ticks)
    ELSE ~ (WakeTick < mLastWakeTime \/ WakeTick > ticks)

(* The end of nextPeriod(): the release moves on by the period that ends,  *)
(* and p is the next period.                                               *)
NextRelease_FromNow(p) == mNextWakeTime' = addTime(Timespec(now), Timespec(p))
NextRelease(p) == mNextWakeTime' = addTime(mNextWakeTime, Timespec(p))

Finish(p, status) ==
    /\ IF port = "posix"
       THEN NextRelease(p) /\ UNCHANGED <<mLastWakeTime, mCurrentPeriod>>
       ELSE /\ mLastWakeTime' = WakeTick
            /\ mCurrentPeriod' = nextPeriodTicks(p)
            /\ UNCHANGED mNextWakeTime
    /\ release' = release + period
    /\ period' = InClock(p)
    /\ result' = status
    /\ returned' = now

(* nextPeriod() of a timer that is not running. *)
nextPeriodStart(p) ==
    /\ sleeping = 0
    /\ ~ mTimerRunning
    /\ mTimerRunning' = TRUE
    /\ IF port = "posix"
       THEN /\ mNextWakeTime' = addTime(Timespec(now), Timespec(p))
            /\ UNCHANGED <<mLastWakeTime, mCurrentPeriod>>
       ELSE /\ mLastWakeTime' = ticks
            /\ mCurrentPeriod' = nextPeriodTicks(p)
            /\ UNCHANGED mNextWakeTime
    /\ release' = now
    /\ period' = InClock(p)
    /\ result' = "running"
    /\ returned' = now
    /\ UNCHANGED <<port, now, sleeping>>

(* nextPeriod() of a running timer: with the period over it returns at     *)
(* once (vTaskDelayUntil() does not wait then) ...                         *)
nextPeriodLate(p) ==
    /\ sleeping = 0
    /\ mTimerRunning
    /\ DelayOver
    /\ Finish(p, IF Missed THEN "timeout" ELSE "running")
    /\ UNCHANGED <<port, now, mTimerRunning, sleeping>>

(* ... and otherwise it sleeps until the release. *)
nextPeriodSleep(p) ==
    /\ sleeping = 0
    /\ mTimerRunning
    /\ ~ DelayOver
    /\ sleeping' = p
    /\ result' = IF Missed THEN "timeout" ELSE "running"
    /\ UNCHANGED <<port, now, mTimerRunning, mNextWakeTime, mLastWakeTime, mCurrentPeriod,
                   release, period, returned>>

wakeUp ==
    /\ sleeping # 0
    /\ DelayOver
    /\ Finish(sleeping, result)
    /\ sleeping' = 0
    /\ UNCHANGED <<port, now, mTimerRunning>>

cancel ==
    /\ sleeping = 0
    /\ mTimerRunning' = FALSE
    /\ UNCHANGED <<port, now, mNextWakeTime, mLastWakeTime, mCurrentPeriod, sleeping,
                   release, period, result, returned>>

(* Time passes; a sleep ends punctually. *)
PeriodTick ==
    /\ now < MaxTime
    /\ sleeping # 0 => ~ DelayOver
    /\ mTimerRunning => now < release + period + MaxLate
    /\ now' = now + 1
    /\ UNCHANGED <<port, mTimerRunning, mNextWakeTime, mLastWakeTime, mCurrentPeriod,
                   sleeping, release, period, result, returned>>

PeriodNext ==
    \/ \E p \in Period : nextPeriodStart(p) \/ nextPeriodLate(p) \/ nextPeriodSleep(p)
    \/ wakeUp \/ cancel \/ PeriodTick

PeriodSpec == PeriodInit /\ [][PeriodNext]_periodVars
-----------------------------------------------------------------------------
(* The task is released on the grid of its periods, as long as the port's  *)
(* clock tells them: it neither drifts when it was late nor when the tick  *)
(* counter wraps around or tv_nsec carries.  nextPeriod() returns "running"*)
(* exactly at the release, and "timeout" only when the release has come or *)
(* is over.                                                                *)
ReleasedOnGrid ==
    sleeping = 0 /\ mTimerRunning =>
        CASE result = "running" -> returned = release
          [] result = "timeout" -> returned >= release

(* What status() reports is the truth about the period in progress; the    *)
(* ports disagree only on the very end of it.                              *)
StatusTrue ==
    mTimerRunning =>
        /\ Missed => now >= release + period
        /\ now > release + period => Missed

(* nextPeriod() and status() keep to the grid of the periods in both       *)
(* ports: of the periods asked for in POSIX, of those periods cut to whole *)
(* milliseconds and ticks in FreeRTOS (15 ms are 10 ms at 100 Hz).         *)
PeriodsKept == ReleasedOnGrid /\ StatusTrue
=============================================================================
