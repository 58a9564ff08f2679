-------------------------- MODULE HeartbeatLimiter --------------------------
(***************************************************************************)
(* outpost::support::HeartbeatLimiter (support, heartbeat_limiter.h,       *)
(* heartbeat_limiter.cpp): a thread reports the time it may take for each  *)
(* of its steps, and only some of the reports become heartbeats.           *)
(*                                                                         *)
(* The watchdog that listens to the heartbeats is external: it expects the *)
(* next one within the time that the last one gave.                        *)
(***************************************************************************)
EXTENDS Integers

CONSTANTS
    mHeartbeatInterval, heartbeatTolerance,
    ProcessingTimeout,      \* what the thread may report
    MaxHeartbeatTime        \* bound: time of the last report

ASSUME HeartbeatAssumption ==
    /\ mHeartbeatInterval \in Nat
    /\ heartbeatTolerance \in Nat
    /\ MaxHeartbeatTime \in Nat
    /\ ProcessingTimeout \subseteq Nat

VARIABLES
    clock,          \* mClock.now()
    mTimeout,       \* time at which the heartbeat will expire
    expected,       \* when the watchdog expects the next heartbeat, or -1
    report          \* the last call of send(): its time and its argument

heartbeatVars == <<clock, mTimeout, expected, report>>

NoReport == [at |-> 0, processingTimeout |-> 0]

HeartbeatInit ==
    /\ clock = 0
    /\ mTimeout = 0
    /\ expected = -1
    /\ report = NoReport

(* The interval has been reached, or the time that the thread may take is  *)
(* shorter than the last heartbeat allows.                                 *)
Due_AtExpiry(p) ==
    \/ mTimeout <= clock + heartbeatTolerance
    \/ mTimeout > clock + mHeartbeatInterval + p + heartbeatTolerance
Due(p) ==
    \/ mTimeout <= clock + p + heartbeatTolerance
    \/ mTimeout > clock + mHeartbeatInterval + p + heartbeatTolerance

send(p) ==
    LET timeout == mHeartbeatInterval + p + heartbeatTolerance IN
    /\ clock <= MaxHeartbeatTime
    /\ report' = [at |-> clock, processingTimeout |-> p]
    /\ \/ /\ Due(p)
          /\ mTimeout' = clock + timeout
          /\ expected' = clock + timeout
       \/ /\ ~ Due(p)
          /\ UNCHANGED <<mTimeout, expected>>
    /\ UNCHANGED clock

(* Time passes.  The thread keeps its promise up to the tolerance. *)
heartbeatTick ==
    /\ expected # -1 => clock < report.at + report.processingTimeout + heartbeatTolerance
    /\ clock <= MaxHeartbeatTime
    /\ clock' = clock + 1
    /\ UNCHANGED <<mTimeout, expected, report>>

HeartbeatNext == heartbeatTick \/ \E p \in ProcessingTimeout : send(p)
HeartbeatSpec == HeartbeatInit /\ [][HeartbeatNext]_heartbeatVars
-----------------------------------------------------------------------------
(* The reports that are held back never make the watchdog bark: a thread   *)
(* that takes no longer than it announced, plus the tolerance, is never    *)
(* overdue.                                                                *)
NoFalseAlarm == expected # -1 => clock <= expected

(* A thread that hangs is found: the watchdog never waits longer than the  *)
(* interval, the time the thread announced last and the tolerance after    *)
(* that announcement, also when an earlier one allowed much more.          *)
HangDetected ==
    expected # -1 =>
        expected <= report.at + mHeartbeatInterval + report.processingTimeout + heartbeatTolerance

(* Leaving out heartbeats does not mislead the watchdog: no false alarm,   *)
(* and no hang that goes unnoticed.                                        *)
WatchdogExact == NoFalseAlarm /\ HangDetected
=============================================================================
