----------------------------- MODULE Checkpoint -----------------------------
(***************************************************************************)
(* outpost::rtos::Checkpoint (rtos, checkpoint.h, checkpoint.cpp): worker  *)
(* threads call pass() and are held there between suspend() and resume().  *)
(* The semaphore is taken while the checkpoint does not let pass; suspend() *)
(* waits for it with mMutex locked.                                        *)
(***************************************************************************)
EXTENDS BinarySemaphore

CONSTANTS
    Worker,         \* threads that call pass()
    Controller      \* threads that call suspend() and resume()

ASSUME CheckpointAssumption ==
    Worker \subseteq Thread /\ Controller \subseteq Thread \ Worker

VARIABLES
    mState,     \* "running", "suspending" or "suspended"
    holder,     \* controllers that hold mMutex while they wait
    at          \* where each thread is

checkpointVars == <<mState, holder, at, semVars>>

CheckpointInit ==
    /\ mState \in {"running", "suspending"}
    /\ SemInit(IF mState = "running" THEN "released" ELSE "acquired")
    /\ holder = {}
    /\ at = [t \in Thread |-> "idle"]

Goto(t, pc) == at' = [at EXCEPT ![t] = pc]

(* resume(), under mMutex. *)
Resume ==
    /\ mState # "running"
    /\ mState' = "running"
    /\ SemRelease
resume(c) ==
    /\ at[c] = "idle"
    /\ holder = {}
    /\ Resume
    /\ UNCHANGED <<holder, at>>

Suspending_AtOnce == mState' = "suspended"
Suspending == mState' = "suspending"
(* suspend() locks mMutex, changes the state and waits for the semaphore   *)
(* that a worker between acquire() and release() may hold.                 *)
suspend(c) ==
    /\ at[c] = "idle"
    /\ holder = {}
    /\ mState = "running"
    /\ Suspending
    /\ holder' = {c}
    /\ Goto(c, "suspend")
    /\ UNCHANGED semVars

suspendAcquire(c) ==
    /\ at[c] = "suspend"
    /\ \/ /\ SemTake(c)
          /\ holder' = {}
          /\ Goto(c, "idle")
       \/ /\ SemWait(c, Myriad)
          /\ UNCHANGED <<holder, at>>
    /\ UNCHANGED mState

(* pass(): one round of the loop under mMutex. *)
passCheck(w) ==
    /\ at[w] = "check"
    /\ holder = {}
    /\ \/ mState = "running" /\ Goto(w, "idle") /\ UNCHANGED mState
       \/ mState # "running" /\ Goto(w, "acquire") /\ mState' = "suspended"
    /\ UNCHANGED <<holder, semVars>>

pass(w) ==
    /\ at[w] = "idle"
    /\ Goto(w, "check")
    /\ UNCHANGED <<mState, holder, semVars>>

passAcquire(w) ==
    /\ at[w] = "acquire"
    /\ \/ SemTake(w) /\ Goto(w, "release")
       \/ SemWait(w, Myriad) /\ UNCHANGED at
    /\ UNCHANGED <<mState, holder>>

passRelease_Locked(w) ==
    /\ at[w] = "release"
    /\ holder = {}
    /\ SemRelease
    /\ Goto(w, "check")
    /\ UNCHANGED <<mState, holder>>
passRelease(w) ==
    /\ at[w] = "release"
    /\ SemRelease
    /\ Goto(w, "check")
    /\ UNCHANGED <<mState, holder>>

Spurious(t) == SemSpurious(t) /\ UNCHANGED <<mState, holder, at>>

CheckpointNext ==
    \/ \E c \in Controller : resume(c) \/ suspend(c) \/ suspendAcquire(c)
    \/ \E w \in Worker : pass(w) \/ passCheck(w) \/ passAcquire(w) \/ passRelease(w)
    \/ \E t \in Thread : Spurious(t)

(* A thread that has started an operation is scheduled again; whether the  *)
(* controllers resume the checkpoint is up to them.                        *)
CheckpointFairness ==
    /\ \A c \in Controller : WF_checkpointVars(suspendAcquire(c))
    /\ \A w \in Worker :
         WF_checkpointVars(passCheck(w) \/ passAcquire(w) \/ passRelease(w))

CheckpointSpec ==
    CheckpointInit /\ [][CheckpointNext]_checkpointVars /\ CheckpointFairness
-----------------------------------------------------------------------------
CheckpointTypeOK ==
    /\ mState \in {"running", "suspending", "suspended"}
    /\ holder \in SUBSET Controller
    /\ at \in [Thread -> {"idle", "suspend", "check", "acquire", "release"}]
    /\ mValue \in {"released", "acquired"}
    /\ waiter \in [Thread -> {"out", "waiting", "woken"}]
    /\ deadline \in [Thread -> Nat \cup {Myriad}]
    /\ elapsed \in [Thread -> Nat]

Past == {w \in Worker : at[w] = "release"}

(* The semaphore is at exactly one place: released, with one worker that   *)
(* has passed and gives it back, or with the checkpoint that is closed.    *)
(* So while the checkpoint is closed no worker gets past it, and opening   *)
(* it never releases the semaphore twice.                                  *)
TokenConserved ==
    \/ mValue = "released" /\ Past = {} /\ (mState # "running" => holder # {})
    \/ /\ mValue = "acquired" /\ (mState # "running" => holder # {})
       /\ \E w \in Worker : Past = {w}
    \/ mValue = "acquired" /\ Past = {} /\ mState # "running" /\ holder = {}

(* suspend(), which waits for the semaphore with mMutex locked, returns:   *)
(* the workers give the semaphore back without the mutex.                  *)
SuspendReturns == \A c \in Controller : at[c] = "suspend" ~> at[c] = "idle"

(* Workers leave pass() when the checkpoint stays open. *)
ResumeFrees ==
    \A w \in Worker : <>[](mState = "running") => []<>(at[w] = "idle")

(* "The thread is not suspended until getState() returns 'suspended'": a   *)
(* worker that is held in pass() by a suspend() gets reported.             *)
SuspendIsReported ==
    \A w \in Worker : mState = "suspending" /\ at[w] = "acquire" ~> mState # "suspending"
=============================================================================
