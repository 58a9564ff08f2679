--------------------------- MODULE BinarySemaphore ---------------------------
(***************************************************************************)
(* outpost::rtos::BinarySemaphore of the POSIX port (rtos, arch/posix,     *)
(* semaphore.cpp): a flag behind a mutex, and a condition variable.        *)
(*                                                                         *)
(* The code between two waits runs under the semaphore's own mutex and is  *)
(* one step.  The thread that released the semaphore does not hand it over *)
(* to the thread it wakes: a third one can be faster.                      *)
(***************************************************************************)
EXTENDS Integers, FiniteSets

CONSTANTS
    Thread,     \* the threads that use the semaphore
    Limit,      \* finite timeouts handed to acquire(), in ticks
    Myriad      \* no timeout

ASSUME SemaphoreAssumption == Limit \subseteq Nat /\ Myriad \notin Nat

VARIABLES
    mValue,     \* "released" or "acquired"
    waiter,     \* where each thread is in acquire()
    deadline,   \* ticks until the absolute end of its wait
    elapsed     \* ticks since it called acquire()

semVars == <<mValue, waiter, deadline, elapsed>>

At(pc) == {t \in Thread : waiter[t] = pc}

SemInit(initial) ==
    /\ mValue = initial
    /\ waiter = [t \in Thread |-> "out"]
    /\ deadline = [t \in Thread |-> Myriad]
    /\ elapsed = [t \in Thread |-> 0]

(* The absolute end of the wait, computed before the loop: a thread that   *)
(* waits again keeps it.                                                   *)
Deadline_Again(t, limit) == limit
Deadline(t, limit) == IF waiter[t] = "woken" THEN deadline[t] ELSE limit

(* acquire() by a thread that has the mutex and finds the flag released.   *)
SemTake(t) ==
    /\ waiter[t] \in {"out", "woken"}
    /\ mValue = "released"
    /\ mValue' = "acquired"
    /\ waiter' = [waiter EXCEPT ![t] = "out"]
    /\ deadline' = [deadline EXCEPT ![t] = Myriad]
    /\ elapsed' = [elapsed EXCEPT ![t] = 0]

(* acquire() by a thread that finds it acquired. *)
SemWait(t, limit) ==
    /\ waiter[t] \in {"out", "woken"}
    /\ mValue = "acquired"
    /\ waiter' = [waiter EXCEPT ![t] = "waiting"]
    /\ deadline' = [deadline EXCEPT ![t] = Deadline(t, limit)]
    /\ UNCHANGED <<mValue, elapsed>>

(* release(): any thread may release, also one that did not acquire. *)
SemRelease ==
    /\ mValue' = "released"
    /\ IF At("waiting") = {} THEN UNCHANGED waiter
       ELSE \E t \in At("waiting") : waiter' = [waiter EXCEPT ![t] = "woken"]
    /\ UNCHANGED <<deadline, elapsed>>

(* pthread_cond_timedwait() fails: acquire() returns false. *)
SemExpire(t) ==
    /\ waiter[t] = "waiting"
    /\ deadline[t] = 0
    /\ waiter' = [waiter EXCEPT ![t] = "out"]
    /\ deadline' = [deadline EXCEPT ![t] = Myriad]
    /\ elapsed' = [elapsed EXCEPT ![t] = 0]
    /\ UNCHANGED mValue

(* A wait ends without a signal. *)
SemSpurious(t) ==
    /\ waiter[t] = "waiting"
    /\ waiter' = [waiter EXCEPT ![t] = "woken"]
    /\ UNCHANGED <<mValue, deadline, elapsed>>

(* The clock, seen by the threads that wait with a timeout; it stands      *)
(* still while a woken thread can run.                                     *)
SemTick ==
    LET timed == {t \in At("waiting") : deadline[t] # Myriad} IN
    /\ timed # {}
    /\ At("woken") = {}
    /\ \A t \in timed : deadline[t] > 0
    /\ deadline' = [t \in Thread |-> IF t \in timed THEN deadline[t] - 1 ELSE deadline[t]]
    /\ elapsed' = [t \in Thread |-> IF t \in timed THEN elapsed[t] + 1 ELSE elapsed[t]]
    /\ UNCHANGED <<mValue, waiter>>

(* Threads that use the semaphore as they like. *)
Argument(t) == IF deadline[t] = Myriad THEN Myriad ELSE elapsed[t] + deadline[t]
SemNext ==
    \/ \E t \in Thread :
         \/ SemTake(t)
         \/ \E limit \in Limit \cup {Myriad} :
              (waiter[t] = "woken" => limit = Argument(t)) /\ SemWait(t, limit)
         \/ SemExpire(t) \/ SemSpurious(t)
    \/ SemRelease
    \/ SemTick

SemSpec == SemInit("released") /\ [][SemNext]_semVars
-----------------------------------------------------------------------------
(* While the semaphore is released, a thread that waits for it is on its   *)
(* way: no release() is missed.                                            *)
ReleaseWakes == mValue = "released" /\ At("waiting") # {} => At("woken") # {}

(* The end of a timed wait is fixed by the call: however often the thread  *)
(* is woken for nothing, it waits no longer than it was told to.           *)
TimedWaitExact ==
    \A t \in Thread : deadline[t] # Myriad => elapsed[t] + deadline[t] \in Limit

(* A semaphore neither misses a release() nor lets a timed wait last too   *)
(* long.                                                                   *)
SemaphoreSound == ReleaseWakes /\ TimedWaitExact
=============================================================================
