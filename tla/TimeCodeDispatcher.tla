------------------------- MODULE TimeCodeDispatcher -------------------------
(***************************************************************************)
(* outpost::hal::TimeCodeDispatcher (hal, timecode_dispatcher.h): threads  *)
(* register queues under a mutex while an interrupt handler walks the      *)
(* table of listeners without it.                                          *)
(*                                                                         *)
(* The two stores of addListener() take effect in the order of the code,   *)
(* as the compiler emits them; the handler may run between any two of      *)
(* them, and, where it is a thread, they may run between two of its        *)
(* iterations.                                                             *)
(***************************************************************************)
EXTENDS Integers, FiniteSets

CONSTANTS
    Registrar,          \* threads that call addListener()
    TcQueue,            \* the queues they register
    NoQueue,            \* nullptr
    numberOfListeners   \* template parameter numberOfQueues

ASSUME TimeCodeAssumption ==
    /\ numberOfListeners \in Nat
    /\ NoQueue \notin TcQueue \cup Registrar
    /\ \A q \in TcQueue, r \in Registrar : [queue |-> q, of |-> r] # NoQueue

VARIABLES
    mListener, mNumberOfListeners,
    mMutex,         \* the registrar that holds mMutex, or NoQueue
    adding,         \* per registrar: its queue and where it is in addListener()
    dispatching,    \* the next index of the handler's loop, or -1
    accepted,       \* registrars whose addListener() returned true
    awaited,        \* those accepted before the dispatch in progress began
    notified        \* registrars whose queues got the time code

timeCodeVars == <<mListener, mNumberOfListeners, mMutex, adding, dispatching,
                  accepted, awaited, notified>>

Slot == 0 .. numberOfListeners - 1

TimeCodeInit ==
    /\ mListener = [i \in Slot |-> NoQueue]
    /\ mNumberOfListeners = 0
    /\ mMutex = NoQueue
    /\ adding = [r \in Registrar |-> [at |-> "idle", queue |-> NoQueue]]
    /\ dispatching = -1
    /\ accepted = {}
    /\ awaited = {}
    /\ notified = {}

(* addListener(): a null queue is refused at once.  A listener is a        *)
(* registration: two registrars may register the same queue.               *)
addListener(r, q) ==
    /\ adding[r].at = "idle"
    /\ r \notin accepted
    /\ adding' = [adding EXCEPT ![r] = [at |-> "lock", queue |-> q]]
    /\ UNCHANGED <<mListener, mNumberOfListeners, mMutex, dispatching, accepted,
                   awaited, notified>>

addLock_None(r) ==
    /\ adding[r].at = "lock"
    /\ adding' = [adding EXCEPT ![r].at = IF mNumberOfListeners >= numberOfListeners
                                          THEN "idle" ELSE "store"]
    /\ UNCHANGED <<mListener, mNumberOfListeners, mMutex, dispatching, accepted,
                   awaited, notified>>
addLock(r) ==
    /\ adding[r].at = "lock"
    /\ mMutex = NoQueue
    /\ \/ /\ mNumberOfListeners >= numberOfListeners
          /\ adding' = [adding EXCEPT ![r].at = "idle"]
          /\ UNCHANGED mMutex
       \/ /\ mNumberOfListeners < numberOfListeners
          /\ adding' = [adding EXCEPT ![r].at = "store"]
          /\ mMutex' = r
    /\ UNCHANGED <<mListener, mNumberOfListeners, dispatching, accepted, awaited, notified>>

addStore(r) ==
    /\ adding[r].at = "store"
    /\ mListener' = [mListener EXCEPT ![mNumberOfListeners] = [queue |-> adding[r].queue, of |-> r]]
    /\ adding' = [adding EXCEPT ![r].at = "count"]
    /\ UNCHANGED <<mNumberOfListeners, mMutex, dispatching, accepted, awaited, notified>>

addCount(r) ==
    /\ adding[r].at = "count"
    /\ mNumberOfListeners' = mNumberOfListeners + 1
    /\ mMutex' = NoQueue
    /\ adding' = [adding EXCEPT ![r].at = "idle"]
    /\ accepted' = accepted \cup {r}
    /\ UNCHANGED <<mListener, dispatching, awaited, notified>>

(* dispatchTimeCode(): mNumberOfListeners is read again in every round. *)
dispatchTimeCode ==
    /\ dispatching = -1
    /\ dispatching' = 0
    /\ awaited' = accepted
    /\ notified' = {}
    /\ UNCHANGED <<mListener, mNumberOfListeners, mMutex, adding, accepted>>
dispatchSend ==
    /\ dispatching \in 0 .. mNumberOfListeners - 1
    /\ notified' = notified \cup {mListener[dispatching].of}
    /\ dispatching' = dispatching + 1
    /\ UNCHANGED <<mListener, mNumberOfListeners, mMutex, adding, accepted, awaited>>
dispatchEnd ==
    /\ dispatching >= mNumberOfListeners
    /\ dispatching' = -1
    /\ awaited' = {}
    /\ UNCHANGED <<mListener, mNumberOfListeners, mMutex, adding, accepted, notified>>

TimeCodeNext ==
    \/ \E r \in Registrar :
         addLock(r) \/ addStore(r) \/ addCount(r) \/ \E q \in TcQueue : addListener(r, q)
    \/ dispatchTimeCode \/ dispatchSend \/ dispatchEnd

TimeCodeSpec == TimeCodeInit /\ [][TimeCodeNext]_timeCodeVars
-----------------------------------------------------------------------------
(* Every index below the count the handler reads has its queue, with a     *)
(* registration half done as well: it never calls a listener not yet set.  *)
ListenersSet == \A i \in Slot : i < mNumberOfListeners => mListener[i] # NoQueue

(* What the comment of dispatchTimeCode() relies on: in the worst case a   *)
(* listener that was just added is not notified.  All others are, so when  *)
(* the handler is through its loop everyone whose addListener() had        *)
(* returned when it began got the time code; and it never calls a listener *)
(* that is not set.                                                        *)
ListenersNotified ==
    /\ ListenersSet
    /\ dispatching >= mNumberOfListeners => awaited \subseteq notified
=============================================================================
