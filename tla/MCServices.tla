----------------------------- MODULE MCServices -----------------------------
(***************************************************************************)
(* The primitives of the rtos module, the small services and the protocol  *)
(* sip, side by side.  They share no state, so each behaviour exercises one*)
(* of them and leaves the others at rest.                                  *)
(***************************************************************************)
EXTENDS PosixQueue, BinarySemaphore, PeriodicTaskManager,
        HeartbeatLimiter, Topics, Parameter, ParameterStore, SipLink, SequencesExt

CONSTANTS o1, o2, o3, n1, n2    \* subscriptions and topics

VARIABLE part   \* what this behaviour is about

servicesVars == <<part, queueVars, semVars, periodVars, heartbeatVars, topicVars,
                  parameterVars, storeVars, sipVars>>

MCParameterList == BoundedSeq(ParameterId, StoreSize + 1)
MCTopicOf == o1 :> n1 @@ o2 :> n1 @@ o3 :> n2

ServicesInit ==
    /\ part \in {"queue", "semaphore", "period", "heartbeat", "topics", "parameter", "store",
                "sip"}
    /\ QueueInit
    /\ SemInit("released")
    /\ PeriodInit
    /\ HeartbeatInit
    /\ TopicsInit
    /\ ParameterInit
    /\ StoreInit
    /\ SipInit
    /\ part # "period" => port = "posix" /\ now = 0
    /\ part # "parameter" => ~ mMultipleWriters

ServicesNext ==
    /\ UNCHANGED part
    /\ \/ part = "queue" /\ QueueNext
       \/ part # "queue" /\ UNCHANGED queueVars
    /\ \/ part = "semaphore" /\ SemNext
       \/ part # "semaphore" /\ UNCHANGED semVars
    /\ \/ part = "period" /\ PeriodNext
       \/ part # "period" /\ UNCHANGED periodVars
    /\ \/ part = "heartbeat" /\ HeartbeatNext
       \/ part # "heartbeat" /\ UNCHANGED heartbeatVars
    /\ \/ part = "topics" /\ TopicsNext
       \/ part # "topics" /\ UNCHANGED topicVars
    /\ \/ part = "parameter" /\ ParameterNext
       \/ part # "parameter" /\ UNCHANGED parameterVars
    /\ \/ part = "store" /\ StoreNext
       \/ part # "store" /\ UNCHANGED storeVars
    /\ \/ part = "sip" /\ SipNext
       \/ part # "sip" /\ UNCHANGED sipVars

(* The threads of a part at rest have nothing to do. *)
ServicesSpec == ServicesInit /\ [][ServicesNext]_servicesVars /\ SipFairness
=============================================================================
