-------------------------------- MODULE MCHal --------------------------------
(***************************************************************************)
(* The dispatchers of the hal module.  They share no state: each behaviour *)
(* exercises one of them and leaves the others at rest.                    *)
(***************************************************************************)
EXTENDS ProtocolDispatcher, SpaceWireHandler, TimeCodeDispatcher, TLC

CONSTANTS c1, c2, p1, p2

VARIABLE part

halVars == <<part, dispatcherVars, spwVars, timeCodeVars>>

MCFilter == c1 :> [protocol |-> p1, partial |-> TRUE, maxSize |-> 3]
            @@ c2 :> [protocol |-> p1, partial |-> FALSE, maxSize |-> 9]

(* Queues differ by what is registered for them only. *)
HalSymmetry == Permutations(Sink)

HalInit ==
    /\ part \in {"dispatcher", "spacewire", "timecode"}
    /\ DispatcherInit
    /\ SpwInit
    /\ TimeCodeInit

HalNext ==
    /\ UNCHANGED part
    /\ \/ /\ part = "dispatcher" /\ DispatcherNext
          /\ UNCHANGED <<spwVars, timeCodeVars>>
       \/ /\ part = "spacewire" /\ SpwNext
          /\ UNCHANGED <<dispatcherVars, timeCodeVars>>
       \/ /\ part = "timecode" /\ TimeCodeNext
          /\ UNCHANGED <<dispatcherVars, spwVars>>

HalSpec == HalInit /\ [][HalNext]_halVars
=============================================================================
