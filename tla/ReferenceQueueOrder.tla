------------------------ MODULE ReferenceQueueOrder ------------------------
(***************************************************************************)
(* ReferenceQueue with a history variable: whether its receivers have      *)
(* emptied the slots in the order in which they were filled.  They may     *)
(* overtake each other between mQueue.receive() and the mutex.             *)
(***************************************************************************)
EXTENDS ReferenceQueue

VARIABLE inOrder    \* no receiver has overtaken another one so far

orderVars == <<refVars, inOrder>>

OrderInit == RefInit /\ inOrder = TRUE

(* How many sends ago slot i was filled, as the slots are filled in turn. *)
Age(i) == (mLastSlot - 1 - i) % NumberOfSlots

(* Another receiver holds the index of a slot that was filled earlier. *)
Overtakes(r) ==
    \E q \in Receiver : index[q] # NoSlot /\ Age(index[q]) > Age(index[r])

OrderNext ==
    /\ RefNext
    /\ inOrder' = (inOrder /\ ~ \E r \in Receiver :
                      index[r] # NoSlot /\ index'[r] = NoSlot /\ Overtakes(r))

OrderSpec == OrderInit /\ [][OrderNext]_orderVars
-----------------------------------------------------------------------------
(* send() does not test all slots.  As long as no receiver has overtaken   *)
(* another one between mQueue.receive() and the mutex, and so always with  *)
(* one receiver, it still finds a slot unless all of them are in use.      *)
InOrderFindsSlot == inOrder => SendFindsSlotUnlessFull
=============================================================================
