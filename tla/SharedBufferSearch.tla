------------------------- MODULE SharedBufferSearch -------------------------
(***************************************************************************)
(* SharedBufferPool with a history variable: the buffers that have been    *)
(* free ever since a search of allocate() began, while other threads take  *)
(* and release references.                                                 *)
(***************************************************************************)
EXTENDS SharedBufferPool

VARIABLE freeSince  \* buffers without a reference ever since the lock was taken

searchVars == <<vars, freeSince>>

SearchInit == Init /\ freeSince = [t \in Thread |-> {}]

SearchNext ==
    /\ Next
    /\ freeSince' = [t \in Thread |->
            {b \in Buffer : /\ mReferenceCounter'[b] = 0
                            /\ pc[t] = "idle" \/ b \in freeSince[t]
                            /\ pc'[t] = "scan" \/ pc[t] = "scan"}]

SearchSpec == SearchInit /\ [][SearchNext]_searchVars
-----------------------------------------------------------------------------
(* allocate() gives up only when each buffer was in use at some moment of  *)
(* the search: a buffer that stays free all along is always found, wherever *)
(* the round robin starts and whatever is released meanwhile.              *)
NoSpuriousFailure ==
    [][\A t \in Thread :
         (pc[t] = "scan" /\ pc'[t] = "idle") => freeSince[t] = {}]_searchVars
=============================================================================
