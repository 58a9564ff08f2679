------------------------------- MODULE MCComm -------------------------------
(***************************************************************************)
(* The RMAP initiator when the ids wrap around: earlier calls, all of them *)
(* finished, have used all ids but the last.                               *)
(***************************************************************************)
EXTENDS RmapInitiator

CommInit == InitWith(maxTransactionId - 1)

CommSpec == CommInit /\ [][Next]_vars /\ \A c \in Caller : WF_vars(Proceed(c))
=============================================================================
