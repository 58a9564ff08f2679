---------------------------- MODULE MCContainers ----------------------------
(***************************************************************************)
(* The containers of utils: the pool of shared buffers, the queue of       *)
(* references and the double ended queue; and the HDLC coding.  Each is    *)
(* checked by itself.                                                      *)
(***************************************************************************)
EXTENDS SharedBufferSearch, ReferenceQueueOrder, Deque, HdlcStuffing, SequencesExt

CONSTANT SliceLimit     \* length of the longest slice for the deque

VARIABLE part

MCSlice == BoundedSeq(Element, SliceLimit)

MCPacket == {<< >>, <<1>>, <<escape_byte, boundary_byte>>}
MCNoise == {<<escape_byte, 1>>, <<1, boundary_byte, 1, escape_byte>>,
            <<boundary_byte, escape_byte, escape_byte>>}

mcVars == <<part, searchVars, orderVars, dequeVars, hdlcVars>>

MCInit ==
    /\ part \in {"pool", "queue", "deque", "hdlc"}
    /\ SearchInit
    /\ OrderInit
    /\ DequeInit
    /\ HdlcInit
    /\ part # "deque" => strategy = "partial" /\ \A n \in Sizes : mMaxSize <= n
    /\ part # "hdlc" => stream = <<escape_byte, 1>>

MCNext ==
    /\ UNCHANGED part
    /\ \/ part = "pool" /\ SearchNext
       \/ part # "pool" /\ UNCHANGED searchVars
    /\ \/ part = "queue" /\ OrderNext
       \/ part # "queue" /\ UNCHANGED orderVars
    /\ \/ part = "deque" /\ DequeNext
       \/ part # "deque" /\ UNCHANGED dequeVars
    /\ \/ part = "hdlc" /\ HdlcNext
       \/ part # "hdlc" /\ UNCHANGED hdlcVars

MCSpec ==
    /\ MCInit /\ [][MCNext]_mcVars
    /\ \A t \in Thread : WF_vars(part = "pool" /\ Progress(t))
=============================================================================
