----------------------------- MODULE BoundedFifo -----------------------------
(***************************************************************************)
(* What a queue promises to its users: values leave in the order           *)
(* in which they were accepted, each one goes to exactly one receiver, and *)
(* at most N of them wait.  A receiver first takes the oldest value away   *)
(* from the other receivers and obtains it in a second step, or does both  *)
(* at once.                                                                *)
(***************************************************************************)
EXTENDS Integers, Sequences

CONSTANTS
    Receiver,   \* threads that receive
    Value,      \* what is sent
    mEmpty,     \* no value
    N           \* capacity

VARIABLES
    items,      \* accepted values nobody has taken yet, oldest first
    taken,      \* value a receiver has taken and not yet obtained
    data        \* value each receiver obtained last

vars == <<items, taken, data>>

Init ==
    /\ items = << >>
    /\ taken = [r \in Receiver |-> mEmpty]
    /\ data = [r \in Receiver |-> mEmpty]

Put(v) ==
    /\ Len(items) < N
    /\ items' = Append(items, v)
    /\ UNCHANGED <<taken, data>>

TakeOldest(r) ==
    /\ taken[r] = mEmpty
    /\ items # << >>
    /\ taken' = [taken EXCEPT ![r] = Head(items)]
    /\ items' = Tail(items)
    /\ UNCHANGED data

Obtain(r) ==
    /\ taken[r] # mEmpty
    /\ data' = [data EXCEPT ![r] = taken[r]]
    /\ taken' = [taken EXCEPT ![r] = mEmpty]
    /\ UNCHANGED items

(* Both steps at once. *)
Receive(r) ==
    /\ taken[r] = mEmpty
    /\ items # << >>
    /\ data' = [data EXCEPT ![r] = Head(items)]
    /\ items' = Tail(items)
    /\ UNCHANGED taken

Next ==
    \/ \E v \in Value : Put(v)
    \/ \E r \in Receiver : TakeOldest(r) \/ Obtain(r) \/ Receive(r)

Spec == Init /\ [][Next]_vars
=============================================================================
