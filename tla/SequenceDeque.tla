---------------------------- MODULE SequenceDeque ----------------------------
(* A double ended queue of bounded size, as its users see it. *)
EXTENDS Integers, Sequences, FiniteSetsExt

CONSTANTS
    Value,      \* elements
    Slice       \* what can be appended at once: sequences of elements

VARIABLES
    strategy,   \* "partial" or "complete"
    limit,      \* largest number of elements
    contents,   \* the elements, front first
    call        \* the last operation and the elements it was given

vars == <<strategy, limit, contents, call>>

\* Records the operation a step performs and the elements it was given.
Call(op, arg) == call' = [op |-> op, arg |-> arg]

Init == contents = << >> /\ call = [op |-> "none", arg |-> << >>]

Append1(v) ==
    /\ Len(contents) < limit
    /\ contents' = Append(contents, v)
    /\ Call("append", <<v>>)

Prepend1(v) ==
    /\ Len(contents) < limit
    /\ contents' = <<v>> \o contents
    /\ Call("prepend", <<v>>)

(* As many elements as fit, or none unless all of them fit. *)
AppendMany(s) ==
    LET space == limit - Len(contents)
        n == IF strategy = "partial" THEN Min({Len(s), space})
             ELSE IF Len(s) <= space THEN Len(s) ELSE 0
    IN
    /\ contents' = contents \o SubSeq(s, 1, n)
    /\ Call("appendSlice", s)

RemoveFirst ==
    /\ contents # << >>
    /\ contents' = Tail(contents)
    /\ Call("removeFront", << >>)

RemoveLast ==
    /\ contents # << >>
    /\ contents' = SubSeq(contents, 1, Len(contents) - 1)
    /\ Call("removeBack", << >>)

Clear == contents' = << >> /\ Call("clear", << >>)

Next ==
    /\ \/ \E v \in Value : Append1(v) \/ Prepend1(v)
       \/ \E s \in Slice : AppendMany(s)
       \/ RemoveFirst \/ RemoveLast \/ Clear
    /\ UNCHANGED <<strategy, limit>>

Spec == Init /\ [][Next]_vars
=============================================================================
