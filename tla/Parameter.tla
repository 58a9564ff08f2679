------------------------------ MODULE Parameter ------------------------------
(***************************************************************************)
(* outpost::parameter::Parameter (parameter, parameter.h,                  *)
(* parameter_impl.h): a value with the time of its last change, kept       *)
(* twice.  A writer fills the copy that is not current and then switches;  *)
(* a reader copies the current one and tries again if it saw a switch.     *)
(*                                                                         *)
(* The n-th write stores the value n and the time n, so that a pair is     *)
(* from one write iff its halves agree.  mCurrentElementIsFirst is a plain *)
(* bool: an optimising build merges the two reads of getValue(), and then  *)
(* `after' is `before'.  Both builds are in the model (SecondRead); stores *)
(* keep their order, and the halves of an element are copied in any order. *)
(***************************************************************************)
EXTENDS Integers, FiniteSets

CONSTANTS
    ParWriter, ParReader,
    maxReadTries,
    SecondRead,     \* "made", "merged": what builds do with the second read
    MaxWrites       \* bound: calls of setValue()

ASSUME ParameterAssumption ==
    /\ maxReadTries \in Nat \ {0}
    /\ MaxWrites \in Nat
    /\ SecondRead \subseteq {"made", "merged"}
    /\ IsFiniteSet(ParWriter)

VARIABLES
    mMultipleWriters, mWriteInProgress,
    mElements, mCurrentElementIsFirst,
    writer,         \* per writer: where it is, the element and value it writes
    reader,         \* per reader: where it is, before, tmp, Try, and the value
                    \* that was current and the writes that overlap its try
    writes          \* number of writes begun

parameterVars == <<mMultipleWriters, mWriteInProgress, mElements,
                   mCurrentElementIsFirst, writer, reader, writes>>

Half == {"data", "changeTime"}
Both(v) == [h \in Half |-> v]
Current == IF mCurrentElementIsFirst THEN 0 ELSE 1
Writing == {w \in ParWriter : writer[w].at \in {"time", "data", "switch"}}
Resting == [at |-> "idle", before |-> TRUE, tmp |-> Both(0), copied |-> {}, Try |-> 0,
            current |-> 0, overlaps |-> 0]

ParameterInit ==
    /\ mMultipleWriters \in BOOLEAN
    /\ mWriteInProgress = FALSE
    /\ mElements = [e \in 0 .. 1 |-> Both(0)]
    /\ mCurrentElementIsFirst = TRUE
    /\ writer = [w \in ParWriter |-> [at |-> "idle", element |-> 0, value |-> 0]]
    /\ reader = [r \in ParReader |-> Resting]
    /\ writes = 0

(* Only before a second thread writes. *)
activateMultipleWritersSupport ==
    /\ ~ mMultipleWriters
    /\ \A w \in ParWriter : writer[w].at = "idle"
    /\ mMultipleWriters' = TRUE
    /\ UNCHANGED <<mWriteInProgress, mElements, mCurrentElementIsFirst, writer, reader, writes>>
-----------------------------------------------------------------------------
(* setValue().  Without the support for several writers there is one.  A   *)
(* caller that finds mWriteInProgress set returns concurrentWrite.         *)
MayWrite_Unprotected(w) == mMultipleWriters \/ \A x \in ParWriter : writer[x].at = "idle"
MayWrite(w) ==
    IF mMultipleWriters THEN ~ mWriteInProgress
    ELSE \A x \in ParWriter : writer[x].at = "idle"

(* A try that is copying meets one more write. *)
Overlapped(try) ==
    IF try.at = "copy" THEN [try EXCEPT !.overlaps = @ + 1] ELSE try

setValue(w) ==
    /\ writer[w].at = "idle"
    /\ writes < MaxWrites
    /\ MayWrite(w)
    /\ mWriteInProgress' = (mWriteInProgress \/ mMultipleWriters)
    /\ writes' = writes + 1
    /\ writer' = [writer EXCEPT ![w] = [at |-> "time", element |-> 1 - Current, value |-> writes + 1]]
    /\ reader' = [r \in ParReader |-> Overlapped(reader[r])]
    /\ UNCHANGED <<mMultipleWriters, mElements, mCurrentElementIsFirst>>
storeTime(w) ==
    /\ writer[w].at = "time"
    /\ mElements' = [mElements EXCEPT ![writer[w].element]["changeTime"] = writer[w].value]
    /\ writer' = [writer EXCEPT ![w].at = "data"]
    /\ UNCHANGED <<mMultipleWriters, mWriteInProgress, mCurrentElementIsFirst, reader, writes>>
storeData(w) ==
    /\ writer[w].at = "data"
    /\ mElements' = [mElements EXCEPT ![writer[w].element]["data"] = writer[w].value]
    /\ writer' = [writer EXCEPT ![w].at = "switch"]
    /\ UNCHANGED <<mMultipleWriters, mWriteInProgress, mCurrentElementIsFirst, reader, writes>>
switch(w) ==
    /\ writer[w].at = "switch"
    /\ mCurrentElementIsFirst' = (writer[w].element = 0)
    /\ writer' = [writer EXCEPT ![w].at = IF mMultipleWriters THEN "clear" ELSE "idle"]
    /\ UNCHANGED <<mMultipleWriters, mWriteInProgress, mElements, reader, writes>>
clearFlag(w) ==
    /\ writer[w].at = "clear"
    /\ mWriteInProgress' = FALSE
    /\ writer' = [writer EXCEPT ![w].at = "idle"]
    /\ UNCHANGED <<mMultipleWriters, mElements, mCurrentElementIsFirst, reader, writes>>
-----------------------------------------------------------------------------
(* getValue(): a try begins with the read of `before'. *)
BeginTry(r, tries) ==
    reader' = [reader EXCEPT ![r] =
        [at |-> "copy", before |-> mCurrentElementIsFirst, tmp |-> Both(0), copied |-> {},
         Try |-> tries, current |-> mElements[Current]["data"], overlaps |-> Cardinality(Writing)]]

getValue(r) ==
    /\ reader[r].at \in {"idle", "success", "tooManyConcurrentWrites"}
    /\ BeginTry(r, 1)
    /\ UNCHANGED <<mMultipleWriters, mWriteInProgress, mElements, mCurrentElementIsFirst,
                   writer, writes>>

Source(r) == IF reader[r].before THEN 0 ELSE 1

copy(r, h) ==
    /\ reader[r].at = "copy"
    /\ h \notin reader[r].copied
    /\ reader' = [reader EXCEPT ![r].tmp[h] = mElements[Source(r)][h],
                                ![r].copied = @ \cup {h}]
    /\ UNCHANGED <<mMultipleWriters, mWriteInProgress, mElements, mCurrentElementIsFirst,
                   writer, writes>>

(* The end of a try, with the value `after' of the second read. *)
endTry(r, after) ==
    /\ reader[r].at = "copy"
    /\ reader[r].copied = Half
    /\ \/ "made" \in SecondRead /\ after = mCurrentElementIsFirst
       \/ "merged" \in SecondRead /\ after = reader[r].before
    /\ \/ /\ after = reader[r].before
          /\ reader' = [reader EXCEPT ![r].at = "success"]
       \/ /\ after # reader[r].before
          /\ reader[r].Try < maxReadTries
          /\ BeginTry(r, reader[r].Try + 1)
       \/ /\ after # reader[r].before
          /\ reader[r].Try >= maxReadTries
          /\ reader' = [reader EXCEPT ![r].at = "tooManyConcurrentWrites"]
    /\ UNCHANGED <<mMultipleWriters, mWriteInProgress, mElements, mCurrentElementIsFirst,
                   writer, writes>>

ParameterNext ==
    \/ activateMultipleWritersSupport
    \/ \E w \in ParWriter :
         setValue(w) \/ storeTime(w) \/ storeData(w) \/ switch(w) \/ clearFlag(w)
    \/ \E r \in ParReader :
         \/ getValue(r)
         \/ \E h \in Half : copy(r, h)
         \/ \E after \in BOOLEAN : endTry(r, after)

ParameterSpec == ParameterInit /\ [][ParameterNext]_parameterVars
-----------------------------------------------------------------------------
(* At any time the current element holds the value and the time of one     *)
(* write, and no writer is about to store into it: the writers exclude     *)
(* each other, by mWriteInProgress or because there is only one.           *)
CurrentStable ==
    /\ mElements[Current]["data"] = mElements[Current]["changeTime"]
    /\ \A w \in Writing : writer[w].element # Current

(* A read that succeeds while fewer than two writes overlap its last try   *)
(* returns the pair that was current when the try began, whether or not    *)
(* the build kept the second read of mCurrentElementIsFirst.               *)
ReadsLinearizable ==
    \A r \in ParReader :
        (reader[r].at = "success" /\ reader[r].overlaps < 2)
            => reader[r].tmp = Both(reader[r].current)

(* Writers keep the current element whole, and readers that meet at most   *)
(* one write get it.                                                       *)
ParameterSound == CurrentStable /\ ReadsLinearizable

(* parameter.h says of the tries of getValue() that a read will fail when  *)
(* a write is commenced at the same time: a read that succeeds returns the *)
(* value and the time of one write.                                        *)
ReadsConsistent ==
    \A r \in ParReader :
        reader[r].at = "success" => reader[r].tmp["data"] = reader[r].tmp["changeTime"]
=============================================================================
