-------------------------- MODULE SharedBufferPool --------------------------
(***************************************************************************)
(* outpost::utils::SharedBuffer, its smart pointers and SharedBufferPool   *)
(* (modules/utils, container/shared_buffer.* and shared_object_pool.h).    *)
(*                                                                         *)
(* A buffer is free when its reference counter is zero; nothing else marks *)
(* it as free.  Every constructor, destructor and assignment of a pointer  *)
(* is a sequence of increments and decrements, each of them atomic (it     *)
(* holds the static SharedBuffer::mMutex) but interleaved with the steps   *)
(* of other threads.  A pointer operation is modelled by the script of the *)
(* counter steps that it still has to execute.                             *)
(*                                                                         *)
(* Two objects hold a reference in a child pointer: its own mPtr and the   *)
(* mPtr of its member mParent.  Both are handles here, and a temporary     *)
(* pointer of a thread is one more object.  mType, mOffset and mLength do  *)
(* not influence the counting and are left out.                            *)
(***************************************************************************)
EXTENDS Integers, Sequences, FiniteSets

CONSTANTS
    Thread,         \* threads working on pointers of the pool
    Pointer,        \* pointer variables of the program
    N,              \* number of buffers of the pool
    NoBuffer,       \* nullptr
    NoThread        \* the pool mutex is free

ASSUME PoolAssumption ==
    /\ N \in Nat \ {0}
    /\ IsFiniteSet(Thread)
    /\ IsFiniteSet(Pointer)
    /\ Thread \cap Pointer = {}
    /\ NoBuffer \notin 0 .. N - 1
    /\ NoThread \notin Thread

VARIABLES
    mReferenceCounter,  \* one counter per buffer
    ref,                \* what each handle points to
    mLastIndex,         \* where the next allocation starts to look
    mMutex,             \* owner of the mutex of the pool
    pc,                 \* what each thread is doing
    cur,                \* loop index i of allocate()
    script,             \* counter steps the thread's operation still executes
    use                 \* pointers the running operation reads and writes

vars == <<mReferenceCounter, ref, mLastIndex, mMutex, pc, cur, script, use>>

Buffer == 0 .. N - 1
Object == Pointer \cup Thread
Handle == Object \X {"mPtr", "mParent"}
Use    == [write : SUBSET Pointer, read : SUBSET Pointer]
Unused == [write |-> {}, read |-> {}]

(* The own reference and the parent reference of a pointer object. *)
Own(o)  == <<o, "mPtr">>
Par(o)  == <<o, "mParent">>

(* One counter step: decrementCount() of a handle that is given up, or the *)
(* copy of src's mPtr into the handle followed by incrementCount().        *)
Step == [op : {"inc", "dec"}, h : Handle, src : Handle]
Inc(h, s) == [op |-> "inc", h |-> h, src |-> s]
Dec(h)    == [op |-> "dec", h |-> h, src |-> h]

(* SharedBufferPointerBase::operator=, inherited by SharedBufferPointer    *)
(* and ConstSharedBufferPointer; mParent of a child is not touched.        *)
AssignBase_NoRelease(p, q) == <<Inc(Own(p), Own(q))>>
AssignBase(p, q) == <<Dec(Own(p)), Inc(Own(p), Own(q))>>

(* SharedChildPointer::operator=: the parent is assigned in between. *)
AssignChild(p, q) ==
    <<Dec(Own(p)), Dec(Par(p)), Inc(Par(p), Par(q)), Inc(Own(p), Own(q))>>

(* ~SharedChildPointer: the member mParent first, the base class last. *)
Destroy(p) == <<Dec(Par(p)), Dec(Own(p))>>

(* getChild(): the temporary SharedChildPointer(mPtr, *this) of thread t,  *)
(* its assignment to c, its destruction.                                   *)
MakeChild(t, p, c) ==
    <<Inc(Own(t), Own(p)), Inc(Par(t), Own(p)),
      Dec(Own(c)), Dec(Par(c)), Inc(Par(c), Par(t)), Inc(Own(c), Own(t)),
      Dec(Par(t)), Dec(Own(t))>>

(* The end of a successful allocate(): the assignment of the temporary to  *)
(* the caller's pointer and the destruction of the temporary.              *)
FinishAllocate(t, p) == <<Dec(Own(p)), Inc(Own(p), Own(t)), Dec(Own(t))>>
-----------------------------------------------------------------------------
Init ==
    /\ mReferenceCounter = [b \in Buffer |-> 0]
    /\ ref = [h \in Handle |-> NoBuffer]
    /\ mLastIndex = 0
    /\ mMutex = NoThread
    /\ pc = [t \in Thread |-> "idle"]
    /\ cur = [t \in Thread |-> 0]
    /\ script = [t \in Thread |-> << >>]
    /\ use = [t \in Thread |-> Unused]

(* A pointer object is not protected by a lock: the program lets only one  *)
(* thread change it, and nobody reads it meanwhile.                        *)
MayUse(t, w, r) ==
    \A u \in Thread \ {t} :
        /\ w \cap (use[u].write \cup use[u].read) = {}
        /\ r \cap use[u].write = {}

Begin(t, w, r, s) ==
    /\ pc[t] = "idle"
    /\ MayUse(t, w, r)
    /\ pc' = [pc EXCEPT ![t] = "run"]
    /\ script' = [script EXCEPT ![t] = s]
    /\ use' = [use EXCEPT ![t] = [write |-> w, read |-> r]]
    /\ UNCHANGED <<mReferenceCounter, ref, mLastIndex, mMutex, cur>>

(* p = q for two plain pointers; a self-assignment does nothing. *)
Copy(t, p, q) ==
    /\ p # q
    /\ Begin(t, {p}, {q}, AssignBase(p, q))

(* p = q for two child pointers. *)
CopyChild(t, p, q) ==
    /\ p # q
    /\ Begin(t, {p}, {q}, AssignChild(p, q))

(* A pointer goes out of scope. *)
Drop(t, p) == Begin(t, {p}, {}, Destroy(p))

(* p.getChild(c, ...), with offset and length that fit into p.  When they  *)
(* do not fit, or p is empty, nothing happens.                             *)
GetChild(t, p, c) ==
    /\ ref[Own(p)] # NoBuffer
    /\ mReferenceCounter[ref[Own(p)]] # 0
    /\ Begin(t, {c}, {p}, MakeChild(t, p, c))

(* allocate(p): lock the pool and start at the slot after the last one. *)
Allocate_Unlocked(t, p) ==
    /\ pc[t] = "idle"
    /\ MayUse(t, {p}, {})
    /\ mMutex' = t
    /\ cur' = [cur EXCEPT ![t] = mLastIndex]
    /\ pc' = [pc EXCEPT ![t] = "scan"]
    /\ use' = [use EXCEPT ![t] = [write |-> {p}, read |-> {}]]
    /\ UNCHANGED <<mReferenceCounter, ref, mLastIndex, script>>

Allocate(t, p) ==
    /\ pc[t] = "idle"
    /\ mMutex = NoThread
    /\ MayUse(t, {p}, {})
    /\ mMutex' = t
    /\ cur' = [cur EXCEPT ![t] = mLastIndex]
    /\ pc' = [pc EXCEPT ![t] = "scan"]
    /\ use' = [use EXCEPT ![t] = [write |-> {p}, read |-> {}]]
    /\ UNCHANGED <<mReferenceCounter, ref, mLastIndex, script>>

(* The round robin over the buffers. *)
NextIndex(i) == (i + 1) % N

(* One round of the loop: mBuffer[i].isUsed() is read; the buffer is only  *)
(* taken in a later step.                                                  *)
FindFree(t) ==
    /\ pc[t] = "scan"
    /\ mReferenceCounter[cur[t]] = 0
    /\ pc' = [pc EXCEPT ![t] = "take"]
    /\ UNCHANGED <<mReferenceCounter, ref, mLastIndex, mMutex, cur, script, use>>

TryNext_Endless(t) ==
    /\ pc[t] = "scan"
    /\ mReferenceCounter[cur[t]] # 0
    /\ cur' = [cur EXCEPT ![t] = NextIndex(cur[t])]
    /\ UNCHANGED <<mReferenceCounter, ref, mLastIndex, mMutex, pc, script, use>>
TryNext(t) ==
    /\ pc[t] = "scan"
    /\ mReferenceCounter[cur[t]] # 0
    /\ NextIndex(cur[t]) # mLastIndex
    /\ cur' = [cur EXCEPT ![t] = NextIndex(cur[t])]
    /\ UNCHANGED <<mReferenceCounter, ref, mLastIndex, mMutex, pc, script, use>>

(* Back at mLastIndex: the allocation has failed. *)
GiveUp_AtOnce(t) ==
    /\ pc[t] = "scan"
    /\ mReferenceCounter[cur[t]] # 0
    /\ pc' = [pc EXCEPT ![t] = "idle"]
    /\ use' = [use EXCEPT ![t] = Unused]
    /\ mMutex' = NoThread
    /\ UNCHANGED <<mReferenceCounter, ref, mLastIndex, cur, script>>

GiveUp(t) ==
    /\ pc[t] = "scan"
    /\ mReferenceCounter[cur[t]] # 0
    /\ NextIndex(cur[t]) = mLastIndex
    /\ pc' = [pc EXCEPT ![t] = "idle"]
    /\ use' = [use EXCEPT ![t] = Unused]
    /\ mMutex' = NoThread
    /\ UNCHANGED <<mReferenceCounter, ref, mLastIndex, cur, script>>

(* SharedBufferPointer(&mBuffer[i]): the temporary takes the first reference. *)
Take(t) ==
    /\ pc[t] = "take"
    /\ ref' = [ref EXCEPT ![Own(t)] = cur[t]]
    /\ mReferenceCounter' = [mReferenceCounter EXCEPT ![cur[t]] = @ + 1]
    /\ pc' = [pc EXCEPT ![t] = "run"]
    /\ \E p \in use[t].write :
         script' = [script EXCEPT ![t] = FinishAllocate(t, p)]
    /\ UNCHANGED <<mLastIndex, mMutex, cur, use>>

(* SharedBuffer::incrementCountAtomic / decrementCountAtomic.  A handle    *)
(* that holds nullptr leaves the counters alone.                           *)
Increment(h, s) ==
    /\ ref' = [ref EXCEPT ![h] = ref[s]]
    /\ mReferenceCounter' =
         IF ref[s] = NoBuffer THEN mReferenceCounter
         ELSE [mReferenceCounter EXCEPT ![ref[s]] = @ + 1]

Decrement(h) ==
    /\ ref' = [ref EXCEPT ![h] = NoBuffer]
    /\ mReferenceCounter' =
         IF ref[h] = NoBuffer THEN mReferenceCounter
         ELSE [mReferenceCounter EXCEPT ![ref[h]] = IF @ > 0 THEN @ - 1 ELSE @]

(* The next counter step of the running operation. *)
Execute(t) ==
    /\ pc[t] = "run"
    /\ script[t] # << >>
    /\ LET s == Head(script[t]) IN
         \/ s.op = "inc" /\ Increment(s.h, s.src)
         \/ s.op = "dec" /\ Decrement(s.h)
    /\ script' = [script EXCEPT ![t] = Tail(script[t])]
    /\ UNCHANGED <<mLastIndex, mMutex, pc, cur, use>>

(* The operation returns; allocate() records the index and unlocks first. *)
Return(t) ==
    /\ pc[t] = "run"
    /\ script[t] = << >>
    /\ \/ /\ mMutex = t
          /\ mLastIndex' = NextIndex(cur[t])
          /\ mMutex' = NoThread
       \/ /\ mMutex # t
          /\ UNCHANGED <<mLastIndex, mMutex>>
    /\ pc' = [pc EXCEPT ![t] = "idle"]
    /\ use' = [use EXCEPT ![t] = Unused]
    /\ UNCHANGED <<mReferenceCounter, ref, cur, script>>

Scan(t)     == FindFree(t) \/ TryNext(t) \/ GiveUp(t)
Progress(t) == Scan(t) \/ Take(t) \/ Execute(t) \/ Return(t)

Next ==
    \E t \in Thread :
        \/ \E p \in Pointer : Drop(t, p) \/ Allocate(t, p)
        \/ \E p, q \in Pointer :
             Copy(t, p, q) \/ CopyChild(t, p, q) \/ GetChild(t, p, q)
        \/ Progress(t)

(* A thread inside an operation is scheduled again eventually; nothing     *)
(* forces a thread to start one.                                           *)
Spec == Init /\ [][Next]_vars /\ \A t \in Thread : WF_vars(Progress(t))
-----------------------------------------------------------------------------
TypeOK ==
    /\ mReferenceCounter \in [Buffer -> Nat]
    /\ ref \in [Handle -> Buffer \cup {NoBuffer}]
    /\ mLastIndex \in Buffer
    /\ mMutex \in Thread \cup {NoThread}
    /\ pc \in [Thread -> {"idle", "scan", "take", "run"}]
    /\ cur \in [Thread -> Buffer]
    /\ script \in [Thread -> Seq(Step)]
    /\ use \in [Thread -> Use]

(* The counter of a buffer equals the number of handles that point to it,  *)
(* at every step of every operation: a buffer is never free while somebody *)
(* refers to it (a counter too low) and never stays in use after the last  *)
(* pointer is gone (a counter too high).                                   *)
Holders(b) == {h \in Handle : ref[h] = b}
CountExact == \A b \in Buffer : mReferenceCounter[b] = Cardinality(Holders(b))

(* allocate() tests a buffer and takes it in two steps.  In between no     *)
(* thread can obtain a reference to that buffer, so it is handed out to    *)
(* one caller only.                                                        *)
TakesFreeBuffer ==
    \A t \in Thread : pc[t] = "take" => Holders(cur[t]) = {}

(* When no operation of a thread is running, no temporary of it keeps a    *)
(* reference: allocate() and getChild() leak nothing.                      *)
NoTemporaryLeft ==
    \A t \in Thread : pc[t] \in {"idle", "scan", "take"} =>
        ref[Own(t)] = NoBuffer /\ ref[Par(t)] = NoBuffer

(* The counters of the shared buffers are exact and no temporary of an     *)
(* operation that has returned keeps one: a buffer is in the pool if and   *)
(* only if no pointer of the program refers to it.                         *)
ReferencesExact == TypeOK /\ CountExact /\ NoTemporaryLeft

(* Every pointer operation and every allocation comes to an end, whatever  *)
(* the other threads do to the buffers while allocate() looks at them.     *)
OperationsReturn ==
    \A t \in Thread : (pc[t] # "idle") ~> (pc[t] = "idle")
=============================================================================
