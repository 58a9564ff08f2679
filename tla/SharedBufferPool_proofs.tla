----------------------- MODULE SharedBufferPool_proofs -----------------------
(***************************************************************************)
(* The reference counting of SharedBufferPool is exact and an allocation   *)
(* never hands out a buffer that is referred to, for any number of         *)
(* threads, pointers and buffers.                                          *)
(*                                                                         *)
(* CountExact is not inductive: it survives an increment only if the       *)
(* handle that is overwritten holds nothing, which is a fact about what    *)
(* the running operation executed before.  ScriptSound states it for the   *)
(* steps that are still to come.                                           *)
(*                                                                         *)
(* The search of allocate() gives up only when there was nothing to find:  *)
(* a buffer that has been free all along is still ahead of the loop.       *)
(***************************************************************************)
EXTENDS SharedBufferSearch, FiniteSetTheorems, TLAPS

(* The thread that searches is the owner of the mutex. *)
LockHeld ==
    \A t \in Thread : pc[t] \in {"scan", "take"} => mMutex = t

(* Idle threads use no pointer; two threads never write to the same one. *)
Disjoint ==
    /\ \A t \in Thread : pc[t] = "idle" => use[t] = Unused
    /\ \A t, u \in Thread : t # u => use[t].write \cap use[u].write = {}

Indices(t) == 1 .. Len(script[t])
IsInc(t, k, h) == script[t][k].op = "inc" /\ script[t][k].h = h
IsDec(t, k, h) == script[t][k].op = "dec" /\ script[t][k].h = h

(* An operation touches its own pointers and its own temporary. *)
OwnHandles ==
    \A t \in Thread : \A k \in Indices(t) :
        script[t][k].h[1] \in use[t].write \cup {t}

(* A handle is set at most once, and only after it was given up. *)
SetAfterGivenUp ==
    \A t \in Thread : \A k \in Indices(t) : \A h \in Handle :
        IsInc(t, k, h) =>
            /\ ref[h] = NoBuffer \/ \E j \in 1 .. k - 1 : IsDec(t, j, h)
            /\ \A j \in Indices(t) : IsInc(t, j, h) => j = k

(* A temporary that is, or will be, set is given up at the end. *)
TemporaryGivenUp ==
    \A t \in Thread : \A h \in {Own(t), Par(t)} :
        (ref[h] # NoBuffer \/ \E k \in Indices(t) : IsInc(t, k, h)) =>
            \E j \in Indices(t) :
                IsDec(t, j, h) /\ \A k \in Indices(t) : IsInc(t, k, h) => k < j

(* Only a running operation has a script. *)
ScriptOnlyInRun == \A t \in Thread : pc[t] # "run" => script[t] = << >>

ScriptSound ==
    OwnHandles /\ SetAfterGivenUp /\ TemporaryGivenUp /\ ScriptOnlyInRun

IInv ==
    TypeOK /\ LockHeld /\ Disjoint /\ ScriptSound /\ CountExact /\ TakesFreeBuffer
-----------------------------------------------------------------------------
LEMMA HandleFacts ==
    /\ IsFiniteSet(Handle)
    /\ \A o \in Object : Own(o) \in Handle /\ Par(o) \in Handle
    /\ \A h, s \in Handle : Inc(h, s) \in Step /\ Dec(h) \in Step
    /\ \A p \in Pointer : p \in Object
    /\ \A t \in Thread : t \in Object
  <1>1. IsFiniteSet(Object)
    BY FS_Union, PoolAssumption DEF Object
  <1>2. IsFiniteSet({"mPtr", "mParent"})
    <2>1. IsFiniteSet({"mPtr"})
      BY FS_Singleton
    <2>2. {"mPtr", "mParent"} = {"mPtr"} \cup {"mParent"}
      OBVIOUS
    <2>3. QED BY <2>1, <2>2, FS_AddElement
  <1>3. IsFiniteSet(Handle)
    BY <1>1, <1>2, FS_Product DEF Handle
  <1>4. QED BY <1>3 DEF Own, Par, Handle, Step, Inc, Dec, Object

(* The scripts of all operations are sequences of counter steps. *)
LEMMA ScriptTypes ==
    ASSUME NEW t \in Thread, NEW p \in Pointer, NEW q \in Pointer
    PROVE  /\ AssignBase(p, q) \in Seq(Step)
           /\ AssignChild(p, q) \in Seq(Step)
           /\ Destroy(p) \in Seq(Step)
           /\ MakeChild(t, p, q) \in Seq(Step)
           /\ FinishAllocate(t, p) \in Seq(Step)
  BY HandleFacts DEF AssignBase, AssignChild, Destroy, MakeChild, FinishAllocate

(* Every step keeps the types. *)
LEMMA TypeStep ==
    ASSUME TypeOK, [Next]_vars
    PROVE  TypeOK'
  <1> USE DEF TypeOK, Buffer
  <1>1. ASSUME NEW t \in Thread, NEW w \in SUBSET Pointer, NEW r \in SUBSET Pointer,
               NEW s \in Seq(Step), Begin(t, w, r, s)
        PROVE  TypeOK'
    BY <1>1 DEF Begin, Use
  <1>2. ASSUME NEW t \in Thread, NEW p \in Pointer, Allocate(t, p)
        PROVE  TypeOK'
    BY <1>2 DEF Allocate, Use
  <1>3. ASSUME NEW t \in Thread, Scan(t) PROVE TypeOK'
    <2>1. (cur[t] + 1) % N \in 0 .. N - 1
      BY PoolAssumption
    <2>2. CASE FindFree(t)
      BY <2>2 DEF FindFree
    <2>3. CASE TryNext(t)
      BY <2>1, <2>3 DEF TryNext, NextIndex
    <2>4. CASE GiveUp(t)
      BY <2>4 DEF GiveUp, Use, Unused
    <2>5. QED BY <1>3, <2>2, <2>3, <2>4 DEF Scan
  <1>4. ASSUME NEW t \in Thread, Take(t) PROVE TypeOK'
    <2>1. PICK p \in use[t].write : script' = [script EXCEPT ![t] = FinishAllocate(t, p)]
      BY <1>4 DEF Take
    <2>2. p \in Pointer
      BY DEF Use
    <2>3. FinishAllocate(t, p) \in Seq(Step) /\ Own(t) \in Handle
      BY <2>2, ScriptTypes, HandleFacts
    <2>4. QED BY <1>4, <2>1, <2>3 DEF Take
  <1>5. ASSUME NEW t \in Thread, Execute(t) PROVE TypeOK'
    <2>1. Head(script[t]) \in Step /\ Tail(script[t]) \in Seq(Step)
      BY <1>5 DEF Execute
    <2> DEFINE s == Head(script[t])
    <2>2. s.h \in Handle /\ s.src \in Handle
      BY <2>1 DEF Step
    <2>3. ref' \in [Handle -> Buffer \cup {NoBuffer}]
      BY <1>5, <2>2 DEF Execute, Increment, Decrement
    <2>4. mReferenceCounter' \in [Buffer -> Nat]
      <3>1. CASE Increment(s.h, s.src)
        BY <3>1, <2>2 DEF Increment
      <3>2. CASE Decrement(s.h)
        BY <3>2, <2>2 DEF Decrement
      <3>3. QED BY <1>5, <3>1, <3>2 DEF Execute
    <2>5. script' \in [Thread -> Seq(Step)]
      BY <1>5, <2>1 DEF Execute
    <2>6. QED BY <1>5, <2>3, <2>4, <2>5 DEF Execute
  <1>6. ASSUME NEW t \in Thread, Return(t) PROVE TypeOK'
    <2>1. (cur[t] + 1) % N \in 0 .. N - 1
      BY PoolAssumption
    <2>2. Unused \in Use
      BY DEF Use, Unused
    <2>3. mLastIndex' \in Buffer /\ mMutex' \in Thread \cup {NoThread}
      BY <1>6, <2>1 DEF Return, NextIndex
    <2>4. QED BY <1>6, <2>2, <2>3 DEF Return
  <1>7. CASE UNCHANGED vars
    BY <1>7 DEF vars
  <1>8. QED
    BY <1>1, <1>2, <1>3, <1>4, <1>5, <1>6, <1>7, ScriptTypes
    DEF Next, Progress, Copy, CopyChild, Drop, GetChild
-----------------------------------------------------------------------------
(* What an operation of thread t that writes to the pointers w must look   *)
(* like, by itself, for ScriptSound to hold when it starts.                *)
Incs(s, k, h) == s[k].op = "inc" /\ s[k].h = h
Decs(s, k, h) == s[k].op = "dec" /\ s[k].h = h

Good(t, w, s) ==
    /\ s \in Seq(Step)
    /\ \A k \in 1 .. Len(s) : s[k].h[1] \in w \cup {t}
    /\ \A k \in 1 .. Len(s) : s[k].op = "inc" =>
         /\ s[k].h \in {Own(t), Par(t)} \/ \E j \in 1 .. k - 1 : Decs(s, j, s[k].h)
         /\ \A j \in 1 .. Len(s) : Incs(s, j, s[k].h) => j = k
    /\ \A h \in {Own(t), Par(t)} : (\E k \in 1 .. Len(s) : Incs(s, k, h)) =>
         \E j \in 1 .. Len(s) :
             Decs(s, j, h) /\ \A k \in 1 .. Len(s) : Incs(s, k, h) => k < j

LEMMA GoodOperations ==
    ASSUME NEW t \in Thread, NEW p \in Pointer, NEW q \in Pointer
    PROVE  /\ Good(t, {p}, AssignBase(p, q))
           /\ Good(t, {p}, AssignChild(p, q))
           /\ Good(t, {p}, Destroy(p))
           /\ Good(t, {q}, MakeChild(t, p, q))
  <1>0. /\ \A o \in Object : Own(o)[1] = o /\ Par(o)[1] = o /\ Own(o) # Par(o)
        /\ \A o, u \in Object : o # u =>
             Own(o) # Own(u) /\ Par(o) # Par(u) /\ Own(o) # Par(u)
        /\ p \in Object /\ q \in Object /\ t \in Object /\ t # p /\ t # q
    BY PoolAssumption DEF Own, Par, Object
  <1>1. Good(t, {p}, AssignBase(p, q))
    <2> DEFINE s == AssignBase(p, q)
    <2>1. Len(s) = 2 /\ s \in Seq(Step)
      BY ScriptTypes DEF AssignBase
    <2>2. /\ s[1].op = "dec" /\ s[1].h = Own(p)
          /\ s[2].op = "inc" /\ s[2].h = Own(p)
      BY DEF AssignBase, Inc, Dec
    <2> HIDE DEF s
    <2>3. 1 .. Len(s) = {1, 2}
      BY <2>1
    <2>4. \A k \in 1 .. Len(s) : s[k].h[1] \in {p} \cup {t}
      BY <1>0, <2>2, <2>3
    <2>5. \A k \in 1 .. Len(s) : s[k].op = "inc" =>
            s[k].h \in {Own(t), Par(t)} \/ \E j \in 1 .. k - 1 : Decs(s, j, s[k].h)
      BY <1>0, <2>2, <2>3 DEF Decs
    <2>6. \A k, j \in 1 .. Len(s) : s[k].op = "inc" /\ Incs(s, j, s[k].h) => j = k
      BY <1>0, <2>2, <2>3 DEF Incs
    <2>7. \A h \in {Own(t), Par(t)} : (\E k \in 1 .. Len(s) : Incs(s, k, h)) =>
            \E j \in 1 .. Len(s) :
                Decs(s, j, h) /\ \A k \in 1 .. Len(s) : Incs(s, k, h) => k < j
      BY <1>0, <2>2, <2>3 DEF Incs, Decs
    <2>8. QED BY <2>1, <2>4, <2>5, <2>6, <2>7 DEF Good, Incs, s
  <1>2. Good(t, {p}, AssignChild(p, q))
    <2> DEFINE s == AssignChild(p, q)
    <2>1. Len(s) = 4 /\ s \in Seq(Step)
      BY ScriptTypes DEF AssignChild
    <2>2. /\ s[1].op = "dec" /\ s[1].h = Own(p)
          /\ s[2].op = "dec" /\ s[2].h = Par(p)
          /\ s[3].op = "inc" /\ s[3].h = Par(p)
          /\ s[4].op = "inc" /\ s[4].h = Own(p)
      BY DEF AssignChild, Inc, Dec
    <2> HIDE DEF s
    <2>3. 1 .. Len(s) = {1, 2, 3, 4}
      BY <2>1
    <2>4. \A k \in 1 .. Len(s) : s[k].h[1] \in {p} \cup {t}
      BY <1>0, <2>2, <2>3
    <2>5. \A k \in 1 .. Len(s) : s[k].op = "inc" =>
            s[k].h \in {Own(t), Par(t)} \/ \E j \in 1 .. k - 1 : Decs(s, j, s[k].h)
      BY <1>0, <2>2, <2>3 DEF Decs
    <2>6. \A k, j \in 1 .. Len(s) : s[k].op = "inc" /\ Incs(s, j, s[k].h) => j = k
      BY <1>0, <2>2, <2>3 DEF Incs
    <2>7. \A h \in {Own(t), Par(t)} : (\E k \in 1 .. Len(s) : Incs(s, k, h)) =>
            \E j \in 1 .. Len(s) :
                Decs(s, j, h) /\ \A k \in 1 .. Len(s) : Incs(s, k, h) => k < j
      BY <1>0, <2>2, <2>3 DEF Incs, Decs
    <2>8. QED BY <2>1, <2>4, <2>5, <2>6, <2>7 DEF Good, Incs, s
  <1>3. Good(t, {p}, Destroy(p))
    <2> DEFINE s == Destroy(p)
    <2>1. Len(s) = 2 /\ s \in Seq(Step)
      BY ScriptTypes DEF Destroy
    <2>2. /\ s[1].op = "dec" /\ s[1].h = Par(p)
          /\ s[2].op = "dec" /\ s[2].h = Own(p)
      BY DEF Destroy, Inc, Dec
    <2> HIDE DEF s
    <2>3. 1 .. Len(s) = {1, 2}
      BY <2>1
    <2>4. \A k \in 1 .. Len(s) : s[k].h[1] \in {p} \cup {t}
      BY <1>0, <2>2, <2>3
    <2>5. \A k \in 1 .. Len(s) : s[k].op = "inc" =>
            s[k].h \in {Own(t), Par(t)} \/ \E j \in 1 .. k - 1 : Decs(s, j, s[k].h)
      BY <1>0, <2>2, <2>3 DEF Decs
    <2>6. \A k, j \in 1 .. Len(s) : s[k].op = "inc" /\ Incs(s, j, s[k].h) => j = k
      BY <1>0, <2>2, <2>3 DEF Incs
    <2>7. \A h \in {Own(t), Par(t)} : (\E k \in 1 .. Len(s) : Incs(s, k, h)) =>
            \E j \in 1 .. Len(s) :
                Decs(s, j, h) /\ \A k \in 1 .. Len(s) : Incs(s, k, h) => k < j
      BY <1>0, <2>2, <2>3 DEF Incs, Decs
    <2>8. QED BY <2>1, <2>4, <2>5, <2>6, <2>7 DEF Good, Incs, s
  <1>4. Good(t, {q}, MakeChild(t, p, q))
    <2> DEFINE s == MakeChild(t, p, q)
    <2>1. Len(s) = 8 /\ s \in Seq(Step)
      BY ScriptTypes DEF MakeChild
    <2>2. /\ s[1].op = "inc" /\ s[1].h = Own(t)
          /\ s[2].op = "inc" /\ s[2].h = Par(t)
          /\ s[3].op = "dec" /\ s[3].h = Own(q)
          /\ s[4].op = "dec" /\ s[4].h = Par(q)
          /\ s[5].op = "inc" /\ s[5].h = Par(q)
          /\ s[6].op = "inc" /\ s[6].h = Own(q)
          /\ s[7].op = "dec" /\ s[7].h = Par(t)
          /\ s[8].op = "dec" /\ s[8].h = Own(t)
      BY DEF MakeChild, Inc, Dec
    <2> HIDE DEF s
    <2>3. 1 .. Len(s) = {1, 2, 3, 4, 5, 6, 7, 8}
      BY <2>1
    <2>4. \A k \in 1 .. Len(s) : s[k].h[1] \in {q} \cup {t}
      BY <1>0, <2>2, <2>3, SMTT(30)
    <2>5. \A k \in 1 .. Len(s) : s[k].op = "inc" =>
            s[k].h \in {Own(t), Par(t)} \/ \E j \in 1 .. k - 1 : Decs(s, j, s[k].h)
      <3>1. Decs(s, 4, s[5].h) /\ Decs(s, 3, s[6].h)
        BY <2>2 DEF Decs
      <3>2. \E j \in 1 .. 5 - 1 : Decs(s, j, s[5].h)
        BY <3>1
      <3>3. \E j \in 1 .. 6 - 1 : Decs(s, j, s[6].h)
        BY <3>1
      <3>4. QED BY <2>2, <2>3, <3>2, <3>3
    <2>6. \A k, j \in 1 .. Len(s) : s[k].op = "inc" /\ Incs(s, j, s[k].h) => j = k
      <3>1. /\ s[1].h # s[2].h /\ s[1].h # s[5].h /\ s[1].h # s[6].h
            /\ s[2].h # s[5].h /\ s[2].h # s[6].h /\ s[5].h # s[6].h
        BY <1>0, <2>2
      <3>2. \A k \in 1 .. Len(s) : s[k].op = "inc" => k \in {1, 2, 5, 6}
        BY <2>2, <2>3
      <3>3. QED BY <3>1, <3>2 DEF Incs
    <2>7. \A h \in {Own(t), Par(t)} : (\E k \in 1 .. Len(s) : Incs(s, k, h)) =>
            \E j \in 1 .. Len(s) :
                Decs(s, j, h) /\ \A k \in 1 .. Len(s) : Incs(s, k, h) => k < j
      <3>1. Decs(s, 8, Own(t)) /\ \A k \in 1 .. Len(s) : Incs(s, k, Own(t)) => k < 8
        BY <1>0, <2>2, <2>3, SMTT(30) DEF Incs, Decs
      <3>2. Decs(s, 7, Par(t)) /\ \A k \in 1 .. Len(s) : Incs(s, k, Par(t)) => k < 7
        BY <1>0, <2>2, <2>3, SMTT(30) DEF Incs, Decs
      <3>3. 7 \in 1 .. Len(s) /\ 8 \in 1 .. Len(s)
        BY <2>3
      <3>4. QED BY <3>1, <3>2, <3>3
    <2>8. QED BY <2>1, <2>4, <2>5, <2>6, <2>7 DEF Good, Incs, s
  <1>5. QED BY <1>1, <1>2, <1>3, <1>4
-----------------------------------------------------------------------------
(* A handle that holds nothing starts to point to b. *)
LEMMA CountAdd ==
    ASSUME TypeOK, CountExact, NEW h \in Handle, ref[h] = NoBuffer, NEW b \in Buffer,
           ref' = [ref EXCEPT ![h] = b],
           mReferenceCounter' = [mReferenceCounter EXCEPT ![b] = @ + 1]
    PROVE  CountExact'
  <1> SUFFICES ASSUME NEW c \in Buffer
               PROVE  mReferenceCounter'[c] = Cardinality(Holders(c)')
    BY DEF CountExact
  <1>1. IsFiniteSet(Holders(c)) /\ mReferenceCounter[c] = Cardinality(Holders(c))
    BY HandleFacts, FS_Subset DEF Holders, CountExact
  <1>2. h \notin Holders(c)
    BY PoolAssumption DEF Holders, Buffer
  <1>3. CASE c = b
    <2>1. Holders(c)' = Holders(c) \cup {h}
      BY <1>3 DEF Holders, TypeOK
    <2>2. mReferenceCounter'[c] = mReferenceCounter[c] + 1
      BY <1>3 DEF TypeOK
    <2>3. Cardinality(Holders(c) \cup {h}) = Cardinality(Holders(c)) + 1
      BY <1>1, <1>2, FS_AddElement
    <2>4. QED BY <1>1, <2>1, <2>2, <2>3
  <1>4. CASE c # b
    <2>1. Holders(c)' = Holders(c)
      BY <1>2, <1>4 DEF Holders, TypeOK
    <2>2. mReferenceCounter'[c] = mReferenceCounter[c]
      BY <1>4 DEF TypeOK
    <2>3. QED BY <1>1, <2>1, <2>2
  <1>5. QED BY <1>3, <1>4

(* A handle is given up. *)
LEMMA CountRemove ==
    ASSUME TypeOK, CountExact, NEW h \in Handle, Decrement(h)
    PROVE  CountExact'
  <1> SUFFICES ASSUME NEW c \in Buffer
               PROVE  mReferenceCounter'[c] = Cardinality(Holders(c)')
    BY DEF CountExact
  <1>1. /\ IsFiniteSet(Holders(c))
        /\ mReferenceCounter[c] = Cardinality(Holders(c))
        /\ mReferenceCounter[c] \in Nat
    BY HandleFacts, FS_Subset DEF Holders, CountExact, TypeOK
  <1>2. c # NoBuffer
    BY PoolAssumption DEF Buffer
  <1>3. CASE ref[h] = c
    <2>1. Holders(c)' = Holders(c) \ {h}
      BY <1>2, <1>3 DEF Holders, TypeOK, Decrement
    <2>2. h \in Holders(c)
      BY <1>3 DEF Holders
    <2>3. Cardinality(Holders(c) \ {h}) = Cardinality(Holders(c)) - 1
      BY <1>1, <2>2, FS_RemoveElement
    <2>4. mReferenceCounter[c] > 0
      BY <1>1, <2>2, FS_EmptySet
    <2>5. mReferenceCounter'[c] = mReferenceCounter[c] - 1
      BY <1>2, <1>3, <2>4 DEF TypeOK, Decrement
    <2>6. QED BY <1>1, <2>1, <2>3, <2>5
  <1>4. CASE ref[h] # c
    <2>1. Holders(c)' = Holders(c)
      BY <1>2, <1>4 DEF Holders, TypeOK, Decrement
    <2>2. mReferenceCounter'[c] = mReferenceCounter[c]
      BY <1>4 DEF TypeOK, Decrement
    <2>3. QED BY <1>1, <2>1, <2>2
  <1>5. QED BY <1>3, <1>4

(* The start of a pointer operation. *)
LEMMA BeginStep ==
    ASSUME IInv, TypeOK', NEW t \in Thread, NEW w \in SUBSET Pointer,
           NEW r \in SUBSET Pointer, NEW s, Good(t, w, s), Begin(t, w, r, s)
    PROVE  IInv'
  <1> USE DEF IInv, ScriptSound
  <1>1. script[t] = << >> /\ script' = [script EXCEPT ![t] = s]
    BY DEF Begin, ScriptOnlyInRun
  <1>2. ref[Own(t)] = NoBuffer /\ ref[Par(t)] = NoBuffer
    BY <1>1 DEF TemporaryGivenUp, Indices
  <1>3. LockHeld' /\ TakesFreeBuffer' /\ CountExact' /\ ScriptOnlyInRun'
    BY DEF Begin, LockHeld, TakesFreeBuffer, CountExact, Holders, ScriptOnlyInRun, TypeOK
  <1>4. Disjoint'
    BY DEF Begin, Disjoint, MayUse, TypeOK
  <1>5. \A u \in Thread \ {t} : script'[u] = script[u] /\ use'[u] = use[u]
    BY DEF Begin, TypeOK
  <1>6. script'[t] = s /\ use'[t].write = w /\ ref' = ref
    BY DEF Begin, TypeOK
  <1>7. OwnHandles'
    BY <1>5, <1>6 DEF OwnHandles, Indices, Good
  <1>8. ASSUME NEW u \in Thread, u # t
        PROVE  /\ Indices(u)' = Indices(u)
               /\ \A k, h : IsInc(u, k, h)' <=> IsInc(u, k, h)
               /\ \A k, h : IsDec(u, k, h)' <=> IsDec(u, k, h)
    BY <1>5, <1>8 DEF Indices, IsInc, IsDec
  <1>9. SetAfterGivenUp'
    <2> SUFFICES ASSUME NEW u \in Thread, NEW k \in Indices(u)', NEW h \in Handle,
                        IsInc(u, k, h)'
                 PROVE  /\ ref'[h] = NoBuffer \/ \E j \in 1 .. k - 1 : IsDec(u, j, h)'
                        /\ \A j \in Indices(u)' : IsInc(u, j, h)' => j = k
      BY DEF SetAfterGivenUp
    <2>1. CASE u = t
      BY <1>2, <1>6, <2>1 DEF Indices, IsInc, IsDec, Good, Incs, Decs
    <2>2. CASE u # t
      BY <1>6, <1>8, <2>2 DEF SetAfterGivenUp
    <2>3. QED BY <2>1, <2>2
  <1>10. TemporaryGivenUp'
    <2> SUFFICES ASSUME NEW u \in Thread, NEW h \in {Own(u), Par(u)},
                        ref'[h] # NoBuffer \/ \E k \in Indices(u)' : IsInc(u, k, h)'
                 PROVE  \E j \in Indices(u)' : IsDec(u, j, h)'
                            /\ \A k \in Indices(u)' : IsInc(u, k, h)' => k < j
      BY DEF TemporaryGivenUp
    <2>1. CASE u = t
      BY <1>2, <1>6, <2>1 DEF Indices, IsInc, IsDec, Good, Incs, Decs
    <2>2. CASE u # t
      BY <1>6, <1>8, <2>2 DEF TemporaryGivenUp
    <2>3. QED BY <2>1, <2>2
  <1>11. QED BY <1>3, <1>4, <1>7, <1>9, <1>10

(* A counter without references is that of a buffer without handles. *)
LEMMA FreeHasNoHolders ==
    ASSUME TypeOK, CountExact, NEW b \in Buffer, mReferenceCounter[b] = 0
    PROVE  Holders(b) = {}
  <1>1. IsFiniteSet(Holders(b))
    BY HandleFacts, FS_Subset DEF Holders
  <1>2. QED BY <1>1, FS_EmptySet DEF CountExact

(* The search of allocate(), successful or not. *)
LEMMA SearchStep ==
    ASSUME IInv, TypeOK', NEW t \in Thread,
           (\E p \in Pointer : Allocate(t, p)) \/ Scan(t)
    PROVE  IInv'
  <1> USE DEF IInv, ScriptSound
  <1>1. UNCHANGED <<mReferenceCounter, ref, script>>
    BY DEF Allocate, Scan, FindFree, TryNext, GiveUp
  <1>2. CountExact' /\ TemporaryGivenUp' /\ SetAfterGivenUp'
    BY <1>1 DEF CountExact, Holders, TemporaryGivenUp, SetAfterGivenUp,
                Indices, IsInc, IsDec
  <1>3. script[t] = << >> /\ pc[t] # "run" /\ pc'[t] # "run"
    BY DEF Allocate, Scan, FindFree, TryNext, GiveUp, ScriptOnlyInRun, TypeOK
  <1>4. \A u \in Thread \ {t} : pc'[u] = pc[u] /\ use'[u] = use[u] /\ cur'[u] = cur[u]
    BY DEF Allocate, Scan, FindFree, TryNext, GiveUp, TypeOK
  <1>5. ScriptOnlyInRun' /\ OwnHandles'
    BY <1>1, <1>3, <1>4 DEF ScriptOnlyInRun, OwnHandles, Indices
  <1>6. \A u \in Thread \ {t} : pc[u] \in {"scan", "take"} => mMutex # t /\ mMutex # NoThread
    BY PoolAssumption DEF LockHeld
  <1>7. ASSUME NEW p \in Pointer, Allocate(t, p) PROVE IInv'
    <2>1. LockHeld'
      BY <1>6, <1>7 DEF Allocate, LockHeld, TypeOK
    <2>2. Disjoint'
      BY <1>7 DEF Allocate, Disjoint, MayUse, TypeOK
    <2>3. TakesFreeBuffer'
      BY <1>7 DEF Allocate, TakesFreeBuffer, Holders, TypeOK
    <2>4. QED BY <1>2, <1>5, <2>1, <2>2, <2>3
  <1>8. CASE FindFree(t)
    <2>1. LockHeld' /\ Disjoint'
      BY <1>8 DEF FindFree, LockHeld, Disjoint, TypeOK
    <2>2. Holders(cur[t]) = {}
      BY <1>8, FreeHasNoHolders DEF FindFree, TypeOK
    <2>3. TakesFreeBuffer'
      BY <1>8, <2>2 DEF FindFree, TakesFreeBuffer, Holders, TypeOK
    <2>4. QED BY <1>2, <1>5, <2>1, <2>3
  <1>9. CASE TryNext(t)
    <2>1. LockHeld' /\ Disjoint'
      BY <1>9 DEF TryNext, LockHeld, Disjoint, TypeOK
    <2>2. TakesFreeBuffer'
      BY <1>9 DEF TryNext, TakesFreeBuffer, Holders, TypeOK
    <2>3. QED BY <1>2, <1>5, <2>1, <2>2
  <1>10. CASE GiveUp(t)
    <2>1. LockHeld'
      BY <1>6, <1>10 DEF GiveUp, LockHeld, TypeOK
    <2>2. Disjoint'
      BY <1>10 DEF GiveUp, Disjoint, Unused, TypeOK
    <2>3. TakesFreeBuffer'
      BY <1>10 DEF GiveUp, TakesFreeBuffer, Holders, TypeOK
    <2>4. QED BY <1>2, <1>5, <2>1, <2>2, <2>3
  <1>11. QED BY <1>7, <1>8, <1>9, <1>10 DEF Scan

(* The first reference to the buffer that was found. *)
LEMMA TakeStep ==
    ASSUME IInv, TypeOK', NEW t \in Thread, Take(t)
    PROVE  IInv'
  <1> USE DEF IInv, ScriptSound
  <1>1. PICK p \in use[t].write : script' = [script EXCEPT ![t] = FinishAllocate(t, p)]
    BY DEF Take
  <1>2. p \in Pointer /\ p # t /\ p \in Object /\ t \in Object
    BY PoolAssumption, HandleFacts DEF Use, TypeOK
  <1>3. script[t] = << >>
    BY DEF Take, ScriptOnlyInRun
  <1>4. ref[Own(t)] = NoBuffer /\ ref[Par(t)] = NoBuffer
    BY <1>3 DEF TemporaryGivenUp, Indices
  <1>5. Own(t) \in Handle /\ cur[t] \in Buffer
    BY HandleFacts, <1>2 DEF TypeOK
  <1>6. CountExact'
    BY <1>4, <1>5, CountAdd DEF Take
  <1>7. \A u \in Thread \ {t} : pc[u] \notin {"scan", "take"}
    BY DEF Take, LockHeld
  <1>8. LockHeld' /\ TakesFreeBuffer' /\ Disjoint' /\ ScriptOnlyInRun'
    BY <1>7 DEF Take, LockHeld, TakesFreeBuffer, Disjoint, ScriptOnlyInRun, TypeOK
  <1> DEFINE s == script'[t]
  <1>9. s = FinishAllocate(t, p)
    BY <1>1 DEF TypeOK
  <1>10. /\ Len(s) = 3
         /\ s[1].op = "dec" /\ s[1].h = Own(p)
         /\ s[2].op = "inc" /\ s[2].h = Own(p)
         /\ s[3].op = "dec" /\ s[3].h = Own(t)
    BY <1>9 DEF FinishAllocate, Inc, Dec
  <1>11. /\ Own(t)[1] = t /\ Own(p)[1] = p /\ Own(t) # Own(p)
         /\ Own(p) # Par(t) /\ Own(t) # Par(t)
    BY <1>2 DEF Own, Par
  <1>12. Indices(t)' = {1, 2, 3}
    BY <1>10 DEF Indices
  <1>13. \A u \in Thread \ {t} :
            script'[u] = script[u] /\ ref'[Own(u)] = ref[Own(u)] /\ ref'[Par(u)] = ref[Par(u)]
    BY <1>1, HandleFacts DEF Take, TypeOK, Own, Par
  <1>14. use' = use /\ ref'[Par(t)] = NoBuffer
    BY <1>4, <1>11, HandleFacts DEF Take, TypeOK
  <1>15. OwnHandles'
    BY <1>10, <1>11, <1>12, <1>13, <1>14, SMTT(30) DEF OwnHandles, Indices
  <1>16. SetAfterGivenUp'
    <2> SUFFICES ASSUME NEW u \in Thread, NEW k \in Indices(u)', NEW h \in Handle,
                        IsInc(u, k, h)'
                 PROVE  /\ ref'[h] = NoBuffer \/ \E j \in 1 .. k - 1 : IsDec(u, j, h)'
                        /\ \A j \in Indices(u)' : IsInc(u, j, h)' => j = k
      BY DEF SetAfterGivenUp
    <2>1. CASE u = t
      BY <1>10, <1>12, <2>1 DEF IsInc, IsDec
    <2>2. CASE u # t
      <3>0. k \in Indices(u) /\ IsInc(u, k, h)
        BY <1>13, <2>2 DEF Indices, IsInc
      <3>10. h[1] \in use[u].write \cup {u} /\ use[u].write \subseteq Pointer
        BY <3>0 DEF OwnHandles, IsInc, TypeOK, Use
      <3>1. h[1] # t /\ k \in Indices(u) /\ IsInc(u, k, h)
        BY <3>0, <3>10, <2>2, PoolAssumption
      <3>2. ref'[h] = ref[h]
        BY <3>1, <1>11 DEF Take, TypeOK
      <3>3. QED BY <3>1, <3>2, <2>2, <1>13 DEF SetAfterGivenUp, Indices, IsInc, IsDec
    <2>3. QED BY <2>1, <2>2
  <1>17. TemporaryGivenUp'
    <2> SUFFICES ASSUME NEW u \in Thread, NEW h \in {Own(u), Par(u)},
                        ref'[h] # NoBuffer \/ \E k \in Indices(u)' : IsInc(u, k, h)'
                 PROVE  \E j \in Indices(u)' : IsDec(u, j, h)'
                            /\ \A k \in Indices(u)' : IsInc(u, k, h)' => k < j
      BY DEF TemporaryGivenUp
    <2>1. CASE u = t
      <3>1. \A k \in Indices(t)' : ~ IsInc(t, k, Own(t))' /\ ~ IsInc(t, k, Par(t))'
        BY <1>10, <1>11, <1>12 DEF IsInc
      <3>2. h = Own(t)
        BY <1>14, <2>1, <3>1
      <3>3. 3 \in Indices(t)' /\ IsDec(t, 3, Own(t))'
        BY <1>10, <1>12 DEF IsDec
      <3>4. QED BY <2>1, <3>1, <3>2, <3>3
    <2>2. CASE u # t
      <3>1. ref'[h] = ref[h] /\ script'[u] = script[u]
        BY <1>13, <2>2
      <3>2. Indices(u)' = Indices(u)
        BY <3>1 DEF Indices
      <3>3. \A k : IsInc(u, k, h)' = IsInc(u, k, h) /\ IsDec(u, k, h)' = IsDec(u, k, h)
        BY <3>1 DEF IsInc, IsDec
      <3>4. PICK j \in Indices(u) :
                IsDec(u, j, h) /\ \A k \in Indices(u) : IsInc(u, k, h) => k < j
        BY <3>1, <3>2, <3>3 DEF TemporaryGivenUp
      <3>5. QED BY <3>2, <3>3, <3>4
    <2>3. QED BY <2>1, <2>2
  <1>18. QED BY <1>6, <1>8, <1>15, <1>16, <1>17

(* One counter step of a running operation. *)
LEMMA ExecuteStep ==
    ASSUME IInv, TypeOK', NEW t \in Thread, Execute(t)
    PROVE  IInv'
  <1> USE DEF IInv, ScriptSound
  <1> DEFINE s == Head(script[t])
             n == Len(script[t])
  <1>1. /\ script[t] \in Seq(Step) /\ script[t] # << >>
        /\ n \in Nat \ {0} /\ s = script[t][1] /\ s \in Step
    BY DEF Execute, TypeOK
  <1>2. s.h \in Handle /\ s.src \in Handle /\ s.op \in {"inc", "dec"}
    BY <1>1 DEF Step
  <1>3. 1 \in Indices(t)
    BY <1>1 DEF Indices
  <1>4. /\ script'[t] = Tail(script[t]) /\ Indices(t)' = 1 .. n - 1
        /\ \A k \in 1 .. n - 1 : script'[t][k] = script[t][k + 1] /\ k + 1 \in Indices(t)
    BY <1>1 DEF Execute, TypeOK, Indices
  <1>5. \A u \in Thread \ {t} : script'[u] = script[u]
    BY DEF Execute, TypeOK
  <1>6. \A h \in Handle : h # s.h => ref'[h] = ref[h]
    BY <1>2 DEF Execute, Increment, Decrement, TypeOK
  <1>7. s.op = "dec" => ref'[s.h] = NoBuffer
    BY <1>2 DEF Execute, Decrement, TypeOK
  <1>8. s.op = "inc" => ref[s.h] = NoBuffer
    <2>1. ASSUME s.op = "inc" PROVE IsInc(t, 1, s.h)
      BY <1>1, <2>1 DEF IsInc
    <2>2. QED BY <1>2, <1>3, <2>1 DEF SetAfterGivenUp
  <1>9. CountExact'
    <2>1. CASE s.op = "inc" /\ ref[s.src] # NoBuffer
      <3>1. ref[s.src] \in Buffer
        BY <1>2, <2>1 DEF TypeOK
      <3>2. QED BY <1>2, <1>8, <2>1, <3>1, CountAdd DEF Execute, Increment
    <2>2. CASE s.op = "inc" /\ ref[s.src] = NoBuffer
      <3>1. ref' = ref /\ mReferenceCounter' = mReferenceCounter
        BY <1>2, <1>8, <2>2 DEF Execute, Increment, TypeOK
      <3>2. QED BY <3>1 DEF CountExact, Holders
    <2>3. CASE s.op = "dec"
      BY <1>2, <2>3, CountRemove DEF Execute
    <2>4. QED BY <1>2, <2>1, <2>2, <2>3
  <1>10. TakesFreeBuffer'
    <2> SUFFICES ASSUME NEW u \in Thread, pc'[u] = "take", NEW h \in Handle,
                        ref'[h] = cur'[u]
                 PROVE  FALSE
      BY DEF TakesFreeBuffer, Holders
    <2>1. cur' = cur /\ pc' = pc
      BY DEF Execute
    <2>2. \A g \in Handle : ref[g] # cur[u]
      BY <2>1 DEF TakesFreeBuffer, Holders
    <2>3. cur[u] # NoBuffer
      BY PoolAssumption DEF TypeOK, Buffer
    <2>4. QED BY <1>2, <2>1, <2>2, <2>3 DEF Execute, Increment, Decrement, TypeOK
  <1>11. LockHeld' /\ Disjoint' /\ ScriptOnlyInRun'
    BY DEF Execute, LockHeld, Disjoint, ScriptOnlyInRun, TypeOK
  <1>12. s.h[1] \in use[t].write \cup {t} /\ use' = use
    BY <1>1, <1>3 DEF OwnHandles, Execute
  <1>13. OwnHandles'
    <2> SUFFICES ASSUME NEW u \in Thread, NEW k \in Indices(u)'
                 PROVE  script'[u][k].h[1] \in use[u].write \cup {u}
      BY <1>12 DEF OwnHandles
    <2>1. CASE u = t
      <3>1. k \in 1 .. n - 1 /\ script'[t][k] = script[t][k + 1] /\ k + 1 \in Indices(t)
        BY <1>4, <2>1
      <3>2. QED BY <2>1, <3>1 DEF OwnHandles
    <2>2. CASE u # t
      BY <1>5, <2>2 DEF OwnHandles, Indices
    <2>3. QED BY <2>1, <2>2
  (* The temporaries and the pointers of another thread are not touched. *)
  <1>14. ASSUME NEW u \in Thread, u # t, NEW h \in Handle, h[1] \in use[u].write \cup {u}
         PROVE  ref'[h] = ref[h]
    <2>1. use[t].write \subseteq Pointer /\ use[u].write \subseteq Pointer
      BY DEF TypeOK, Use
    <2>2. use[t].write \cap use[u].write = {}
      BY <1>14 DEF Disjoint
    <2>3. h # s.h
      BY <1>12, <1>14, <2>1, <2>2, PoolAssumption
    <2>4. QED BY <1>6, <2>3
  <1>15. SetAfterGivenUp'
    <2> SUFFICES ASSUME NEW u \in Thread, NEW k \in Indices(u)', NEW h \in Handle,
                        IsInc(u, k, h)'
                 PROVE  /\ ref'[h] = NoBuffer \/ \E j \in 1 .. k - 1 : IsDec(u, j, h)'
                        /\ \A j \in Indices(u)' : IsInc(u, j, h)' => j = k
      BY DEF SetAfterGivenUp
    <2>1. CASE u = t
      <3>1. k \in 1 .. n - 1 /\ k + 1 \in Indices(t) /\ IsInc(t, k + 1, h)
        BY <1>4, <2>1 DEF IsInc
      <3>2. \A j \in Indices(t)' : IsInc(t, j, h)' => j = k
        <4> TAKE j \in Indices(t)'
        <4> HAVE IsInc(t, j, h)'
        <4>1. j \in 1 .. n - 1 /\ IsInc(t, j + 1, h) /\ j + 1 \in Indices(t)
          BY <1>4 DEF IsInc
        <4>2. j + 1 = k + 1
          BY <3>1, <4>1 DEF SetAfterGivenUp
        <4>3. QED BY <3>1, <4>1, <4>2
      <3>3. CASE ref[h] = NoBuffer
        <4>1. s.op = "inc" => s.h # h
          <5>1. SUFFICES ASSUME s.op = "inc", s.h = h PROVE FALSE
            OBVIOUS
          <5>2. IsInc(t, 1, h)
            BY <1>1, <5>1 DEF IsInc
          <5>3. k + 1 = 1
            BY <1>3, <3>1, <5>2 DEF SetAfterGivenUp
          <5>4. QED BY <3>1, <5>3
        <4>2. ref'[h] = NoBuffer
          BY <1>2, <1>6, <1>7, <3>3, <4>1
        <4>3. QED BY <2>1, <3>2, <4>2
      <3>4. CASE ref[h] # NoBuffer
        <4>1. PICK j \in 1 .. (k + 1) - 1 : IsDec(t, j, h)
          BY <3>1, <3>4 DEF SetAfterGivenUp
        <4>2. CASE j = 1
          <5>1. ref'[h] = NoBuffer
            BY <1>1, <1>7, <4>1, <4>2 DEF IsDec
          <5>2. QED BY <2>1, <3>2, <5>1
        <4>3. CASE j # 1
          <5>1. j - 1 \in 1 .. k - 1 /\ j - 1 \in 1 .. n - 1 /\ (j - 1) + 1 = j
            BY <3>1, <4>1, <4>3
          <5>2. IsDec(t, j - 1, h)'
            BY <1>4, <4>1, <5>1 DEF IsDec
          <5>3. QED BY <2>1, <3>2, <5>1, <5>2
        <4>4. QED BY <4>2, <4>3
      <3>5. QED BY <3>3, <3>4
    <2>2. CASE u # t
      <3>1. k \in Indices(u) /\ IsInc(u, k, h)
        BY <1>5, <2>2 DEF Indices, IsInc
      <3>2. h[1] \in use[u].write \cup {u}
        BY <3>1 DEF OwnHandles, IsInc
      <3>3. ref'[h] = ref[h]
        BY <1>14, <2>2, <3>2
      <3>4. QED BY <1>5, <2>2, <3>1, <3>3 DEF SetAfterGivenUp, Indices, IsInc, IsDec
    <2>3. QED BY <2>1, <2>2
  <1>16. TemporaryGivenUp'
    <2> SUFFICES ASSUME NEW u \in Thread, NEW h \in {Own(u), Par(u)},
                        ref'[h] # NoBuffer \/ \E k \in Indices(u)' : IsInc(u, k, h)'
                 PROVE  \E j \in Indices(u)' : IsDec(u, j, h)'
                            /\ \A k \in Indices(u)' : IsInc(u, k, h)' => k < j
      BY DEF TemporaryGivenUp
    <2>0. h \in Handle /\ h[1] = u
      <3>1. h \in Handle
        BY HandleFacts
      <3>2. Own(u)[1] = u /\ Par(u)[1] = u
        BY DEF Own, Par
      <3>3. QED BY <3>1, <3>2
    <2>1. CASE u = t
      <3>1. ref[h] # NoBuffer \/ \E k \in Indices(t) : IsInc(t, k, h)
        <4>1. CASE \E k \in Indices(t)' : IsInc(t, k, h)'
          BY <1>4, <4>1 DEF IsInc
        <4>2. CASE ref'[h] # NoBuffer /\ ref[h] = NoBuffer
          <5>1. s.h = h /\ s.op = "inc"
            BY <1>2, <1>6, <1>7, <2>0, <4>2
          <5>2. QED BY <1>1, <1>3, <5>1 DEF IsInc
        <4>3. QED BY <2>1, <4>1, <4>2
      <3>2. PICK j \in Indices(t) :
                IsDec(t, j, h) /\ \A k \in Indices(t) : IsInc(t, k, h) => k < j
        BY <2>1, <3>1 DEF TemporaryGivenUp
      <3>3. j # 1
        <4>1. SUFFICES ASSUME j = 1 PROVE FALSE
          OBVIOUS
        <4>2. s.op = "dec" /\ s.h = h
          BY <1>1, <3>2, <4>1 DEF IsDec
        <4>3. PICK k \in 1 .. n - 1 : IsInc(t, k + 1, h) /\ k + 1 \in Indices(t)
          BY <1>4, <1>7, <2>1, <4>2 DEF IsInc
        <4>4. QED BY <3>2, <4>1, <4>3
      <3>4. j - 1 \in 1 .. n - 1 /\ (j - 1) + 1 = j
        BY <1>1, <3>2, <3>3 DEF Indices
      <3>5. IsDec(t, j - 1, h)'
        BY <1>4, <3>2, <3>4 DEF IsDec
      <3>6. ASSUME NEW k \in Indices(t)', IsInc(t, k, h)' PROVE k < j - 1
        <4>1. k \in 1 .. n - 1 /\ IsInc(t, k + 1, h) /\ k + 1 \in Indices(t)
          BY <1>4, <3>6 DEF IsInc
        <4>2. k + 1 < j
          BY <3>2, <4>1
        <4>3. QED BY <3>4, <4>1, <4>2
      <3>7. QED BY <1>4, <2>1, <3>4, <3>5, <3>6
    <2>2. CASE u # t
      <3>1. ref'[h] = ref[h] /\ script'[u] = script[u]
        BY <1>5, <1>14, <2>0, <2>2
      <3>2. Indices(u)' = Indices(u)
        BY <3>1 DEF Indices
      <3>3. \A k : IsInc(u, k, h)' = IsInc(u, k, h) /\ IsDec(u, k, h)' = IsDec(u, k, h)
        BY <3>1 DEF IsInc, IsDec
      <3>4. PICK j \in Indices(u) :
                IsDec(u, j, h) /\ \A k \in Indices(u) : IsInc(u, k, h) => k < j
        BY <3>1, <3>2, <3>3 DEF TemporaryGivenUp
      <3>5. QED BY <3>2, <3>3, <3>4
    <2>3. QED BY <2>1, <2>2
  <1>17. QED BY <1>9, <1>10, <1>11, <1>13, <1>15, <1>16

(* The operation is over. *)
LEMMA ReturnStep ==
    ASSUME IInv, TypeOK', NEW t \in Thread, Return(t)
    PROVE  IInv'
  <1> USE DEF IInv, ScriptSound
  <1>1. UNCHANGED <<mReferenceCounter, ref, script>>
    BY DEF Return
  <1>2. CountExact' /\ TemporaryGivenUp' /\ SetAfterGivenUp'
    BY <1>1 DEF CountExact, Holders, TemporaryGivenUp, SetAfterGivenUp,
                Indices, IsInc, IsDec
  <1>3. OwnHandles' /\ ScriptOnlyInRun' /\ TakesFreeBuffer'
    BY <1>1 DEF Return, OwnHandles, ScriptOnlyInRun, TakesFreeBuffer, Holders,
                Indices, TypeOK
  <1>4. Disjoint'
    BY DEF Return, Disjoint, Unused, TypeOK
  <1>5. LockHeld'
    BY PoolAssumption DEF Return, LockHeld, TypeOK
  <1>6. QED BY <1>2, <1>3, <1>4, <1>5

LEMMA InitIInv == Init => IInv
  <1> SUFFICES ASSUME Init PROVE IInv
    OBVIOUS
  <1>1. TypeOK
    BY PoolAssumption DEF Init, TypeOK, Buffer, Use, Unused
  <1>2. LockHeld /\ Disjoint /\ ScriptSound /\ TakesFreeBuffer
    BY HandleFacts DEF Init, LockHeld, Disjoint, Unused, ScriptSound, OwnHandles,
       SetAfterGivenUp, TemporaryGivenUp, ScriptOnlyInRun, Indices, TakesFreeBuffer
  <1>3. CountExact
    <2>1. \A b \in Buffer : Holders(b) = {}
      BY PoolAssumption DEF Init, Holders, Buffer
    <2>2. QED BY <2>1, FS_EmptySet DEF CountExact, Init
  <1>4. QED BY <1>1, <1>2, <1>3 DEF IInv

LEMMA NextIInv == IInv /\ [Next]_vars => IInv'
  <1> SUFFICES ASSUME IInv, [Next]_vars PROVE IInv'
    OBVIOUS
  <1>1. TypeOK'
    BY TypeStep DEF IInv
  <1>2. ASSUME NEW t \in Thread, NEW p \in Pointer, NEW q \in Pointer,
               Copy(t, p, q) \/ CopyChild(t, p, q) \/ GetChild(t, p, q)
        PROVE  IInv'
    BY <1>1, <1>2, BeginStep, GoodOperations DEF Copy, CopyChild, GetChild
  <1>3. ASSUME NEW t \in Thread, NEW p \in Pointer, Drop(t, p)
        PROVE  IInv'
    BY <1>1, <1>3, BeginStep, GoodOperations DEF Drop
  <1>4. ASSUME NEW t \in Thread, Progress(t) PROVE IInv'
    BY <1>1, <1>4, SearchStep, TakeStep, ExecuteStep, ReturnStep DEF Progress
  <1>5. ASSUME NEW t \in Thread, NEW p \in Pointer, Allocate(t, p) PROVE IInv'
    BY <1>1, <1>5, SearchStep
  <1>6. CASE UNCHANGED vars
    BY <1>6 DEF vars, IInv, TypeOK, LockHeld, Disjoint, ScriptSound, OwnHandles,
       SetAfterGivenUp, TemporaryGivenUp, ScriptOnlyInRun, Indices, IsInc, IsDec,
       CountExact, Holders, TakesFreeBuffer
  <1>7. QED BY <1>2, <1>3, <1>4, <1>5, <1>6 DEF Next

THEOREM InductiveInvariant == Spec => []IInv
  BY InitIInv, NextIInv, PTL DEF Spec

(* The reference counter of every buffer of the pool is the number of      *)
(* pointers to it, whatever the threads do (shared_buffer.h,               *)
(* incrementCount and decrementCount).                                     *)
THEOREM CountingIsExact == Spec => []CountExact
  BY InductiveInvariant, PTL DEF IInv

(* allocate() never returns a buffer that somebody already refers to,      *)
(* although it tests and takes it in two steps.                            *)
THEOREM AllocationIsExclusive == Spec => []TakesFreeBuffer
  BY InductiveInvariant, PTL DEF IInv

(* allocate() and getChild() leave no reference in a temporary behind. *)
THEOREM TemporariesAreReleased == Spec => []NoTemporaryLeft
  <1>1. IInv => NoTemporaryLeft
    BY DEF IInv, ScriptSound, ScriptOnlyInRun, TemporaryGivenUp, NoTemporaryLeft,
       Indices
  <1>2. QED BY <1>1, InductiveInvariant, PTL

(* The state of the pool keeps its types. *)
THEOREM TypeCorrect == Spec => []TypeOK
  BY InductiveInvariant, PTL DEF IInv

(* A buffer is in use exactly as long as a pointer of the program or an    *)
(* operation in progress refers to it (SharedBufferPointer, allocate()).   *)
THEOREM ReferencesAreExact == Spec => []ReferencesExact
  BY TypeCorrect, CountingIsExact, TemporariesAreReleased, PTL DEF ReferencesExact
-----------------------------------------------------------------------------
(* How many buffers the search visits before it comes to buffer i. *)
Distance(i) == IF i >= mLastIndex THEN i - mLastIndex ELSE (i - mLastIndex) + N

(* What has been free all along is free, and the search has not passed it. *)
FreeIsAhead ==
    /\ freeSince \in [Thread -> SUBSET Buffer]
    /\ \A t \in Thread : \A b \in freeSince[t] :
         /\ mReferenceCounter[b] = 0
         /\ pc[t] = "scan" => Distance(b) >= Distance(cur[t])

SearchInv == IInv /\ FreeIsAhead

(* The round robin visits the buffers one after the other, and what is     *)
(* ahead of one and not that one is ahead of the next.                     *)
LEMMA NextDistance ==
    ASSUME TypeOK, NEW i \in Buffer
    PROVE  /\ NextIndex(i) # mLastIndex => Distance(NextIndex(i)) = Distance(i) + 1
           /\ NextIndex(i) = mLastIndex => Distance(i) = N - 1
           /\ \A b \in Buffer : Distance(b) \in 0 .. N - 1
           /\ \A b \in Buffer : Distance(b) = Distance(i) => b = i
  <1>1. N \in Nat \ {0} /\ mLastIndex \in 0 .. N - 1 /\ i \in 0 .. N - 1
    BY PoolAssumption DEF TypeOK, Buffer
  <1>2. NextIndex(i) = IF i + 1 = N THEN 0 ELSE i + 1
    <2>1. CASE i + 1 = N
      BY <1>1, <2>1 DEF NextIndex
    <2>2. CASE i + 1 < N
      BY <1>1, <2>2 DEF NextIndex
    <2>3. QED BY <1>1, <2>1, <2>2
  <1>3. QED BY <1>1, <1>2 DEF Distance, Buffer

LEMMA AheadOrEqual ==
    ASSUME TypeOK, NEW i \in Buffer, NEW b \in Buffer, Distance(b) >= Distance(i), b # i
    PROVE  /\ NextIndex(i) # mLastIndex
           /\ Distance(b) >= Distance(NextIndex(i))
  <1>1. /\ NextIndex(i) # mLastIndex => Distance(NextIndex(i)) = Distance(i) + 1
        /\ NextIndex(i) = mLastIndex => Distance(i) = N - 1
        /\ Distance(b) \in 0 .. N - 1 /\ Distance(b) # Distance(i)
    BY NextDistance
  <1>2. Distance(i) \in 0 .. N - 1
    BY NextDistance
  <1>3. QED BY <1>1, <1>2, PoolAssumption

(* What can happen to a search within one step of some thread. *)
LEMMA ScanStep ==
    ASSUME IInv, Next, NEW t \in Thread, pc'[t] = "scan"
    PROVE  /\ mLastIndex' = mLastIndex
           /\ \/ pc[t] = "idle" /\ cur'[t] = mLastIndex
              \/ pc[t] = "scan" /\ cur'[t] = cur[t]
              \/ /\ pc[t] = "scan" /\ mReferenceCounter[cur[t]] # 0
                 /\ NextIndex(cur[t]) # mLastIndex /\ cur'[t] = NextIndex(cur[t])
  <1>0. /\ pc \in [Thread -> {"idle", "scan", "take", "run"}] /\ cur \in [Thread -> Buffer]
        /\ LockHeld
    BY DEF IInv, TypeOK
  <1>1. PICK u \in Thread :
          \/ \E p \in Pointer : Drop(u, p) \/ Allocate(u, p)
          \/ \E p, q \in Pointer : Copy(u, p, q) \/ CopyChild(u, p, q) \/ GetChild(u, p, q)
          \/ Progress(u)
    BY DEF Next
  <1>2. ASSUME NEW w, NEW r, NEW s, Begin(u, w, r, s)
        PROVE  mLastIndex' = mLastIndex /\ pc[t] = "scan" /\ cur'[t] = cur[t]
    BY <1>0, <1>2 DEF Begin
  <1>3. ASSUME NEW p \in Pointer, Allocate(u, p)
        PROVE  /\ mLastIndex' = mLastIndex
               /\ \/ pc[t] = "idle" /\ cur'[t] = mLastIndex
                  \/ pc[t] = "scan" /\ cur'[t] = cur[t]
    BY <1>0, <1>3 DEF Allocate
  <1>4. CASE FindFree(u) \/ GiveUp(u) \/ Take(u) \/ Execute(u)
    BY <1>0, <1>4 DEF FindFree, GiveUp, Take, Execute
  <1>5. CASE TryNext(u)
    BY <1>0, <1>5 DEF TryNext
  <1>6. CASE Return(u)
    <2>1. pc[t] = "scan" /\ t # u /\ cur'[t] = cur[t]
      BY <1>0, <1>6 DEF Return
    <2>2. mMutex = t
      BY <1>0, <2>1 DEF LockHeld
    <2>3. QED BY <1>6, <2>1, <2>2 DEF Return
  <1>7. QED BY <1>1, <1>2, <1>3, <1>4, <1>5, <1>6
            DEF Progress, Scan, Drop, Copy, CopyChild, GetChild

(* allocate() fails where it has begun, at a buffer in use. *)
LEMMA FailedSearch ==
    ASSUME IInv, Next, NEW t \in Thread, pc[t] = "scan", pc'[t] = "idle"
    PROVE  mReferenceCounter[cur[t]] # 0 /\ NextIndex(cur[t]) = mLastIndex
  <1>0. pc \in [Thread -> {"idle", "scan", "take", "run"}]
    BY DEF IInv, TypeOK
  <1>1. PICK u \in Thread :
          \/ \E p \in Pointer : Drop(u, p) \/ Allocate(u, p)
          \/ \E p, q \in Pointer : Copy(u, p, q) \/ CopyChild(u, p, q) \/ GetChild(u, p, q)
          \/ Progress(u)
    BY DEF Next
  <1>2. ~ \E w, r, s : Begin(u, w, r, s)
    BY <1>0 DEF Begin
  <1>3. ~ \E p \in Pointer : Allocate(u, p)
    BY <1>0 DEF Allocate
  <1>4. ~ (FindFree(u) \/ TryNext(u) \/ Take(u) \/ Execute(u) \/ Return(u))
    BY <1>0 DEF FindFree, TryNext, Take, Execute, Return
  <1>5. GiveUp(u)
    BY <1>1, <1>2, <1>3, <1>4 DEF Progress, Scan, Drop, Copy, CopyChild, GetChild
  <1>6. QED BY <1>0, <1>5 DEF GiveUp

LEMMA SearchInitInv == SearchInit => SearchInv
  BY InitIInv DEF SearchInit, SearchInv, FreeIsAhead

LEMMA SearchNextInv == SearchInv /\ [SearchNext]_searchVars => SearchInv'
  <1> SUFFICES ASSUME SearchInv, [SearchNext]_searchVars PROVE SearchInv'
    OBVIOUS
  <1>1. IInv'
    BY NextIInv DEF SearchInv, SearchNext, searchVars
  <1>2. CASE UNCHANGED searchVars
    BY <1>1, <1>2 DEF SearchInv, FreeIsAhead, searchVars, vars, Distance
  <1>3. CASE SearchNext
    <2>1. freeSince' = [t \in Thread |->
            {b \in Buffer : /\ mReferenceCounter'[b] = 0
                            /\ pc[t] = "idle" \/ b \in freeSince[t]
                            /\ pc'[t] = "scan" \/ pc[t] = "scan"}]
      BY <1>3 DEF SearchNext
    <2>2. freeSince' \in [Thread -> SUBSET Buffer]
      BY <2>1
    <2>3. ASSUME NEW t \in Thread, NEW b \in freeSince'[t]
          PROVE  /\ b \in Buffer /\ mReferenceCounter'[b] = 0
                 /\ pc[t] = "idle" \/ b \in freeSince[t]
      BY <2>1
    <2>4. ASSUME NEW t \in Thread, NEW b \in freeSince'[t], pc'[t] = "scan"
          PROVE  (Distance(b) >= Distance(cur[t]))'
      <3>1. /\ mLastIndex' = mLastIndex
            /\ \/ pc[t] = "idle" /\ cur'[t] = mLastIndex
               \/ pc[t] = "scan" /\ cur'[t] = cur[t]
               \/ /\ pc[t] = "scan" /\ mReferenceCounter[cur[t]] # 0
                  /\ NextIndex(cur[t]) # mLastIndex /\ cur'[t] = NextIndex(cur[t])
        BY <1>3, <2>4, ScanStep DEF SearchInv, SearchNext
      <3>2. SUFFICES Distance(b) >= Distance(cur'[t])
        BY <3>1 DEF Distance
      <3>3. TypeOK /\ cur[t] \in Buffer /\ b \in Buffer /\ N \in Nat \ {0} /\ mLastIndex \in Buffer
        BY <2>3, <2>4, PoolAssumption DEF SearchInv, IInv, TypeOK
      <3>4. CASE pc[t] = "idle" /\ cur'[t] = mLastIndex
        <4>1. Distance(mLastIndex) = 0 /\ Distance(b) \in 0 .. N - 1
          BY <3>3, NextDistance DEF Distance, Buffer
        <4>2. QED BY <3>3, <3>4, <4>1
      <3>5. CASE pc[t] = "scan" /\ cur'[t] = cur[t]
        BY <2>3, <2>4, <3>5 DEF SearchInv, FreeIsAhead
      <3>6. CASE /\ pc[t] = "scan" /\ mReferenceCounter[cur[t]] # 0
                 /\ NextIndex(cur[t]) # mLastIndex /\ cur'[t] = NextIndex(cur[t])
        <4>1. mReferenceCounter[b] = 0 /\ Distance(b) >= Distance(cur[t])
          BY <2>3, <2>4, <3>6 DEF SearchInv, FreeIsAhead
        <4>2. b # cur[t]
          BY <3>6, <4>1
        <4>3. Distance(b) >= Distance(NextIndex(cur[t]))
          BY <3>3, <4>1, <4>2, AheadOrEqual
        <4>4. QED BY <3>6, <4>3
      <3>7. QED BY <3>1, <3>4, <3>5, <3>6
    <2>5. QED BY <1>1, <2>2, <2>3, <2>4 DEF SearchInv, FreeIsAhead
  <1>4. QED BY <1>2, <1>3

(* SearchInv is an invariant of the pool with the history of its searches. *)
THEOREM SearchInductive == SearchSpec => []SearchInv
  BY SearchInitInv, SearchNextInv, PTL DEF SearchSpec

(* allocate() fails only if every buffer was in use at some moment of its  *)
(* search, for every number of buffers and wherever the round robin of the *)
(* pool starts (shared_object_pool.h, allocate).                           *)
THEOREM FailureIsGenuine == SearchSpec => NoSpuriousFailure
  <1> DEFINE A == \A t \in Thread : (pc[t] = "scan" /\ pc'[t] = "idle") => freeSince[t] = {}
  <1>1. SearchInv /\ [SearchNext]_searchVars => [A]_searchVars
    <2> SUFFICES ASSUME SearchInv, SearchNext PROVE A
      OBVIOUS
    <2> SUFFICES ASSUME NEW t \in Thread, pc[t] = "scan", pc'[t] = "idle",
                        NEW b \in freeSince[t]
                 PROVE  FALSE
      OBVIOUS
    <2>1. mReferenceCounter[cur[t]] # 0 /\ NextIndex(cur[t]) = mLastIndex
      BY FailedSearch DEF SearchInv, SearchNext
    <2>2. /\ mReferenceCounter[b] = 0 /\ Distance(b) >= Distance(cur[t])
          /\ TypeOK /\ b \in Buffer /\ cur[t] \in Buffer
      BY DEF SearchInv, FreeIsAhead, IInv, TypeOK
    <2>3. b = cur[t]
      BY <2>1, <2>2, AheadOrEqual
    <2>4. QED BY <2>1, <2>2, <2>3
  <1>2. QED BY <1>1, SearchInductive, PTL DEF SearchSpec, NoSpuriousFailure
=============================================================================
