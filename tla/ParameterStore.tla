---------------------------- MODULE ParameterStore ----------------------------
(***************************************************************************)
(* outpost::parameter::ParameterStore (parameter, parameter_store.cpp, the *)
(* search and the order of parameter.cpp): the parameters of some lists,   *)
(* sorted by their identifiers and found by a binary search.               *)
(*                                                                         *)
(* The lists are those the caller hands to initialize(), as the sequence   *)
(* of the identifiers of their parameters; uninitialised parameters have   *)
(* the identifier invalidID.                                               *)
(***************************************************************************)
EXTENDS Integers, Sequences, FiniteSets, Functions

CONSTANTS
    ParameterId,    \* identifiers, invalidID among them
    ParameterList,  \* the lists that a caller may hand to initialize()
    StoreSize       \* mParameters.getNumberOfElements()

invalidID == 0

ASSUME StoreAssumption ==
    /\ StoreSize \in Nat
    /\ ParameterId \subseteq Nat
    /\ ParameterList \subseteq Seq(ParameterId)

VARIABLES
    mParameters,    \* identifiers of the parameters in the store's memory
    mCount, mInitialized,
    given           \* what initialize() was given when it succeeded

storeVars == <<mParameters, mCount, mInitialized, given>>

StoreInit ==
    /\ mParameters = [i \in 1 .. StoreSize |-> invalidID]
    /\ mCount = 0
    /\ mInitialized = FALSE
    /\ given = << >>

(* What the loop over the lists copies before it meets the end, a          *)
(* parameter that is not initialised, or the end of the memory.            *)
Accepted(list, n) == n <= StoreSize /\ \A k \in 1 .. n : list[k] # invalidID
Copied(list) ==
    SubSeq(list, 1, CHOOSE n \in 0 .. Len(list) :
                        /\ Accepted(list, n)
                        /\ n < Len(list) => ~ Accepted(list, n + 1))
Stored(list) ==
    [i \in 1 .. StoreSize |-> IF i <= Len(list) THEN list[i] ELSE mParameters[i]]

(* No two neighbours with the same identifier. *)
Distinct(sorted) == \A i \in 2 .. Len(sorted) : sorted[i - 1] < sorted[i]

(* std::sort(): the elements of the list in an order that ascends. *)
sort(list) ==
    LET place == CHOOSE f \in Bijection(DOMAIN list, DOMAIN list) :
                     \A i, j \in DOMAIN list : i < j => list[f[i]] <= list[f[j]]
    IN  [i \in 1 .. Len(list) |-> list[place[i]]]

initializeFails(list) ==
    /\ ~ mInitialized
    /\ Len(Copied(list)) < Len(list)
    /\ mParameters' = Stored(Copied(list))
    /\ UNCHANGED <<mCount, mInitialized, given>>
initialize(list) ==
    /\ ~ mInitialized
    /\ Copied(list) = list
    /\ mCount' = Len(list)
    /\ mParameters' = Stored(sort(list))
    /\ mInitialized' = Distinct(sort(list))
    /\ given' = IF mInitialized' THEN list ELSE given

(* findInternal(): -1 or the position of the identifier, in 0 .. count - 1. *)
(* The values of l and r are the window that is left to be searched.        *)
Window == (0 .. StoreSize) \X (-1 .. StoreSize - 1)
Middle(l, r) == l + (r - l) \div 2
findInternal_SkipsLast(id) ==
    LET search[w \in Window] ==
          LET l == w[1]
              r == w[2]
              m == Middle(l, r)
          IN  IF l >= r THEN -1
              ELSE IF mParameters[m + 1] = id THEN m
              ELSE IF mParameters[m + 1] < id THEN search[<<m + 1, r>>]
              ELSE search[<<l, m - 1>>]
    IN  search[<<0, mCount - 1>>]
findInternal(id) ==
    LET search[w \in Window] ==
          LET l == w[1]
              r == w[2]
              m == Middle(l, r)
          IN  IF l > r THEN -1
              ELSE IF mParameters[m + 1] = id THEN m
              ELSE IF mParameters[m + 1] < id THEN search[<<m + 1, r>>]
              ELSE search[<<l, m - 1>>]
    IN  search[<<0, mCount - 1>>]

(* getParameter(): the position of the parameter it returns, or the error. *)
getParameter(id) ==
    IF ~ mInitialized THEN "notInitialized"
    ELSE IF mCount = 0 THEN "noSuchID"
    ELSE IF id = invalidID THEN "invalidParameter"
    ELSE IF findInternal(id) = -1 THEN "noSuchID"
    ELSE "success"

StoreNext == \E list \in ParameterList : initialize(list) \/ initializeFails(list)

StoreSpec == StoreInit /\ [][StoreNext]_storeVars
-----------------------------------------------------------------------------
(* An initialised store finds exactly the parameters it was given, and     *)
(* holds each of them once, whatever initialize() left behind in mCount    *)
(* and mParameters when it failed before.                                  *)
StoreFinds ==
    mInitialized =>
        /\ mCount = Cardinality(Range(given))
        /\ \A id \in ParameterId \ {invalidID} :
             /\ (getParameter(id) = "success") = (id \in Range(given))
             /\ getParameter(id) = "success" => mParameters[findInternal(id) + 1] = id
=============================================================================
