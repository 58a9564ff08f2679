-------------------------------- MODULE Topics --------------------------------
(***************************************************************************)
(* The publisher/subscriber protocol (smpc, topic.cpp, subscription.cpp;   *)
(* topic_raw.cpp and subscription_raw.cpp are the same code): static lists *)
(* of all subscriptions, threaded into one list per topic.                 *)
(*                                                                         *)
(* One thread creates, destroys and connects subscriptions, as the         *)
(* warnings of subscription.h demand; publish() holds the topic's mutex    *)
(* and runs beside it, except while a subscription is unlinked.  Stores of *)
(* pointers are atomic.                                                    *)
(***************************************************************************)
EXTENDS Integers, Sequences

CONSTANTS Topic, Subscription, NoSub, TopicOf

ASSUME TopicsAssumption ==
    /\ NoSub \notin Subscription
    /\ TopicOf \in [Subscription -> Topic]

VARIABLES
    listOfAllSubscriptions, \* newest first, as a sequence
    mSubscriptions,         \* per topic: head of its list
    mNextTopicSubscription, \* per subscription: next one of its topic
    rebuild,                \* the operation on the lists in progress: what it
                            \* does and what it has still to visit
    publishing              \* the publisher: topic, the subscription it is at
                            \* and those it has called

topicVars == <<listOfAllSubscriptions, mSubscriptions, mNextTopicSubscription,
               rebuild, publishing>>

AtRest == [does |-> "nothing", left |-> << >>]
Silent == [topic |-> NoSub, at |-> NoSub, called |-> << >>]

TopicsInit ==
    /\ listOfAllSubscriptions = << >>
    /\ mSubscriptions = [t \in Topic |-> NoSub]
    /\ mNextTopicSubscription = [s \in Subscription |-> NoSub]
    /\ rebuild = AtRest
    /\ publishing = Silent

Exists(s) == \E k \in 1 .. Len(listOfAllSubscriptions) : listOfAllSubscriptions[k] = s

Subscribe(s) ==
    /\ rebuild = AtRest
    /\ ~ Exists(s)
    /\ listOfAllSubscriptions' = <<s>> \o listOfAllSubscriptions
    /\ mNextTopicSubscription' = [mNextTopicSubscription EXCEPT ![s] = NoSub]
    /\ UNCHANGED <<mSubscriptions, rebuild, publishing>>

removeFromList(k) ==
    listOfAllSubscriptions' =
        SubSeq(listOfAllSubscriptions, 1, k - 1)
            \o SubSeq(listOfAllSubscriptions, k + 1, Len(listOfAllSubscriptions))

(* ~Subscription(): removeFromList(), releaseAllSubscriptions() and        *)
(* connectSubscriptionsToTopics().                                         *)
Unsubscribe(s) ==
    /\ rebuild = AtRest
    /\ publishing = Silent
    /\ \E k \in 1 .. Len(listOfAllSubscriptions) :
         listOfAllSubscriptions[k] = s /\ removeFromList(k)
    /\ mSubscriptions' = [t \in Topic |-> NoSub]
    /\ mNextTopicSubscription' = [x \in Subscription |-> NoSub]
    /\ rebuild' = [does |-> "connect", left |-> listOfAllSubscriptions']
    /\ UNCHANGED publishing

clearSubscriptions_Never == UNCHANGED mSubscriptions
clearSubscriptions == mSubscriptions' = [t \in Topic |-> NoSub]

connectSubscriptionsToTopics ==
    /\ rebuild = AtRest
    /\ clearSubscriptions
    /\ rebuild' = [does |-> "connect", left |-> listOfAllSubscriptions]
    /\ UNCHANGED <<listOfAllSubscriptions, mNextTopicSubscription, publishing>>

(* Two stores per subscription: first its successor, then the head. *)
connectNext ==
    LET s == Head(rebuild.left) IN
    /\ rebuild.does = "connect"
    /\ rebuild.left # << >>
    /\ mNextTopicSubscription' =
         [mNextTopicSubscription EXCEPT ![s] = mSubscriptions[TopicOf[s]]]
    /\ rebuild' = [rebuild EXCEPT !.does = "head"]
    /\ UNCHANGED <<listOfAllSubscriptions, mSubscriptions, publishing>>
connectHead ==
    LET s == Head(rebuild.left) IN
    /\ rebuild.does = "head"
    /\ mSubscriptions' = [mSubscriptions EXCEPT ![TopicOf[s]] = s]
    /\ rebuild' = [does |-> "connect", left |-> Tail(rebuild.left)]
    /\ UNCHANGED <<listOfAllSubscriptions, mNextTopicSubscription, publishing>>

releaseAllSubscriptions ==
    /\ rebuild = AtRest
    /\ rebuild' = [does |-> "release", left |-> listOfAllSubscriptions]
    /\ UNCHANGED <<listOfAllSubscriptions, mSubscriptions, mNextTopicSubscription, publishing>>
releaseNext ==
    /\ rebuild.does = "release"
    /\ rebuild.left # << >>
    /\ mNextTopicSubscription' = [mNextTopicSubscription EXCEPT ![Head(rebuild.left)] = NoSub]
    /\ rebuild' = [rebuild EXCEPT !.left = Tail(@)]
    /\ UNCHANGED <<listOfAllSubscriptions, mSubscriptions, publishing>>

(* The end of an operation; releasing ends with the heads. *)
rebuildEnd ==
    /\ rebuild.does \in {"connect", "release"}
    /\ rebuild.left = << >>
    /\ IF rebuild.does = "release" THEN clearSubscriptions ELSE UNCHANGED mSubscriptions
    /\ rebuild' = AtRest
    /\ UNCHANGED <<listOfAllSubscriptions, mNextTopicSubscription, publishing>>
-----------------------------------------------------------------------------
publish(t) ==
    /\ publishing = Silent
    /\ publishing' = [topic |-> t, at |-> mSubscriptions[t], called |-> << >>]
    /\ UNCHANGED <<listOfAllSubscriptions, mSubscriptions, mNextTopicSubscription, rebuild>>
(* execute() of one subscription, then the step to the next one. *)
execute ==
    /\ publishing.at # NoSub
    /\ publishing' = [publishing EXCEPT !.called = Append(@, publishing.at),
                                        !.at = mNextTopicSubscription[publishing.at]]
    /\ UNCHANGED <<listOfAllSubscriptions, mSubscriptions, mNextTopicSubscription, rebuild>>
publishEnd ==
    /\ publishing # Silent
    /\ publishing.at = NoSub
    /\ publishing' = Silent
    /\ UNCHANGED <<listOfAllSubscriptions, mSubscriptions, mNextTopicSubscription, rebuild>>

TopicsNext ==
    \/ \E s \in Subscription : Subscribe(s) \/ Unsubscribe(s)
    \/ connectSubscriptionsToTopics \/ connectNext \/ connectHead
    \/ releaseAllSubscriptions \/ releaseNext \/ rebuildEnd
    \/ \E t \in Topic : publish(t)
    \/ execute \/ publishEnd

TopicsSpec == TopicsInit /\ [][TopicsNext]_topicVars
-----------------------------------------------------------------------------
(* A message is given to each subscription at most once and to those of    *)
(* its topic only, also while the lists are taken apart and rebuilt below  *)
(* the publisher; in particular the walk over the list comes to an end.    *)
CalledOnce ==
    LET called == publishing.called IN
    /\ \A i \in 1 .. Len(called) :
         TopicOf[called[i]] = publishing.topic /\ Exists(called[i])
    /\ \A i, j \in 1 .. Len(called) : i # j => called[i] # called[j]

(* When connectSubscriptionsToTopics() is through, the list of each topic  *)
(* holds all of its subscriptions that exist, and no others, whatever was  *)
(* created, destroyed or released before.  The list is what can be reached *)
(* from the head of the topic: what every set has in common that holds the *)
(* head and with a subscription its successor.                             *)
Holds(R, t) ==
    /\ mSubscriptions[t] \in R \cup {NoSub}
    /\ \A s \in R : mNextTopicSubscription[s] \in R \cup {NoSub}
ListOf(t) == {s \in Subscription : \A R \in SUBSET Subscription : Holds(R, t) => s \in R}
ListsComplete ==
    (rebuild.does = "connect" /\ rebuild.left = << >>) =>
        \A t \in Topic : ListOf(t) = {s \in Subscription : Exists(s) /\ TopicOf[s] = t}

(* Publications reach subscribers once, over lists that are complete.      *)
TopicsSound == CalledOnce /\ ListsComplete
=============================================================================
