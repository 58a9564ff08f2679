---------------------------- MODULE MCSoftwareBus ----------------------------
(* Channels and subscriptions for checking SoftwareBus, and one of its     *)
(* channels on its own.                                                    *)
EXTENDS SoftwareBus, TLC

CONSTANTS
    a, b, c1, c2, d,
    r1,             \* the receiver at work while the bus runs
    BusCalls        \* bound on the calls while the bus runs

VARIABLE part       \* "bus" or "channel"

(* The regular channels overlap in id a; the default channel accepts only  *)
(* the ids that its own filter lists.                                      *)
MCSubscribed == [c \in Channel |-> IF c = c2 THEN {a, b} ELSE {a}]
MCFilter     == [c \in Channel |-> {m \in BusMessage : m.id \in Subscribed[c]}]

(* The bus, with one receiver at c2 or at the default channel. *)
BusPart == Next /\ calls' <= BusCalls /\ \A r \in Receiver \ {r1} : rpc'[r] = "idle"

(* The channel c1 with all receivers, any of which may be late: it shares  *)
(* nothing with the other channels.  A message with id b does not pass its *)
(* filter.                                                                 *)
Few == {m \in BusMessage :
          m.id \in {a, b} /\ m.buf = NoBuffer /\ m.no = counters[c1].incoming + 1}
ChannelPart ==
    /\ \/ \E m \in Few :
            \/ Accept(c1, m) /\ history' = [history EXCEPT ![c1] = Append(@, m.no)]
            \/ (Decline(c1, m) \/ Reject(c1, m)) /\ UNCHANGED history
       \/ \E r \in Receiver : Receive(r) /\ UNCHANGED history
    /\ UNCHANGED <<publisherVars, queueVars, handlerVars, registry>>

MCInit ==
    /\ Init
    /\ \A r \in Receiver \ {r1} : source[r] = c1
    /\ part = IF source[r1] = c1 THEN "channel" ELSE "bus"
MCNext ==
    /\ \/ part = "bus" /\ BusPart
       \/ part = "channel" /\ ChannelPart
    /\ UNCHANGED part
MCSpec == MCInit /\ [][MCNext]_<<vars, part>>

(* The channels are registered before the first message is published. *)
Started   == Cardinality(Channel) = Len(mChannels) + 1 /\ mDefaultChannel # NoChannel
StartInit == Init /\ part = "bus"
StartNext == Next /\ (calls' = 0 \/ Started) /\ UNCHANGED part
StartSpec ==
    /\ StartInit /\ [][StartNext]_<<vars, part>>
    /\ Fairness

Symmetric == Permutations(Publisher) \cup Permutations(Buffer)
=============================================================================
