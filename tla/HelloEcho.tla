------------------------------ MODULE HelloEcho ------------------------------
(***************************************************************************)
(* The echo of the hello protocol (src/src/MQTT_Hello.cpp:65-81) among     *)
(* several devices on one broker.  A topic is "destination/source": a      *)
(* device subscribed to "id/#" answers a message by publishing the same    *)
(* message to the rest of the topic followed by its own id.  The broker    *)
(* (external) routes by the first level, keeps retained messages and plays *)
(* them to every new subscription.  Topics are sequences of levels.        *)
(***************************************************************************)
EXTENDS Naturals, Sequences, FiniteSets, SequencesExt

CONSTANTS
  Devices,     \* the devices, each named by its SerialID
  NoLevel,     \* the empty level, as in "id/"
  Injections,  \* what clients may publish: a set of [topic, retain]
  MaxSent,     \* bound: messages clients publish
  MaxReplays   \* bound: retained messages played to new subscriptions

ASSUME LevelsDiffer == NoLevel \notin Devices
ASSUME DevicesFinite == IsFiniteSet(Devices)
ASSUME TopicsOK == \A x \in Injections :
  x.topic \in Seq(Range(x.topic)) \ {<<>>} /\ x.retain \in BOOLEAN
ASSUME BoundsOK == MaxSent \in Nat /\ MaxReplays \in Nat

VARIABLES
  up,          \* is the device connected and subscribed?
  inbox,       \* what the broker has sent to the device, oldest first
  retained,    \* the retained messages, at most one for each topic
  sent,        \* history: what clients have published, in order
  replays      \* history: how often each of them was played again

vars == <<up, inbox, retained, sent, replays>>

(* A message: id is its place in sent and stands for its payload.           *)
Msg(topic, id, retain) == [topic |-> topic, id |-> id, retain |-> retain]

(* The i-th rotation of a topic.                                            *)
Rotation(t, i) == SubSeq(t, i + 1, Len(t)) \o SubSeq(t, 1, i)
Rotations(t)   == {Rotation(t, i) : i \in 0 .. Len(t) - 1}

Ids == 1 .. Len(sent)

TypeOK ==
  /\ up \in [Devices -> BOOLEAN]
  /\ sent \in Seq(Injections) /\ Len(sent) <= MaxSent
  /\ \A d \in Devices : \A n \in DOMAIN inbox[d] :
       inbox[d][n].id \in Ids /\ inbox[d][n].retain \in BOOLEAN
  /\ \A m \in retained : m.id \in Ids /\ m.retain
  /\ replays \in [1 .. MaxSent -> 0 .. MaxReplays]

Init ==
  /\ up = [d \in Devices |-> FALSE]
  /\ inbox = [d \in Devices |-> <<>>]
  /\ retained = {}
  /\ sent = <<>>
  /\ replays = [i \in 1 .. MaxSent |-> 0]

-----------------------------------------------------------------------------
(* The broker: a publication goes to the device its first level names, if  *)
(* it is connected, without the retain flag, and is stored if it has it.   *)
Routed(box, m) ==
  IF m.topic[1] \in Devices /\ up[m.topic[1]]
  THEN [box EXCEPT ![m.topic[1]] = Append(@, Msg(m.topic, m.id, FALSE))]
  ELSE box

(* Mutant: every publication is retained.                                   *)
StoredAlways(m) == {r \in retained : r.topic # m.topic} \cup {m}

Stored(m) ==
  IF m.retain THEN {r \in retained : r.topic # m.topic} \cup {m} ELSE retained

(* A client publishes.                                                      *)
Send(x) ==
  /\ Len(sent) < MaxSent
  /\ LET m == Msg(x.topic, Len(sent) + 1, x.retain)
     IN  inbox' = Routed(inbox, m) /\ retained' = Stored(m)
  /\ sent' = Append(sent, x)
  /\ UNCHANGED <<up, replays>>

(* A clean session begins: the retained messages that match "id/#" are     *)
(* played, with the retain flag set.                                       *)
Matching(d) == {m \in retained : m.topic[1] = d}

Subscribe(d) ==
  /\ ~up[d]
  /\ \A i \in Ids :
       replays[i] + Cardinality({m \in Matching(d) : m.id = i}) <= MaxReplays
  /\ up' = [up EXCEPT ![d] = TRUE]
  /\ \E s \in SetToSeqs(Matching(d)) : inbox' = [inbox EXCEPT ![d] = s]
  /\ replays' = [i \in DOMAIN replays |->
                   replays[i] + Cardinality({m \in Matching(d) : m.id = i})]
  /\ UNCHANGED <<retained, sent>>

(* The connection breaks: with a clean session nothing waits for the next. *)
Lose(d) ==
  /\ up[d]
  /\ up' = [up EXCEPT ![d] = FALSE]
  /\ inbox' = [inbox EXCEPT ![d] = <<>>]
  /\ UNCHANGED <<retained, sent, replays>>

-----------------------------------------------------------------------------
(* MQTT_HELLO_OnMessage, called by mqtt_sub_callback.  A topic without "/" *)
(* and one whose rest is empty are not answered.                           *)
Answered(m) == Len(m.topic) > 1 /\ Tail(m.topic) # <<NoLevel>>

(* Mutants: only the first level of the source is answered; the two halves *)
(* of the topic are not swapped.                                           *)
ReplyShort(d, m)   == Msg(<<m.topic[2], d>>, m.id, m.retain)
ReplyNotSwapped(d, m) == Msg(m.topic, m.id, m.retain)

Reply(d, m) == Msg(Append(Tail(m.topic), d), m.id, m.retain)

(* Mutant: the answer is published by both subscription callbacks.          *)
OnMessageTwice(d) ==
  /\ inbox[d] # <<>>
  /\ LET m    == Head(inbox[d])
         rest == [inbox EXCEPT ![d] = Tail(@)]
     IN  IF Answered(m)
         THEN /\ inbox' = Routed(Routed(rest, Reply(d, m)), Reply(d, m))
              /\ retained' = Stored(Reply(d, m))
         ELSE inbox' = rest /\ UNCHANGED retained
  /\ UNCHANGED <<up, sent, replays>>

OnMessage(d) ==
  /\ inbox[d] # <<>>
  /\ LET m    == Head(inbox[d])
         rest == [inbox EXCEPT ![d] = Tail(@)]
     IN  IF Answered(m)
         THEN inbox' = Routed(rest, Reply(d, m)) /\ retained' = Stored(Reply(d, m))
         ELSE inbox' = rest /\ UNCHANGED retained
  /\ UNCHANGED <<up, sent, replays>>

Next ==
  \/ \E x \in Injections : Send(x)
  \/ \E d \in Devices : Subscribe(d) \/ Lose(d) \/ OnMessage(d)

Spec == Init /\ [][Next]_vars

(* Each device's paho thread handles what it has received.                  *)
FairSpec == Spec /\ \A d \in Devices : WF_vars(OnMessage(d))

-----------------------------------------------------------------------------
(* Properties.                                                              *)

InFlight == UNION {{inbox[d][n] : n \in DOMAIN inbox[d]} : d \in Devices}

(* The places of a box that hold message i, and the copies in all boxes.   *)
At(box, i) == {n \in DOMAIN box : box[n].id = i}
Copies(i)  == Cardinality(UNION {{d} \X At(inbox[d], i) : d \in Devices})

(* However often and by however many devices a message has been answered,  *)
(* it is the message some client sent (MQTT_Hello.cpp:4, "answered as it   *)
(* is"): the same payload under a rotation of its topic, so that no level  *)
(* is lost or made up, and retained only if it was sent so.                *)
EchoKeepsMessage ==
  \A m \in InFlight \cup retained :
    /\ m.topic \in Rotations(sent[m.id].topic)
    /\ m.retain => sent[m.id].retain

(* Echoing never multiplies a message: of each there is at most the one a  *)
(* client sent and the copies the broker played to new subscriptions, even *)
(* when devices answer each other without end.                             *)
NoStorm == \A i \in Ids : Copies(i) <= 1 + replays[i]

(* An exchange that involves anybody but devices ends: every copy reaches  *)
(* the level that is not a device, and no echo of it is left.              *)
FromOutside(i) == \E n \in DOMAIN sent[i].topic : sent[i].topic[n] \notin Devices
EchoEnds ==
  \A i \in 1 .. MaxSent : (i \in Ids /\ FromOutside(i)) ~> (Copies(i) = 0)

=============================================================================
