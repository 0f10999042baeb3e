---------------------------- MODULE MCHelloEcho ----------------------------
(***************************************************************************)
(* Two devices and one client: requests of the client, a device's own id   *)
(* and another device as the source, a source of two levels, and the two   *)
(* topics that are not answered.                                           *)
(***************************************************************************)
EXTENDS HelloEcho

CONSTANTS a, b, client

MCTopics == {<<a, client>>, <<b, a>>, <<a, a>>, <<a, b, client>>, <<a, NoLevel>>,
             <<b, client, NoLevel>>, <<a>>}
MCInjections ==
  {[topic |-> t, retain |-> FALSE] : t \in MCTopics}
  \cup {[topic |-> t, retain |-> TRUE] : t \in {<<a, client>>, <<b, a>>, <<a, b, client>>}}

=============================================================================
