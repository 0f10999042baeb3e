----------------------------- MODULE MqttClient -----------------------------
(***************************************************************************)
(* From MQTT_Init to the presence messages of the hello protocol           *)
(* (src/src/MQTT.cpp, src/src/MQTT_Hello.cpp).                             *)
(*                                                                         *)
(* Every call of MQTT_Init creates a thread that polls until the station   *)
(* is connected and the configuration is filled in, by the init callback   *)
(* MQTT_HELLO_Init, one field at a time.  It then hands the configuration  *)
(* to the paho client, whose thread connects, publishes "Online" and       *)
(* reconnects; the broker publishes the will "Offline" when it finds the   *)
(* connection gone.  The paho client and the broker are not part of the    *)
(* repository: they are modelled from the fields MQTT.cpp gives them.      *)
(***************************************************************************)
EXTENDS Naturals, Sequences, FiniteSets

CONSTANT Callers        \* the calls of MQTT_Init

VARIABLES
  wlan,       \* what rt_wlan_is_connected returns
  pc,         \* where the thread of each call is
  step,       \* the next field it assigns in MQTT_HELLO_Init
  serialID,   \* is SerialID set?
  cfg,        \* the fields of cfg that are set
  client,     \* the fields the client struct was filled from
  starts,     \* calls of paho_mqtt_start since boot
  link,       \* the paho thread's connection
  online,     \* is an "Online" on its way to the broker?
  session,    \* what the broker knows of the client: {} when nothing
  presence    \* the last presence message the broker passed on

(* History: what the run did, for the properties only.                     *)
VARIABLE
  unsent      \* the "Online" of this connection was not taken

device == <<pc, step, serialID, cfg, client, starts>>
paho   == <<link, online, unsent>>
broker == <<session, presence>>
vars   == <<wlan, device, paho, broker>>

(* The fields in the order MQTT_HELLO_Init assigns them.                    *)
Fields == <<"uri", "clientid", "username", "password", "cleansession",
            "keepalive", "sub_qos", "subtopic", "will_qos", "will_retain",
            "will_payload", "will_topic">>
FieldNames == {Fields[i] : i \in DOMAIN Fields}

ThreadPc == {"off", "failed", "wlan", "cfg", "init", "serial", "assign",
             "delay", "fill", "start", "done"}

TypeOK ==
  /\ wlan \in BOOLEAN
  /\ pc \in [Callers -> ThreadPc]
  /\ step \in [Callers -> 1 .. Len(Fields)]
  /\ serialID \in BOOLEAN
  /\ cfg \subseteq FieldNames
  /\ client \subseteq FieldNames
  /\ starts \in 0 .. Cardinality(Callers)
  /\ link \in {"down", "online_cb", "up"}
  /\ online \in BOOLEAN
  /\ session \subseteq {"open", "will", "keepalive"}
  /\ presence \in {"unknown", "Online", "Offline"}
  /\ unsent \in BOOLEAN

Init ==
  /\ wlan = FALSE
  /\ pc = [c \in Callers |-> "off"] /\ step = [c \in Callers |-> 1]
  /\ serialID = FALSE /\ cfg = {} /\ client = {} /\ starts = 0
  /\ link = "down" /\ online = FALSE /\ unsent = FALSE
  /\ session = {} /\ presence = "unknown"

-----------------------------------------------------------------------------
(* MQTT_Init.  IsInit is tested but never set, so every call creates a     *)
(* thread, unless rt_thread_create fails.                                  *)
MqttInit(c) ==
  /\ pc[c] = "off"
  /\ \E p \in {"wlan", "failed"} : pc' = [pc EXCEPT ![c] = p]
  /\ UNCHANGED <<wlan, step, serialID, cfg, client, starts, paho, broker>>

-----------------------------------------------------------------------------
(* _thread and, inside its check, check_cfg.                                *)

Goto(c, p, q) == pc[c] = p /\ pc' = [pc EXCEPT ![c] = q]

CheckWlan(c) ==
  /\ Goto(c, "wlan", IF wlan THEN "cfg" ELSE "init")
  /\ UNCHANGED <<wlan, step, serialID, cfg, client, starts, paho, broker>>

(* Mutant: only the station is checked.                                     *)
CheckCfgUnchecked(c) ==
  /\ Goto(c, "cfg", "fill")
  /\ UNCHANGED <<wlan, step, serialID, cfg, client, starts, paho, broker>>

CheckCfg(c) ==
  /\ Goto(c, "cfg", IF {"uri", "clientid"} \subseteq cfg THEN "fill" ELSE "init")
  /\ cfg' = IF "uri" \in cfg THEN cfg \cup {"keepalive"} ELSE cfg
  /\ UNCHANGED <<wlan, step, serialID, client, starts, paho, broker>>

(* Mutant: the guard is inverted.                                           *)
InitGuardInverted(c) ==
  /\ Goto(c, "init", IF serialID THEN "serial" ELSE "delay")
  /\ UNCHANGED <<wlan, step, serialID, cfg, client, starts, paho, broker>>

(* MQTT_HELLO_Init: nothing is done when SerialID is set already.           *)
InitGuard(c) ==
  /\ Goto(c, "init", IF serialID THEN "delay" ELSE "serial")
  /\ UNCHANGED <<wlan, step, serialID, cfg, client, starts, paho, broker>>

InitSerial(c) ==
  /\ Goto(c, "serial", "assign")
  /\ serialID' = TRUE
  /\ step' = [step EXCEPT ![c] = 1]
  /\ UNCHANGED <<wlan, cfg, client, starts, paho, broker>>

(* Mutant: the last field, the topic of the will, is forgotten.             *)
InitFieldNoWill(c) ==
  /\ Goto(c, "assign", IF step[c] < Len(Fields) - 1 THEN "assign" ELSE "delay")
  /\ cfg' = cfg \cup {Fields[step[c]]}
  /\ step' = [step EXCEPT ![c] = IF step[c] < Len(Fields) THEN step[c] + 1 ELSE 1]
  /\ UNCHANGED <<wlan, serialID, client, starts, paho, broker>>

InitField(c) ==
  /\ Goto(c, "assign", IF step[c] < Len(Fields) THEN "assign" ELSE "delay")
  /\ cfg' = cfg \cup {Fields[step[c]]}
  /\ step' = [step EXCEPT ![c] = IF step[c] < Len(Fields) THEN step[c] + 1 ELSE 1]
  /\ UNCHANGED <<wlan, serialID, client, starts, paho, broker>>

Wake(c) ==
  /\ Goto(c, "delay", "wlan")
  /\ UNCHANGED <<wlan, step, serialID, cfg, client, starts, paho, broker>>

(* The client struct takes its values from cfg, and pointers into it.       *)
Fill(c) ==
  /\ Goto(c, "fill", "start")
  /\ client' = cfg
  /\ UNCHANGED <<wlan, step, serialID, cfg, starts, paho, broker>>

(* Mutant: the loop goes on after paho_mqtt_start.                          *)
StartNoBreak(c) ==
  /\ Goto(c, "start", "delay")
  /\ starts' = starts + 1
  /\ UNCHANGED <<wlan, step, serialID, cfg, client, paho, broker>>

Start(c) ==
  /\ Goto(c, "start", "done")
  /\ starts' = starts + 1
  /\ UNCHANGED <<wlan, step, serialID, cfg, client, paho, broker>>

Thread(c) ==
  \/ CheckWlan(c) \/ CheckCfg(c) \/ InitGuard(c) \/ InitSerial(c) \/ InitField(c)
  \/ Wake(c) \/ Fill(c) \/ Start(c)

-----------------------------------------------------------------------------
(* The paho thread, the broker and the network.                             *)

(* Mutant: keepAliveInterval is not copied.                                 *)
SessionNoKeepalive(fields) ==
  {"open"} \cup (IF {"will_topic", "will_payload"} \subseteq fields THEN {"will"} ELSE {})

(* The traits of a session, from the fields of the client struct: there is *)
(* a will only if it has a topic and a payload, and the broker can miss a  *)
(* silent client only if it has a keepalive.                               *)
SessionOf(fields) ==
  {"open"}
  \cup (IF {"will_topic", "will_payload"} \subseteq fields THEN {"will"} ELSE {})
  \cup (IF "keepalive" \in fields THEN {"keepalive"} ELSE {})

(* The presence after the broker has closed the session it holds.           *)
Buried == IF "will" \in session THEN "Offline" ELSE presence

(* CONNECT, answered.  A session that is still open is taken over: it is   *)
(* closed before the new one begins.                                       *)
Connect ==
  /\ starts > 0 /\ wlan /\ link = "down"
  /\ link' = "online_cb"
  /\ presence' = Buried
  /\ session' = SessionOf(client)
  /\ online' = FALSE /\ unsent' = FALSE
  /\ UNCHANGED <<wlan, device>>

(* Mutant: the connect callback is not called.                              *)
OnlineCallbackMute ==
  /\ link = "online_cb" /\ link' = "up"
  /\ UNCHANGED <<wlan, device, online, unsent, broker>>

(* mqtt_online_callback: MQTT_HELLO_Connect publishes "Online", and does   *)
(* not look whether MQTT_Publish_Message could hand it on.                 *)
OnlineCallback ==
  /\ link = "online_cb" /\ link' = "up"
  /\ \/ online' = TRUE /\ UNCHANGED unsent
     \/ unsent' = TRUE /\ UNCHANGED online
  /\ UNCHANGED <<wlan, device, broker>>

(* The client gives the connection up: a transport error, a missed ping or *)
(* the broker's close; what was on its way may still arrive.               *)
Disconnect ==
  /\ link # "down" /\ link' = "down"
  /\ online' \in {FALSE, online}
  /\ UNCHANGED <<wlan, device, unsent, broker>>

BrokerReceives ==
  /\ online /\ "open" \in session
  /\ online' = FALSE
  /\ presence' = "Online"
  /\ UNCHANGED <<wlan, device, link, unsent, session>>

(* The broker finds the connection dead and closes the session.             *)
BrokerCloses ==
  /\ "open" \in session
  /\ session' = {} /\ online' = FALSE
  /\ presence' = Buried
  /\ UNCHANGED <<wlan, device, link, unsent>>

(* Once the client is silent its keepalive runs out.                        *)
KeepaliveExpires == link = "down" /\ "keepalive" \in session /\ BrokerCloses

WlanChanges ==
  /\ wlan' = ~wlan
  /\ UNCHANGED <<device, paho, broker>>

(* A reboot of the device, which the broker does not see.                   *)
Reboot ==
  /\ wlan' = FALSE
  /\ pc' = [c \in Callers |-> "off"] /\ step' = [c \in Callers |-> 1]
  /\ serialID' = FALSE /\ cfg' = {} /\ client' = {} /\ starts' = 0
  /\ link' = "down" /\ online' \in {FALSE, online} /\ unsent' = FALSE
  /\ UNCHANGED broker

Next ==
  \/ \E c \in Callers : MqttInit(c) \/ Thread(c)
  \/ Connect \/ OnlineCallback \/ Disconnect
  \/ BrokerReceives \/ BrokerCloses
  \/ WlanChanges \/ Reboot

Spec == Init /\ [][Next]_vars

(* The kernel runs every thread; the paho thread reconnects and calls its  *)
(* callback; the network delivers or breaks; the broker times out.  The    *)
(* station, reboots and breaks of the connection owe nothing.              *)
FairSpec ==
  /\ Spec
  /\ \A c \in Callers : WF_vars(Thread(c))
  /\ WF_vars(Connect) /\ WF_vars(OnlineCallback)
  /\ WF_vars(BrokerReceives) /\ WF_vars(KeepaliveExpires)

-----------------------------------------------------------------------------
(* Properties.                                                              *)

(* The client is started at most once per boot: MQTT.cpp has one client    *)
(* struct and one pair of buffers (MQTT.h:54, "may only be called once").  *)
StartedOnce == starts <= 1

(* The client is never started from a configuration that MQTT_HELLO_Init   *)
(* has not finished: paho gets every field or is not started.              *)
StartsComplete == starts > 0 => client = FieldNames

(* The monitor never believes in a device the broker has no session of:    *)
(* whatever ends a session also publishes its will.                        *)
NoGhost == presence = "Online" => "open" \in session

(* A station that stays connected gets its client started, if the thread   *)
(* could be created and the device stops rebooting.                        *)
Starts ==
  <>[](wlan /\ \E c \in Callers : pc[c] \notin {"off", "failed"}) => <>[](starts > 0)

(* A device that stays connected ends up shown as online, whatever wills   *)
(* of earlier sessions are published late, if the "Online" of its last     *)
(* connection could be handed to the client (MQTT_Hello.cpp:57 does not    *)
(* look, and does not try again before the next connection).               *)
OnlineShown ==
  <>[](link = "up" /\ session # {} /\ ~unsent) => <>[](presence = "Online")

(* A device that is gone for good ends up not shown as online.              *)
OfflineShown == <>[](link = "down") => <>[](presence # "Online")

=============================================================================
