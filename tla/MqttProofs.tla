----------------------------- MODULE MqttProofs -----------------------------
(***************************************************************************)
(* The client of the single call of MQTT_Init that main makes: it is       *)
(* started once, from a finished configuration, and always leaves a will.  *)
(***************************************************************************)
EXTENDS MqttClient, FiniteSetTheorems, TLAPS

(* What MQTT_HELLO_Init has filled in, by where the thread c is.            *)
CfgInv(c) ==
  /\ pc[c] = "serial" => ~serialID
  /\ ~serialID => cfg = {}
  /\ pc[c] = "assign" => serialID /\ cfg = {Fields[i] : i \in 1 .. step[c] - 1}
  /\ serialID /\ pc[c] # "assign" => cfg = FieldNames

(* The client is started on the way into "done", from a full configuration.*)
StartInv(c) ==
  /\ pc[c] \in {"fill", "start"} => cfg = FieldNames
  /\ pc[c] \in {"start", "done"} => client = FieldNames
  /\ starts = IF pc[c] = "done" THEN 1 ELSE 0

(* Every session the broker opened has a will, and can be missed.           *)
WillInv == session \in {{}, {"open", "will", "keepalive"}}

(* TypeOK without the bound on starts, which StartInv gives.                *)
Typed(c) ==
  /\ wlan \in BOOLEAN
  /\ pc \in [Callers -> ThreadPc] /\ step \in [Callers -> 1 .. 12]
  /\ serialID \in BOOLEAN
  /\ cfg \subseteq FieldNames /\ client \subseteq FieldNames
  /\ link \in {"down", "online_cb", "up"} /\ online \in BOOLEAN
  /\ presence \in {"unknown", "Online", "Offline"} /\ unsent \in BOOLEAN

IInv(c) == Typed(c) /\ CfgInv(c) /\ StartInv(c) /\ WillInv /\ NoGhost

LEMMA FieldFacts ==
  /\ Len(Fields) = 12
  /\ FieldNames = {Fields[i] : i \in 1 .. 12}
  /\ \A i \in 1 .. 12 : Fields[i] \in FieldNames
  /\ {"uri", "clientid", "keepalive", "will_topic", "will_payload"} \subseteq FieldNames
<1>1. Len(Fields) = 12 /\ DOMAIN Fields = 1 .. 12
      BY DEF Fields
<1>2. FieldNames = {Fields[i] : i \in 1 .. 12}
      BY <1>1 DEF FieldNames
<1>3. /\ Fields[1] = "uri" /\ Fields[2] = "clientid" /\ Fields[6] = "keepalive"
      /\ Fields[11] = "will_payload" /\ Fields[12] = "will_topic"
      BY DEF Fields
<1> QED
    BY <1>1, <1>2, <1>3

LEMMA InitInv == ASSUME NEW c \in Callers, Init PROVE IInv(c)
<1> USE DEF Init
<1>1. Typed(c)
  <2>1. pc \in [Callers -> ThreadPc] /\ step \in [Callers -> 1 .. 12]
        BY DEF ThreadPc
  <2>2. cfg \subseteq FieldNames /\ client \subseteq FieldNames
        OBVIOUS
  <2> QED
      BY <2>1, <2>2 DEF Typed
<1>2. CfgInv(c) /\ StartInv(c) /\ WillInv /\ NoGhost
      BY DEF CfgInv, StartInv, WillInv, NoGhost
<1> QED
    BY <1>1, <1>2 DEF IInv

(* The steps of the thread; whatever it does, the broker is untouched.      *)
LEMMA ThreadStep ==
  ASSUME NEW c, Callers = {c}, IInv(c), MqttInit(c) \/ Thread(c)
  PROVE  Typed(c)' /\ CfgInv(c)' /\ StartInv(c)'
<1> USE FieldFacts DEF IInv, Typed, CfgInv, StartInv, ThreadPc, Goto, paho, broker
<1>1. CASE MqttInit(c)
      BY <1>1 DEF MqttInit
<1>2. CASE CheckWlan(c)
      BY <1>2 DEF CheckWlan
<1>3. CASE CheckCfg(c)
      BY <1>3 DEF CheckCfg
<1>4. CASE InitGuard(c)
      BY <1>4 DEF InitGuard
<1>5. CASE InitSerial(c)
      BY <1>5 DEF InitSerial
<1>6. CASE InitField(c)
      BY <1>6 DEF InitField
<1>7. CASE Wake(c)
      BY <1>7 DEF Wake
<1>8. CASE Fill(c)
      BY <1>8 DEF Fill
<1>9. CASE Start(c)
      BY <1>9 DEF Start
<1> QED
    BY <1>1, <1>2, <1>3, <1>4, <1>5, <1>6, <1>7, <1>8, <1>9 DEF Thread

(* The paho thread and the broker: the configuration is untouched.          *)
LEMMA NetStep ==
  ASSUME NEW c, Callers = {c}, IInv(c),
         \/ Connect \/ OnlineCallback \/ Disconnect
         \/ BrokerReceives \/ BrokerCloses \/ WlanChanges
  PROVE  IInv(c)'
<1> USE DEF IInv, Typed, paho, broker
<1>1. UNCHANGED device
      BY DEF Connect, OnlineCallback, Disconnect, BrokerReceives, BrokerCloses, WlanChanges
<1>2. CfgInv(c)' /\ StartInv(c)'
      BY <1>1 DEF device, CfgInv, StartInv
<1>3. CASE Connect
  <2>1. client = FieldNames
        BY <1>3 DEF Connect, StartInv
  <2>2. session' = {"open", "will", "keepalive"}
        BY <1>3, <2>1, FieldFacts DEF Connect, SessionOf
  <2>3. presence' \in {"unknown", "Offline"} \cup {presence}
        BY <1>3 DEF Connect, Buried
  <2>4. Typed(c)'
        BY <1>1, <1>3, <2>3 DEF Connect, device
  <2> QED
      BY <1>2, <2>2, <2>4 DEF WillInv, NoGhost
<1>4. CASE BrokerCloses
  <2>1. "will" \in session /\ session' = {} /\ presence' = "Offline"
        BY <1>4 DEF BrokerCloses, WillInv, Buried
  <2> QED
      BY <1>1, <1>2, <1>4, <2>1 DEF BrokerCloses, device, WillInv, NoGhost
<1>5. CASE BrokerReceives
      BY <1>1, <1>2, <1>5 DEF BrokerReceives, device, WillInv, NoGhost
<1>6. CASE OnlineCallback \/ Disconnect \/ WlanChanges
  <2>1. UNCHANGED <<session, presence>>
        BY <1>6 DEF OnlineCallback, Disconnect, WlanChanges
  <2>2. Typed(c)'
        BY <1>1, <1>6 DEF OnlineCallback, Disconnect, WlanChanges, device
  <2> QED
      BY <1>2, <2>1, <2>2 DEF WillInv, NoGhost
<1> QED
    BY <1>3, <1>4, <1>5, <1>6

LEMMA RebootStep == ASSUME NEW c, Callers = {c}, IInv(c), Reboot PROVE IInv(c)'
<1> USE DEF IInv, Reboot, broker
<1>1. Typed(c)'
  <2>1. pc' \in [Callers -> ThreadPc] /\ step' \in [Callers -> 1 .. 12]
        BY DEF ThreadPc
  <2> QED
      BY <2>1 DEF Typed
<1>2. CfgInv(c)' /\ StartInv(c)'
      BY DEF CfgInv, StartInv
<1>3. WillInv' /\ NoGhost'
      BY DEF WillInv, NoGhost
<1> QED
    BY <1>1, <1>2, <1>3

LEMMA Invariance == ASSUME NEW c, Callers = {c} PROVE Spec => []IInv(c)
<1>1. Init => IInv(c)
      BY InitInv
<1>2. IInv(c) /\ [Next]_vars => IInv(c)'
  <2> SUFFICES ASSUME IInv(c), [Next]_vars PROVE IInv(c)'
      OBVIOUS
  <2>1. CASE UNCHANGED vars
        BY <2>1 DEF vars, device, paho, broker, IInv, Typed, CfgInv, StartInv, WillInv, NoGhost
  <2>2. CASE MqttInit(c) \/ Thread(c)
    <3>1. UNCHANGED <<session, presence>>
          BY <2>2 DEF MqttInit, Thread, CheckWlan, CheckCfg, InitGuard, InitSerial,
                      InitField, Wake, Fill, Start, broker
    <3> QED
        BY <2>2, <3>1, ThreadStep DEF IInv, WillInv, NoGhost
  <2> QED
      BY <2>1, <2>2, NetStep, RebootStep DEF Next
<1> QED
    BY <1>1, <1>2, PTL DEF Spec

(* MQTT.cpp and MQTT_Hello.cpp with one call of MQTT_Init, as main makes it *)
(* (main.cpp:339): every reachable state is well typed.                     *)
THEOREM ClientTypeCorrect == ASSUME NEW c, Callers = {c} PROVE Spec => []TypeOK
<1>1. IInv(c) => TypeOK
  <2>1. Cardinality(Callers) = 1
        BY FS_Singleton
  <2> QED
      BY <2>1, FieldFacts DEF IInv, Typed, StartInv, WillInv, TypeOK
<1> QED
    BY <1>1, Invariance, PTL

(* paho_mqtt_start (MQTT.cpp:144) is called at most once per boot.          *)
THEOREM OneStart == ASSUME NEW c, Callers = {c} PROVE Spec => []StartedOnce
<1>1. IInv(c) => StartedOnce
      BY DEF IInv, StartInv, StartedOnce
<1> QED
    BY <1>1, Invariance, PTL

(* The fill of the client struct (MQTT.cpp:98-142) never reads a            *)
(* configuration that MQTT_HELLO_Init has not finished.                     *)
THEOREM WholeConfiguration ==
  ASSUME NEW c, Callers = {c} PROVE Spec => []StartsComplete
<1>1. IInv(c) => StartsComplete
      BY DEF IInv, StartInv, StartsComplete
<1> QED
    BY <1>1, Invariance, PTL

(* The will (MQTT.cpp:114-122) buries every session: the broker never shows *)
(* a device online of which it has no session, through any number of        *)
(* reconnects, takeovers and reboots.                                       *)
THEOREM WillsBury == ASSUME NEW c, Callers = {c} PROVE Spec => []NoGhost
<1>1. IInv(c) => NoGhost
      BY DEF IInv
<1> QED
    BY <1>1, Invariance, PTL

=============================================================================
