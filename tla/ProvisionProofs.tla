--------------------------- MODULE ProvisionProofs ---------------------------
(***************************************************************************)
(* Proofs of the safety properties of Provision for every set of networks, *)
(* passphrases and lengths.  The invariant IInv strengthens them with      *)
(* where main, the callback and the shell command can be at the same time. *)
(***************************************************************************)
EXTENDS Provision, TLAPS

(* The callback's pcs after a successful rt_wlan_connect.                   *)
Joined == {"ap_probe", "ap_off", "oneshot_off",
           "save_ssid", "write_ssid", "save_psk", "write_psk"}
(* ... and after wm_oneshot_stop.                                           *)
Closed == {"save_ssid", "write_ssid", "save_psk", "write_psk"}

(* A callback past its NULL test has an ssid, one that saves a key has one. *)
CallInv ==
  /\ cb.pc \in {"join"} \cup Joined => cb.ssid \in Ssids
  /\ cb.pc \in {"save_psk", "write_psk"} => cb.key \in KeyText

(* The service runs only after main has opened it, and with the AP modes   *)
(* no callback runs before main has started the AP.                        *)
ServiceInv ==
  /\ oneshot \/ cb.pc # "idle" \/ succeeded => mpc \in {"ap_on", "mqtt", "done"}
  /\ ap => mpc \in {"mqtt", "done"}
  /\ Mode # "udp" /\ (cb.pc # "idle" \/ succeeded) => mpc \in {"mqtt", "done"}

ClosedInv == cb.pc \in Closed \/ succeeded => ~oneshot
ApInv ==
  Mode # "udp" /\ StopApOnSuccess
    /\ (cb.pc \in Closed \cup {"oneshot_off"} \/ succeeded) => ~ap

(* The change under way.  One that a save and a reset make together is     *)
(* Overlapped.  What was asked is what the running save or reset goes on   *)
(* to write, and as long as no call failed its first file is finished      *)
(* before its second is touched.                                           *)
Undamaged == mishap <= CutOff
HalfInv ==
  /\ sh = "half" /\ Saving => mishap = Overlapped
  /\ mishap <= Failed /\ Saving =>
       /\ asked.ssid = cb.ssid
       /\ asked.psk = IF cb.key = Null THEN before.psk ELSE cb.key
  /\ mishap <= Failed /\ sh = "half" => asked = NoFiles
  /\ Undamaged /\ cb.pc \in {"write_ssid", "save_psk"} => flash.psk = before.psk
  /\ Undamaged /\ cb.pc \in {"save_psk", "write_psk"} => flash.ssid = cb.ssid
  /\ Undamaged /\ sh = "half" => flash.ssid = Absent /\ flash.psk = before.psk

(* Where the credentials come from.                                         *)
JoinedInv ==
  /\ cb.pc \in Joined => <<cb.ssid, cb.key>> \in joined
  /\ \A p \in joined : p[2] \in Keys => KeyLen[p[2]] <= PskMax
  /\ OnlyJoinedSaved

(* A change that met no mishap asks for nothing or for a pair that joined.  *)
PairInv ==
  mishap = Fine => asked = NoFiles \/ <<asked.ssid, asked.psk>> \in joined

(* What a boot has read so far.                                             *)
ReplayInv ==
  mpc \in {"load_psk", "load_join"} /\ replay =>
    /\ sh = "idle"
    /\ ssid = Text(flash.ssid)
    /\ mpc = "load_join" => password = Text(flash.psk)

TypeInv == TypeOK /\ CallInv
IInv ==
  /\ TypeInv /\ ServiceInv /\ ClosedInv /\ ApInv
  /\ HalfInv /\ FilesHoldAsked /\ JoinedInv /\ PairInv /\ ReplayInv

(* The levels of a mishap are compared as the numbers they are.             *)
USE DEF Fine, NoKey, CutOff, Failed, Overlapped

-----------------------------------------------------------------------------
(* The records TypeOK speaks of, so that its proofs need not expand them.   *)
LEMMA NoCallType == NoCall \in Calls /\ NoCall.pc = "idle"
BY DEF NoCall, Calls, CbPc

LEMMA NoFilesType == NoFiles \in Contents
BY DEF NoFiles, Contents, SsidText, KeyText

LEMMA CallPc ==
  ASSUME NEW c \in Calls, NEW p \in CbPc
  PROVE  LET d == [c EXCEPT !.pc = p]
         IN  d \in Calls /\ d.pc = p /\ d.ssid = c.ssid /\ d.key = c.key
BY DEF Calls

LEMMA FilesSsid ==
  ASSUME NEW f \in Contents, NEW x \in SsidText \cup {Absent}
  PROVE  LET g == [f EXCEPT !.ssid = x]
         IN  g \in Contents /\ g.ssid = x /\ g.psk = f.psk
BY DEF Contents

LEMMA FilesPsk ==
  ASSUME NEW f \in Contents, NEW x \in KeyText \cup {Absent}
  PROVE  LET g == [f EXCEPT !.psk = x]
         IN  g \in Contents /\ g.psk = x /\ g.ssid = f.ssid
BY DEF Contents

LEMMA FieldTypes ==
  /\ \A f \in Contents : f.ssid \in SsidText \cup {Absent} /\ f.psk \in KeyText \cup {Absent}
  /\ \A c \in Calls : c.pc \in CbPc /\ c.ssid \in Ssids \cup {Null} /\ c.key \in KeyText \cup {Null}
BY DEF Contents, Calls

LEMMA OpenedType ==
  ASSUME TypeOK
  PROVE  /\ Opened("ssid") \subseteq SsidText \cup {Absent}
         /\ Opened("psk") \subseteq KeyText \cup {Absent}
BY FieldTypes DEF TypeOK, Opened, SsidText, KeyText

(* What a step can do to the callback: nothing, end it, start it, or take  *)
(* it on, with the arguments it was called with.                           *)
Advance(p, q) ==
  /\ cb.pc = p
  /\ cb' \in Calls /\ cb'.pc = q /\ cb'.ssid = cb.ssid /\ cb'.key = cb.key

LEMMA CallMoves ==
  ASSUME TypeOK, [Next]_vars
  PROVE  \/ UNCHANGED cb
         \/ cb' = NoCall
         \/ cb' \in Calls /\ cb'.pc = "enter" /\ oneshot /\ (Mode = "udp" \/ ap)
         \/ Advance("enter", "join") /\ cb.ssid # Null
         \/ \E q \in {"ap_probe", "oneshot_off"} : Advance("join", q) /\ CbJoinOk
         \/ \E q \in {"ap_off", "oneshot_off"} : Advance("ap_probe", q) /\ CbApProbe
         \/ Advance("ap_off", "oneshot_off") /\ CbApOff
         \/ Advance("oneshot_off", "save_ssid") /\ CbOneshotOff
         \/ Advance("save_ssid", "write_ssid") /\ SaveSsid
         \/ \E p \in {"save_ssid", "write_ssid"} :
               Advance(p, "save_psk") /\ cb.key # Null /\ (SaveSsid \/ WriteSsid)
         \/ Advance("save_psk", "write_psk") /\ SavePsk
<1>0. \A q \in CbPc : cb' = [cb EXCEPT !.pc = q] => Advance(cb.pc, q)
      BY CallPc DEF TypeOK, Advance
<1> USE <1>0 DEF CbPc
<1>1. CASE Main
      BY <1>1 DEF Main, FlashInit, Mount, Format, Remount, LoadSsid, LoadPsk,
         LoadJoin, Probe, OneshotOn, ApOn, MqttInit
<1>2. CASE Shell \/ Network
      BY <1>2 DEF Shell, ResetSsid, ResetPsk, Network, LinkDrop, AutoReconnect
<1>3. CASE CbJoinFails \/ WritePsk \/ Reboot
      BY <1>3 DEF CbJoinFails, WritePsk, Reboot
<1>4. CASE CbEnter
      BY <1>4 DEF CbEnter
<1>5. CASE CbJoinOk
  <2>1. \E q \in {"ap_probe", "oneshot_off"} : Advance("join", q)
        BY <1>5 DEF CbJoinOk
  <2>2. QED BY <1>5, <2>1
<1>6. CASE CbApProbe
  <2>1. \E q \in {"ap_off", "oneshot_off"} : Advance("ap_probe", q)
        BY <1>6 DEF CbApProbe
  <2>2. QED BY <1>6, <2>1
<1>7. CASE CbApOff \/ CbOneshotOff
      BY <1>7 DEF CbApOff, CbOneshotOff
<1>8. CASE SaveSsid
  <2>1. cb.pc = "save_ssid" /\ (cb' = [cb EXCEPT !.pc = "write_ssid"] \/ cb' = AfterSsid)
        BY <1>8 DEF SaveSsid
  <2>2. \/ Advance("save_ssid", "write_ssid")
        \/ Advance("save_ssid", "save_psk") /\ cb.key # Null
        \/ cb' = NoCall
        BY <2>1 DEF AfterSsid
  <2>3. QED BY <1>8, <2>2
<1>9. CASE WriteSsid
      BY <1>9 DEF WriteSsid, AfterSsid
<1>10. CASE SavePsk
  <2>1. cb.pc = "save_psk" /\ (cb' = [cb EXCEPT !.pc = "write_psk"] \/ cb' = NoCall)
        BY <1>10 DEF SavePsk
  <2>2. Advance("save_psk", "write_psk") \/ cb' = NoCall
        BY <2>1
  <2>3. QED BY <1>10, <2>2
<1>11. ASSUME NEW s \in Ssids \cup {Null}, NEW k \in KeyText \cup {Null}, Submit(s, k)
       PROVE  cb' \in Calls /\ cb'.pc = "enter" /\ oneshot /\ (Mode = "udp" \/ ap)
       BY <1>11 DEF Submit, Calls, CbPc
<1>12. QED
       BY <1>1, <1>2, <1>3, <1>4, <1>5, <1>6, <1>7, <1>8, <1>9, <1>10, <1>11
       DEF Next, Callback, vars

-----------------------------------------------------------------------------
(* The types of the history of a change.                                    *)
ChangeType ==
  before \in Contents /\ asked \in Contents /\ mishap \in Fine .. Overlapped

LEMMA TypeInit == Init => TypeInv
<1> SUFFICES ASSUME Init PROVE TypeInv
    OBVIOUS
<1>0. ChangeType
      BY NoFilesType DEF Init, ChangeType
<1>1. TypeOK
      BY <1>0, NoCallType, NoFilesType
      DEF Init, TypeOK, ChangeType, MainPc, SsidText, KeyText
<1>2. CallInv
      BY NoCallType DEF Init, CallInv, Joined
<1>3. QED BY <1>1, <1>2 DEF TypeInv

LEMMA SavedType ==
  ASSUME TypeInv, cb.pc = "save_ssid"
  PROVE  /\ Saved \in Contents
         /\ Saved.ssid = cb.ssid
         /\ Saved.psk = IF cb.key = Null THEN flash.psk ELSE cb.key
BY FieldTypes DEF TypeInv, TypeOK, CallInv, Joined, Saved, Contents, SsidText, KeyText

LEMMA BeginsType ==
  ASSUME TypeOK, NEW p \in Contents, NEW m \in Fine .. Overlapped, NEW alone,
         Begins(p, m, alone)
  PROVE  ChangeType'
BY NoFilesType DEF TypeOK, Begins, ChangeType

LEMMA MeetsType ==
  ASSUME TypeOK, NEW m \in Fine .. Overlapped, Meets(m)
  PROVE  ChangeType'
BY DEF TypeOK, Meets, Worse, ChangeType

LEMMA EndsType ==
  ASSUME TypeOK, Ends
  PROVE  ChangeType'
BY DEF TypeOK, Ends, ChangeType

LEMMA ChangeStep == TypeInv /\ [Next]_vars => ChangeType'
<1> SUFFICES ASSUME TypeInv, [Next]_vars PROVE ChangeType'
    OBVIOUS
<1>0. TypeOK /\ ChangeType
      BY DEF TypeInv, TypeOK, ChangeType
<1>1. {Fine, NoKey, CutOff, Failed} \subseteq Fine .. Overlapped
      OBVIOUS
<1>2. ASSUME UNCHANGED change
      PROVE  ChangeType'
      BY <1>0, <1>2 DEF change, ChangeType
<1>3. CASE Main
  <2>1. CASE Format
        BY <2>1, <1>0, <1>1, BeginsType, NoFilesType DEF Format
  <2>2. CASE ~Format
    <3>1. UNCHANGED change
          BY <1>3, <2>2 DEF Main, FlashInit, Mount, Remount, LoadSsid, LoadPsk,
             LoadJoin, Probe, OneshotOn, ApOn, MqttInit, history
    <3>2. QED BY <3>1, <1>2
  <2>3. QED BY <2>1, <2>2
<1>4. CASE SaveSsid
  <2>1. Saved \in Contents
        BY <1>4, SavedType DEF SaveSsid
  <2>2. \/ Begins(Saved, IF cb.key = Null THEN NoKey ELSE Fine, sh = "idle")
        \/ Begins(Saved, Failed, sh = "idle")
        BY <1>4 DEF SaveSsid
  <2>3. (IF cb.key = Null THEN NoKey ELSE Fine) \in Fine .. Overlapped
        BY <1>1
  <2>4. QED BY <1>0, <1>1, <2>1, <2>2, <2>3, BeginsType
<1>5. CASE WriteSsid
      BY <1>5, <1>0, <1>1, <1>2, EndsType, MeetsType DEF WriteSsid
<1>6. CASE SavePsk
      BY <1>6, <1>0, <1>1, <1>2, MeetsType DEF SavePsk
<1>7. CASE WritePsk
      BY <1>7, <1>0, <1>1, EndsType, MeetsType DEF WritePsk
<1>8. CASE ResetSsid
      BY <1>8, <1>0, <1>1, NoFilesType, BeginsType DEF ResetSsid
<1>9. CASE ResetPsk
      BY <1>9, <1>0, <1>1, EndsType, MeetsType DEF ResetPsk
<1>10. CASE Reboot
      BY <1>10, <1>0, <1>1, <1>2, MeetsType DEF Reboot
<1>11. CASE CbEnter \/ CbJoinOk \/ CbJoinFails \/ CbApProbe \/ CbApOff \/ CbOneshotOff
       BY <1>11, <1>2 DEF CbEnter, CbJoinOk, CbJoinFails, CbApProbe, CbApOff,
          CbOneshotOff, history
<1>12. CASE Network \/ UNCHANGED vars
       BY <1>12, <1>2 DEF Network, LinkDrop, AutoReconnect, vars, history
<1>13. ASSUME NEW s \in Ssids \cup {Null}, NEW k \in KeyText \cup {Null}, Submit(s, k)
       PROVE  ChangeType'
       BY <1>13, <1>2 DEF Submit, history
<1>14. QED
       BY <1>3, <1>4, <1>5, <1>6, <1>7, <1>8, <1>9, <1>10, <1>11, <1>12, <1>13
       DEF Next, Callback, Shell

(* The type invariant is inductive together with CallInv: the files are    *)
(* written from the callback's arguments.                                  *)
LEMMA TypeStep == TypeInv /\ [Next]_vars => TypeOK'
<1> SUFFICES ASSUME TypeInv, [Next]_vars PROVE TypeOK'
    OBVIOUS
<1> USE FieldTypes, NoCallType, NoFilesType DEF TypeInv, TypeOK, CallInv, Joined, boot, radio, history, change
<1>0. cb' \in Calls
      BY CallMoves DEF Advance
<1>c. before' \in Contents /\ asked' \in Contents /\ mishap' \in Fine .. Overlapped
      BY ChangeStep DEF ChangeType
<1>1. CASE UNCHANGED vars
      BY <1>1 DEF vars
<1>2. CASE Main
  <2>1. CASE FlashInit BY <2>1 DEF FlashInit, MainPc
  <2>2. CASE Mount
    <3>1. mpc' \in MainPc /\ mounted' \in BOOLEAN
          BY <2>2 DEF Mount, MainPc
    <3>2. QED BY <2>2, <3>1 DEF Mount
  <2>3. CASE Format    BY <2>3, <1>c DEF Format, MainPc
  <2>4. CASE Remount   BY <2>4 DEF Remount, MainPc
  <2>5. CASE LoadSsid  BY <2>5, ZenonT(30) DEF LoadSsid, Text, MainPc, SsidText
  <2>6. CASE LoadPsk   BY <2>6 DEF LoadPsk, Text, Buffered, MainPc, KeyText
  <2>7. CASE LoadJoin  BY <2>7 DEF LoadJoin, Connected, NotConnected, MainPc, SsidText, KeyText
  <2>8. CASE Probe     BY <2>8 DEF Probe, MainPc
  <2>9. CASE OneshotOn BY <2>9, <1>c, ZenonT(30) DEF OneshotOn, MainPc
  <2>10. CASE ApOn     BY <2>10, <1>c, ZenonT(30) DEF ApOn, MainPc
  <2>11. CASE MqttInit BY <2>11 DEF MqttInit, MainPc
  <2>12. QED
         BY <1>2, <2>1, <2>2, <2>3, <2>4, <2>5, <2>6, <2>7, <2>8, <2>9, <2>10, <2>11 DEF Main
<1>3. CASE CbEnter
      BY <1>3, <1>0 DEF CbEnter
<1>4. CASE CbJoinOk
  <2>1. joined' \in SUBSET (Ssids \X (KeyText \cup {Null}))
        BY <1>4 DEF CbJoinOk
  <2>2. QED BY <1>4, <1>0, <2>1 DEF CbJoinOk, Connected
<1>5. CASE CbJoinFails
      BY <1>5, <1>0 DEF CbJoinFails, NotConnected
<1>6. CASE CbApProbe \/ CbApOff \/ CbOneshotOff
      BY <1>6, <1>0, ZenonT(30) DEF CbApProbe, CbApOff, CbOneshotOff
<1>7. CASE SaveSsid
  <2>1. flash' \in Contents
        BY <1>7, FilesSsid, OpenedType DEF SaveSsid
  <2>2. succeeded' \in BOOLEAN
        BY <1>7 DEF SaveSsid
  <2>3. QED BY <1>7, <1>0, <1>c, <2>1, <2>2 DEF SaveSsid
<1>8. CASE WriteSsid
  <2>1. flash' \in Contents
        BY <1>8, FilesSsid DEF WriteSsid, SsidText
  <2>2. succeeded' \in BOOLEAN
        BY <1>8 DEF WriteSsid
  <2>3. QED BY <1>8, <1>0, <1>c, <2>1, <2>2 DEF WriteSsid
<1>9. CASE SavePsk
  <2>1. flash' \in Contents
        BY <1>9, FilesPsk, OpenedType DEF SavePsk
  <2>2. succeeded' \in BOOLEAN
        BY <1>9 DEF SavePsk
  <2>3. QED BY <1>9, <1>0, <1>c, <2>1, <2>2 DEF SavePsk
<1>10. CASE WritePsk
  <2>1. flash' \in Contents
        BY <1>10, FilesPsk DEF WritePsk
  <2>2. QED BY <1>10, <1>0, <1>c, <2>1 DEF WritePsk
<1>11. CASE ResetSsid \/ ResetPsk
  <2>1. flash' \in Contents
        BY <1>11, FilesSsid, FilesPsk DEF ResetSsid, ResetPsk
  <2>2. QED BY <1>11, <1>c, <2>1 DEF ResetSsid, ResetPsk
<1>12. CASE Network
       BY <1>12 DEF Network, LinkDrop, AutoReconnect
<1>13. CASE Reboot
       BY <1>13, <1>c DEF Reboot, MainPc, SsidText, KeyText
<1>14. ASSUME NEW s \in Ssids \cup {Null}, NEW k \in KeyText \cup {Null}, Submit(s, k)
       PROVE  TypeOK'
       BY <1>14 DEF Submit, Calls, CbPc
<1>15. QED
       BY <1>1, <1>2, <1>3, <1>4, <1>5, <1>6, <1>7, <1>8, <1>9, <1>10, <1>11,
          <1>12, <1>13, <1>14 DEF Next, Callback, Shell

LEMMA CallStep == TypeInv /\ [Next]_vars => CallInv'
<1> SUFFICES ASSUME TypeInv, [Next]_vars PROVE CallInv'
    OBVIOUS
<1> QED BY CallMoves, FieldTypes, NoCallType DEF TypeInv, TypeOK, CallInv, Joined, Advance

(* Every variable of every reachable state has its type.                    *)
THEOREM TypeCorrect == Spec => []TypeOK
<1>1. TypeInv => TypeOK
      BY DEF TypeInv
<1>2. TypeInv /\ [Next]_vars => TypeInv'
      BY TypeStep, CallStep DEF TypeInv
<1>3. QED BY TypeInit, <1>1, <1>2, PTL DEF Spec

-----------------------------------------------------------------------------
(* A step of the callback is taken by a callback that is running; it moves *)
(* neither main nor, but for closing it, the service.                      *)
LEMMA CallbackRuns ==
  ASSUME Callback
  PROVE  /\ cb.pc # "idle" /\ UNCHANGED <<boot, sh>>
         /\ (oneshot' => oneshot) /\ (ap' => ap)
BY DEF Callback, CbEnter, CbJoinOk, CbJoinFails, CbApProbe, CbApOff,
   CbOneshotOff, SaveSsid, WriteSsid, SavePsk, WritePsk, radio

LEMMA MainOnly ==
  ASSUME Main
  PROVE  UNCHANGED <<cb, sh, joined, succeeded>>
BY DEF Main, FlashInit, Mount, Format, Remount, LoadSsid, LoadPsk, LoadJoin,
   Probe, OneshotOn, ApOn, MqttInit, history

LEMMA ServiceStep == TypeInv /\ ServiceInv /\ [Next]_vars => ServiceInv'
<1> SUFFICES ASSUME TypeInv, ServiceInv, [Next]_vars PROVE ServiceInv'
    OBVIOUS
<1> USE NoCallType DEF ServiceInv
<1>1. CASE Main
  <2> USE MainOnly, <1>1
  <2>1. CASE FlashInit \/ Mount \/ Format \/ Remount
        BY <2>1 DEF FlashInit, Mount, Format, Remount, radio
  <2>2. CASE LoadSsid \/ LoadPsk \/ LoadJoin
        BY <2>2 DEF LoadSsid, LoadPsk, LoadJoin, radio
  <2>3. CASE Probe \/ MqttInit
        BY <2>3 DEF Probe, MqttInit, radio
  <2>4. CASE OneshotOn
        BY <2>4 DEF OneshotOn
  <2>5. CASE ApOn
        BY <2>5 DEF ApOn
  <2>6. QED BY <1>1, <2>1, <2>2, <2>3, <2>4, <2>5 DEF Main
<1>2. CASE Callback
      BY <1>2, CallbackRuns DEF boot
<1>3. CASE Shell \/ Network \/ UNCHANGED vars
      BY <1>3 DEF Shell, ResetSsid, ResetPsk, Network, LinkDrop, AutoReconnect,
         vars, boot, radio, history
<1>4. CASE Reboot
      BY <1>4 DEF Reboot
<1>5. ASSUME NEW s \in Ssids \cup {Null}, NEW k \in KeyText \cup {Null}, Submit(s, k)
      PROVE  ServiceInv'
      BY <1>5 DEF Submit, boot, radio, history
<1>6. QED BY <1>1, <1>2, <1>3, <1>4, <1>5 DEF Next

(* What the rest of the system does to the service and the AP.              *)
LEMMA OthersKeep ==
  ASSUME [Next]_vars, ~Callback, ~Reboot
  PROVE  /\ UNCHANGED succeeded
         /\ UNCHANGED cb \/ cb'.pc = "enter"
         /\ (oneshot' => oneshot) \/ (mpc = "oneshot_on" /\ UNCHANGED cb)
         /\ (ap' => ap) \/ (mpc = "ap_on" /\ UNCHANGED cb)
<1>1. CASE Main
  <2>1. CASE OneshotOn
        BY <2>1, <1>1, MainOnly DEF OneshotOn
  <2>2. CASE ApOn
        BY <2>2, <1>1, MainOnly DEF ApOn
  <2>3. CASE ~OneshotOn /\ ~ApOn
    <3>1. UNCHANGED <<ap, oneshot>>
          BY <1>1, <2>3 DEF Main, FlashInit, Mount, Format, Remount, LoadSsid,
             LoadPsk, LoadJoin, Probe, MqttInit, radio
    <3>2. QED BY <1>1, <3>1, MainOnly
  <2>4. QED BY <2>1, <2>2, <2>3
<1>2. CASE Shell \/ Network \/ UNCHANGED vars
      BY <1>2 DEF Shell, ResetSsid, ResetPsk, Network, LinkDrop, AutoReconnect,
         vars, boot, radio, history
<1>3. ASSUME NEW s \in Ssids \cup {Null}, NEW k \in KeyText \cup {Null}, Submit(s, k)
      PROVE  cb'.pc = "enter" /\ UNCHANGED <<ap, oneshot, succeeded>>
      BY <1>3 DEF Submit, radio, history
<1>4. QED BY <1>1, <1>2, <1>3 DEF Next

(* The callback ends well only from a state in which the service is closed.*)
LEMMA Succeeds ==
  ASSUME Callback, succeeded'
  PROVE  succeeded \/ cb.pc \in Closed
BY DEF Callback, CbEnter, CbJoinOk, CbJoinFails, CbApProbe, CbApOff,
   CbOneshotOff, SaveSsid, WriteSsid, SavePsk, WritePsk, history, Closed

LEMMA ClosedStep ==
  TypeInv /\ ServiceInv /\ ClosedInv /\ [Next]_vars => ClosedInv'
<1> SUFFICES ASSUME TypeInv, ServiceInv, ClosedInv, [Next]_vars PROVE ClosedInv'
    OBVIOUS
<1> USE DEF ClosedInv
<1>1. CASE Callback
  <2>1. CASE CbOneshotOff
        BY <2>1 DEF CbOneshotOff
  <2>2. CASE ~CbOneshotOff
    <3>1. cb'.pc \in Closed => cb.pc \in Closed
          BY <2>2, CallMoves, NoCallType DEF TypeInv, Advance, Closed
    <3>2. QED BY <1>1, <3>1, CallbackRuns, Succeeds
  <2>3. QED BY <2>1, <2>2
<1>2. CASE Reboot
      BY <1>2 DEF Reboot
<1>3. CASE ~Callback /\ ~Reboot
      BY <1>3, OthersKeep DEF ServiceInv, Closed
<1>4. QED BY <1>1, <1>2, <1>3

LEMMA ApStep ==
  TypeInv /\ ServiceInv /\ ApInv /\ [Next]_vars => ApInv'
<1> SUFFICES ASSUME TypeInv, ServiceInv, ApInv, Mode # "udp", StopApOnSuccess, [Next]_vars,
                    cb'.pc \in Closed \cup {"oneshot_off"} \/ succeeded'
             PROVE  ~ap'
    BY DEF ApInv
<1> USE DEF ApInv
<1>1. CASE Callback
  <2>1. CASE CbApOff
        BY <2>1 DEF CbApOff
  <2>2. CASE CbApProbe
        BY <2>2, CallPc DEF CbApProbe, TypeInv, TypeOK, CbPc, radio, history, Closed
  <2>3. CASE CbJoinOk
        BY <2>3, CallPc DEF CbJoinOk, TypeInv, TypeOK, CbPc, Closed
  <2>4. CASE ~CbApOff /\ ~CbApProbe /\ ~CbJoinOk
    <3>1. cb'.pc \in Closed \cup {"oneshot_off"} => cb.pc \in Closed \cup {"oneshot_off"}
          BY <2>4, CallMoves, NoCallType DEF TypeInv, Advance, Closed
    <3>2. QED BY <1>1, <3>1, CallbackRuns, Succeeds
  <2>5. QED BY <2>1, <2>2, <2>3, <2>4
<1>2. CASE Reboot
      BY <1>2 DEF Reboot
<1>3. CASE ~Callback /\ ~Reboot
      BY <1>3, OthersKeep DEF ServiceInv, Closed
<1>4. QED BY <1>1, <1>2, <1>3

-----------------------------------------------------------------------------
(* The two files.  Only Format, the tail of the callback and the shell     *)
(* command touch them or what is promised about them.                      *)
LEMMA FilesKept ==
  ASSUME [Next]_vars,
         ~Format, ~SaveSsid, ~WriteSsid, ~SavePsk, ~WritePsk,
         ~ResetSsid, ~ResetPsk, ~Reboot
  PROVE  UNCHANGED <<flash, change, sh>>
<1>1. CASE Main
      BY <1>1 DEF Main, FlashInit, Mount, Remount, LoadSsid, LoadPsk, LoadJoin,
         Probe, OneshotOn, ApOn, MqttInit, history
<1>2. CASE Callback
      BY <1>2 DEF Callback, CbEnter, CbJoinOk, CbJoinFails, CbApProbe, CbApOff,
         CbOneshotOff, history
<1>3. CASE Network \/ UNCHANGED vars
      BY <1>3 DEF Network, LinkDrop, AutoReconnect, vars, history
<1>4. ASSUME NEW s \in Ssids \cup {Null}, NEW k \in KeyText \cup {Null}, Submit(s, k)
      PROVE  UNCHANGED <<flash, change, sh>>
      BY <1>4 DEF Submit, history
<1>5. QED BY <1>1, <1>2, <1>3, <1>4 DEF Next, Shell

LEMMA SsidField ==
  ASSUME flash \in Contents, NEW x
  PROVE  [flash EXCEPT !.ssid = x].ssid = x /\ [flash EXCEPT !.psk = x].ssid = flash.ssid
BY DEF Contents

LEMMA PskField ==
  ASSUME flash \in Contents, NEW x
  PROVE  [flash EXCEPT !.psk = x].psk = x /\ [flash EXCEPT !.ssid = x].psk = flash.psk
BY DEF Contents

(* FilesHoldAsked, field by field.                                          *)
AskedInv ==
  /\ mishap <= NoKey /\ ~Saving /\ sh = "idle" =>
       flash.ssid = asked.ssid /\ flash.psk = asked.psk
  /\ mishap <= CutOff => (flash.psk # before.psk => flash.ssid = asked.ssid)
  /\ mishap <= Failed =>
       /\ flash.ssid \in {before.ssid, Empty, asked.ssid}
       /\ flash.psk \in {before.psk, Empty, asked.psk}

LEMMA TornFields ==
  ASSUME NEW f \in Contents, NEW b \in Contents, NEW a \in Contents
  PROVE  /\ f = a <=> f.ssid = a.ssid /\ f.psk = a.psk
         /\ f \in Anyhow(b, a) <=>
              f.ssid \in {b.ssid, Empty, a.ssid} /\ f.psk \in {b.psk, Empty, a.psk}
         /\ f \in Torn(b, a) <=>
              f \in Anyhow(b, a) /\ (f.psk # b.psk => f.ssid = a.ssid)
BY DEF Contents, Anyhow, Torn

LEMMA AskedFields ==
  ASSUME TypeOK
  PROVE  FilesHoldAsked <=> AskedInv
<1>1. flash \in Contents /\ before \in Contents /\ asked \in Contents
      BY DEF TypeOK
<1>2. mishap <= CutOff => mishap <= Failed
      BY DEF TypeOK
<1>3. QED BY <1>1, <1>2, TornFields DEF FilesHoldAsked, AskedInv

LEMMA AskedFieldsNext ==
  ASSUME TypeOK'
  PROVE  FilesHoldAsked' <=> AskedInv'
<1>1. flash' \in Contents /\ before' \in Contents /\ asked' \in Contents
      BY DEF TypeOK
<1>2. mishap' <= CutOff => mishap' <= Failed
      BY DEF TypeOK
<1>3. QED BY <1>1, <1>2, TornFields DEF FilesHoldAsked, AskedInv

(* What a mishap does to the history.                                       *)
LEMMA MeetsMoves ==
  ASSUME TypeOK, NEW m \in Fine .. Overlapped, Meets(m)
  PROVE  /\ before' = before /\ asked' = asked
         /\ mishap' \in Fine .. Overlapped /\ mishap' >= mishap /\ mishap' >= m
BY DEF TypeOK, Meets, Worse

(* What a file opened for writing holds.                                    *)
LEMMA OpenedFiles ==
  ASSUME NEW f \in {"ssid", "psk"}, NEW x \in Opened(f)
  PROVE  x \in {Empty, flash[f]}
BY DEF Opened

(* A callback that saves is moved by the steps of the save alone.           *)
LEMMA SavingKept ==
  ASSUME [Next]_vars, Saving, ~SaveSsid, ~WriteSsid, ~SavePsk, ~WritePsk, ~Reboot
  PROVE  UNCHANGED cb
<1>1. CASE Main \/ Shell
      BY <1>1, MainOnly DEF Shell, ResetSsid, ResetPsk
<1>2. CASE Callback
      BY <1>2 DEF Callback, CbEnter, CbJoinOk, CbJoinFails, CbApProbe, CbApOff,
         CbOneshotOff, Saving
<1>3. CASE Network \/ UNCHANGED vars
      BY <1>3 DEF Network, LinkDrop, AutoReconnect, vars
<1>4. ASSUME NEW s \in Ssids \cup {Null}, NEW k \in KeyText \cup {Null}, Submit(s, k)
      PROVE  UNCHANGED cb
      BY <1>4 DEF Submit, Saving
<1>5. QED BY <1>1, <1>2, <1>3, <1>4 DEF Next

FilesInv == HalfInv /\ AskedInv

LEMMA FilesStep ==
  TypeInv /\ ServiceInv /\ FilesInv /\ [Next]_vars => FilesInv'
<1> SUFFICES ASSUME TypeInv, ServiceInv, FilesInv, [Next]_vars PROVE FilesInv'
    OBVIOUS
<1>0. flash \in Contents /\ cb \in Calls /\ TypeOK /\ mishap \in Nat
      BY DEF TypeInv, TypeOK
<1> USE DEF FilesInv, HalfInv, AskedInv, Saving, Undamaged
<1>1. CASE Format
  <2>1. cb.pc = "idle" /\ cb' = cb /\ sh' = sh
        BY <1>1 DEF Format, ServiceInv
  <2>2. CASE sh # "idle"
    <3>1. mishap' = Overlapped
          BY <1>1, <2>2 DEF Format, Begins
    <3>2. QED BY <2>1, <3>1
  <2>3. CASE sh = "idle" /\ flash' = NoFiles /\ asked' = NoFiles
        BY <2>1, <2>3, <1>1 DEF NoFiles
  <2>4. CASE sh = "idle" /\ flash' = flash /\ before' = flash /\ mishap' = Failed
        BY <2>1, <2>4
  <2>5. QED BY <1>1, <2>2, <2>3, <2>4 DEF Format, Begins
<1>2. CASE SaveSsid
  <2>1. sh' = sh /\ ((cb'.ssid = cb.ssid /\ cb'.key = cb.key) \/ cb' = NoCall)
    <3>1. cb' = [cb EXCEPT !.pc = "write_ssid"] \/ cb' = AfterSsid
          BY <1>2 DEF SaveSsid
    <3>2. {"write_ssid", "save_psk"} \subseteq CbPc
          BY DEF CbPc
    <3>3. sh' = sh
          BY <1>2 DEF SaveSsid
    <3>4. \A q \in CbPc : cb' = [cb EXCEPT !.pc = q] => cb'.ssid = cb.ssid /\ cb'.key = cb.key
          BY <1>0, CallPc
    <3>5. cb' = NoCall \/ \E q \in CbPc : cb' = [cb EXCEPT !.pc = q]
          BY <3>1, <3>2 DEF AfterSsid
    <3>6. QED BY <3>3, <3>4, <3>5
  <2>2. CASE sh # "idle"
    <3>1. mishap' = Overlapped
          BY <1>2, <2>2 DEF SaveSsid, Begins
    <3>2. QED BY <3>1
  <2>3. CASE sh = "idle"
    <3>1. before' = flash /\ asked' = Saved
          BY <1>2, <2>3 DEF SaveSsid, Begins
    <3>2. Saved.ssid = cb.ssid /\ Saved.psk = IF cb.key = Null THEN flash.psk ELSE cb.key
          BY <1>2, SavedType DEF SaveSsid
    <3>3. CASE cb' = [cb EXCEPT !.pc = "write_ssid"]
      <4>1. cb'.pc = "write_ssid"
            BY <3>3, <1>0, CallPc DEF CbPc
      <4>2. \/ flash' = flash
            \/ \E c \in Opened("ssid") : flash' = [flash EXCEPT !.ssid = c]
            BY <1>2 DEF SaveSsid
      <4>3. flash'.psk = flash.psk /\ flash'.ssid \in {Empty, flash.ssid}
        <5>1. \A x : /\ [flash EXCEPT !.ssid = x].ssid = x
                     /\ [flash EXCEPT !.ssid = x].psk = flash.psk
              BY <1>0, SsidField, PskField
        <5>2. \A x \in Opened("ssid") : x \in {Empty, flash.ssid}
              BY OpenedFiles
        <5>3. QED BY <4>2, <5>1, <5>2
      <4>4. cb'.ssid = cb.ssid /\ cb'.key = cb.key /\ sh' = "idle"
            BY <2>1, <2>3, <4>1, NoCallType
      <4>5. before' = flash /\ asked'.ssid = cb.ssid
            /\ asked'.psk = IF cb.key = Null THEN flash.psk ELSE cb.key
            BY <3>1, <3>2
      <4>6. HalfInv'
            BY <4>1, <4>3, <4>4, <4>5
      <4>7. AskedInv'
            BY <4>1, <4>3, <4>4, <4>5
      <4>8. QED BY <4>6, <4>7
    <3>4. CASE mishap' = Failed /\ flash' = flash /\ cb' = AfterSsid
      <4>1. cb'.pc \in {"idle", "save_psk"}
            BY <3>4, <1>0, CallPc, NoCallType DEF AfterSsid, CbPc
      <4>2. QED BY <2>1, <2>3, <3>1, <3>2, <3>4, <4>1, NoCallType
    <3>5. QED BY <1>2, <2>3, <3>3, <3>4 DEF SaveSsid, Begins
  <2>4. QED BY <2>2, <2>3
<1>3. CASE WriteSsid
  <2>1. sh' = sh /\ cb.pc = "write_ssid"
        BY <1>3 DEF WriteSsid
  <2>2. /\ cb.key = Null => cb'.pc = "idle"
        /\ cb.key # Null => cb'.pc = "save_psk" /\ cb'.ssid = cb.ssid /\ cb'.key = cb.key
        BY <1>3, <1>0, CallPc, NoCallType DEF WriteSsid, AfterSsid, CbPc
  <2>3. CASE Meets(Failed) /\ flash' = flash
    <3>1. before' = before /\ asked' = asked /\ mishap' \in Fine .. Overlapped /\ mishap' >= mishap /\ mishap' >= Failed
          BY <2>3, <1>0, MeetsMoves
    <3>2. HalfInv'
          BY <1>0, <2>1, <2>2, <2>3, <3>1
    <3>3. AskedInv'
          BY <1>0, <2>1, <2>2, <2>3, <3>1
    <3>4. QED BY <3>2, <3>3
  <2>4. CASE /\ flash' = [flash EXCEPT !.ssid = cb.ssid]
             /\ IF cb.key = Null THEN Ends ELSE UNCHANGED change
    <3>1. flash'.ssid = cb.ssid /\ flash'.psk = flash.psk
          BY <2>4, <1>0, SsidField, PskField
    <3>2. /\ asked' = asked /\ mishap' = mishap
          /\ before' = IF cb.key = Null /\ mishap <= NoKey THEN asked ELSE before
          BY <2>4 DEF Ends, change
    <3>3. HalfInv'
          BY <1>0, <2>1, <2>2, <3>1, <3>2
    <3>4. AskedInv'
          BY <1>0, <2>1, <2>2, <3>1, <3>2
    <3>5. QED BY <3>3, <3>4
  <2>5. QED BY <1>3, <2>3, <2>4 DEF WriteSsid
<1>4. CASE SavePsk
  <2>1. sh' = sh /\ cb.pc = "save_psk"
        BY <1>4 DEF SavePsk
  <2>2. cb.key # Null
        BY <2>1, SentinelsDiffer DEF TypeInv, CallInv, KeyText, Sentinels
  <2>3. CASE Meets(Failed) /\ flash' = flash /\ cb' = NoCall
    <3>1. before' = before /\ asked' = asked /\ mishap' \in Fine .. Overlapped /\ mishap' >= mishap /\ mishap' >= Failed
          BY <2>3, <1>0, MeetsMoves
    <3>2. QED BY <1>0, <2>1, <2>2, <2>3, <3>1, NoCallType
  <2>4. CASE /\ cb' = [cb EXCEPT !.pc = "write_psk"] /\ UNCHANGED change
             /\ \E c \in Opened("psk") : flash' = [flash EXCEPT !.psk = c]
    <3>1. cb'.pc = "write_psk" /\ cb'.ssid = cb.ssid /\ cb'.key = cb.key
          BY <2>4, <1>0, CallPc DEF CbPc
    <3>2. flash'.ssid = flash.ssid /\ flash'.psk \in {Empty, flash.psk}
          BY <2>4, <1>0, SsidField, PskField DEF Opened
    <3>3. before' = before /\ asked' = asked /\ mishap' = mishap
          BY <2>4 DEF change
    <3>4. QED BY <1>0, <2>1, <2>2, <3>1, <3>2, <3>3
  <2>5. QED BY <1>4, <2>3, <2>4 DEF SavePsk
<1>5. CASE WritePsk
  <2>1. sh' = sh /\ cb.pc = "write_psk" /\ cb'.pc = "idle"
        BY <1>5, NoCallType DEF WritePsk
  <2>2. cb.key # Null
        BY <2>1, SentinelsDiffer DEF TypeInv, CallInv, KeyText, Sentinels
  <2>3. CASE Meets(Failed) /\ flash' = flash
    <3>1. before' = before /\ asked' = asked /\ mishap' \in Fine .. Overlapped /\ mishap' >= mishap /\ mishap' >= Failed
          BY <2>3, <1>0, MeetsMoves
    <3>2. QED BY <1>0, <2>1, <2>2, <2>3, <3>1
  <2>4. CASE flash' = [flash EXCEPT !.psk = cb.key] /\ Ends
    <3>1. flash'.psk = cb.key /\ flash'.ssid = flash.ssid
          BY <2>4, <1>0, SsidField, PskField
    <3>2. /\ asked' = asked /\ mishap' = mishap
          /\ before' = IF mishap <= NoKey THEN asked ELSE before
          BY <2>4 DEF Ends
    <3>3. QED BY <1>0, <2>1, <2>2, <3>1, <3>2
  <2>5. QED BY <1>5, <2>3, <2>4 DEF WritePsk
<1>6. CASE ResetSsid
  <2>1. cb' = cb /\ sh = "idle" /\ sh' = "half"
        BY <1>6 DEF ResetSsid
  <2>2. CASE Saving
    <3>1. mishap' = Overlapped
          BY <1>6, <2>2 DEF ResetSsid, Begins
    <3>2. QED BY <2>1, <3>1
  <2>3. CASE ~Saving
    <3>1. before' = flash /\ asked' = NoFiles
          BY <1>6, <2>3 DEF ResetSsid, Begins
    <3>2. CASE flash' = [flash EXCEPT !.ssid = Absent]
      <4>1. flash'.ssid = Absent /\ flash'.psk = flash.psk
            BY <3>2, <1>0, SsidField, PskField
      <4>2. QED BY <2>1, <2>3, <3>1, <4>1 DEF NoFiles
    <3>3. CASE mishap' = Failed /\ flash' = flash
          BY <2>1, <2>3, <3>1, <3>3
    <3>4. QED BY <1>6, <2>3, <3>2, <3>3 DEF ResetSsid, Begins
  <2>4. QED BY <2>2, <2>3
<1>7. CASE ResetPsk
  <2>1. cb' = cb /\ sh = "half" /\ sh' = "idle"
        BY <1>7 DEF ResetPsk
  <2>2. CASE Meets(Failed) /\ flash' = flash
    <3>1. before' = before /\ asked' = asked /\ mishap' \in Fine .. Overlapped /\ mishap' >= mishap /\ mishap' >= Failed
          BY <2>2, <1>0, MeetsMoves
    <3>2. QED BY <1>0, <2>1, <2>2, <3>1
  <2>3. CASE flash' = [flash EXCEPT !.psk = Absent] /\ Ends
    <3>1. flash'.psk = Absent /\ flash'.ssid = flash.ssid
          BY <2>3, <1>0, SsidField, PskField
    <3>2. /\ asked' = asked /\ mishap' = mishap
          /\ before' = IF mishap <= NoKey THEN asked ELSE before
          BY <2>3 DEF Ends
    <3>3. QED BY <1>0, <2>1, <3>1, <3>2 DEF NoFiles
  <2>4. QED BY <1>7, <2>2, <2>3 DEF ResetPsk
<1>8. CASE Reboot
  <2>1. cb'.pc = "idle" /\ sh' = "idle" /\ flash' = flash
        BY <1>8, NoCallType DEF Reboot
  <2>2. CASE Saving \/ sh = "half"
    <3>1. before' = before /\ asked' = asked /\ mishap' \in Fine .. Overlapped /\ mishap' >= mishap /\ mishap' >= CutOff
          BY <1>8, <2>2, <1>0, MeetsMoves DEF Reboot
    <3>2. QED BY <1>0, <2>1, <3>1
  <2>3. CASE ~(Saving \/ sh = "half")
    <3>1. before' = before /\ asked' = asked /\ mishap' = mishap /\ sh = "idle"
          BY <1>8, <2>3 DEF Reboot, change, TypeInv, TypeOK
    <3>2. QED BY <1>0, <2>1, <2>3, <3>1
  <2>4. QED BY <2>2, <2>3
<1>9. CASE ~(Format \/ SaveSsid \/ WriteSsid \/ SavePsk \/ WritePsk
             \/ ResetSsid \/ ResetPsk \/ Reboot)
  <2>1. /\ flash' = flash /\ sh' = sh
        /\ before' = before /\ asked' = asked /\ mishap' = mishap
        BY <1>9, FilesKept DEF change
  <2>2. UNCHANGED cb
        \/ (cb'.pc \notin {"write_ssid", "save_psk", "write_psk"} /\ ~Saving)
    <3>1. UNCHANGED cb \/ cb'.pc \notin {"write_ssid", "save_psk", "write_psk"}
          BY <1>9, <1>0, CallMoves, NoCallType DEF Advance
    <3>2. UNCHANGED cb \/ ~Saving
          BY <1>9, SavingKept
    <3>3. QED BY <3>1, <3>2
  <2>3. QED BY <2>1, <2>2
<1>10. QED
       BY <1>1, <1>2, <1>3, <1>4, <1>5, <1>6, <1>7, <1>8, <1>9

-----------------------------------------------------------------------------
(* Provenance.  joined only grows, and a file only ever takes an argument  *)
(* of the callback.                                                        *)
LEMMA JoinedGrows ==
  ASSUME [Next]_vars
  PROVE  joined' = joined \/ (CbJoinOk /\ joined' = joined \cup {<<cb.ssid, cb.key>>})
<1>1. CASE Main
      BY <1>1, MainOnly
<1>2. CASE Callback
      BY <1>2 DEF Callback, CbEnter, CbJoinOk, CbJoinFails, CbApProbe, CbApOff,
         CbOneshotOff, SaveSsid, WriteSsid, SavePsk, WritePsk, history
<1>3. CASE Shell \/ Network \/ Reboot \/ UNCHANGED vars
      BY <1>3 DEF Shell, ResetSsid, ResetPsk, Network, LinkDrop, AutoReconnect,
         Reboot, vars, history
<1>4. ASSUME NEW s \in Ssids \cup {Null}, NEW k \in KeyText \cup {Null}, Submit(s, k)
      PROVE  joined' = joined
      BY <1>4 DEF Submit, history
<1>5. QED BY <1>1, <1>2, <1>3, <1>4 DEF Next

LEMMA FlashMoves ==
  ASSUME TypeOK, [Next]_vars
  PROVE  /\ \/ flash'.ssid \in {flash.ssid, Absent, Empty}
            \/ cb.pc = "write_ssid" /\ flash'.ssid = cb.ssid
         /\ \/ flash'.psk \in {flash.psk, Absent, Empty}
            \/ cb.pc = "write_psk" /\ flash'.psk = cb.key
<1>1. \A x : /\ [flash EXCEPT !.ssid = x].ssid = x
             /\ [flash EXCEPT !.ssid = x].psk = flash.psk
             /\ [flash EXCEPT !.psk = x].psk = x
             /\ [flash EXCEPT !.psk = x].ssid = flash.ssid
      BY DEF TypeOK, Contents
<1>2. CASE Format
      BY <1>2 DEF Format, NoFiles
<1>3. CASE SaveSsid
  <2>1. flash' = flash \/ \E x \in Opened("ssid") : flash' = [flash EXCEPT !.ssid = x]
        BY <1>3 DEF SaveSsid
  <2>2. QED BY <1>1, <2>1, OpenedFiles, ZenonT(30)
<1>4. CASE SavePsk
  <2>1. flash' = flash \/ \E x \in Opened("psk") : flash' = [flash EXCEPT !.psk = x]
        BY <1>4 DEF SavePsk
  <2>2. QED BY <1>1, <2>1, OpenedFiles, ZenonT(30)
<1>5. CASE WriteSsid
  <2>1. flash' = flash \/ flash' = [flash EXCEPT !.ssid = cb.ssid]
        BY <1>5 DEF WriteSsid
  <2>2. QED BY <1>1, <1>5, <2>1 DEF WriteSsid
<1>6. CASE WritePsk
  <2>1. flash' = flash \/ flash' = [flash EXCEPT !.psk = cb.key]
        BY <1>6 DEF WritePsk
  <2>2. CASE flash' = [flash EXCEPT !.psk = cb.key]
    <3>1. flash'.psk = cb.key /\ flash'.ssid = flash.ssid
          BY <1>1, <2>2
    <3>2. QED BY <1>6, <3>1 DEF WritePsk
  <2>3. QED BY <2>1, <2>2
<1>7. CASE ResetSsid
  <2>1. flash' = flash \/ flash' = [flash EXCEPT !.ssid = Absent]
        BY <1>7 DEF ResetSsid
  <2>2. QED BY <1>1, <2>1
<1>8. CASE ResetPsk
  <2>1. flash' = flash \/ flash' = [flash EXCEPT !.psk = Absent]
        BY <1>8 DEF ResetPsk
  <2>2. CASE flash' = [flash EXCEPT !.psk = Absent]
    <3>1. flash'.psk = Absent /\ flash'.ssid = flash.ssid
          BY <1>1, <2>2
    <3>2. QED BY <3>1
  <2>3. QED BY <2>1, <2>2
<1>9. CASE Reboot
      BY <1>9 DEF Reboot
<1>10. CASE ~(Format \/ SaveSsid \/ WriteSsid \/ SavePsk \/ WritePsk
              \/ ResetSsid \/ ResetPsk \/ Reboot)
       BY <1>10, FilesKept
<1>11. QED
       BY <1>2, <1>3, <1>4, <1>5, <1>6, <1>7, <1>8, <1>9, <1>10

LEMMA JoinedStep == TypeInv /\ JoinedInv /\ [Next]_vars => JoinedInv'
<1> SUFFICES ASSUME TypeInv, JoinedInv, [Next]_vars PROVE JoinedInv'
    OBVIOUS
<1>0. TypeOK
      BY DEF TypeInv
<1>1. cb'.pc \in Joined => <<cb'.ssid, cb'.key>> \in joined'
  <2>1. CASE CbJoinOk
    <3>1. cb'.ssid = cb.ssid /\ cb'.key = cb.key
          BY <2>1, <1>0 DEF CbJoinOk, TypeOK, Calls
    <3>2. QED BY <2>1, <3>1 DEF CbJoinOk
  <2>2. CASE ~CbJoinOk
    <3>1. cb'.pc \in Joined =>
            cb.pc \in Joined /\ cb'.ssid = cb.ssid /\ cb'.key = cb.key
          BY <2>2, <1>0, CallMoves, NoCallType DEF Advance, Joined
    <3>2. QED BY <3>1, <2>2, JoinedGrows DEF JoinedInv
  <2>3. QED BY <2>1, <2>2
<1>2. \A p \in joined' : p[2] \in Keys => KeyLen[p[2]] <= PskMax
  <2>1. CASE CbJoinOk
    <3>1. cb.key \in Keys => KeyLen[cb.key] <= PskMax
          BY <2>1, SentinelsDiffer DEF CbJoinOk, Accepts, Sentinels
    <3>2. joined' = joined \cup {<<cb.ssid, cb.key>>}
          BY <2>1 DEF CbJoinOk
    <3>3. QED BY <3>1, <3>2 DEF JoinedInv
  <2>2. CASE ~CbJoinOk
        BY <2>2, JoinedGrows DEF JoinedInv
  <2>3. QED BY <2>1, <2>2
<1>3. joined \subseteq joined'
      BY JoinedGrows
<1>4. Absent \notin Ssids \cup Keys /\ Empty \notin Ssids \cup Keys
      BY SentinelsDiffer DEF Sentinels
<1>5. flash'.ssid \in Ssids => \E k \in KeyText \cup {Null} : <<flash'.ssid, k>> \in joined'
  <2>1. CASE flash'.ssid \in {flash.ssid, Absent, Empty}
        BY <2>1, <1>3, <1>4 DEF JoinedInv, OnlyJoinedSaved
  <2>2. CASE cb.pc = "write_ssid" /\ flash'.ssid = cb.ssid
        BY <2>2, <1>0, <1>3, FieldTypes DEF JoinedInv, Joined, TypeOK
  <2>3. QED BY <1>0, <2>1, <2>2, FlashMoves
<1>6. flash'.psk \in Keys => \E s \in Ssids : <<s, flash'.psk>> \in joined'
  <2>1. CASE flash'.psk \in {flash.psk, Absent, Empty}
        BY <2>1, <1>3, <1>4 DEF JoinedInv, OnlyJoinedSaved
  <2>2. CASE cb.pc = "write_psk" /\ flash'.psk = cb.key
        BY <2>2, <1>3 DEF JoinedInv, Joined, TypeInv, CallInv
  <2>3. QED BY <1>0, <2>1, <2>2, FlashMoves
<1>7. QED BY <1>1, <1>2, <1>5, <1>6 DEF JoinedInv, OnlyJoinedSaved

-----------------------------------------------------------------------------
(* What a boot reads back.  While main is loading, no callback runs: only  *)
(* the shell command can disturb it, and it says so in replay.             *)
Loading == mpc \in {"load_psk", "load_join"}

LEMMA LoadingKept ==
  ASSUME TypeInv, ServiceInv, [Next]_vars, ~LoadSsid, ~LoadPsk,
         Loading', replay'
  PROVE  Loading /\ UNCHANGED <<mpc, ssid, password, replay, flash, sh>>
<1>1. CASE Main
      BY <1>1 DEF Main, FlashInit, Mount, Format, Remount, LoadJoin, Probe,
         OneshotOn, ApOn, MqttInit, Loading
<1>2. CASE Callback
      BY <1>2, CallbackRuns DEF Loading, ServiceInv, boot
<1>3. CASE Shell \/ Reboot
      BY <1>3 DEF Shell, ResetSsid, ResetPsk, Reboot, Loading
<1>4. CASE Network \/ UNCHANGED vars
      BY <1>4 DEF Network, LinkDrop, AutoReconnect, vars, boot, history, Loading
<1>5. ASSUME NEW s \in Ssids \cup {Null}, NEW k \in KeyText \cup {Null}, Submit(s, k)
      PROVE  Loading /\ UNCHANGED <<mpc, ssid, password, replay, flash, sh>>
      BY <1>5 DEF Submit, boot, history, Loading
<1>6. QED BY <1>1, <1>2, <1>3, <1>4, <1>5 DEF Next

(* A stored passphrase is one a network took, so the buffer holds it all.  *)
LEMMA BufferedWhole ==
  ASSUME TypeInv, JoinedInv
  PROVE  Buffered(Text(flash.psk)) = Text(flash.psk)
<1>1. CASE flash.psk \in Keys
  <2>1. KeyLen[flash.psk] <= PskMax
        BY <1>1 DEF JoinedInv, OnlyJoinedSaved
  <2>2. ~(KeyLen[flash.psk] > SsidMax)
        BY <1>1, <2>1, NetworksOK, BufferOK
  <2>3. flash.psk # Absent
        BY <1>1, SentinelsDiffer DEF Sentinels
  <2>4. QED BY <2>2, <2>3 DEF Buffered, Text
<1>2. CASE flash.psk \notin Keys
      BY <1>2, SentinelsDiffer DEF Buffered, Text, Sentinels
<1>3. QED BY <1>1, <1>2

LEMMA ReplayStep ==
  TypeInv /\ ServiceInv /\ JoinedInv /\ ReplayInv /\ [Next]_vars => ReplayInv'
<1> SUFFICES ASSUME TypeInv, ServiceInv, JoinedInv, ReplayInv, [Next]_vars,
                    Loading', replay'
             PROVE  /\ sh' = "idle" /\ ssid' = Text(flash'.ssid)
                    /\ mpc' = "load_join" => password' = Text(flash'.psk)
    BY DEF ReplayInv, Loading
<1>1. CASE LoadSsid
      BY <1>1 DEF LoadSsid
<1>2. CASE LoadPsk
  <2>1. UNCHANGED <<flash, ssid, sh>> /\ mpc = "load_psk" /\ replay
        BY <1>2 DEF LoadPsk
  <2>2. password' = Text(flash.psk)
        BY <1>2, BufferedWhole DEF LoadPsk
  <2>3. QED BY <2>1, <2>2 DEF ReplayInv
<1>3. CASE ~LoadSsid /\ ~LoadPsk
      BY <1>3, LoadingKept DEF ReplayInv, Loading
<1>4. QED BY <1>1, <1>2, <1>3

(* A change begins without a mishap when it resets, or saves what joined.   *)
LEMMA PairStep == TypeInv /\ JoinedInv /\ PairInv /\ [Next]_vars => PairInv'
<1> SUFFICES ASSUME TypeInv, JoinedInv, PairInv, [Next]_vars, mishap' = Fine
             PROVE  asked' = NoFiles \/ <<asked'.ssid, asked'.psk>> \in joined'
    BY DEF PairInv
<1>0. TypeOK /\ mishap \in Nat
      BY DEF TypeInv, TypeOK
<1>1. joined \subseteq joined'
      BY JoinedGrows
<1>2. CASE Format \/ ResetSsid
      BY <1>2 DEF Format, ResetSsid, Begins
<1>3. CASE SaveSsid
  <2>1. cb.key # Null /\ asked' = Saved
        BY <1>3 DEF SaveSsid, Begins
  <2>2. Saved.ssid = cb.ssid /\ Saved.psk = cb.key
        BY <1>3, <2>1, SavedType DEF SaveSsid
  <2>3. <<cb.ssid, cb.key>> \in joined
        BY <1>3 DEF SaveSsid, JoinedInv, Joined
  <2>4. QED BY <1>1, <2>1, <2>2, <2>3
<1>4. ASSUME asked' = asked, mishap' >= mishap
      PROVE  asked' = NoFiles \/ <<asked'.ssid, asked'.psk>> \in joined'
      BY <1>0, <1>1, <1>4 DEF PairInv
<1>5. CASE WriteSsid \/ SavePsk \/ WritePsk \/ ResetPsk \/ Reboot
  <2>1. Meets(Failed) \/ Meets(CutOff) \/ Ends \/ UNCHANGED change
        BY <1>5 DEF WriteSsid, SavePsk, WritePsk, ResetPsk, Reboot
  <2>2. asked' = asked /\ mishap' >= mishap
        BY <2>1, <1>0, MeetsMoves DEF Ends, change
  <2>3. QED BY <2>2, <1>4
<1>6. CASE ~(Format \/ SaveSsid \/ WriteSsid \/ SavePsk \/ WritePsk
             \/ ResetSsid \/ ResetPsk \/ Reboot)
      BY <1>0, <1>4, <1>6, FilesKept DEF change
<1>7. QED BY <1>2, <1>3, <1>5, <1>6

(* What main hands to rt_wlan_connect is therefore what the files hold.    *)
LEMMA BootReads == IInv => BootReadsFiles
<1> SUFFICES ASSUME IInv, mpc = "load_join", replay
             PROVE  /\ mishap <= NoKey => Read(asked)
                    /\ mishap <= CutOff => \E p \in Torn(before, asked) : Read(p)
                    /\ mishap = Fine => Whole
    BY DEF BootReadsFiles
<1>1. Read(flash) /\ sh = "idle"
      BY DEF IInv, ReplayInv, Read
<1>2. ~Saving
      BY DEF IInv, ServiceInv, Saving
<1>3. mishap <= NoKey => flash = asked
      BY <1>1, <1>2 DEF IInv, FilesHoldAsked
<1>4. mishap <= CutOff => flash \in Torn(before, asked)
      BY DEF IInv, FilesHoldAsked
<1>5. ASSUME mishap = Fine
      PROVE  Whole
  <2>1. ssid = Text(asked.ssid) /\ password = Text(asked.psk)
        BY <1>1, <1>3, <1>5 DEF Read
  <2>2. CASE asked = NoFiles
        BY <2>1, <2>2 DEF NoFiles, Text, Whole
  <2>3. CASE <<asked.ssid, asked.psk>> \in joined
    <3>1. asked.ssid \in Ssids /\ asked.psk \in KeyText \cup {Null}
          BY <2>3 DEF IInv, TypeInv, TypeOK
    <3>2. asked.ssid # Absent /\ asked.psk # Absent
          BY <3>1, SentinelsDiffer DEF Sentinels, KeyText
    <3>3. QED BY <2>1, <2>3, <3>2 DEF Text, Whole
  <2>4. QED BY <1>5, <2>2, <2>3 DEF IInv, PairInv
<1>6. QED BY <1>1, <1>3, <1>4, <1>5

-----------------------------------------------------------------------------
LEMMA InvInit == Init => IInv
<1> SUFFICES ASSUME Init PROVE IInv
    OBVIOUS
<1>1. TypeInv
      BY TypeInit
<1>2. ServiceInv /\ ClosedInv /\ ApInv /\ HalfInv
      BY NoCallType DEF Init, ServiceInv, ClosedInv, ApInv, HalfInv, Saving, Closed
<1>3. FilesHoldAsked /\ PairInv /\ ReplayInv
  <2>1. AskedInv
        BY DEF Init, AskedInv
  <2>2. QED BY <1>1, <2>1, AskedFields DEF Init, PairInv, ReplayInv, TypeInv
<1>4. JoinedInv
      BY NoCallType, SentinelsDiffer
      DEF Init, JoinedInv, OnlyJoinedSaved, Joined, NoFiles, Sentinels
<1>5. QED BY <1>1, <1>2, <1>3, <1>4 DEF IInv

LEMMA InvStep == IInv /\ [Next]_vars => IInv'
<1> SUFFICES ASSUME IInv, [Next]_vars PROVE IInv'
    OBVIOUS
<1>1. TypeInv'
      BY TypeStep, CallStep DEF IInv, TypeInv
<1>2. (HalfInv /\ FilesHoldAsked)'
  <2>1. FilesInv
        BY AskedFields DEF IInv, TypeInv, FilesInv
  <2>2. FilesInv'
        BY <2>1, FilesStep DEF IInv
  <2>3. QED BY <1>1, <2>2, AskedFieldsNext DEF TypeInv, FilesInv
<1>3. QED BY <1>1, <1>2, ServiceStep, ClosedStep, ApStep, JoinedStep, PairStep,
            ReplayStep DEF IInv

(* The inductive invariant holds of every state the boot can reach.         *)
THEOREM Invariance == Spec => []IInv
BY InvInit, InvStep, PTL DEF Spec

(* What was asked of a save or a reset that ran to its end alone and       *)
(* without an I/O error is what the two files hold until the next one; one *)
(* that a reboot cut off leaves no new passphrase beside an old name.      *)
THEOREM SavedPairLasts == Spec => []FilesHoldAsked
<1>1. IInv => FilesHoldAsked
      BY DEF IInv
<1>2. QED BY Invariance, <1>1, PTL

(* No file ever holds a name or a passphrase that was not part of a        *)
(* successful join, whatever crashes and I/O errors happened.              *)
THEOREM OnlyProvenCredentials == Spec => []OnlyJoinedSaved
<1>1. IInv => OnlyJoinedSaved
      BY DEF IInv, JoinedInv
<1>2. QED BY Invariance, <1>1, PTL

(* A boot that read both files undisturbed hands rt_wlan_connect what the   *)
(* last change left, and after one without a mishap a pair that joined as   *)
(* a pair; this needs PskMax <= SsidMax, since the password buffer is       *)
(* sized by the other limit.                                                *)
THEOREM BootReplays == Spec => []BootReadsFiles
<1>1. IInv => BootReadsFiles
      BY BootReads
<1>2. QED BY Invariance, <1>1, PTL

(* In every mode the oneshot service is off once a callback has run to its *)
(* end.                                                                    *)
THEOREM ServiceStops == Spec => []ServiceStopped
<1>1. IInv => ServiceStopped
      BY DEF IInv, ClosedInv, ServiceStopped
<1>2. QED BY Invariance, <1>1, PTL

(* In the two AP modes the AP is off too, if the option asks for it.  The  *)
(* run ProvisionUdp shows why UDP mode is excluded.                        *)
THEOREM PortalCloses ==
  ASSUME Mode # "udp"
  PROVE  Spec => []ProvisioningCloses
<1>1. IInv => ProvisioningCloses
      BY DEF IInv, ClosedInv, ApInv, ProvisioningCloses, ServiceStopped, ApStopped
<1>2. QED BY Invariance, <1>1, PTL

=============================================================================
