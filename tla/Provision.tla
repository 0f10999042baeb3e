------------------------------ MODULE Provision ------------------------------
(***************************************************************************)
(* How the device gets onto a wireless network (src/src/main.cpp).         *)
(*                                                                         *)
(* Three threads of control share the station, the soft AP, the oneshot    *)
(* provisioning service and two files on flash:                            *)
(*   main      flash and file system, then the stored credentials, then    *)
(*             the provisioning service when the station is not connected; *)
(*   callback  app_oneshot_callback, run by the oneshot service for every  *)
(*             (ssid, key) a client submits;                               *)
(*   shell     the msh command reset_wlan_cfg.                             *)
(* A step is one call the code makes into the kernel, the wlan manager or  *)
(* the C library.  Every reboot (power, hard fault, failed assertion)      *)
(* starts main again with what the two files hold.                         *)
(***************************************************************************)
EXTENDS Naturals

CONSTANTS
  Ssids,            \* names a client can submit
  Keys,             \* passphrases of at least one character
  KeyLen,           \* [Keys -> Nat], their lengths
  NetKey,           \* [Ssids -> Keys \cup {Empty}], what each network wants
  Absent,           \* a file that does not exist
  Empty,            \* a file of length 0, the string ""
  Null,             \* a NULL pointer; for the station: not connected
  Cut,              \* a passphrase that lost its tail
  Mode,             \* APP_AUTOSTART_ONESHOT_MODE
  StopApOnSuccess,  \* APP_AUTOSTART_ONESHOT_AP_STOP_ON_ONESHOT_SUCCESS
  SsidMax,          \* RT_WLAN_SSID_MAX_LENGTH
  PskMax            \* RT_WLAN_PASSWORD_MAX_LENGTH

Sentinels == {Absent, Empty, Null, Cut}

ASSUME SentinelsDiffer ==
  /\ Absent \notin {Empty, Null, Cut}
  /\ Empty \notin {Null, Cut}
  /\ Null # Cut
  /\ Sentinels \cap (Ssids \cup Keys) = {}

ASSUME NetworksOK ==
  /\ KeyLen \in [Keys -> Nat]
  /\ NetKey \in [Ssids -> Keys \cup {Empty}]

ASSUME OptionsOK ==
  /\ Mode \in {"udp", "apsocket", "apweb"}
  /\ StopApOnSuccess \in BOOLEAN

(* rtconfig.h gives both limits the value 32: the password buffer of       *)
(* autoconfigure_wlan_sta_load, sized by the SSID limit, is large enough.  *)
ASSUME BufferOK == SsidMax \in Nat /\ PskMax \in Nat /\ PskMax <= SsidMax

VARIABLES
  mpc,         \* where main is
  ssid,        \* main's buffers for the stored credentials
  password,
  mounted,     \* is a file system mounted on "/"?
  flash,       \* the two files
  sta,         \* network the station is connected to, or Null
  known,       \* networks the wlan manager has joined since boot
  ap,          \* is the soft AP up?
  oneshot,     \* is the provisioning service running?
  cb,          \* the callback: where it is and its arguments
  sh           \* where the shell command is

(* History: what the run did, for the properties only.                     *)
VARIABLES
  joined,      \* every <<ssid, key>> a callback has joined with
  before,      \* the files when the last save, reset or format began
  asked,       \* ... and what it was to make of them
  mishap,      \* ... and the worst that has happened to it since
  replay,      \* this boot has read both files, no reset under way
  succeeded,   \* a callback has run to its end since boot
  refused      \* the service or the AP would not start in this boot

boot    == <<mpc, ssid, password, mounted>>
radio   == <<sta, known, ap, oneshot>>
change  == <<before, asked, mishap>>
history == <<joined, change, replay, succeeded, refused>>
vars    == <<boot, flash, radio, cb, sh, history>>

MainPc == {"flash_init", "mount", "mkfs", "remount", "load_ssid", "load_psk",
           "load_join", "probe", "oneshot_on", "ap_on", "mqtt", "done"}
CbPc == {"idle", "enter", "join", "ap_probe", "ap_off", "oneshot_off",
         "save_ssid", "write_ssid", "save_psk", "write_psk"}

Files    == {"ssid", "psk"}
SsidText == Ssids \cup {Empty}
KeyText  == Keys \cup {Empty}

Contents == [ssid: SsidText \cup {Absent}, psk: KeyText \cup {Absent}]
Calls    == [pc: CbPc, ssid: Ssids \cup {Null}, key: KeyText \cup {Null}]

(* What may happen to a change of the files, the worst last: it has no key *)
(* to write, a reboot cuts it off, a call of it fails, another change goes *)
(* on beside it.                                                           *)
Fine       == 0
NoKey      == 1
CutOff     == 2
Failed     == 3
Overlapped == 4

TypeOK ==
  /\ mpc \in MainPc
  /\ ssid \in SsidText
  /\ password \in KeyText \cup {Cut}
  /\ mounted \in BOOLEAN
  /\ flash \in Contents
  /\ sta \in Ssids \cup {Null}
  /\ known \in SUBSET Ssids
  /\ ap \in BOOLEAN
  /\ oneshot \in BOOLEAN
  /\ cb \in Calls
  /\ sh \in {"idle", "half"}
  /\ joined \in SUBSET (Ssids \X (KeyText \cup {Null}))
  /\ before \in Contents /\ asked \in Contents
  /\ mishap \in Fine .. Overlapped
  /\ replay \in BOOLEAN
  /\ succeeded \in BOOLEAN
  /\ refused \in BOOLEAN

NoCall  == [pc |-> "idle", ssid |-> Null, key |-> Null]
NoFiles == [ssid |-> Absent, psk |-> Absent]

Init ==
  /\ mpc = "flash_init" /\ ssid = Empty /\ password = Empty
  /\ mounted = FALSE
  /\ flash = NoFiles
  /\ sta = Null /\ known = {} /\ ap = FALSE /\ oneshot = FALSE
  /\ cb = NoCall /\ sh = "idle"
  /\ joined = {} /\ before = NoFiles /\ asked = NoFiles /\ mishap = Fine
  /\ replay = FALSE /\ succeeded = FALSE /\ refused = FALSE

-----------------------------------------------------------------------------
(* The wlan manager, as main.cpp uses it.                                   *)

(* rt_wlan_connect can succeed: the passphrase fits and the network takes  *)
(* it; an open network may take any.                                       *)
Accepts(s, k) ==
  /\ k \in Keys => KeyLen[k] <= PskMax
  /\ NetKey[s] \in {Empty, k}

Connected(s) == sta' = s /\ known' = known \cup {s}

(* A failed connect leaves the station where it was, or off.               *)
NotConnected == sta' \in {sta, Null} /\ UNCHANGED known

LinkDrop ==
  /\ sta # Null /\ sta' = Null
  /\ UNCHANGED <<boot, flash, known, ap, oneshot, cb, sh, history>>

(* rt_wlan_config_autoreconnect(true).                                     *)
AutoReconnect ==
  /\ sta = Null /\ sta' \in known
  /\ UNCHANGED <<boot, flash, known, ap, oneshot, cb, sh, history>>

-----------------------------------------------------------------------------
(* History: a change of the files begins, alone or beside another one, it  *)
(* meets a mishap, and it ends.  Of overlapping changes nothing is kept.   *)
Worse(a, b) == IF a < b THEN b ELSE a

Begins(pair, m, alone) ==
  IF alone THEN before' = flash /\ asked' = pair /\ mishap' = m
  ELSE before' = NoFiles /\ asked' = NoFiles /\ mishap' = Overlapped

Meets(m) == mishap' = Worse(mishap, m) /\ UNCHANGED <<before, asked>>

Ends ==
  /\ before' = IF mishap <= NoKey THEN asked ELSE before
  /\ UNCHANGED <<asked, mishap>>

-----------------------------------------------------------------------------
(* main: flash device and file system.                                      *)

FlashInit ==
  /\ mpc = "flash_init"
  /\ mpc' \in {"mount", "load_ssid"}      \* _flashdev_init: RT_EOK or not
  /\ UNCHANGED <<ssid, password, mounted, flash, radio, cb, sh, history>>

Mount ==
  /\ mpc = "mount"
  /\ \/ mounted' = TRUE /\ mpc' = "load_ssid"
     \/ mpc' = "mkfs" /\ UNCHANGED mounted
  /\ UNCHANGED <<ssid, password, flash, radio, cb, sh, history>>

(* dfs_mkfs, whose result is not looked at: it empties the volume or fails *)
Format ==
  /\ mpc = "mkfs" /\ mpc' = "remount"
  /\ \/ flash' = NoFiles /\ Begins(NoFiles, Fine, sh = "idle")
     \/ flash' = flash   /\ Begins(NoFiles, Failed, sh = "idle")
  /\ UNCHANGED <<ssid, password, mounted, radio, cb, sh,
                 joined, replay, succeeded, refused>>

Remount ==
  /\ mpc = "remount" /\ mpc' = "load_ssid"
  /\ mounted' \in BOOLEAN
  /\ UNCHANGED <<ssid, password, flash, radio, cb, sh, history>>

-----------------------------------------------------------------------------
(* main: autoconfigure_wlan_sta_load.                                       *)

Text(content) == IF content = Absent THEN Empty ELSE content

(* Mutant: one character too few is read.                                   *)
BufferedShort(k) == IF k \in Keys /\ KeyLen[k] >= SsidMax THEN Cut ELSE k

(* What the zeroed buffer holds after reading at most SsidMax characters.  *)
Buffered(k) == IF k \in Keys /\ KeyLen[k] > SsidMax THEN Cut ELSE k

LoadSsid ==
  /\ mpc = "load_ssid" /\ mpc' = "load_psk"
  /\ \/ mounted /\ ssid' = Text(flash.ssid) /\ replay' = (sh = "idle")
     \/ ssid' = Empty /\ replay' = FALSE            \* fopen returns NULL
  /\ UNCHANGED <<password, mounted, flash, radio, cb, sh,
                 joined, change, succeeded, refused>>

LoadPsk ==
  /\ mpc = "load_psk" /\ mpc' = "load_join"
  /\ \/ mounted /\ password' = Buffered(Text(flash.psk)) /\ UNCHANGED replay
     \/ password' = Empty /\ replay' = FALSE        \* fopen returns NULL
  /\ UNCHANGED <<ssid, mounted, flash, radio, cb, sh,
                 joined, change, succeeded, refused>>

LoadJoin ==
  /\ mpc = "load_join" /\ mpc' = "probe"
  /\ IF ssid = Empty THEN UNCHANGED <<sta, known>>
     ELSE \/ Accepts(ssid, password) /\ Connected(ssid)
          \/ NotConnected
  /\ ssid' = Empty /\ password' = Empty             \* the frame is gone
  /\ UNCHANGED <<mounted, flash, ap, oneshot, cb, sh, history>>

-----------------------------------------------------------------------------
(* main: the provisioning service, then MQTT_Init.                          *)

(* Mutant: the test of rt_wlan_is_connected is inverted.                    *)
ProbeInverted ==
  /\ mpc = "probe"
  /\ mpc' = IF sta = Null THEN "mqtt" ELSE "oneshot_on"
  /\ UNCHANGED <<ssid, password, mounted, flash, radio, cb, sh, history>>

Probe ==
  /\ mpc = "probe"
  /\ mpc' = IF sta = Null THEN "oneshot_on" ELSE "mqtt"
  /\ UNCHANGED <<ssid, password, mounted, flash, radio, cb, sh, history>>

(* wm_oneshot_start and rt_wlan_start_ap: their results are not looked at. *)
OneshotOn ==
  /\ mpc = "oneshot_on" /\ mpc' = "ap_on"
  /\ \/ oneshot' = TRUE /\ UNCHANGED refused
     \/ refused' = TRUE /\ UNCHANGED oneshot
  /\ UNCHANGED <<ssid, password, mounted, flash, sta, known, ap, cb, sh,
                 joined, change, replay, succeeded>>

ApOn ==
  /\ mpc = "ap_on" /\ mpc' = "mqtt"
  /\ \/ ap' = TRUE /\ UNCHANGED refused
     \/ refused' = TRUE /\ UNCHANGED ap
  /\ UNCHANGED <<ssid, password, mounted, flash, sta, known, oneshot, cb, sh,
                 joined, change, replay, succeeded>>

MqttInit ==
  /\ mpc = "mqtt" /\ mpc' = "done"
  /\ UNCHANGED <<ssid, password, mounted, flash, radio, cb, sh, history>>

-----------------------------------------------------------------------------
(* app_oneshot_callback.                                                    *)

(* A client hands in credentials.  In the two AP modes it needs the AP; in *)
(* UDP mode the credentials are picked off the air.  The service runs one  *)
(* callback at a time.                                                     *)
Submit(s, k) ==
  /\ oneshot /\ cb.pc = "idle"
  /\ Mode = "udp" \/ ap
  /\ cb' = [pc |-> "enter", ssid |-> s, key |-> k]
  /\ UNCHANGED <<boot, flash, radio, sh, history>>

CbEnter ==
  /\ cb.pc = "enter"
  /\ cb' = IF cb.ssid = Null THEN NoCall ELSE [cb EXCEPT !.pc = "join"]
  /\ UNCHANGED <<boot, flash, radio, sh, history>>

CbJoinOk ==
  /\ cb.pc = "join"
  /\ Accepts(cb.ssid, IF cb.key = Null THEN Empty ELSE cb.key)
  /\ Connected(cb.ssid)
  /\ joined' = joined \cup {<<cb.ssid, cb.key>>}
  /\ cb' = [cb EXCEPT !.pc = IF StopApOnSuccess THEN "ap_probe" ELSE "oneshot_off"]
  /\ UNCHANGED <<boot, flash, ap, oneshot, sh, change, replay, succeeded, refused>>

(* Mutant: the result of rt_wlan_connect is not looked at.                  *)
CbJoinIgnored ==
  /\ cb.pc = "join"
  /\ NotConnected
  /\ cb' = [cb EXCEPT !.pc = "oneshot_off"]
  /\ UNCHANGED <<boot, flash, ap, oneshot, sh, history>>

CbJoinFails ==
  /\ cb.pc = "join"
  /\ NotConnected
  /\ cb' = NoCall
  /\ UNCHANGED <<boot, flash, ap, oneshot, sh, history>>

(* Mutant: the AP is stopped only when it is not up.                        *)
CbApProbeInverted ==
  /\ cb.pc = "ap_probe"
  /\ cb' = [cb EXCEPT !.pc = IF ap THEN "oneshot_off" ELSE "ap_off"]
  /\ UNCHANGED <<boot, flash, radio, sh, history>>

CbApProbe ==
  /\ cb.pc = "ap_probe"
  /\ cb' = [cb EXCEPT !.pc = IF ap THEN "ap_off" ELSE "oneshot_off"]
  /\ UNCHANGED <<boot, flash, radio, sh, history>>

CbApOff ==
  /\ cb.pc = "ap_off"
  /\ ap' = FALSE
  /\ cb' = [cb EXCEPT !.pc = "oneshot_off"]
  /\ UNCHANGED <<boot, flash, sta, known, oneshot, sh, history>>

CbOneshotOff ==
  /\ cb.pc = "oneshot_off"
  /\ oneshot' = FALSE
  /\ cb' = [cb EXCEPT !.pc = "save_ssid"]
  /\ UNCHANGED <<boot, flash, sta, known, ap, sh, history>>

-----------------------------------------------------------------------------
(* autoconfigure_wlan_sta_save, the tail of the callback: each file is     *)
(* opened with "w" and then written and closed.                            *)

Saving == cb.pc \in {"write_ssid", "save_psk", "write_psk"}

(* What a file holds once fopen(f, "w") has returned: it is empty at once, *)
(* or keeps its old contents until it is closed.                           *)
Opened(f) == {Empty} \cup ({flash[f]} \ {Absent})

(* Mutant: the key is not tested for NULL.                                  *)
AfterSsidUnchecked == [cb EXCEPT !.pc = "save_psk"]

AfterSsid == IF cb.key = Null THEN NoCall ELSE [cb EXCEPT !.pc = "save_psk"]

(* A save without a key asks for the new name beside the old passphrase.   *)
Saved == [ssid |-> cb.ssid, psk |-> IF cb.key = Null THEN flash.psk ELSE cb.key]

SaveSsid ==
  /\ cb.pc = "save_ssid"
  /\ \/ /\ mounted
        /\ \E c \in Opened("ssid") : flash' = [flash EXCEPT !.ssid = c]
        /\ cb' = [cb EXCEPT !.pc = "write_ssid"]
        /\ Begins(Saved, IF cb.key = Null THEN NoKey ELSE Fine, sh = "idle")
        /\ UNCHANGED succeeded
     \/ /\ cb' = AfterSsid                          \* fopen returns NULL
        /\ Begins(Saved, Failed, sh = "idle")
        /\ succeeded' = (succeeded \/ cb.key = Null)
        /\ UNCHANGED flash
  /\ UNCHANGED <<boot, radio, sh, joined, replay, refused>>

(* fwrite and fclose, whose results are not looked at.                     *)
WriteSsid ==
  /\ cb.pc = "write_ssid"
  /\ cb' = AfterSsid
  /\ succeeded' = (succeeded \/ cb.key = Null)
  /\ \/ /\ flash' = [flash EXCEPT !.ssid = cb.ssid]
        /\ IF cb.key = Null THEN Ends ELSE UNCHANGED change
     \/ Meets(Failed) /\ UNCHANGED flash
  /\ UNCHANGED <<boot, radio, sh, joined, replay, refused>>

SavePsk ==
  /\ cb.pc = "save_psk"
  /\ \/ /\ mounted
        /\ \E c \in Opened("psk") : flash' = [flash EXCEPT !.psk = c]
        /\ cb' = [cb EXCEPT !.pc = "write_psk"]
        /\ UNCHANGED <<change, succeeded>>
     \/ /\ cb' = NoCall                             \* fopen returns NULL
        /\ Meets(Failed)
        /\ succeeded' = TRUE
        /\ UNCHANGED flash
  /\ UNCHANGED <<boot, radio, sh, joined, replay, refused>>

WritePsk ==
  /\ cb.pc = "write_psk"
  /\ cb' = NoCall
  /\ succeeded' = TRUE
  /\ \/ flash' = [flash EXCEPT !.psk = cb.key] /\ Ends
     \/ Meets(Failed) /\ UNCHANGED flash
  /\ UNCHANGED <<boot, radio, sh, joined, replay, refused>>

-----------------------------------------------------------------------------
(* The shell command reset_wlan_cfg: two unlinks, results not looked at.    *)
(* A file that is not there, or that is open, may refuse.                   *)

ResetSsid ==
  /\ sh = "idle" /\ sh' = "half"
  /\ replay' = FALSE
  /\ \/ /\ mounted /\ flash' = [flash EXCEPT !.ssid = Absent]
        /\ Begins(NoFiles, Fine, ~Saving)
     \/ Begins(NoFiles, Failed, ~Saving) /\ UNCHANGED flash
  /\ UNCHANGED <<boot, radio, cb, joined, succeeded, refused>>

(* Mutant: the second unlink names the first file again.                    *)
ResetSsidTwice ==
  /\ sh = "half" /\ sh' = "idle"
  /\ replay' = FALSE
  /\ \/ mounted /\ flash' = [flash EXCEPT !.ssid = Absent] /\ Ends
     \/ Meets(Failed) /\ UNCHANGED flash
  /\ UNCHANGED <<boot, radio, cb, joined, succeeded, refused>>

ResetPsk ==
  /\ sh = "half" /\ sh' = "idle"
  /\ replay' = FALSE
  /\ \/ mounted /\ flash' = [flash EXCEPT !.psk = Absent] /\ Ends
     \/ Meets(Failed) /\ UNCHANGED flash
  /\ UNCHANGED <<boot, radio, cb, joined, succeeded, refused>>

-----------------------------------------------------------------------------
(* Power loss, a hard fault or a failed assertion: the two hooks call      *)
(* rt_hw_cpu_reset.  Only the files survive, as the last step left them.   *)
Reboot ==
  /\ mpc' = "flash_init" /\ ssid' = Empty /\ password' = Empty /\ mounted' = FALSE
  /\ sta' = Null /\ known' = {} /\ ap' = FALSE /\ oneshot' = FALSE
  /\ cb' = NoCall /\ sh' = "idle"
  /\ replay' = FALSE /\ succeeded' = FALSE /\ refused' = FALSE
  /\ IF Saving \/ sh = "half" THEN Meets(CutOff) ELSE UNCHANGED change
  /\ UNCHANGED <<flash, joined>>

Main ==
  \/ FlashInit \/ Mount \/ Format \/ Remount
  \/ LoadSsid \/ LoadPsk \/ LoadJoin
  \/ Probe \/ OneshotOn \/ ApOn \/ MqttInit

Callback ==
  \/ CbEnter \/ CbJoinOk \/ CbJoinFails \/ CbApProbe \/ CbApOff \/ CbOneshotOff
  \/ SaveSsid \/ WriteSsid \/ SavePsk \/ WritePsk

Shell == ResetSsid \/ ResetPsk

Network == LinkDrop \/ AutoReconnect

Next ==
  \/ Main \/ Callback \/ Shell \/ Network \/ Reboot
  \/ \E s \in Ssids \cup {Null}, k \in KeyText \cup {Null} : Submit(s, k)

Spec == Init /\ [][Next]_vars

(* The kernel keeps running main and the service's thread; nothing is      *)
(* assumed of clients, of the shell's user, of the network or of power.    *)
FairSpec == Spec /\ WF_vars(Main) /\ WF_vars(Callback)

-----------------------------------------------------------------------------
(* Properties.                                                              *)

(* What a reboot in the middle of a change may leave: in each file what    *)
(* was there, nothing, or what was asked, but in the second file nothing   *)
(* new before the first is finished.  With a failed call in it, each file  *)
(* is for itself.                                                          *)
Anyhow(b, a) ==
  [ssid: {b.ssid, Empty, a.ssid}, psk: {b.psk, Empty, a.psk}]
Torn(b, a) == {p \in Anyhow(b, a) : p.psk # b.psk => p.ssid = a.ssid}

(* A save or a reset that ran to its end, alone and without an I/O error,  *)
(* leaves exactly what was asked of it, for a save without a key the new   *)
(* name beside the old passphrase; cut by a reboot it leaves the files     *)
(* torn, the passphrase never newer than the name.  No reboot, failed      *)
(* mount, failed provisioning attempt or link change alters that; only the *)
(* next save, reset or format does.                                        *)
FilesHoldAsked ==
  /\ mishap <= NoKey /\ ~Saving /\ sh = "idle" => flash = asked
  /\ mishap <= CutOff => flash \in Torn(before, asked)
  /\ mishap <= Failed => flash \in Anyhow(before, asked)

(* What a boot hands to rt_wlan_connect is what the files were left with,   *)
(* no passphrase a network can have being cut by the buffer it is read      *)
(* into: the pair asked for, after a cut change one torn from it and the    *)
(* pair before.  A name with a passphrase it was not joined with is handed  *)
(* over only if the last change was cut, failed in part, overlapped another *)
(* or was a save without a key (main.cpp:156).                              *)
Read(p) == ssid = Text(p.ssid) /\ password = Text(p.psk)
Whole == ssid = Empty \/ <<ssid, password>> \in joined
BootReadsFiles ==
  mpc = "load_join" /\ replay =>
    /\ mishap <= NoKey => Read(asked)
    /\ mishap <= CutOff => \E p \in Torn(before, asked) : Read(p)
    /\ mishap = Fine => Whole

(* Whatever crashes, faults and resets did to the pair, each file by       *)
(* itself only ever holds something a network accepted: credentials are    *)
(* saved after the join that proves them, never before.                    *)
OnlyJoinedSaved ==
  /\ flash.ssid \in Ssids => \E k \in KeyText \cup {Null} : <<flash.ssid, k>> \in joined
  /\ flash.psk \in Keys => \E s \in Ssids : <<s, flash.psk>> \in joined

(* Once a callback has run to its end the oneshot service is off and stays *)
(* off until the next boot, and so does the AP where the option of         *)
(* src/src/Kconfig:59, "stop ap when oneshot success", asks for it.        *)
ServiceStopped == succeeded => ~oneshot
ApStopped == succeeded /\ StopApOnSuccess => ~ap
ProvisioningCloses == ServiceStopped /\ ApStopped

(* However torn the stored pair is, and whether or not the flash mounts, a *)
(* boot ends with the station connected or the provisioning service open,  *)
(* and in the AP modes reachable, unless the service or the AP would not   *)
(* start (main.cpp:330 and 333 do not look) or the device keeps rebooting. *)
Open == oneshot /\ (Mode = "udp" \/ ap)
BootSettles ==
  <>[][~Reboot]_vars => (mpc = "flash_init" ~> (sta # Null \/ Open \/ refused))

=============================================================================
