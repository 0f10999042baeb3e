# W600RthreadDemo: a verification project

TLA+ models, TLC runs and TLAPS proofs about the application in `src/src` and
`src/rc` of W600RthreadDemo, an RT-Thread firmware for the W600 Wi-Fi chip. The
firmware gets itself onto a wireless network (stored credentials, or a soft AP
with a provisioning portal), keeps one MQTT connection, answers messages with
the "hello" protocol and carries its resource files in flash. The two Python
scripts of the bundled jsoncpp that change a repository or a source tree are
modelled too. Paths below are relative to the repository's root, which the map
of `PROJECT.json` calls `src/`.

## 1. Inventory

| Part | State it keeps | Operations | What is hard | What makes it correct |
|---|---|---|---|---|
| Boot and provisioning, `src/main.cpp` | two files `/wlan_ssid`, `/wlan_psk`; station, soft AP and oneshot service of the SDK | `main`, `app_oneshot_callback`, `autoconfigure_wlan_sta_{load,save,reset}`, msh `reset_wlan_cfg`, the reset hooks | callback, shell and main run in different threads; a reboot between any two I/O calls; results of I/O ignored | what the files hold is what the last save, reset or format made of them, mixed only where that was cut, failed, overlapped another or had no key; only proven credentials are stored; the portal closes after a success; a boot that can start service and AP ends connected or open to provisioning |
| Flash partition driver, `main.cpp` 28-109 | the two registered devices and their block bounds | `_read`, `_write`, `_erase_block`, `_flashdev_init` | 32-bit sums and products at the bounds; two areas of one chip; a registration that fails between two | each area is a device of its own; no byte outside it is touched |
| MQTT client, `src/MQTT.cpp` | `cfg`, `cfg_cb`, the one `client`, `IsInit` | `MQTT_Init`, `_thread`, `check_cfg`, callbacks, `MQTT_Publish_Message` | a polling thread, a callback that fills the configuration, paho's own thread, reconnects | one start, from a finished configuration; presence seen by the broker is right in the end |
| Hello protocol, `src/MQTT_Hello.cpp` | `SerialID` | `MQTT_HELLO_{Reg,Init,Connect,DisConnect,OnMessage}` | devices answering one another, retained messages, reconnections | an echo neither alters nor multiplies a message |
| Resource table, `rc/fsgen.cpp`, `rc/RC.c` | `RC_Data`, `RC_Name`, `RC_Info` | `listdir`, `fsgen`, `RCGetSize`, `RCGetHandle` | two walks that must agree; comparison of names in one packed array | every file under its own name, whole |
| Web server files, `src/httpd_fs_for_rc.c` | `struct fs_file` | `fs_open`, `fs_read`, `fs_close` | slashes, names that do not exist, the end of a file | each handle serves the file it was opened for |
| jsoncpp's release script, `makerelease.py`, `doxybuild.py` | the trunk, the sandbox, the tags | `main`, the `svn_*` helpers, `build_doc` | commands that fail, runs that are interrupted, a developer who edits meanwhile | a tag holds what the trunk was; a release changes only the version |
| jsoncpp's license updater, `devtools/licenseupdater.py`, `antglob.py` | the source files | `main`, `update_license`, `glob`, `ant_pattern_to_re` | a truncating open before the write; a stop or a save in between; overlapping patterns | no text is lost; "Done" means every source is licensed; no other file changes |
| jsoncpp's library and its other tools | - | - | vendored; the application does not call the library | not modelled |
| Setup scripts, `bootstrap`, `patches`, `*.bat` | the developer's tree | - | - | not modelled |
| `tools`, `rc/RC_fs.c`, the RT-Thread submodule | - | - | third-party, generated, not in the tree | not modelled, see section 7 |

How they interact: `main` mounts the file system through the partition driver,
loads the credentials, starts the oneshot service and the AP, and calls
`MQTT_Init` last. The oneshot service calls `app_oneshot_callback` from its own
thread; in web mode its server reads pages through `fs_open`, which reads the
resource table; `main` prints the banner from the same table. The MQTT thread
asks the wlan manager whether the station is connected, calls
`MQTT_HELLO_Init` until the configuration is there and hands it to paho, whose
thread calls `MQTT_HELLO_Connect` and `MQTT_HELLO_OnMessage`.

## 2. Modules

| Module | Models | Actions |
|---|---|---|
| `Provision` | boot and provisioning | one per call of `main`, of the callback and of the shell command into the kernel, the wlan manager or the C library; a link drop; autoreconnect; a reboot |
| `FlashPart` | `_flashdev_init` and the driver's requests | `RegisterDevice`, `ReadFlash`, `WriteFlash`, `EraseFlash`, each the whole function; `Restart` |
| `MtdDevice` | - | the abstract NOR device of a file system, which each of the two areas implements |
| `MqttClient` | `MQTT_Init`, `_thread`, `check_cfg`, `MQTT_HELLO_Init`, `MQTT_HELLO_Connect` | one per step of the thread, one per field the init callback assigns; paho's thread, the broker, the station (external); a reboot |
| `HelloEcho` | `MQTT_HELLO_OnMessage` on several devices | `OnMessage` is the whole handler; `Send`, `Subscribe`, `Lose` are the broker and the clients |
| `RcTable` | `fsgen` and `RC.c` | one step per file of each walk and one per end of a walk; the lookups are operators over the three arrays |
| `HttpdFs` | `httpd_fs_for_rc.c`, on top of `RcTable` | `fs_open`, `fs_read`, `fs_close`, once the table is there |
| `MakeRelease` | `makerelease.py` up to the call of `build_doc`, which raises | one per command the script runs, a failure or interruption at each; the developer's edits and commits |
| `AntGlob` | `antglob.py` | none: operators for the pattern compiler and the search |
| `LicenseUpdate` | `licenseupdater.py`, on top of `AntGlob` | a search, the read, the open and the write of each file; stops; the developer's saves |
| `ProvisionProofs`, `FlashPartProofs`, `MqttProofs`, `HelloProofs`, `RcProofs` (also of `HttpdFs`), `MakeReleaseProofs`, `AntGlobProofs`, `LicenseProofs` | - | theorems about the module of the name, section 4 |

`MC*` modules give the constants of a module their values; a mutated operator
(`... Mutant:` in its comment) stands before the definition it mutates and is
never used by the specification.

### Provision

`mpc` is where `main` is; `ssid` and `password` are the two buffers of
`autoconfigure_wlan_sta_load`; `flash` holds the two files (`Absent`, `Empty` or
a text); `cb` is the callback with its arguments; `sh` the shell command.
`sta`, `known`, `ap`, `oneshot` are what the SDK knows. The history variables
record which pairs were joined with (`joined`); of the last save, reset or
format what the files were when it began (`before`), what it was to make of them
(`asked`) and the worst that has happened to it (`mishap`: it has no key to
write, a reboot cut it off, a call of it failed, it overlapped another); whether
this boot has read both files with no reset under way (`replay`); and whether
the service or the AP refused to start in this boot (`refused`).

Every I/O call may fail where its result is ignored, and so may
`wm_oneshot_start` and `rt_wlan_start_ap` (`main.cpp:330` and 333). Where the
code leaves the files mixed, the properties say how and after what: a reboot
between the two files leaves one of the pairs in `Torn`, a save with a NULL key
(`main.cpp:156`) the new name beside the old passphrase, and the next boot joins
with these. Of two changes that overlap, only the origin of each file is
claimed. A passphrase is a value with a length: `Buffered` is what the zeroed
buffer of `RT_WLAN_SSID_MAX_LENGTH + 1` bytes holds after `fread`. What is taken
from the SDK and the file system:

- a file opened with `"w"` is empty at once or keeps its old contents until it
  is closed (littlefs), and is written when it is closed; a torn write inside
  one file is not modelled;
- `rt_wlan_connect` succeeds only with a passphrase of legal length which the
  network takes, and an open network may take any;
- the oneshot service runs one callback at a time; in the AP modes a client
  reaches it only over the AP;
- `rt_wlan_config_autoreconnect` reconnects only to networks joined since boot.

### FlashPart

Every sum and product is taken modulo `W`, the values of a machine word, as
`rt_off_t` and `rt_uint32_t` have 32 bits on this target; `block_start` and
`block_end` are the two members `_flashdev_init` computes, with the same
divisions. `chip` is the flash, byte by byte; `reply` the last request and its
answer, so that the abstract device can tell what was answered. The SDK's flash
routines, whose results the driver ignores, are taken to work. Three facts that
`src/` takes for granted are assumptions: the chip is mapped below the end of
the address space (`ChipOK`), the areas are disjoint whole blocks of it
(`AreasOK`), and no request is so large that the sum of its offset, its length
and the start of the area wraps (`ReachOK`). Without the last, the bounds test
at `main.cpp:36` lets a request through. `EraseFlash` is only asked for whole
blocks, as a file system erases them; `_erase_block` itself does not test it.
`FlashIsDevice` and `ExFlashIsDevice` map the area's bytes, its registration and
the answers addressed to it to `MtdDevice`, once for each area: what is done to
one is a stutter of the other.

### MqttClient

`cfg` is the set of fields that are set, so that half a configuration can be
told from a whole one. `client` is what the client struct was filled from.
`session` is what the broker knows of the client: a will if CONNECT had topic
and payload, a keepalive if it had one. An "Online" on its way (`online`) may be
lost with the connection or arrive after it; and it may not be published at all,
since `MQTT_HELLO_Connect` ignores the result (`MQTT_Hello.cpp:57`). Nothing
tries again on that connection, so `OnlineShown` exempts it (`unsent`). The
broker closes an older session and publishes its will before it opens a new one.

### HelloEcho

A topic is a sequence of levels, a message carries the number of the client
message it comes from. The broker routes by the first level, keeps retained
messages and plays them to every new subscription. The echo is taken as one
step: received, turned and handed to the broker. `Copies` counts the messages
under way that come from one client message, each place of each box once.

### RcTable and HttpdFs

Names are sequences of characters and the arrays sequences with an explicit
zero, because a wrong offset would only show there. `readable` is fixed during a
run: the two walks test readability differently (open, `access`), and agree as
long as nobody changes permissions under `fsgen`. `listdir` is its result.
`fs_open` sets the index of a file to its end, so `fs_read` of this code never
delivers a byte: the web server takes them from `data` and `len`, and would send
them twice otherwise (`FileTypeOK`). That the cut at `httpd_fs_for_rc.c:72` is
never reached follows; nothing is claimed of it. `RcName` is
the copying loop of `fs_open`, round by round. `DirOK` says of
`ONESHOT_RC_DIR` what holds of the one the source defines: it ends with a slash
and no two slashes follow one another; `RequestsOK` and `CountsOK`, that the
server asks with C strings and for whole numbers of bytes.

### MakeRelease

A working copy is its version and a counter of edits (`src`); a tag is the
content it was copied from. `raced` says whether the developer had edited since
the commit, `nested` whether a copy went into a tag that was there (svn puts it
below). `heads`, `edited`, `disturbed`, `misread` (the tags that are there and
on which `svn list` failed) and `outcome` are history. A run stopped in
`set_version` may leave 'version' empty. Every svn command may fail and every
step may be interrupted, which ends the run in an error (`Abort`). `TagNotFound`
is always possible: `svn_check_if_tag_exist` takes any failure of `svn list` for
"not there" (`makerelease.py:95`). The code after the call of `build_doc` at
line 322 is never reached, see `release_done` below, and is not modelled.
`dist/doxygen`, which `build_doc` empties before it raises, is left out, as are
credentials, the upload and the printed output.

### AntGlob and LicenseUpdate

A path is a sequence of atoms, a pattern likewise; `Tokens` cuts a pattern as
the alternation `_ANT_RE` does, the first alternative that fits, and `Accepts`
is the regular expression each token becomes. `Fits` is the ant convention in
its own words, name by name; `AntConvention` compares the two, for paths
(`IsPath`) and patterns (`IsPattern`) whose names are `**`, plain, or have one
`*`, which comes first: those of the docstring, of the tests and of the searches
modelled. Other names with a `*` have no form in `Fits`. The pattern `**` alone
is left out: with no slash before it the alternation reads it as two `*`, so
that it matches one name and not any path. The loop over `child_dirs` looks at
an entry once for each way that leads to it: `Ways` are these, sequences of
entries from the root down through directories that are not pruned, and `Tested`
are the entries with the paths they are reached by. `Below` is the reference,
the sources below a directory without any pattern: those in `Reached`, the
smallest set of directories that holds the root and, with each directory, those
in it that are neither version control nor `scons-local`. `SearchExact` compares
the two for each root (`Sought`); a root that lies in a `.git` has nothing to
find. A text is the sequence of its paragraphs, since the updater finds the end
of a license by the next blank line. The truncating open and the write are two
steps, and a stop in the write leaves any prefix. A run that meets a license
without a blank line ends in a ValueError (`licenseupdater.py:32`). `lost`
counts the two ways in which a text may go, a stop in the write and a save of
the file being updated; `BodiesKept` says that nothing else loses any.
`max_depth` is a parameter that `glob` never uses, and the patterns `./build*`,
`./libs` and `./dist` hold a slash and so prune no directory. A link that makes
a directory contain itself would be followed until the system refuses the path;
that is left out, and `Ways` ends where a way has more entries than there are
directories, which no way without a circle has. Of the 25 patterns of
`default_excludes` (`antglob.py:25-50`) the two of `.git` stand for all version
control directories. The patterns of single files are left out: `**/.#*` and
`**/._*` (with `**/#*#`, `**/*~`, `**/%*%`, `.gitignore` and the like, which no
source name ends in) also drop a `.h`, `.cpp` or `.inl` file whose name begins
with `.#` or `._`, so what is said of "every source" is said of trees without
such names. The assumptions are that the tree is finite and the roots lie in it
(`TreeAssumption`), that a name is not empty and holds no slash, as the system
has it (`NamesAssumption`), that a text has at least one paragraph, as a split
always does (`TextsAssumption`), and that the bounds are numbers.

## 3. Runs

| Run | Question | States | Result |
|---|---|---|---|
| `provision` | `FilesHoldAsked`, `BootReadsFiles`, `OnlyJoinedSaved`, `ProvisioningCloses` in every interleaving, with I/O failures and reboots; `BootSettles`: each boot ends connected or with the service open, or one of the two calls that open it failed | 1,254,578 | holds |
| `provision_udp` | "stop ap when oneshot success" (`src/Kconfig:59`) in UDP mode | - | violated |
| `mqtt_client` | the client starts in the end, and only from a whole configuration; presence right through reconnects and reboots | 428 | holds |
| `mqtt_twice` | "may only be called once" (`src/MQTT.h:54`) against the `IsInit` guard | - | violated |
| `hello_echo` | `EchoKeepsMessage`, `NoStorm`, `EchoEnds` | 12,293 | holds |
| `rc_table` | every readable file found under its own name and no other, whole | 75,973 | holds |
| `httpd_fs` | every spelling of a name serves the file under `oneshot/` | 6,953 | holds |
| `flash_part` | two areas of one chip, each a device of its own (`FlashIsDevice`, `ExFlashIsDevice`); `OtherBytesSafe`; `OkMeansReady` after failed registrations | 23,936 | holds |
| `make_release` | `TagsAreReleases` and `OnlyVersionCommitted` through failed, interrupted, forced and retagging runs and a developer at work; nothing lies beside a tag's tree unless `svn list` failed on it | 2,691,783 | holds |
| `release_done` | "Generates the document tarball" (`makerelease.py:260`): a run that nothing disturbs ends without an error | - | violated |
| `release_tags` | "Use --retag to overwrite it!" (`makerelease.py:315`): without it a tag stays | - | violated |
| `license_update` | `BodiesKept`, `DoneMeansLicensed`, `OnlySourcesChange` through stops, repeats and saves; `AntConvention` | 559,779 | holds |

What the violations show:

- `mqtt_twice`: `MQTT_Init` tests a static `IsInit` that nothing sets
  (`src/MQTT.cpp:163`), so a second call starts the one static client a second
  time. `main` calls it once, so the defect is latent.
- `provision_udp`: `main` starts the service (`src/main.cpp:330`) before the AP
  (333). In UDP mode a callback needs no AP: it can succeed and find no AP to
  stop before `main` starts it. The AP then stays up. The AP modes are not
  exposed, since nobody reaches the service before the AP is up; that is what
  `ProvisioningCloses` and the theorem `PortalCloses` establish.

- `release_done`: `makerelease.py:322` calls `build_doc` with options that only
  the command line of `doxybuild.py` defines (`doxybuild.py:133` reads
  `options.doxyfile_input_path`). Every run that gets there raises an
  AttributeError, after the version is committed and the tag made.
- `release_tags`: `svn_check_if_tag_exist` looks for the literal `'tag_url'` in
  the error text (95), so it takes every failure of `svn list` for a tag that is
  not there; `svn copy` then changes the tag that is.

### Bounds and why they are enough

- `Provision`: two networks (one with a passphrase of the longest legal length,
  one open) and two passphrases (one of them too long for the wlan manager) are
  what it takes to have old and new pairs, mixed pairs, stale passphrases and
  both sides of the buffer's limit. Nothing else is bounded: any number of
  callbacks, resets, failures and reboots occur. The theorems drop the bound.
- `MqttClient`: one call of `MQTT_Init` is what `main` makes; two is the
  smallest number that can break `StartedOnce`. Reconnects, takeovers and
  reboots are unbounded.
- `HelloEcho`: two devices, one outsider, two client messages, two replays of
  each. Two devices give every shape of exchange (device to itself, to another,
  through both to an outsider); two messages give overtaking and replacement of
  a retained message. The bounds on replays and messages are `MaxReplays` and
  `MaxSent`.
- `RcTable`: five files with every relation of names that a packed array could
  confuse (prefix, suffix, common directory), an empty file and a file with a
  zero byte, in every order and with every set of unreadable ones. The names
  asked for are the files' and those one character off.
- `HttpdFs`: three resources, eight spellings, two handles, reads shorter and
  longer than any file.
- `FlashPart`: a chip of four blocks of two bytes, one of firmware, two of
  "flash" and one of "exflash", in a word of 32 values; requests lie inside,
  across and past the end of either area (`Reach` 3). Registrations, failures
  and restarts are unbounded. The theorems drop the bounds.
- `MakeRelease`: two versions (a tag that is there and one that is not), two
  edits (`MaxEdits`: one before and one during a run), any number of runs,
  failures and commits; the versions are symmetric.
- `LicenseUpdate`: two sources below two overlapping directories, links to a file
  and to a directory, a third file that only a version control directory and
  a pruned one lead to, and that version control directory as a root; three
  texts (no license, an old one, one without a blank line); one save and one
  stop (`MaxSaves`, `MaxStops`), any number of runs. `BodiesKept` counts the
  losses, so one of each kind is enough to break it. `AntConvention` compares
  every pattern of up to three names with every path of up to four (`MCPatterns`,
  `MCPaths`); the theorem drops both.

### Fairness

- `Provision`, `FairSpec`: weak fairness of `main` and of the callback's thread,
  which the kernel schedules and whose calls return. Nothing is assumed of
  clients, the shell's user, the network or the power; `BootSettles` excludes
  only a device that reboots for ever.
- `MqttClient`, `FairSpec`: each thread runs; paho reconnects while the station
  is connected and calls its callback; the broker handles what arrives and times
  a silent client out. The station's state and breaks of the connection owe
  nothing, so each liveness property names the stability it needs (`<>[]`).
- `HelloEcho`, `FairSpec`: each device handles what it has received.

`FlashPart`, `RcTable`, `HttpdFs`, `MakeRelease` and `LicenseUpdate` are checked
for safety only: the first serves requests, the others end when their user or
an error ends them.

## 4. Proofs

`ProvisionProofs` proves, for every set of networks, passphrases and lengths:
`TypeCorrect`, `SavedPairLasts`, `OnlyProvenCredentials`, `BootReplays`,
`ServiceStops` and, outside UDP mode, `PortalCloses`. The assumptions are those
named in `Provision`: the sentinels differ from all data (`SentinelsDiffer`), the
options have legal values, and `BufferOK`, that the passphrase limit does not
exceed the SSID limit by which the buffer is sized (both are 32 in `rtconfig.h`);
`BootReplays` fails without it.

The properties are not inductive. `IInv` adds to them:

- `CallInv`: what the callback's arguments are at each of its steps;
- `ServiceInv`: a running service or callback means that `main` is past the
  start of the service, and in the AP modes past the start of the AP. This is
  what separates the AP modes from UDP mode;
- `ClosedInv`, `ApInv`: from `wm_oneshot_stop` (and `rt_wlan_ap_stop`) on, the
  service (and the AP) is already off, not just when the callback has ended;
- `HalfInv`: what was asked is what the running save or reset goes on to write;
  until a call fails its first file is finished before its second is touched; a
  save and a reset that run together are `Overlapped`;
- `PairInv`: what a change without a mishap asks for is no files or a pair that
  joined;
- `JoinedInv`: a callback past its join is in `joined`, and joined passphrases
  have legal length (what `Buffered` needs);
- `ReplayInv`: the half of the pair a boot has read is what its file held, and
  no reset has begun since.

Each conjunct has a lemma for its step; the `*Step` lemmas meet in `Invariance`.
`SavedPairLasts` is inductive with `HalfInv`; its steps are proved field by
field (`AskedInv`), and `TornFields` puts the fields together. `BootReplays`
follows from it, `ReplayInv`, `PairInv` and, for the buffer, `JoinedInv`.

`FlashPartProofs` proves for every word size, chip, block size, layout and reach
that `ChipOK`, `AreasOK` and `ReachOK` allow: `FlashTypeCorrect`, `ReadyWhenOk`,
`BytesOutsideSafe`, `FlashImplements`, `ExFlashImplements`. The heart is
arithmetic: under the assumptions no sum wraps, the divisions by the block size
are exact, and so the test at `main.cpp:36` is the test of the abstract device.
Both refinements rest on `ReadMaps` and `PutMaps`, about a request to the area,
and `OtherMaps`, about a request to the other one.

`MqttProofs` proves `ClientTypeCorrect`, `OneStart`, `WholeConfiguration` and
`WillsBury` for one caller of `MQTT_Init`, as `main` is (with two, `OneStart`
fails, run `mqtt_twice`), and any number of reconnects, takeovers and reboots.
`CfgInv` says how much of the configuration is there at each point of the
thread, `StartInv` ties the count of starts to it, and `WillInv` says that a
session has a will and a keepalive, which follows from a client that was filled
from a whole configuration.

`HelloProofs` proves `EchoTypeCorrect` and `EchoAltersNothing` for any devices,
topics and numbers of messages and replays. `EchoIn` is what each message in a
box (`BoxOK`) or in the retained store (`StoreOK`) owes to the client message it
comes from; `AnswerRotates` shows that the answer to a rotation of a topic is
again a rotation of that topic. `EchoNoStorm`, for any finite set of devices,
counts: taking a message from a box and putting its answer into another leaves
the number of copies as it is. `StormInv` bounds them by one and one more for
each time the broker played the message to a subscriber, and knows that a
device that is not subscribed holds none, so that a new subscription adds just
what the broker plays to it.

`RcProofs` proves `TableTypeCorrect`, `TableServes` and `TextsWhole` for every
finite tree of files, every order of the listing and every set of readable ones,
on the assumptions that names and contents are sequences (`TreeOK`), names are
not empty and hold no zero (`CStrings`). The invariant says of some map from
entries to listed files (`FromOK`) that it is increasing and meets exactly the
readable files the first walk has passed; of the entries that their name
offsets chain (`OffsetInv`) and their bytes are in place (`DataAt`); and of the
second walk that what it has written ends where the chain says (`NamesInv`).
From that, `Matches` shows that the comparison in `RC.c` holds exactly for equal
names, though it walks a packed array.

`RcProofs` also proves `HandleTypeCorrect` and `OneshotServed` on top of that, for
every name the server asks for, any number of handles and any table `fsgen` has
written. `RcNameIs` is about the loop: whatever slashes the name has, its result
is the directory followed by the name with each run of slashes reduced to one.
It is an induction over the rounds, done with `NatSetInduction`, which states
induction over the natural numbers for a set, since the library's form takes an
operator; the invariant of the loop is that what is built so far picks, in order,
the places that do not repeat a slash. `FsInv` says of each handle that it holds
what the lookups answer for its name, which `TableServes` relates to the files.

`MakeReleaseProofs` proves `ReleaseTypeCorrect`, `TagsHoldReleases` and
`CommitsVersionOnly` for any versions and any number of edits. `SandboxInv`:
from the version's change on the sandbox has the version of the run, and from
the commit on its content is one the trunk has been, or the developer has
edited; a tag that is about to be copied into was misread; `PendingInv`: between
the check and the commit only the version may differ.

`AntGlobProofs` proves `ConventionHolds`: whatever their lengths, a pattern
compiles to a regular expression that matches a path exactly when the pattern
fits it name by name. `TokensIs` and `MatchesIs` turn the two loops of the
matcher into equations. `JoinedIs` lays the names of a pattern or a path out at
places in the joined text, and `TokenAtIs` says which token of the alternation
is read at each place: a `**` takes the slashes next to it, and one with no
slash on either side is two `*`, which is why `**` alone is another pattern.
`PatternWalks` turns a match into a walk over the pattern's names, each with the
places of the path at which what follows it may begin; `FitsIs` does the same
for the convention, with names instead of places. `PlainTaken` and `StarTaken`
say what of a path a name of the pattern takes, and the step lemmas (`NameStep`,
`DeepStep`, `LastStep` from names to places, `NameStop`, `DeepStop`, `LastStop`
back) that a name keeps the two walks together. `KnownLast`, `KnownStep` and
`KnownFirst` are the induction, from the last name of the pattern to the first.

`LicenseProofs` proves, for every tree, every list of roots and texts and any
number of saves and stops, `TypeCorrect`, `NothingElseLost`, `ConventionKept`,
`DoneLicensed` and `SourcesAlone`. `ConventionAssumption` says that `Patterns`
and `Paths`, which only `AntConvention` looks at, are in the form of the
convention. The last three rest on `SearchFinds`, which is `SearchExact` for
every tree: from the equations of the matcher follow the tokens of the patterns
the updater uses and what they match (`SourceMatches`, `GitMatches`,
`PrunedIs`). `PathIs`, an induction over the levels of a path, says that it ends
like the entry's name and lies in a `.git` just when the root does or a name on
the way is one, so that `FoundIs` can state what is found without patterns. What
such a way ends in is reached (`WalksReached`), and what is reached is so by a
way that meets no directory twice (`SimplyClosed`), which is no longer than
there are directories (`SimpleShort`, an injection into them). Inductions over
numbers are done with `NatSetInduction`, as above. `RunInv` and `TextInv` say
how the run's variables fit together and that the text to be written begins with
the brief license and goes on. `BodyInv` bounds the files whose text is no
longer the developer's by `lost`; a file whose update is under way counts by
what will be written to it, so that a save in between is paid for when it is
lost and not when the write happens. `LicensedInv` is the loop invariant behind
"Done": a source below the run's directories is licensed, or saved since, or
still below a directory to search, or still in the list, or the one at hand.

## 5. What is only model-checked

- All liveness (`BootSettles`, `Starts`, `OnlineShown`, `OfflineShown`,
  `EchoEnds`), which is out of the prover's reach. Every safety property of the
  passing runs, invariant or action property, is a theorem.
- The four disagreements of section 3, which are traces.

## 6. Plan

Done: `Provision`, `MqttClient`, `HelloEcho`, `RcTable`, `HttpdFs`, `FlashPart`,
`MakeRelease`, `LicenseUpdate`, the abstract `MtdDevice`, and the proofs of
section 4.

A composition of `Provision` and `MqttClient` over one station was planned and is
dropped: the station of `MqttClient` comes and goes freely, which includes every
behaviour of the one in `Provision`, and nothing flows back.

Left, in this order:

1. Memory that runs out in `httpd_fs_for_rc.c`, and files whose readability
   changes between the two walks of `fsgen`.
2. `Bootstrap`, the order of the setup script, if a document comes to say what a
   rerun after a failure owes.

## 7. Not modelled

- The kernel, wlan manager, littlefs, paho and the oneshot service live in a
  submodule that is not in the tree; each is modelled from how `src/` uses it.
- jsoncpp's library is vendored and not called by the application.
- jsoncpp's other tools (`batchbuild.py`, `amalgamate.py`, `tarball.py`,
  `fixeol.py`, `scons-tools`) run commands or copy files in a straight line. The
  firmware's build uses none of them, and `makerelease.py` calls those it imports
  only after line 322. (Its own comment, line 20, calls the script defunct; the
  model says how it behaves where it is run.)
- `tools` holds third-party binaries and `get-pip.py`; `rc/RC_fs.c` is generated
  data. Of the 25,825 lines of Python in the tree 23,974 are `get-pip.py`,
  nearly all of it one encoded archive, so the share of Python lines the map
  covers is small by nature; the firmware is C and C++, and the map covers most
  of its own code (`src/src`, `src/rc`).
- Errors of the SDK's flash routines, which the driver ignores.
- Exhaustion of memory: results of `malloc` are not tested by the code, and a
  failure ends in a hard fault, which `Reboot` covers in `Provision` only.
- Payloads, the formatting of the MAC address, printing and the banner's text.
