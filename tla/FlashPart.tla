------------------------------ MODULE FlashPart ------------------------------
(***************************************************************************)
(* The flash partition driver (src/src/main.cpp:28-109): two areas of one  *)
(* flash chip are registered as the devices "flash" and "exflash", and     *)
(* requests to a device become requests to the chip.                       *)
(*                                                                         *)
(* rt_off_t, rt_uint32_t and unsigned int have 32 bits on this target, so  *)
(* every sum and product is taken modulo W, which stands for 2^32.         *)
(***************************************************************************)
EXTENDS Integers

CONSTANTS
  W,          \* the values of a machine word
  ChipAddr,   \* wm_flash_addr(), where the chip is mapped
  ChipLen,    \* bytes of the chip
  BlkSize,    \* wm_flash_blksize()
  AreaStart,  \* USER_ADDR_START, EX_USER_ADDR_START; 0: no such area
  AreaLen,    \* USER_AREA_LEN, EX_USER_AREA_LEN
  Data,       \* what a byte can hold
  Erased,     \* an erased byte
  Reach       \* requests are not larger

Devs == {"flash", "exflash"}

Configured(d) == AreaStart[d] # 0 /\ AreaLen[d] # 0

(* The chip is mapped below the end of the address space.                   *)
ASSUME ChipOK ==
  /\ W \in Nat /\ ChipAddr \in Nat /\ ChipLen \in Nat /\ BlkSize \in Nat \ {0}
  /\ ChipAddr + ChipLen < W
  /\ Erased \in Data

(* The SDK's areas are whole blocks of the chip that share no byte.         *)
ASSUME AreasOK ==
  /\ AreaStart \in [Devs -> Nat] /\ AreaLen \in [Devs -> Nat]
  /\ \A d \in Devs : Configured(d) =>
       /\ ChipAddr <= AreaStart[d]
       /\ AreaStart[d] + AreaLen[d] <= ChipAddr + ChipLen
       /\ (AreaStart[d] - ChipAddr) % BlkSize = 0
       /\ (AreaStart[d] - ChipAddr + AreaLen[d]) % BlkSize = 0
  /\ \A d, e \in Devs : Configured(d) /\ Configured(e) /\ d # e =>
       \/ AreaStart[d] + AreaLen[d] <= AreaStart[e]
       \/ AreaStart[e] + AreaLen[e] <= AreaStart[d]

(* No caller asks for so much that the sum of an offset in the chip, the   *)
(* offset and the length of the request wraps around.                      *)
ASSUME ReachOK == Reach \in Nat /\ ChipLen + Reach + Reach < W

VARIABLES
  pc,         \* where _flashdev_init is
  registered, \* the devices the kernel knows
  chip,       \* [0 .. ChipLen - 1 -> Data]
  reply       \* the last request, its device and its answer

vars == <<pc, registered, chip, reply>>

Silent == [status |-> "none"]
Refused(offset, length) == [status |-> "refused", offset |-> offset, length |-> length]
Done(offset, length) == [status |-> "done", offset |-> offset, length |-> length]
Bytes(offset, length, b) ==
  [status |-> "read", offset |-> offset, length |-> length, bytes |-> b]

TypeOK ==
  /\ pc \in Devs \cup {"RT_EOK", "RT_ERROR", "fault"}
  /\ registered \in SUBSET Devs
  /\ "flash" \in registered => pc # "flash"
  /\ "exflash" \in registered => pc = "RT_EOK"
  /\ chip \in [0 .. ChipLen - 1 -> Data]
  /\ reply.dev \in Devs

Init ==
  /\ pc = "flash" /\ registered = {}
  /\ chip \in [0 .. ChipLen - 1 -> Data]
  /\ reply = [dev |-> "flash", answer |-> Silent]

-----------------------------------------------------------------------------
(* _flashdev_init.                                                          *)

(* Mutant: the second area is registered again and again.                   *)
AfterAgain(d) == "exflash"

After(d) == IF d = "flash" THEN "exflash" ELSE "RT_EOK"

(* Mutant: a registration that failed is gone over.                         *)
RegisterIgnored(d) ==
  /\ pc = d
  /\ \/ pc' = After(d) /\ UNCHANGED registered
     \/ Configured(d) /\ pc' = After(d) /\ registered' = registered \cup {d}
  /\ UNCHANGED <<chip, reply>>

(* An area is skipped or registered.  rt_malloc is not tested: without     *)
(* memory the memset of the null pointer faults.                           *)
RegisterDevice(d) ==
  /\ pc = d
  /\ \/ ~Configured(d) /\ pc' = After(d) /\ UNCHANGED registered
     \/ Configured(d) /\ pc' = After(d) /\ registered' = registered \cup {d}
     \/ Configured(d) /\ pc' \in {"RT_ERROR", "fault"} /\ UNCHANGED registered
  /\ UNCHANGED <<chip, reply>>

Restart ==
  /\ pc' = "flash" /\ registered' = {}
  /\ reply' = [dev |-> "flash", answer |-> Silent]
  /\ UNCHANGED chip

(* The two members of struct rt_mtd_nor_device.                             *)
block_start(d) == ((AreaStart[d] - ChipAddr) % W) \div BlkSize

(* Mutant: the area's length alone.                                         *)
block_end_of_length(d) == AreaLen[d] \div BlkSize

block_end(d) == ((AreaLen[d] + AreaStart[d] - ChipAddr) % W) \div BlkSize

-----------------------------------------------------------------------------
(* _read, _write and _erase_block.                                          *)

(* Mutant: the start of the partition is not added.                         *)
dev_offset_of_chip(d, offset) == offset

dev_offset(d, offset) == (offset + block_start(d) * BlkSize) % W

(* Mutant: the length is not part of the test.                              *)
PastEndAtOffset(d, offset, length) ==
  dev_offset(d, offset) > (block_end(d) * BlkSize) % W

PastEnd(d, offset, length) ==
  (dev_offset(d, offset) + length) % W > (block_end(d) * BlkSize) % W

Answer(d, a) == reply' = [dev |-> d, answer |-> a]

ReadFlash(d, offset, length) ==
  /\ d \in registered
  /\ IF PastEnd(d, offset, length) THEN Answer(d, Refused(offset, length))
     ELSE Answer(d, Bytes(offset, length,
                [i \in 1 .. length |-> chip[dev_offset(d, offset) + i - 1]]))
  /\ UNCHANGED <<pc, registered, chip>>

(* The chip's own write and erase of a range.                               *)
Put(d, offset, length, x) ==
  /\ d \in registered
  /\ IF PastEnd(d, offset, length) THEN Answer(d, Refused(offset, length)) /\ UNCHANGED chip
     ELSE /\ chip' = [a \in 0 .. ChipLen - 1 |->
                        IF dev_offset(d, offset) <= a /\ a < dev_offset(d, offset) + length
                        THEN x ELSE chip[a]]
          /\ Answer(d, Done(offset, length))
  /\ UNCHANGED <<pc, registered>>

WriteFlash(d, offset, length, x) == x \in Data /\ Put(d, offset, length, x)

EraseFlash(d, offset, length) ==
  /\ offset % BlkSize = 0 /\ length % BlkSize = 0
  /\ Put(d, offset, length, Erased)

Request(d) ==
  \E offset \in 0 .. Reach, length \in 1 .. Reach :
    \/ ReadFlash(d, offset, length)
    \/ \E x \in Data : WriteFlash(d, offset, length, x)
    \/ EraseFlash(d, offset, length)

Next ==
  \/ \E d \in Devs : RegisterDevice(d) \/ Request(d)
  \/ Restart

Spec == Init /\ [][Next]_vars

-----------------------------------------------------------------------------
(* Properties.                                                              *)

(* main mounts a device only when _flashdev_init has returned RT_EOK: then *)
(* every area of the chip has its device, whichever registrations failed   *)
(* or ran out of memory before.                                            *)
OkMeansReady == pc = "RT_EOK" => registered = {d \in Devs : Configured(d)}

Area(d)  == {a \in 0 .. ChipLen - 1 :
               Configured(d) /\ AreaStart[d] <= ChipAddr + a
                             /\ ChipAddr + a < AreaStart[d] + AreaLen[d]}
Size(d)  == IF Configured(d) THEN AreaLen[d] ELSE 0
Cells(d) == [i \in 0 .. Size(d) - 1 |-> chip[AreaStart[d] - ChipAddr + i]]
To(d)    == IF reply.dev = d THEN reply.answer ELSE Silent

(* Only a request to a registered device changes the chip, and only in the *)
(* bytes of that device's area: the firmware image, the SDK's parameters   *)
(* and the other partition are never touched.                              *)
OtherBytesSafe ==
  [][\A a \in 0 .. ChipLen - 1 : chip'[a] # chip[a] =>
       \E d \in registered : a \in Area(d) /\ reply'.dev = d]_vars

(* To its file system each partition is a device of its own: it serves     *)
(* every request that lies inside, refuses every other, reads back what    *)
(* was written through it last, and nothing done to the other partition    *)
(* shows, through restarts and partly failed registrations.                *)
FlashDevice == INSTANCE MtdDevice WITH
  Capacity <- Size("flash"), open <- "flash" \in registered,
  mem <- Cells("flash"), reply <- To("flash")

ExFlashDevice == INSTANCE MtdDevice WITH
  Capacity <- Size("exflash"), open <- "exflash" \in registered,
  mem <- Cells("exflash"), reply <- To("exflash")

FlashIsDevice   == FlashDevice!Spec
ExFlashIsDevice == ExFlashDevice!Spec

=============================================================================
