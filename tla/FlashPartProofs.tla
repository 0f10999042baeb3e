--------------------------- MODULE FlashPartProofs ---------------------------
(***************************************************************************)
(* Proofs about FlashPart for every word size, chip, block size and layout *)
(* of the two areas.  Everything rests on BoundsExact: under the           *)
(* assumptions on the layout the modular arithmetic of the driver is the   *)
(* plain arithmetic of the areas.                                          *)
(***************************************************************************)
EXTENDS FlashPart, TLAPS

Base(d) == AreaStart[d] - ChipAddr

-----------------------------------------------------------------------------
(* A multiple of the block size survives the division and the product.     *)
LEMMA WholeBlocks ==
  ASSUME NEW a \in Nat, NEW b \in Nat \ {0}, a % b = 0
  PROVE  (a \div b) * b = a
<1>1. a = b * (a \div b) + (a % b)
      BY SMT
<1>2. (a \div b) \in Int
      BY SMT
<1>3. b * (a \div b) = (a \div b) * b
      BY <1>2, SMT
<1>4. QED BY <1>1, <1>2, <1>3, SMT

(* A sum that stays below the word size does not wrap.                     *)
LEMMA NoWrap ==
  ASSUME NEW a \in Nat, NEW w \in Nat, a < w
  PROVE  a % w = a
BY SMT

LEMMA AreaBounds ==
  ASSUME NEW d \in Devs, Configured(d)
  PROVE  /\ Base(d) \in Nat /\ AreaLen[d] \in Nat
         /\ Base(d) + AreaLen[d] <= ChipLen
         /\ Base(d) % BlkSize = 0 /\ (Base(d) + AreaLen[d]) % BlkSize = 0
         /\ AreaLen[d] + AreaStart[d] - ChipAddr = Base(d) + AreaLen[d]
BY ChipOK, AreasOK DEF Base

LEMMA BlockBounds ==
  ASSUME NEW d \in Devs, Configured(d)
  PROVE  /\ block_start(d) * BlkSize = Base(d)
         /\ block_end(d) * BlkSize = Base(d) + AreaLen[d]
<1>1. Base(d) \in Nat /\ AreaLen[d] \in Nat /\ Base(d) + AreaLen[d] < W /\ W \in Nat
      BY AreaBounds, ChipOK
<1>2. Base(d) % W = Base(d) /\ (Base(d) + AreaLen[d]) % W = Base(d) + AreaLen[d]
      BY <1>1, NoWrap
<1>3. /\ block_start(d) = Base(d) \div BlkSize
      /\ block_end(d) = (Base(d) + AreaLen[d]) \div BlkSize
      BY <1>2, AreaBounds DEF block_start, block_end, Base
<1>4. (Base(d) \div BlkSize) * BlkSize = Base(d)
      BY <1>1, AreaBounds, ChipOK, WholeBlocks
<1>5. Base(d) + AreaLen[d] \in Nat
      BY <1>1
<1>6. ((Base(d) + AreaLen[d]) \div BlkSize) * BlkSize = Base(d) + AreaLen[d]
      BY <1>5, AreaBounds, ChipOK, WholeBlocks
<1>7. QED BY <1>3, <1>4, <1>6

(* Where a request goes and whether it is let through.                     *)
LEMMA BoundsExact ==
  ASSUME NEW d \in Devs, Configured(d),
         NEW offset \in 0 .. Reach, NEW length \in 1 .. Reach
  PROVE  /\ dev_offset(d, offset) = Base(d) + offset
         /\ PastEnd(d, offset, length) <=> offset + length > AreaLen[d]
<1>1. /\ Base(d) \in Nat /\ AreaLen[d] \in Nat /\ W \in Nat
      /\ Base(d) + AreaLen[d] <= ChipLen /\ ChipLen \in Nat
      BY AreaBounds, ChipOK
<1>2. /\ offset + Base(d) < W /\ offset + Base(d) + length < W
      /\ Base(d) + AreaLen[d] < W
      BY <1>1, ReachOK, ChipOK
<1>3. dev_offset(d, offset) = offset + Base(d)
      BY <1>1, <1>2, NoWrap, BlockBounds DEF dev_offset
<1>4. (dev_offset(d, offset) + length) % W = offset + Base(d) + length
  <2>1. offset + Base(d) + length \in Nat
        BY <1>1
  <2>2. QED BY <1>1, <1>2, <1>3, <2>1, NoWrap
<1>5. (block_end(d) * BlkSize) % W = Base(d) + AreaLen[d]
      BY <1>1, <1>2, NoWrap, BlockBounds
<1>6. QED BY <1>1, <1>3, <1>4, <1>5 DEF PastEnd

-----------------------------------------------------------------------------
(* What is registered, and when.                                            *)
RegInv ==
  /\ TypeOK
  /\ registered \subseteq {d \in Devs : Configured(d)}
  /\ pc \in {"exflash", "RT_EOK"} /\ Configured("flash") => "flash" \in registered
  /\ pc = "RT_EOK" /\ Configured("exflash") => "exflash" \in registered

(* What a request may write, for the chip's type and for the areas.        *)
LEMMA RequestEffect ==
  ASSUME NEW d \in Devs, Request(d), TypeOK, Configured(d)
  PROVE  /\ d \in registered /\ UNCHANGED <<pc, registered>>
         /\ chip' \in [0 .. ChipLen - 1 -> Data]
         /\ reply'.dev = d
         /\ \A a \in 0 .. ChipLen - 1 : chip'[a] # chip[a] => a \in Area(d)
<1>1. PICK offset \in 0 .. Reach, length \in 1 .. Reach :
        \/ ReadFlash(d, offset, length)
        \/ \E x \in Data : Put(d, offset, length, x)
      BY ChipOK DEF Request, WriteFlash, EraseFlash
<1>2. CASE ReadFlash(d, offset, length)
      BY <1>2 DEF ReadFlash, Answer, TypeOK
<1>3. ASSUME NEW x \in Data, Put(d, offset, length, x)
      PROVE  /\ d \in registered /\ UNCHANGED <<pc, registered>>
             /\ chip' \in [0 .. ChipLen - 1 -> Data]
             /\ reply'.dev = d
             /\ \A a \in 0 .. ChipLen - 1 : chip'[a] # chip[a] => a \in Area(d)
  <2>1. d \in registered /\ UNCHANGED <<pc, registered>> /\ reply'.dev = d
        BY <1>3 DEF Put, Answer
  <2>2. CASE PastEnd(d, offset, length)
        BY <1>3, <2>1, <2>2 DEF Put, TypeOK
  <2>3. CASE ~PastEnd(d, offset, length)
    <3>1. chip' = [a \in 0 .. ChipLen - 1 |->
                     IF Base(d) + offset <= a /\ a < Base(d) + offset + length
                     THEN x ELSE chip[a]]
          BY <1>3, <2>3, BoundsExact DEF Put
    <3>2. offset + length <= AreaLen[d]
          BY <2>3, BoundsExact, AreaBounds
    <3>3. chip' \in [0 .. ChipLen - 1 -> Data]
          BY <3>1 DEF TypeOK
    <3>4. ASSUME NEW a \in 0 .. ChipLen - 1, chip'[a] # chip[a]
          PROVE  a \in Area(d)
      <4>1. Base(d) + offset <= a /\ a < Base(d) + offset + length
            BY <3>1, <3>4
      <4>2. Base(d) <= a /\ a < Base(d) + AreaLen[d]
            BY <3>2, <4>1, AreaBounds
      <4>3. QED BY <4>2, AreasOK, ChipOK DEF Area, Base
    <3>5. QED BY <2>1, <3>3, <3>4
  <2>4. QED BY <2>2, <2>3
<1>4. QED BY <1>1, <1>2, <1>3

LEMMA RegInit == Init => RegInv
BY DEF Init, RegInv, TypeOK, Devs

LEMMA RegStep == RegInv /\ [Next]_vars => RegInv'
<1> SUFFICES ASSUME RegInv, [Next]_vars PROVE RegInv'
    OBVIOUS
<1> USE DEF RegInv
<1>1. ASSUME NEW d \in Devs, RegisterDevice(d)
      PROVE  RegInv'
      BY <1>1 DEF RegisterDevice, After, TypeOK, Devs, Configured
<1>2. ASSUME NEW d \in Devs, Request(d)
      PROVE  RegInv'
  <2>1. d \in registered
        BY <1>2 DEF Request, ReadFlash, WriteFlash, EraseFlash, Put
  <2>2. Configured(d)
        BY <2>1
  <2>3. /\ UNCHANGED <<pc, registered>> /\ reply'.dev = d
        /\ chip' \in [0 .. ChipLen - 1 -> Data]
        BY <1>2, <2>2, RequestEffect
  <2>4. QED BY <2>3 DEF TypeOK, Configured
<1>3. CASE Restart
      BY <1>3 DEF Restart, TypeOK, Devs
<1>4. CASE UNCHANGED vars
      BY <1>4 DEF vars, TypeOK, Configured
<1>5. QED BY <1>1, <1>2, <1>3, <1>4 DEF Next

LEMMA RegInvariance == Spec => []RegInv
BY RegInit, RegStep, PTL DEF Spec

(* The types of the driver's state, for every chip and layout.             *)
THEOREM FlashTypeCorrect == Spec => []TypeOK
BY RegInvariance, PTL DEF RegInv

(* When _flashdev_init reports RT_EOK, every configured area has a device. *)
THEOREM ReadyWhenOk == Spec => []OkMeansReady
<1>1. RegInv => OkMeansReady
      BY DEF RegInv, OkMeansReady, Devs
<1>2. QED BY <1>1, RegInvariance, PTL

(* No request through a device changes a byte outside its area, for every  *)
(* word size, chip and layout the assumptions allow.                       *)
THEOREM BytesOutsideSafe == Spec => OtherBytesSafe
<1>1. RegInv /\ [Next]_vars =>
        [\A a \in 0 .. ChipLen - 1 : chip'[a] # chip[a] =>
           \E d \in registered : a \in Area(d) /\ reply'.dev = d]_vars
  <2> SUFFICES ASSUME RegInv, Next,
                      NEW a \in 0 .. ChipLen - 1, chip'[a] # chip[a]
               PROVE  \E d \in registered : a \in Area(d) /\ reply'.dev = d
      BY DEF vars
  <2>1. PICK d \in Devs : Request(d)
        BY DEF Next, RegisterDevice, Restart
  <2>2. d \in registered
        BY <2>1 DEF Request, ReadFlash, WriteFlash, EraseFlash, Put
  <2>3. Configured(d)
        BY <2>2 DEF RegInv
  <2>4. QED BY <2>1, <2>2, <2>3, RequestEffect DEF RegInv
<1>2. QED BY <1>1, RegInvariance, PTL DEF Spec, OtherBytesSafe

-----------------------------------------------------------------------------
(* The refinement.  What a request does to the device it names ...         *)
LEMMA ReadMaps ==
  ASSUME NEW d \in Devs, RegInv,
         NEW offset \in 0 .. Reach, NEW length \in 1 .. Reach,
         ReadFlash(d, offset, length)
  PROVE  /\ To(d)' = IF offset + length <= Size(d)
                     THEN Bytes(offset, length,
                            [i \in 1 .. length |-> Cells(d)[offset + i - 1]])
                     ELSE Refused(offset, length)
         /\ UNCHANGED <<registered, Cells(d)>>
<1>1. d \in registered /\ UNCHANGED <<registered, chip>>
      BY DEF ReadFlash
<1>2. Configured(d) /\ UNCHANGED Cells(d)
      BY <1>1 DEF RegInv, Cells
<1>3. PastEnd(d, offset, length) <=> ~(offset + length <= Size(d))
      BY <1>2, BoundsExact, AreaBounds DEF Size
<1>4. CASE PastEnd(d, offset, length)
      BY <1>1, <1>2, <1>3, <1>4 DEF ReadFlash, Answer, To
<1>5. CASE ~PastEnd(d, offset, length)
  <2>1. ASSUME NEW i \in 1 .. length
        PROVE  chip[dev_offset(d, offset) + i - 1] = Cells(d)[offset + i - 1]
    <3>1. offset + i - 1 \in 0 .. Size(d) - 1
          BY <1>2, <1>3, <1>5, AreaBounds DEF Size
    <3>2. dev_offset(d, offset) + i - 1 = Base(d) + (offset + i - 1)
          BY <1>2, BoundsExact, AreaBounds
    <3>3. QED BY <3>1, <3>2 DEF Cells, Base
  <2>2. [i \in 1 .. length |-> chip[dev_offset(d, offset) + i - 1]]
          = [i \in 1 .. length |-> Cells(d)[offset + i - 1]]
        BY <2>1
  <2>3. To(d)' = Bytes(offset, length,
                   [i \in 1 .. length |-> chip[dev_offset(d, offset) + i - 1]])
        BY <1>5 DEF ReadFlash, Answer, To
  <2>4. To(d)' = Bytes(offset, length,
                   [i \in 1 .. length |-> Cells(d)[offset + i - 1]])
        BY <2>2, <2>3
  <2>5. QED BY <1>1, <1>2, <1>3, <1>5, <2>4
<1>6. QED BY <1>4, <1>5

LEMMA PutMaps ==
  ASSUME NEW d \in Devs, RegInv, NEW x \in Data,
         NEW offset \in 0 .. Reach, NEW length \in 1 .. Reach,
         Put(d, offset, length, x)
  PROVE  /\ UNCHANGED registered
         /\ IF offset + length <= Size(d)
            THEN /\ To(d)' = Done(offset, length)
                 /\ Cells(d)' = [i \in 0 .. Size(d) - 1 |->
                                  IF offset <= i /\ i < offset + length
                                  THEN x ELSE Cells(d)[i]]
            ELSE To(d)' = Refused(offset, length) /\ UNCHANGED Cells(d)
<1>1. d \in registered /\ UNCHANGED registered
      BY DEF Put
<1>2. Configured(d)
      BY <1>1 DEF RegInv
<1>3. PastEnd(d, offset, length) <=> ~(offset + length <= Size(d))
      BY <1>2, BoundsExact, AreaBounds DEF Size
<1>4. CASE PastEnd(d, offset, length)
      BY <1>1, <1>3, <1>4 DEF Put, Answer, To, Cells
<1>5. CASE ~PastEnd(d, offset, length)
  <2>1. /\ To(d)' = Done(offset, length)
        /\ chip' = [a \in 0 .. ChipLen - 1 |->
                     IF Base(d) + offset <= a /\ a < Base(d) + offset + length
                     THEN x ELSE chip[a]]
        BY <1>2, <1>5, BoundsExact DEF Put, Answer, To
  <2>2. ASSUME NEW i \in 0 .. Size(d) - 1
        PROVE  chip'[Base(d) + i] = IF offset <= i /\ i < offset + length
                                    THEN x ELSE Cells(d)[i]
    <3>1. Base(d) + i \in 0 .. ChipLen - 1
          BY <1>2, AreaBounds, ChipOK DEF Size
    <3>2. Cells(d)[i] = chip[Base(d) + i]
          BY DEF Cells, Base
    <3>3. (Base(d) + offset <= Base(d) + i /\ Base(d) + i < Base(d) + offset + length)
            <=> (offset <= i /\ i < offset + length)
          BY <1>2, AreaBounds
    <3>4. QED BY <2>1, <3>1, <3>2, <3>3
  <2>3. Cells(d)' = [i \in 0 .. Size(d) - 1 |->
                      IF offset <= i /\ i < offset + length THEN x ELSE Cells(d)[i]]
        BY <2>2 DEF Cells, Base
  <2>4. QED BY <1>1, <1>3, <1>5, <2>1, <2>3
<1>6. QED BY <1>4, <1>5

(* ... and to the other: nothing it can see.                                *)
LEMMA OtherMaps ==
  ASSUME NEW d \in Devs, NEW e \in Devs, e # d, RegInv, Request(e)
  PROVE  To(d)' = Silent /\ UNCHANGED <<registered, Cells(d)>>
<1>1. e \in registered
      BY DEF Request, ReadFlash, WriteFlash, EraseFlash, Put
<1>2. Configured(e)
      BY <1>1 DEF RegInv
<1>3. /\ UNCHANGED registered /\ reply'.dev = e
      /\ \A a \in 0 .. ChipLen - 1 : chip'[a] # chip[a] => a \in Area(e)
      BY <1>2, RequestEffect DEF RegInv
<1>4. ASSUME NEW i \in 0 .. Size(d) - 1
      PROVE  chip'[Base(d) + i] = chip[Base(d) + i]
  <2>1. Configured(d) /\ i \in 0 .. AreaLen[d] - 1
        BY <1>4 DEF Size
  <2>2. Base(d) + i \in 0 .. ChipLen - 1
        BY <2>1, AreaBounds, ChipOK
  <2>3. Base(d) + i \notin Area(e)
        BY <1>2, <2>1, AreasOK, ChipOK DEF Area, Base
  <2>4. QED BY <1>3, <2>2, <2>3
<1>5. UNCHANGED Cells(d)
      BY <1>4 DEF Cells, Base
<1>6. QED BY <1>3, <1>5 DEF To

LEMMA CellsType ==
  ASSUME NEW d \in Devs, chip \in [0 .. ChipLen - 1 -> Data]
  PROVE  Cells(d) \in [0 .. Size(d) - 1 -> Data]
<1>1. ASSUME NEW i \in 0 .. Size(d) - 1
      PROVE  chip[AreaStart[d] - ChipAddr + i] \in Data
  <2>1. Configured(d)
        BY <1>1 DEF Size
  <2>2. AreaStart[d] - ChipAddr + i \in 0 .. ChipLen - 1
        BY <1>1, <2>1, AreaBounds, ChipOK DEF Size, Base
  <2>3. QED BY <2>2
<1>2. QED BY <1>1 DEF Cells

(* The device "flash" is a device of its own, for every layout.             *)
THEOREM FlashImplements == Spec => FlashIsDevice
<1> USE DEF FlashDevice!Silent, Silent
<1>1. RegInv /\ Init => FlashDevice!Init
      BY CellsType DEF RegInv, TypeOK, Init, FlashDevice!Init, To, Devs
<1>2. RegInv /\ [Next]_vars => [FlashDevice!Next]_FlashDevice!mtd
  <2> SUFFICES ASSUME RegInv, [Next]_vars
               PROVE  [FlashDevice!Next]_FlashDevice!mtd
      OBVIOUS
  <2> USE DEF FlashDevice!mtd, FlashDevice!Next
  <2>1. ASSUME NEW d \in Devs, RegisterDevice(d)
        PROVE  [FlashDevice!Next]_FlashDevice!mtd
    <3>1. UNCHANGED <<Cells("flash"), To("flash")>>
          BY <2>1 DEF RegisterDevice, Cells, To
    <3>2. \/ ("flash" \in registered)' = ("flash" \in registered)
          \/ "flash" \notin registered /\ "flash" \in registered'
          BY <2>1 DEF RegisterDevice
    <3>3. QED BY <3>1, <3>2 DEF FlashDevice!Register
  <2>2. ASSUME NEW offset \in 0 .. Reach, NEW length \in 1 .. Reach,
               ReadFlash("flash", offset, length)
        PROVE  [FlashDevice!Next]_FlashDevice!mtd
    <3>1. "flash" \in registered
          BY <2>2 DEF ReadFlash
    <3>2. /\ UNCHANGED <<registered, Cells("flash")>>
          /\ To("flash")' = IF offset + length <= Size("flash")
                            THEN Bytes(offset, length,
                                   [i \in 1 .. length |-> Cells("flash")[offset + i - 1]])
                            ELSE Refused(offset, length)
          BY <2>2, ReadMaps DEF Devs
    <3>3. FlashDevice!Read(offset, length)
          BY <3>1, <3>2 DEF FlashDevice!Read, FlashDevice!Inside, FlashDevice!Bytes, Bytes,
             FlashDevice!Refused, Refused
    <3>4. QED BY <3>3
  <2>3. ASSUME NEW offset \in 0 .. Reach, NEW length \in 1 .. Reach,
               NEW x \in Data, Put("flash", offset, length, x)
        PROVE  FlashDevice!Put(offset, length, x)
    <3>1. "flash" \in registered
          BY <2>3 DEF Put
    <3>2. QED BY <2>3, <3>1, PutMaps DEF Devs, FlashDevice!Put, FlashDevice!Inside,
             FlashDevice!Within, FlashDevice!Done, Done, FlashDevice!Refused, Refused
  <2>4. ASSUME Request("flash")
        PROVE  [FlashDevice!Next]_FlashDevice!mtd
    <3>1. PICK offset \in 0 .. Reach, length \in 1 .. Reach :
            \/ ReadFlash("flash", offset, length)
            \/ \E x \in Data : WriteFlash("flash", offset, length, x)
            \/ EraseFlash("flash", offset, length)
          BY <2>4 DEF Request
    <3>2. CASE \E x \in Data : WriteFlash("flash", offset, length, x)
          BY <2>3, <3>2 DEF WriteFlash, FlashDevice!Write
    <3>3. CASE EraseFlash("flash", offset, length)
          BY <2>3, <3>3, ChipOK DEF EraseFlash, FlashDevice!EraseBlock
    <3>4. QED BY <2>2, <3>1, <3>2, <3>3
  <2>5. ASSUME NEW e \in Devs, e # "flash", Request(e)
        PROVE  [FlashDevice!Next]_FlashDevice!mtd
        BY <2>5, OtherMaps DEF Devs, FlashDevice!Taken
  <2>6. CASE Restart
    <3>1. ("flash" \in registered)' = FALSE /\ To("flash")' = Silent
          BY <2>6 DEF Restart, To
    <3>2. QED BY <2>6, <3>1 DEF Restart, Cells, FlashDevice!PowerCycle
  <2>7. CASE UNCHANGED vars
        BY <2>7 DEF vars, Cells, To
  <2>8. QED BY <2>1, <2>4, <2>5, <2>6, <2>7 DEF Next
<1>3. QED BY <1>1, <1>2, RegInvariance, PTL DEF Spec, FlashIsDevice, FlashDevice!Spec

(* The device "exflash" is a device of its own, for every layout.           *)
THEOREM ExFlashImplements == Spec => ExFlashIsDevice
<1> USE DEF ExFlashDevice!Silent, Silent
<1>1. RegInv /\ Init => ExFlashDevice!Init
      BY CellsType DEF RegInv, TypeOK, Init, ExFlashDevice!Init, To, Devs
<1>2. RegInv /\ [Next]_vars => [ExFlashDevice!Next]_ExFlashDevice!mtd
  <2> SUFFICES ASSUME RegInv, [Next]_vars
               PROVE  [ExFlashDevice!Next]_ExFlashDevice!mtd
      OBVIOUS
  <2> USE DEF ExFlashDevice!mtd, ExFlashDevice!Next
  <2>1. ASSUME NEW d \in Devs, RegisterDevice(d)
        PROVE  [ExFlashDevice!Next]_ExFlashDevice!mtd
    <3>1. UNCHANGED <<Cells("exflash"), To("exflash")>>
          BY <2>1 DEF RegisterDevice, Cells, To
    <3>2. \/ ("exflash" \in registered)' = ("exflash" \in registered)
          \/ "exflash" \notin registered /\ "exflash" \in registered'
          BY <2>1 DEF RegisterDevice
    <3>3. QED BY <3>1, <3>2 DEF ExFlashDevice!Register
  <2>2. ASSUME NEW offset \in 0 .. Reach, NEW length \in 1 .. Reach,
               ReadFlash("exflash", offset, length)
        PROVE  [ExFlashDevice!Next]_ExFlashDevice!mtd
    <3>1. "exflash" \in registered
          BY <2>2 DEF ReadFlash
    <3>2. /\ UNCHANGED <<registered, Cells("exflash")>>
          /\ To("exflash")' = IF offset + length <= Size("exflash")
                            THEN Bytes(offset, length,
                                   [i \in 1 .. length |-> Cells("exflash")[offset + i - 1]])
                            ELSE Refused(offset, length)
          BY <2>2, ReadMaps DEF Devs
    <3>3. ExFlashDevice!Read(offset, length)
          BY <3>1, <3>2 DEF ExFlashDevice!Read, ExFlashDevice!Inside, ExFlashDevice!Bytes, Bytes,
             ExFlashDevice!Refused, Refused
    <3>4. QED BY <3>3
  <2>3. ASSUME NEW offset \in 0 .. Reach, NEW length \in 1 .. Reach,
               NEW x \in Data, Put("exflash", offset, length, x)
        PROVE  ExFlashDevice!Put(offset, length, x)
    <3>1. "exflash" \in registered
          BY <2>3 DEF Put
    <3>2. QED BY <2>3, <3>1, PutMaps DEF Devs, ExFlashDevice!Put, ExFlashDevice!Inside,
             ExFlashDevice!Within, ExFlashDevice!Done, Done, ExFlashDevice!Refused, Refused
  <2>4. ASSUME Request("exflash")
        PROVE  [ExFlashDevice!Next]_ExFlashDevice!mtd
    <3>1. PICK offset \in 0 .. Reach, length \in 1 .. Reach :
            \/ ReadFlash("exflash", offset, length)
            \/ \E x \in Data : WriteFlash("exflash", offset, length, x)
            \/ EraseFlash("exflash", offset, length)
          BY <2>4 DEF Request
    <3>2. CASE \E x \in Data : WriteFlash("exflash", offset, length, x)
          BY <2>3, <3>2 DEF WriteFlash, ExFlashDevice!Write
    <3>3. CASE EraseFlash("exflash", offset, length)
          BY <2>3, <3>3, ChipOK DEF EraseFlash, ExFlashDevice!EraseBlock
    <3>4. QED BY <2>2, <3>1, <3>2, <3>3
  <2>5. ASSUME NEW e \in Devs, e # "exflash", Request(e)
        PROVE  [ExFlashDevice!Next]_ExFlashDevice!mtd
        BY <2>5, OtherMaps DEF Devs, ExFlashDevice!Taken
  <2>6. CASE Restart
    <3>1. ("exflash" \in registered)' = FALSE /\ To("exflash")' = Silent
          BY <2>6 DEF Restart, To
    <3>2. QED BY <2>6, <3>1 DEF Restart, Cells, ExFlashDevice!PowerCycle
  <2>7. CASE UNCHANGED vars
        BY <2>7 DEF vars, Cells, To
  <2>8. QED BY <2>1, <2>4, <2>5, <2>6, <2>7 DEF Next
<1>3. QED BY <1>1, <1>2, RegInvariance, PTL DEF Spec, ExFlashIsDevice, ExFlashDevice!Spec

=============================================================================
