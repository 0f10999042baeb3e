------------------------------ MODULE MtdDevice ------------------------------
(***************************************************************************)
(* What a file system expects of a NOR device: an array of its own, of     *)
(* Capacity bytes, that holds what was written last and nothing else.      *)
(***************************************************************************)
EXTENDS Naturals

CONSTANTS
  Capacity,   \* bytes of the device
  BlkSize,    \* bytes of a block
  Reach,      \* no request reaches beyond this offset
  Data,       \* what a byte can hold
  Erased      \* an erased byte

VARIABLES
  open,       \* has the device been registered since power-on?
  mem,        \* [0 .. Capacity - 1 -> Data]
  reply       \* the last request to the device and its answer

mtd == <<open, mem, reply>>

Silent == [status |-> "none"]
Refused(offset, length) == [status |-> "refused", offset |-> offset, length |-> length]
Done(offset, length) == [status |-> "done", offset |-> offset, length |-> length]
Bytes(offset, length, b) ==
  [status |-> "read", offset |-> offset, length |-> length, bytes |-> b]

Init ==
  /\ open = FALSE
  /\ mem \in [0 .. Capacity - 1 -> Data]
  /\ reply = Silent

Register == ~open /\ open' = TRUE /\ UNCHANGED <<mem, reply>>

(* The device disappears with power, what it holds does not.                *)
PowerCycle == open' = FALSE /\ reply' = Silent /\ UNCHANGED mem

(* The answer has been taken.                                               *)
Taken == reply' = Silent /\ UNCHANGED <<open, mem>>

(* A range that lies in the device is served, any other is refused.         *)
Inside(offset, length) == offset + length <= Capacity
Within(i, offset, length) == offset <= i /\ i < offset + length

Read(offset, length) ==
  /\ open
  /\ reply' = IF Inside(offset, length)
              THEN Bytes(offset, length, [i \in 1 .. length |-> mem[offset + i - 1]])
              ELSE Refused(offset, length)
  /\ UNCHANGED <<open, mem>>

Put(offset, length, x) ==
  /\ open
  /\ IF Inside(offset, length)
     THEN /\ reply' = Done(offset, length)
          /\ mem' = [i \in 0 .. Capacity - 1 |->
                       IF Within(i, offset, length) THEN x ELSE mem[i]]
     ELSE reply' = Refused(offset, length) /\ UNCHANGED mem
  /\ UNCHANGED open

Write(offset, length, x) == x \in Data /\ Put(offset, length, x)

(* Blocks are erased whole.                                                 *)
EraseBlock(offset, length) ==
  offset % BlkSize = 0 /\ length % BlkSize = 0 /\ Put(offset, length, Erased)

Next ==
  \/ Register \/ PowerCycle \/ Taken
  \/ \E offset \in 0 .. Reach, length \in 1 .. Reach :
       \/ Read(offset, length)
       \/ \E x \in Data : Write(offset, length, x)
       \/ EraseBlock(offset, length)

Spec == Init /\ [][Next]_mtd

=============================================================================
