------------------------------- MODULE RcTable -------------------------------
(***************************************************************************)
(* The resource files compiled into the firmware (src/rc).                 *)
(*                                                                         *)
(* fsgen runs on the build machine: it lists the files under its root and  *)
(* walks the list twice, once for the bytes (RC_Data) and once for the     *)
(* names (RC_Name), and writes what the first walk noted of every file     *)
(* (RC_Info).  RC.c runs on the device: it finds a file by its name in the *)
(* three arrays.  An offset of the code is one less than an index here.    *)
(***************************************************************************)
EXTENDS Naturals, Sequences, FiniteSets, SequencesExt, FiniteSetsExt

CONSTANTS
  Names,      \* the paths a tree may hold: sequences of characters
  Content,    \* [Names -> Seq(byte)], what the files hold
  Nul,        \* the character and the byte 0
  Null        \* a NULL pointer

ASSUME TreeOK ==
  /\ IsFiniteSet(Names)
  /\ \A n \in Names : n \in Seq(Range(n)) /\ Content[n] \in Seq(Range(Content[n]))
ASSUME CStrings == \A n \in Names : n # <<>> /\ \A i \in DOMAIN n : n[i] # Nul
ASSUME NullDiffers == Null \notin Nat

VARIABLES
  filelist,   \* what listdir has found, in the order of readdir
  readable,   \* the files fsgen may read, in either walk
  pc,         \* which walk
  it,         \* the next entry of filelist
  data, name, \* RC_Data and RC_Name as far as they are written
  nameOffset, \* current_rc_name
  info        \* RC_Info_List

vars == <<filelist, readable, pc, it, data, name, nameOffset, info>>

InfoType == [data_offset: Nat, data_size: Nat, name_offset: Nat, name_size: Nat]

TypeOK ==
  /\ filelist \in Seq(Names)
  /\ readable \in SUBSET Names
  /\ pc \in {"data", "name", "done"}
  /\ it \in 1 .. Len(filelist) + 1
  /\ \A i \in DOMAIN data : data[i] = Nul \/ \E n \in Names : data[i] \in Range(Content[n])
  /\ \A i \in DOMAIN name : name[i] = Nul \/ \E n \in Names : name[i] \in Range(n)
  /\ nameOffset \in Nat
  /\ info \in Seq(InfoType)

(* listdir: every regular file under the root, once, in any order.          *)
Listings == UNION {SetToSeqs(S) : S \in SUBSET Names}

Init ==
  /\ filelist \in Listings
  /\ readable \in SUBSET Range(filelist)
  /\ pc = "data" /\ it = 1
  /\ data = <<>> /\ name = <<>> /\ nameOffset = 0 /\ info = <<>>

-----------------------------------------------------------------------------
(* fsgen.                                                                   *)

(* Mutant: the size is subtracted the other way round.                      *)
EntrySwapped(n) ==
  [data_offset |-> Len(data), data_size |-> Len(data) - Len(data \o Content[n]),
   name_offset |-> nameOffset, name_size |-> Len(n) + 1]

Entry(n) ==
  [data_offset |-> Len(data), data_size |-> Len(data \o Content[n]) - Len(data),
   name_offset |-> nameOffset, name_size |-> Len(n) + 1]

(* Mutant: no zero after the bytes of a file.                               *)
Unterminated(n) == Content[n]
Terminated(n)   == Append(Content[n], Nul)

(* Can the file be opened (first walk), is it readable (second walk)?       *)
(* Mutant: the second walk does not ask.                                    *)
AccessAlways(n) == TRUE
Access(n)       == n \in readable
Opens(n)        == n \in readable

(* The next file: its bytes and a terminating zero, if it can be opened.    *)
DataPass ==
  /\ pc = "data" /\ it <= Len(filelist)
  /\ LET n == filelist[it]
     IN  IF Opens(n)
         THEN /\ data' = data \o Terminated(n)
              /\ info' = Append(info, Entry(n))
              /\ nameOffset' = nameOffset + Len(n) + 1
         ELSE UNCHANGED <<data, info, nameOffset>>
  /\ it' = it + 1
  /\ UNCHANGED <<filelist, readable, pc, name>>

(* Every array ends with one more zero.                                     *)
DataEnd ==
  /\ pc = "data" /\ it = Len(filelist) + 1
  /\ data' = Append(data, Nul)
  /\ pc' = "name" /\ it' = 1
  /\ UNCHANGED <<filelist, readable, name, nameOffset, info>>

NamePass ==
  /\ pc = "name" /\ it <= Len(filelist)
  /\ name' = IF Access(filelist[it])
             THEN name \o filelist[it] \o <<Nul>> ELSE name
  /\ it' = it + 1
  /\ UNCHANGED <<filelist, readable, pc, data, nameOffset, info>>

NameEnd ==
  /\ pc = "name" /\ it = Len(filelist) + 1
  /\ name' = Append(name, Nul)
  /\ pc' = "done"
  /\ UNCHANGED <<filelist, readable, it, data, nameOffset, info>>

fsgen == DataPass \/ DataEnd \/ NamePass \/ NameEnd

Spec == Init /\ [][fsgen]_vars

-----------------------------------------------------------------------------
(* RC.c.                                                                    *)

(* The C string that starts at an offset of an array.                       *)
CString(array, offset) ==
  LET end == Min({i \in offset + 1 .. Len(array) : array[i] = Nul})
  IN  SubSeq(array, offset + 1, end - 1)

(* The walk over both names up to the first that ends, the end included.    *)
NameCmp(q, offset) ==
  LET zq   == Append(q, Nul)
      ends == {Len(zq)} \cup {i \in 1 .. Len(name) - offset : name[offset + i] = Nul}
  IN  \A i \in 1 .. Min(ends) : zq[i] = name[offset + i]

FindRCInfoByName(q) ==
  LET hits == {i \in DOMAIN info : NameCmp(q, info[i].name_offset)}
  IN  IF hits = {} THEN Null ELSE Min(hits)

RCGetSize(q) ==
  LET i == FindRCInfoByName(q) IN IF i = Null THEN 0 ELSE info[i].data_size

RCGetHandle(q) ==
  LET i == FindRCInfoByName(q) IN IF i = Null THEN Null ELSE info[i].data_offset

-----------------------------------------------------------------------------
(* Properties.                                                              *)

(* The bytes a caller of RC.h sees under a name.                            *)
Served(q) == SubSeq(data, RCGetHandle(q) + 1, RCGetHandle(q) + RCGetSize(q))

(* The names a property asks for: those of the tree, and everything that   *)
(* differs from one of them by its first or last character.                *)
Asked ==
  UNION {{n, Tail(n), Front(n), Append(n, n[1])} : n \in Names}

(* The device finds, under the name of a file fsgen could read, that file  *)
(* and no other, byte for byte, and nothing under any other name, whatever *)
(* the order of the listing, files that could not be read between others,  *)
(* empty files, and names that begin or end with one another.              *)
TableServesFiles ==
  pc = "done" =>
    \A q \in Asked :
      IF q \in readable
      THEN RCGetHandle(q) # Null /\ Served(q) = Content[q]
      ELSE RCGetHandle(q) = Null /\ RCGetSize(q) = 0

(* A resource can be used as a C string, as main does with the banner      *)
(* (src/src/main.cpp:273): a text is printed whole and nothing after it.   *)
TextsPrintWhole ==
  pc = "done" =>
    \A q \in readable :
      Nul \notin Range(Content[q]) =>
        CString(data, RCGetHandle(q)) = Content[q]

=============================================================================
