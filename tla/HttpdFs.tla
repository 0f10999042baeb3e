------------------------------- MODULE HttpdFs -------------------------------
(****************************************************************************)
(* The file system of the provisioning service's web server                 *)
(* (src/src/httpd_fs_for_rc.c): names of the server are looked up in the    *)
(* resource table under "oneshot/".  The table is the one fsgen has         *)
(* written (RcTable); the server (external) opens, reads and closes.        *)
(****************************************************************************)
EXTENDS RcTable

CONSTANTS
  Dir,        \* ONESHOT_RC_DIR, ends with a slash
  Slash,
  Requests,   \* the names the server asks for
  Handles,    \* bound: the files it has open at a time
  Counts      \* how many bytes it asks for in one read

ASSUME DirOK ==
  /\ Dir \in Seq(Range(Dir)) \ {<<>>} /\ Nul \notin Range(Dir)
  /\ Last(Dir) = Slash
  /\ \A i \in 1 .. Len(Dir) - 1 : Dir[i] # Slash \/ Dir[i + 1] # Slash
ASSUME RequestsOK == \A n \in Requests : n \in Seq(Range(n)) /\ Nul \notin Range(n)
ASSUME CountsOK == Counts \subseteq Nat

VARIABLE file     \* the struct fs_file of each handle, or Null
fsVars == <<vars, file>>

(* The server sends a file from data and len; the index stands at the end,  *)
(* or fs_read would hand it the same bytes a second time.                   *)
FileTypeOK ==
  \A h \in Handles :
    file[h] # Null =>
      /\ file[h].asked \in Requests
      /\ file[h].data \in Nat \cup {Null}
      /\ file[h].len \in Nat /\ file[h].index = file[h].len

FsInit == Init /\ file = [h \in Handles |-> Null]

(* Mutant: slashes are not collapsed.                                       *)
RcNameAsIs(n) == Dir \o n

(* The directory and then the name, of every run of slashes only the first. *)
RcName(n) ==
  LET rc[i \in 0 .. Len(n)] ==
        IF i = 0 THEN Dir
        ELSE IF n[i] = Slash /\ Last(rc[i - 1]) = Slash THEN rc[i - 1]
        ELSE Append(rc[i - 1], n[i])
  IN  rc[Len(n)]

(* Mutant: the index is left at 0, where memset has put it.                 *)
fs_open_unread(h, n) ==
  /\ pc = "done" /\ n # <<>> /\ file[h] = Null
  /\ LET len == RCGetSize(RcName(n))
     IN  file' = [file EXCEPT ![h] =
                    [asked |-> n, data |-> RCGetHandle(RcName(n)), len |-> len, index |-> 0]]
  /\ UNCHANGED vars

(* A file that is not in the table is opened too, without data.             *)
fs_open(h, n) ==
  /\ pc = "done" /\ n # <<>> /\ file[h] = Null
  /\ LET len == RCGetSize(RcName(n))
     IN  file' = [file EXCEPT ![h] =
                    [asked |-> n, data |-> RCGetHandle(RcName(n)), len |-> len, index |-> len]]
  /\ UNCHANGED vars

(* The bytes a read delivers: none (-1) without data or at the end.         *)
Taken(f, count) ==
  IF f.data = Null \/ f.index >= f.len THEN 0 ELSE Min({count, f.len - f.index})

fs_read(h, count) ==
  /\ file[h] # Null
  /\ file' = [file EXCEPT ![h].index = @ + Taken(file[h], count)]
  /\ UNCHANGED vars

fs_close(h) ==
  /\ file[h] # Null
  /\ file' = [file EXCEPT ![h] = Null]
  /\ UNCHANGED vars

FsNext ==
  \/ fsgen /\ UNCHANGED file
  \/ \E h \in Handles :
       \/ \E n \in Requests : fs_open(h, n)
       \/ \E count \in Counts : fs_read(h, count)
       \/ fs_close(h)

FsSpec == FsInit /\ [][FsNext]_fsVars

-----------------------------------------------------------------------------
(* Properties.                                                              *)

(* Two spellings name one file if they have the same levels: the positions *)
(* at which a slash follows a slash do not count.                          *)
Kept(s)      == {i \in DOMAIN s : i = 1 \/ s[i] # Slash \/ s[i - 1] # Slash}
Nth(S, k)    == CHOOSE p \in {p \in S : Cardinality({x \in S : x <= p}) = k} : TRUE
Picked(s, S) == [k \in 1 .. Cardinality(S) |-> s[Nth(S, k)]]
Canonical(s) == Picked(s, Kept(s))

(* Whatever way the server spells a name, and whatever else it has open,   *)
(* the handle leads to the whole of the file fsgen read under "oneshot/",  *)
(* or to nothing if there is none, and never to a resource elsewhere.      *)
HandlesServeOneshot ==
  \A h \in Handles :
    file[h] # Null =>
      LET q == Canonical(Dir \o file[h].asked)
          f == file[h]
      IN  IF q \in readable
          THEN f.data # Null /\ SubSeq(data, f.data + 1, f.data + f.len) = Content[q]
          ELSE f.data = Null /\ f.len = 0

=============================================================================
