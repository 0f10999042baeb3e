----------------------------- MODULE MakeRelease -----------------------------
(***************************************************************************)
(* The release script of the bundled jsoncpp (makerelease.py) as far as it *)
(* runs.                                                                   *)
(*                                                                         *)
(* A run sets the version, commits it, tags the sandbox and goes on to     *)
(* build the documents.  build_doc (doxybuild.py) reads                    *)
(* options.doxyfile_input_path, which only the command line of             *)
(* doxybuild.py defines: called from makerelease.py it always ends in an   *)
(* AttributeError, so what follows the call in main is never reached.  The *)
(* developer edits and commits while a run is going on, every svn command  *)
(* may fail, and a run may be interrupted.                                 *)
(***************************************************************************)
EXTENDS Naturals

CONSTANTS
  Versions,   \* what the file 'version' may say
  MaxEdits,   \* bound: how often the developer edits
  Nothing     \* no tag, no run, nothing in 'version'

VARIABLES
  sandbox,    \* the working copy
  head,       \* the trunk of the repository
  tags,       \* [Versions -> the tag of that name, or Nothing]
  pc,         \* where main is
  run         \* release_version and the options --force and --retag

(* History: what happened to the run, for the properties only.             *)
VARIABLES
  heads,      \* everything the trunk has ever been
  edited,     \* has the developer edited since the run began or committed?
  disturbed,  \* has a command failed, or the run been interrupted?
  misread,    \* tags that are there and that svn list failed on
  outcome     \* how the last run ended

world == <<sandbox, head, tags>>
vars  == <<world, pc, run, heads, edited, disturbed, misread, outcome>>

Content == [version: Versions \cup {Nothing}, src: 0 .. MaxEdits]
Tag     == [content: Content, raced: BOOLEAN, nested: BOOLEAN]
Run     == [release: Versions, force: BOOLEAN, retag: BOOLEAN]

ASSUME NothingDiffers ==
  Nothing \notin Versions \cup Tag \cup Run /\ MaxEdits \in Nat

TypeOK ==
  /\ sandbox \in Content /\ head \in heads /\ heads \in SUBSET Content
  /\ tags \in [Versions -> Tag \cup {Nothing}]
  /\ pc \in {"idle", "pending", "set_version", "commit", "tag_exists",
             "remove", "tag", "build_doc"}
  /\ run \in Run \cup {Nothing} /\ (pc # "idle" => run # Nothing)
  /\ pc = "remove" => run.retag /\ tags[run.release] # Nothing
  /\ edited \in BOOLEAN /\ disturbed \in BOOLEAN /\ misread \in SUBSET Versions
  /\ outcome \in {"none", "refused", "tag_exists", "error"}

Init ==
  /\ \E v \in Versions : sandbox = [version |-> v, src |-> 0]
  /\ head = sandbox /\ heads = {head}
  /\ tags = [v \in Versions |-> Nothing]
  /\ pc = "idle" /\ run = Nothing
  /\ edited = FALSE /\ disturbed = FALSE /\ misread = {} /\ outcome = "none"

-----------------------------------------------------------------------------
(* makerelease.py.                                                          *)

Invoke(v, force, retag) ==
  /\ pc = "idle" /\ pc' = "pending"
  /\ run' = [release |-> v, force |-> force, retag |-> retag]
  /\ edited' = FALSE /\ disturbed' = FALSE /\ outcome' = "none"
  /\ UNCHANGED <<world, heads, misread>>

Goto(p) == pc' = p /\ UNCHANGED <<run, disturbed, outcome>>
End(o)  == pc' = "idle" /\ outcome' = o /\ UNCHANGED <<run, disturbed>>

(* check_no_pending_commit: a change of 'version' alone does not count.     *)
(* Mutant: --force is taken for the opposite.                               *)
PendingForced  == run.force /\ sandbox.src # head.src
PendingChanges == ~run.force /\ sandbox.src # head.src

CheckPending ==
  /\ pc = "pending"
  /\ IF PendingChanges THEN End("refused") ELSE Goto("set_version")
  /\ UNCHANGED <<world, heads, edited, misread>>

(* Mutant: what is about to be committed is never written.                  *)
SetVersionSkipped ==
  /\ pc = "set_version" /\ Goto("commit")
  /\ UNCHANGED <<world, heads, edited, misread>>

SetVersion ==
  /\ pc = "set_version" /\ Goto("commit")
  /\ sandbox' = [sandbox EXCEPT !.version = run.release]
  /\ UNCHANGED <<head, tags, heads, edited, misread>>

(* svn ci without a path: all that the sandbox holds.                       *)
CommitRelease ==
  /\ pc = "commit" /\ Goto("tag_exists")
  /\ head' = sandbox /\ heads' = heads \cup {sandbox}
  /\ edited' = FALSE
  /\ UNCHANGED <<sandbox, tags, misread>>

(* Mutant: --retag alone decides.                                           *)
TagFoundRetag ==
  /\ pc = "tag_exists"
  /\ IF run.retag THEN Goto("remove") ELSE End("tag_exists")
  /\ UNCHANGED <<world, heads, edited, misread>>

TagFound ==
  /\ pc = "tag_exists" /\ tags[run.release] # Nothing
  /\ IF run.retag THEN Goto("remove") ELSE End("tag_exists")
  /\ UNCHANGED <<world, heads, edited, misread>>

(* svn list exits with 1 for a tag that is not there, and for any failure. *)
(* The test for 'tag_url' in the text is always true, so that both count   *)
(* as "not there".                                                         *)
TagNotFound ==
  /\ pc = "tag_exists" /\ pc' = "tag"
  /\ disturbed' = (disturbed \/ tags[run.release] # Nothing)
  /\ misread' = IF tags[run.release] # Nothing THEN misread \cup {run.release} ELSE misread
  /\ UNCHANGED <<world, run, heads, edited, outcome>>

RemoveTag ==
  /\ pc = "remove" /\ Goto("tag")
  /\ tags' = [tags EXCEPT ![run.release] = Nothing]
  /\ misread' = misread \ {run.release}
  /\ UNCHANGED <<sandbox, head, heads, edited>>

(* svn copy of the sandbox, uncommitted changes included; into the tag     *)
(* where there is one, which works only once.                              *)
Tagged ==
  IF tags[run.release] = Nothing
  THEN [content |-> sandbox, raced |-> edited, nested |-> FALSE]
  ELSE [tags[run.release] EXCEPT !.nested = TRUE]

TagSandbox ==
  /\ pc = "tag" /\ Goto("build_doc")
  /\ tags[run.release] # Nothing => ~tags[run.release].nested
  /\ tags' = [tags EXCEPT ![run.release] = Tagged]
  /\ UNCHANGED <<sandbox, head, heads, edited, misread>>

(* build_doc empties dist/doxygen before it looks for its input, and       *)
(* raises.                                                                 *)
build_doc ==
  /\ pc = "build_doc" /\ End("error")
  /\ UNCHANGED <<world, heads, edited, misread>>

(* An svn command fails, or the run is interrupted: an exception ends it.  *)
(* In set_version the file may be open and empty by then.                  *)
Abort ==
  /\ pc # "idle" /\ pc' = "idle"
  /\ outcome' = "error" /\ disturbed' = TRUE
  /\ \/ UNCHANGED sandbox
     \/ pc = "set_version" /\ sandbox' = [sandbox EXCEPT !.version = Nothing]
  /\ UNCHANGED <<head, tags, run, heads, edited, misread>>

main ==
  \/ CheckPending \/ SetVersion \/ CommitRelease
  \/ TagFound \/ TagNotFound \/ RemoveTag \/ TagSandbox
  \/ build_doc \/ Abort

-----------------------------------------------------------------------------
(* The developer.                                                           *)

Edit ==
  /\ sandbox.src < MaxEdits
  /\ sandbox' = [sandbox EXCEPT !.src = @ + 1]
  /\ edited' = TRUE
  /\ UNCHANGED <<head, tags, pc, run, heads, disturbed, misread, outcome>>

Commit ==
  /\ head # sandbox
  /\ head' = sandbox /\ heads' = heads \cup {sandbox}
  /\ UNCHANGED <<sandbox, tags, pc, run, edited, disturbed, misread, outcome>>

Developer == Edit \/ Commit

Next ==
  \/ main \/ Developer
  \/ \E v \in Versions, force, retag \in BOOLEAN : Invoke(v, force, retag)

Spec == Init /\ [][Next]_vars

-----------------------------------------------------------------------------
(* Properties.                                                              *)

(* A tag holds the version it is named after on something the trunk has     *)
(* been, unless the developer edited between the commit and the copy, which *)
(* takes the working copy as it is.  It holds that and nothing else: a      *)
(* second tree gets into it only where svn list failed on the tag itself    *)
(* (makerelease.py:95).  This lasts through failed, interrupted, repeated   *)
(* and retagging runs.                                                      *)
TagsAreReleases ==
  \A v \in Versions : tags[v] # Nothing =>
    /\ tags[v].content.version = v
    /\ tags[v].raced \/ tags[v].content \in heads
    /\ tags[v].nested => v \in misread

(* The release commit brings nothing into the trunk but the version, as    *)
(* long as --force is not given and nobody edits while the run is between  *)
(* its check and its commit, whatever earlier runs left in the sandbox.    *)
OnlyVersionCommitted ==
  [][CommitRelease => run.force \/ edited \/ head'.src = head.src]_vars

(* makerelease.py:315, "Use --retag to overwrite it!": without --retag a   *)
(* tag that exists stays as it is.                                         *)
TagsKept ==
  [][\A v \in Versions : tags[v] # Nothing /\ tags'[v] # tags[v] => run.retag]_vars

(* makerelease.py:260 and 262, "Generates the document tarball" and        *)
(* "Update 'version' file to next_dev_version and commit": a run ends in   *)
(* an error only when a command failed or somebody stopped it.             *)
ErrorsHaveCauses == outcome = "error" => disturbed

=============================================================================
