-------------------------- MODULE MakeReleaseProofs --------------------------
(***************************************************************************)
(* What the tags and the trunk hold, for any set of versions and however   *)
(* often the developer edits.                                              *)
(***************************************************************************)
EXTENDS MakeRelease, TLAPS

(* Until it is tagged, what was committed is still in the sandbox, or the  *)
(* developer has edited; and a tag that is copied into was misread.        *)
SandboxInv ==
  /\ pc \in {"commit", "tag_exists", "remove", "tag"} => sandbox.version = run.release
  /\ pc \in {"tag_exists", "remove", "tag"} => edited \/ sandbox \in heads
  /\ pc = "tag" /\ tags[run.release] # Nothing => run.release \in misread

(* Between the check and the commit the sandbox holds nothing but the      *)
(* version that is not committed.                                          *)
PendingInv ==
  pc \in {"set_version", "commit"} =>
    run.force \/ edited \/ sandbox.src = head.src

(* The type invariant gives the versions and contents their sets.           *)
IInv == TypeOK /\ SandboxInv /\ PendingInv /\ TagsAreReleases

LEMMA InitInv == Init => IInv
<1> SUFFICES ASSUME Init PROVE IInv
    OBVIOUS
<1> USE NothingDiffers DEF Init
<1>1. sandbox \in Content
      BY DEF Content
<1>2. TypeOK
      BY <1>1 DEF TypeOK
<1>3. SandboxInv /\ PendingInv /\ TagsAreReleases
      BY DEF SandboxInv, PendingInv, TagsAreReleases
<1> QED
    BY <1>2, <1>3 DEF IInv

LEMMA TypeStep == IInv /\ [Next]_vars => TypeOK'
<1> SUFFICES ASSUME IInv, [Next]_vars PROVE TypeOK'
    OBVIOUS
<1> USE NothingDiffers DEF IInv, TypeOK
<1>1. CASE UNCHANGED vars
      BY <1>1 DEF vars, world
<1>2. ASSUME NEW v \in Versions, NEW force \in BOOLEAN, NEW retag \in BOOLEAN,
             Invoke(v, force, retag)
      PROVE  TypeOK'
  <2>1. run' \in Run /\ run' # Nothing
    <3>1. run' \in Run
          BY <1>2 DEF Invoke, Run
    <3> QED
        BY <1>2, <3>1 DEF Invoke
  <2> QED
      BY <1>2, <2>1 DEF Invoke, world
<1>3. CASE CheckPending
      BY <1>3 DEF CheckPending, Goto, End, world
<1>4. CASE SetVersion
  <2>1. sandbox' \in Content
        BY <1>4 DEF SetVersion, Content, Run
  <2> QED
      BY <1>4, <2>1 DEF SetVersion, Goto
<1>5. CASE CommitRelease
      BY <1>5 DEF CommitRelease, Goto
<1>6. CASE TagFound
      BY <1>6 DEF TagFound, Goto, End, world
<1>7. CASE TagNotFound
  <2>1. run.release \in Versions
        BY <1>7 DEF TagNotFound, Run
  <2>2. misread' \in SUBSET Versions
        BY <1>7, <2>1 DEF TagNotFound
  <2> QED
      BY <1>7, <2>2 DEF TagNotFound, world
<1>8. CASE RemoveTag
      BY <1>8 DEF RemoveTag, Goto
<1>9. CASE TagSandbox
  <2>1. Tagged \in Tag
    <3>1. run.release \in Versions
          BY <1>9 DEF TagSandbox, Run
    <3>2. CASE tags[run.release] = Nothing
          BY <3>2, ZenonT(30) DEF Tagged, Tag
    <3>3. CASE tags[run.release] # Nothing
      <4>1. tags[run.release] \in Tag
            BY <3>1, <3>3
      <4> QED
          BY <3>3, <4>1 DEF Tagged, Tag
    <3> QED
        BY <3>2, <3>3
  <2> QED
      BY <1>9, <2>1 DEF TagSandbox, Goto
<1>10. CASE build_doc
       BY <1>10 DEF build_doc, End, world
<1>11. CASE Abort
  <2>1. sandbox' \in Content
    <3>1. [sandbox EXCEPT !.version = Nothing] \in Content
          BY DEF Content
    <3> QED
        BY <1>11, <3>1 DEF Abort
  <2> QED
      BY <1>11, <2>1 DEF Abort
<1>12. CASE Edit
  <2>1. sandbox' \in Content
        BY <1>12 DEF Edit, Content
  <2> QED
      BY <1>12, <2>1 DEF Edit
<1>13. CASE Commit
       BY <1>13 DEF Commit
<1> QED
    BY <1>1, <1>2, <1>3, <1>4, <1>5, <1>6, <1>7, <1>8, <1>9, <1>10, <1>11,
       <1>12, <1>13 DEF Next, main, Developer

LEMMA SandboxStep == IInv /\ [Next]_vars => SandboxInv'
<1> SUFFICES ASSUME IInv, [Next]_vars PROVE SandboxInv'
    OBVIOUS
<1> USE DEF IInv, TypeOK, SandboxInv
<1>1. CASE UNCHANGED vars
      BY <1>1 DEF vars, world
<1>2. ASSUME NEW v \in Versions, NEW force \in BOOLEAN, NEW retag \in BOOLEAN,
             Invoke(v, force, retag)
      PROVE  SandboxInv'
      BY <1>2 DEF Invoke, world
<1>3. CASE CheckPending
      BY <1>3 DEF CheckPending, Goto, End, world
<1>4. CASE SetVersion
      BY <1>4 DEF SetVersion, Goto, Content
<1>5. CASE CommitRelease
      BY <1>5 DEF CommitRelease, Goto
<1>6. CASE TagFound
      BY <1>6 DEF TagFound, Goto, End, world
<1>7. CASE TagNotFound
      BY <1>7 DEF TagNotFound, world
<1>8. CASE RemoveTag
  <2>1. run.release \in Versions
        BY <1>8 DEF RemoveTag, Run
  <2> QED
      BY <1>8, <2>1 DEF RemoveTag, Goto
<1>9. CASE TagSandbox
      BY <1>9 DEF TagSandbox, Goto
<1>10. CASE build_doc \/ Abort
       BY <1>10 DEF build_doc, Abort, End, world
<1>11. CASE Edit
       BY <1>11 DEF Edit, Content
<1>12. CASE Commit
       BY <1>12 DEF Commit
<1> QED
    BY <1>1, <1>2, <1>3, <1>4, <1>5, <1>6, <1>7, <1>8, <1>9, <1>10, <1>11,
       <1>12
    DEF Next, main, Developer

LEMMA PendingStep == IInv /\ [Next]_vars => PendingInv'
<1> SUFFICES ASSUME IInv, [Next]_vars PROVE PendingInv'
    OBVIOUS
<1> USE DEF IInv, TypeOK, PendingInv
<1>1. CASE UNCHANGED vars
      BY <1>1 DEF vars, world
<1>2. ASSUME NEW v \in Versions, NEW force \in BOOLEAN, NEW retag \in BOOLEAN,
             Invoke(v, force, retag)
      PROVE  PendingInv'
      BY <1>2 DEF Invoke, world
<1>3. CASE CheckPending
      BY <1>3 DEF CheckPending, PendingChanges, Goto, End, world
<1>4. CASE SetVersion
      BY <1>4 DEF SetVersion, Goto, Content
<1>5. CASE CommitRelease \/ RemoveTag \/ TagSandbox
      BY <1>5 DEF CommitRelease, RemoveTag, TagSandbox, Goto
<1>6. CASE TagFound \/ TagNotFound
      BY <1>6 DEF TagFound, TagNotFound, Goto, End, world
<1>7. CASE build_doc \/ Abort
      BY <1>7 DEF build_doc, Abort, End, world
<1>8. CASE Edit
      BY <1>8 DEF Edit
<1>9. CASE Commit
      BY <1>9 DEF Commit
<1> QED
    BY <1>1, <1>2, <1>3, <1>4, <1>5, <1>6, <1>7, <1>8, <1>9
    DEF Next, main, Developer

(* A tag changes only where a run removes or makes it, and the trunk       *)
(* forgets nothing it has been.                                            *)
LEMMA OnlyRunsTag ==
  ASSUME TypeOK, [Next]_vars, ~RemoveTag, ~TagSandbox
  PROVE  tags' = tags /\ heads \subseteq heads' /\ misread \subseteq misread'
<1>1. CASE UNCHANGED vars
      BY <1>1 DEF vars, world
<1>2. ASSUME NEW v \in Versions, NEW force \in BOOLEAN, NEW retag \in BOOLEAN,
             Invoke(v, force, retag)
      PROVE  tags' = tags /\ heads \subseteq heads' /\ misread \subseteq misread'
      BY <1>2 DEF Invoke, world
<1>3. CASE CheckPending \/ TagFound \/ TagNotFound \/ Abort
      BY <1>3 DEF CheckPending, TagFound, TagNotFound, Abort, world
<1>4. CASE SetVersion \/ CommitRelease \/ build_doc
      BY <1>4 DEF SetVersion, CommitRelease, build_doc, world
<1>5. CASE Edit \/ Commit
      BY <1>5 DEF Edit, Commit
<1> QED
    BY <1>1, <1>2, <1>3, <1>4, <1>5 DEF Next, main, Developer

LEMMA TagsStep == IInv /\ [Next]_vars => TagsAreReleases'
<1> SUFFICES ASSUME IInv, [Next]_vars, NEW v \in Versions, tags'[v] # Nothing
             PROVE  /\ tags'[v].content.version = v
                    /\ tags'[v].raced \/ tags'[v].content \in heads'
                    /\ tags'[v].nested => v \in misread'
    BY DEF TagsAreReleases
<1> USE DEF IInv, TypeOK
<1>1. CASE RemoveTag
      BY <1>1 DEF RemoveTag, TagsAreReleases
<1>2. CASE TagSandbox
  <2>1. run.release \in Versions /\ heads' = heads /\ misread' = misread
        BY <1>2 DEF TagSandbox, Run
  <2>2. CASE v # run.release
        BY <1>2, <2>1, <2>2 DEF TagSandbox, TagsAreReleases
  <2>3. CASE v = run.release /\ tags[v] = Nothing
        BY <1>2, <2>1, <2>3 DEF TagSandbox, Tagged, SandboxInv
  <2>4. CASE v = run.release /\ tags[v] # Nothing
    <3>1. tags[v] \in Tag /\ tags'[v] = [tags[v] EXCEPT !.nested = TRUE]
          BY <1>2, <2>1, <2>4 DEF TagSandbox, Tagged
    <3>2. tags'[v].content = tags[v].content /\ tags'[v].raced = tags[v].raced
          BY <3>1 DEF Tag
    <3>3. v \in misread
          BY <1>2, <2>4 DEF TagSandbox, SandboxInv
    <3> QED
        BY <2>1, <2>4, <3>2, <3>3 DEF TagsAreReleases
  <2> QED
      BY <2>2, <2>3, <2>4
<1>3. CASE ~RemoveTag /\ ~TagSandbox
      BY <1>3, OnlyRunsTag DEF TagsAreReleases
<1> QED
    BY <1>1, <1>2, <1>3

LEMMA Invariance == Spec => []IInv
<1>1. IInv /\ [Next]_vars => IInv'
      BY TypeStep, SandboxStep, PendingStep, TagsStep DEF IInv
<1> QED
    BY InitInv, <1>1, PTL DEF Spec

(* makerelease.py as a whole stays within the states its variables allow.   *)
THEOREM ReleaseTypeCorrect == Spec => []TypeOK
<1>1. IInv => TypeOK
      BY DEF IInv
<1> QED
    BY Invariance, <1>1, PTL

(* svn_tag_sandbox (makerelease.py:106): every tag holds the version of its *)
(* name on something the trunk has been, or the developer raced the run;    *)
(* and nothing beside it, unless svn list failed on the tag it found.       *)
THEOREM TagsHoldReleases == Spec => []TagsAreReleases
<1>1. IInv => TagsAreReleases
      BY DEF IInv
<1> QED
    BY Invariance, <1>1, PTL

(* svn_commit (makerelease.py:309): without --force and without an edit     *)
(* since the check the release commit changes nothing but the version.      *)
THEOREM CommitsVersionOnly == Spec => OnlyVersionCommitted
<1>1. IInv /\ [Next]_vars =>
        [CommitRelease => run.force \/ edited \/ head'.src = head.src]_vars
      BY DEF IInv, PendingInv, CommitRelease
<1> QED
    BY Invariance, <1>1, PTL DEF Spec, OnlyVersionCommitted

=============================================================================
