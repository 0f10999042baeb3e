---------------------------- MODULE LicenseProofs ----------------------------
(****************************************************************************)
(* Proofs about LicenseUpdate, for every tree, every set of directories     *)
(* and of texts, and any number of saves and stops: first what its search   *)
(* finds (AntGlob), then what a run does to the files.                      *)
(****************************************************************************)
EXTENDS LicenseUpdate, AntGlobProofs

-----------------------------------------------------------------------------
(* The filters, in terms of the path.                                       *)
SourceSuffixes == {".h", ".cpp", ".inl"}

(* The includes pass what ends in one of the suffixes.                      *)
LEMMA IncludedIs ==
  ASSUME NEW C, NEW t \in Seq(C)
  PROVE  apply_filter(t, includes) <=> t # <<>> /\ Last(t) \in SourceSuffixes
<1>1. \A x \in SourceSuffixes : x \notin {"*", "/"}
  BY DEF SourceSuffixes
<1>2. \A x \in SourceSuffixes :
        Matches(Tokens(<<"*", "*", "/", "*", x>>), t) <=> t # <<>> /\ Last(t) = x
  <2> SUFFICES ASSUME NEW x \in SourceSuffixes
               PROVE  Matches(Tokens(<<"*", "*", "/", "*", x>>), t) <=> t # <<>> /\ Last(t) = x
    OBVIOUS
  <2>1. x \notin {"*", "/"}
    BY <1>1
  <2>2. Tokens(<<"*", "*", "/", "*", x>>) = << <<"*", "*", "/">>, <<"*">>, <<x>> >>
    BY <2>1, SourceTokens
  <2>3. Matches(<< <<"*", "*", "/">>, <<"*">>, <<x>> >>, t) <=> t # <<>> /\ Last(t) = x
    BY <2>1, SourceMatches
  <2> QED
    BY <2>2, <2>3, Zenon
<1>3. apply_filter(t, includes) <=>
        \E x \in SourceSuffixes : Matches(Tokens(<<"*", "*", "/", "*", x>>), t)
  BY Zenon DEF apply_filter, includes, SourceSuffixes
<1> QED
  BY <1>2, <1>3

(* The excludes stop what lies in a .git, of what the includes pass.        *)
LEMMA ExcludedIs ==
  ASSUME NEW C, NEW t \in Seq(C), t # <<>>, Last(t) \in SourceSuffixes
  PROVE  apply_filter(t, default_excludes) <=> InGit(t)
<1>1. apply_filter(t, default_excludes) <=>
        \/ Matches(Tokens(<<"*", "*", "/", ".git">>), t)
        \/ Matches(Tokens(<<"*", "*", "/", ".git", "/", "*", "*">>), t)
  BY Zenon DEF apply_filter, default_excludes
<1>2. Last(t) # ".git"
  BY DEF SourceSuffixes
<1>3. ~Matches(Tokens(<<"*", "*", "/", ".git">>), t)
  BY <1>2, GitTokens, GitMatches
<1>4. Matches(Tokens(<<"*", "*", "/", ".git", "/", "*", "*">>), t) <=>
        \E i \in 1 .. Len(t) - 1 :
          t[i] = ".git" /\ (i > 1 => t[i - 1] = "/") /\ t[i + 1] = "/"
  BY GitTokens, GitMatches
<1>5. Len(t) \in Nat /\ DOMAIN t = 1 .. Len(t) /\ t[Len(t)] # ".git"
  BY <1>2 DEF Last
<1>6. (\E i \in 1 .. Len(t) - 1 :
         t[i] = ".git" /\ (i > 1 => t[i - 1] = "/") /\ t[i + 1] = "/") <=> InGit(t)
  <2>1. \A i \in 1 .. Len(t) - 1 : i \in 1 .. Len(t) /\ i < Len(t)
    BY <1>5
  <2>2. \A i \in 1 .. Len(t) : i = Len(t) \/ (i \in 1 .. Len(t) - 1 /\ i < Len(t))
    <3>1. PICK n \in Nat : n = Len(t)
      BY <1>5
    <3>2. \A i \in 1 .. n : i = n \/ (i \in 1 .. n - 1 /\ i < n)
      OBVIOUS
    <3> QED
      BY <3>1, <3>2
  <2> QED
    BY <1>5, <2>1, <2>2, Zenon DEF InGit
<1> QED
  BY <1>1, <1>3, <1>4, <1>6

(* Of the three prune_dirs the first holds for .git and the second for      *)
(* names that begin with scons-local; the third has a slash and never holds.*)
LEMMA PrunedIs ==
  ASSUME NEW C, NEW t \in Seq(C), t # <<>>, "/" \notin Range(t)
  PROVE  is_pruned_dir(t, prune_dirs) <=> t = <<".git">> \/ t[1] = "scons-local"
<1>0. /\ Len(t) \in Nat /\ Len(t) >= 1 /\ DOMAIN t = 1 .. Len(t)
      /\ 1 \in 1 .. Len(t) + 1 /\ Len(t) + 1 \in 1 .. Len(t) + 1
  OBVIOUS
<1>1. \A i \in 1 .. Len(t) : t[i] # "/"
  BY <1>0 DEF Range
<1>2. [i \in DOMAIN <<".git">> |-> <<<<".git">>[i]>>] = << <<".git">> >>
  OBVIOUS
<1>3. Matches(<< <<".git">> >>, t) <=> t = <<".git">>
  <2>1. Matches(<< <<".git">> >>, t) <=> Takes(<<".git">>, t, 1, Len(t) + 1)
    BY Pieces1
  <2>2. Takes(<<".git">>, t, 1, Len(t) + 1) <=> Len(t) + 1 = 1 + 1 /\ t[1] = ".git"
    <3>1. ".git" # "*"
      OBVIOUS
    <3> QED
      BY <1>0, <3>1, TakesIs
  <2>3. Len(<<".git">>) = 1 /\ <<".git">>[1] = ".git"
    OBVIOUS
  <2>4. ASSUME Len(t) + 1 = 1 + 1, t[1] = ".git" PROVE t = <<".git">>
    <3>1. Len(t) = 1
      BY <1>0, <2>4
    <3> QED
      BY <2>4, <3>1, Small
  <2>5. ASSUME t = <<".git">> PROVE Len(t) + 1 = 1 + 1 /\ t[1] = ".git"
    BY <2>3, <2>5
  <2> QED
    BY <2>1, <2>2, <2>4, <2>5
<1>4. [i \in DOMAIN <<"scons-local", "*">> |-> <<<<"scons-local", "*">>[i]>>]
        = << <<"scons-local">>, <<"*">> >>
  OBVIOUS
<1>5. Matches(<< <<"scons-local">>, <<"*">> >>, t) <=> t[1] = "scons-local"
  <2>1. Matches(<< <<"scons-local">>, <<"*">> >>, t) <=>
          \E j \in 1 .. Len(t) + 1 :
            Takes(<<"scons-local">>, t, 1, j) /\ Takes(<<"*">>, t, j, Len(t) + 1)
    BY Pieces2
  <2>2. \A j \in 1 .. Len(t) + 1 :
          Takes(<<"scons-local">>, t, 1, j) <=> j = 1 + 1 /\ t[1] = "scons-local"
    <3>1. "scons-local" # "*"
      OBVIOUS
    <3> QED
      BY <1>0, <3>1, TakesIs
  <2>3. 2 \in 1 .. Len(t) + 1 /\ 2 <= Len(t) + 1 /\ 1 + 1 = 2
    BY <1>0
  <2>4. \A i \in 2 .. (Len(t) + 1) - 1 : t[i] # "/"
    BY <1>1
  <2>5. Takes(<<"*">>, t, 2, Len(t) + 1)
    BY <1>0, <2>3, <2>4, TakesIs
  <2> QED
    BY <2>1, <2>2, <2>3, <2>5
<1>6. ~Matches([i \in DOMAIN <<".", "/", "build", "*">> |-> <<<<".", "/", "build", "*">>[i]>>], t)
  <2>1. PICK s : s = [i \in DOMAIN <<".", "/", "build", "*">> |-> <<<<".", "/", "build", "*">>[i]>>]
    OBVIOUS
  <2>2. Len(s) = 4 /\ s[2] = <<"/">>
    BY <2>1
  <2>3. PICK f : RowsOf(s, t, f)
    <3>1. Len(s) \in Nat
      BY <2>2
    <3> QED
      BY <3>1, Rows, Zenon
  <2> SUFFICES ASSUME 1 \in f[1] PROVE FALSE
    BY <2>1, <2>3 DEF RowsOf
  <2>4. /\ f[1] = {j \in 1 .. Len(t) + 1 : \E k \in f[2] : Takes(s[1], t, j, k)}
        /\ f[2] = {j \in 1 .. Len(t) + 1 : \E k \in f[3] : Takes(<<"/">>, t, j, k)}
        /\ f[3] = {j \in 1 .. Len(t) + 1 : \E k \in f[4] : Takes(s[3], t, j, k)}
    <3>1. 1 \in 1 .. Len(s) /\ 2 \in 1 .. Len(s) /\ 3 \in 1 .. Len(s)
          /\ 1 + 1 = 2 /\ 2 + 1 = 3 /\ 3 + 1 = 4
      BY <2>2
    <3>2. f[1] = {j \in 1 .. Len(t) + 1 : \E k \in f[1 + 1] : Takes(s[1], t, j, k)}
      BY <2>3, <3>1, Zenon DEF RowsOf
    <3>3. f[2] = {j \in 1 .. Len(t) + 1 : \E k \in f[2 + 1] : Takes(s[2], t, j, k)}
      BY <2>3, <3>1, Zenon DEF RowsOf
    <3>4. f[3] = {j \in 1 .. Len(t) + 1 : \E k \in f[3 + 1] : Takes(s[3], t, j, k)}
      BY <2>3, <3>1, Zenon DEF RowsOf
    <3> QED
      BY <2>2, <3>1, <3>2, <3>3, <3>4
  <2>5. PICK j \in f[2] : TRUE
    BY <2>4
  <2>6. PICK k \in f[3] : Takes(<<"/">>, t, j, k)
    BY <2>4
  <2>7. j \in 1 .. Len(t) + 1 /\ k \in 1 .. Len(t) + 1
    BY <2>4
  <2>8. "/" # "*"
    OBVIOUS
  <2>9. k = j + 1 /\ t[j] = "/"
    BY <2>6, <2>7, <2>8, TakesIs
  <2>10. j \in 1 .. Len(t)
    BY <1>0, <2>7, <2>9
  <2> QED
    BY <1>1, <2>9, <2>10
<1>7. is_pruned_dir(t, prune_dirs) <=>
        \/ Matches([i \in DOMAIN <<".git">> |-> <<<<".git">>[i]>>], t)
        \/ Matches([i \in DOMAIN <<"scons-local", "*">> |-> <<<<"scons-local", "*">>[i]>>], t)
        \/ Matches([i \in DOMAIN <<".", "/", "build", "*">> |->
                      <<<<".", "/", "build", "*">>[i]>>], t)
  BY Zenon DEF is_pruned_dir, prune_dirs
<1> QED
  BY <1>2, <1>3, <1>4, <1>5, <1>6, <1>7, Zenon

-----------------------------------------------------------------------------
(* The path to an entry.                                                    *)

Level(p, name) == p \o (<<"/">> \o name)
LevelEnds(C, p, name) ==
  /\ Level(p, name) \in Seq(C) /\ Level(p, name) # <<>>
  /\ Last(Level(p, name)) = Last(name)
LevelInGit(p, name) == InGit(Level(p, name)) <=> InGit(p) \/ name = <<".git">>

(* A level more ends like its name, and is in a .git if the path was or if  *)
(* it is one.                                                               *)
LEMMA LevelAdded ==
  ASSUME NEW C, "/" \in C, NEW p \in Seq(C),
         NEW name \in Seq(C), name # <<>>, "/" \notin Range(name)
  PROVE  LevelEnds(C, p, name) /\ LevelInGit(p, name)
<1>a. PICK q : q = Level(p, name)
  OBVIOUS
<1>q. q = p \o (<<"/">> \o name)
  BY <1>a DEF Level
<1>0. <<"/">> \in Seq(C)
  OBVIOUS
<1>1. /\ Len(p) \in Nat /\ Len(name) \in Nat /\ Len(name) >= 1
      /\ DOMAIN p = 1 .. Len(p) /\ DOMAIN name = 1 .. Len(name)
      /\ \A k \in 1 .. Len(name) : name[k] # "/"
  BY DEF Range
<1>2. PICK s \in Seq(C) : s = <<"/">> \o name
  BY <1>0, ConcatProperties
<1>3. Len(s) = Len(name) + 1 /\ s[1] = "/" /\ \A k \in 1 .. Len(name) : s[k + 1] = name[k]
  <2>1. Len(<<"/">>) = 1 /\ <<"/">>[1] = "/"
    OBVIOUS
  <2>2. /\ Len(s) = 1 + Len(name)
        /\ \A i \in 1 .. 1 + Len(name) : s[i] = IF i <= 1 THEN <<"/">>[i] ELSE name[i - 1]
    BY <1>0, <1>2, <2>1, ConcatProperties
  <2>3. \A k \in 1 .. Len(name) : k + 1 \in 1 .. 1 + Len(name) /\ ~(k + 1 <= 1) /\ (k + 1) - 1 = k
    BY <1>1
  <2> QED
    BY <1>1, <2>1, <2>2, <2>3
<1>4. /\ q \in Seq(C)
      /\ Len(q) = Len(p) + Len(s)
      /\ \A i \in 1 .. Len(p) + Len(s) : q[i] = IF i <= Len(p) THEN p[i] ELSE s[i - Len(p)]
  BY <1>0, <1>2, <1>q, ConcatProperties
<1>5. PICK n \in Nat : n = Len(p)
  BY <1>1
<1>6. PICK m \in Nat : m = Len(name) /\ m >= 1
  BY <1>1
<1>7. /\ Len(q) = n + 1 + m /\ DOMAIN q = 1 .. n + 1 + m
      /\ \A i \in 1 .. n : q[i] = p[i]
      /\ q[n + 1] = "/"
      /\ \A k \in 1 .. m : q[n + 1 + k] = name[k] /\ q[n + 1 + k] # "/"
  <2>1. Len(q) = n + 1 + m
    BY <1>3, <1>4, <1>5, <1>6
  <2>2. \A i \in 1 .. n : q[i] = p[i]
    BY <1>3, <1>4, <1>5, <1>6
  <2>3. q[n + 1] = "/"
    <3>1. n + 1 \in 1 .. n + Len(s) /\ ~(n + 1 <= n) /\ (n + 1) - n = 1
      BY <1>3, <1>5, <1>6
    <3>2. q[n + 1] = s[(n + 1) - n]
      BY <1>4, <1>5, <3>1
    <3> QED
      BY <1>3, <3>1, <3>2
  <2>4. \A k \in 1 .. m : q[n + 1 + k] = name[k]
    <3> SUFFICES ASSUME NEW k \in 1 .. m PROVE q[n + 1 + k] = name[k]
      OBVIOUS
    <3>1. n + 1 + k \in 1 .. n + Len(s) /\ ~(n + 1 + k <= n) /\ (n + 1 + k) - n = k + 1
      BY <1>3, <1>6
    <3>2. q[n + 1 + k] = s[(n + 1 + k) - n]
      BY <1>4, <1>5, <3>1
    <3> QED
      BY <1>3, <1>6, <3>1, <3>2
  <2>5. DOMAIN q = 1 .. n + 1 + m
    <3>1. q \in Seq(C)
      BY <1>4
    <3>2. DOMAIN q = 1 .. Len(q)
      BY <3>1
    <3> QED
      BY <2>1, <3>2
  <2>6. \A k \in 1 .. m : q[n + 1 + k] # "/"
    BY <1>1, <1>6, <2>4
  <2> QED
    BY <2>1, <2>2, <2>3, <2>4, <2>5, <2>6
<1>8. q # <<>> /\ Last(q) = Last(name)
  <2>1. m \in 1 .. m /\ Len(q) >= 1
    BY <1>6, <1>7
  <2>2. q[n + 1 + m] = name[m]
    BY <1>7, <2>1
  <2>3. q # <<>>
    BY <1>4, <2>1
  <2>4. Last(q) = q[n + 1 + m] /\ Last(name) = name[m]
    BY <1>6, <1>7 DEF Last
  <2> QED
    BY <2>2, <2>3, <2>4
<1>9. ASSUME InGit(p) PROVE InGit(q)
  <2>1. PICK i \in 1 .. n : p[i] = ".git" /\ (i > 1 => p[i - 1] = "/") /\ (i < n => p[i + 1] = "/")
    BY <1>1, <1>5, <1>9 DEF InGit
  <2>2. i \in 1 .. n + 1 + m /\ q[i] = ".git"
    BY <1>7, <2>1
  <2>3. i > 1 => q[i - 1] = "/"
    <3>1. i > 1 => i - 1 \in 1 .. n
      OBVIOUS
    <3> QED
      BY <1>7, <2>1, <3>1
  <2>4. q[i + 1] = "/"
    <3>1. CASE i < n
      <4>1. i + 1 \in 1 .. n
        BY <3>1
      <4> QED
        BY <1>7, <2>1, <3>1, <4>1
    <3>2. CASE i = n
      BY <1>7, <3>2
    <3>3. i < n \/ i = n
      OBVIOUS
    <3> QED
      BY <3>1, <3>2, <3>3
  <2> QED
    BY <1>7, <2>2, <2>3, <2>4, Zenon DEF InGit
<1>10. ASSUME name = <<".git">> PROVE InGit(q)
  <2>1. m = 1 /\ name[1] = ".git"
    BY <1>6, <1>10
  <2>2. q[n + 2] = ".git" /\ q[(n + 2) - 1] = "/" /\ n + 2 \in DOMAIN q /\ ~(n + 2 < Len(q))
    BY <1>7, <2>1
  <2> QED
    BY <2>2, Zenon DEF InGit
<1>11. ASSUME InGit(q), ~InGit(p) PROVE name = <<".git">>
  <2>1. PICK i \in 1 .. n + 1 + m :
          /\ q[i] = ".git" /\ (i > 1 => q[i - 1] = "/")
          /\ (i < n + 1 + m => q[i + 1] = "/")
    BY <1>7, <1>11 DEF InGit
  <2>2. ~(i <= n)
    <3> SUFFICES ASSUME i <= n PROVE FALSE
      OBVIOUS
    <3>1. i \in 1 .. n /\ p[i] = ".git"
      BY <1>7, <2>1
    <3>2. i > 1 => p[i - 1] = "/"
      <4>1. i > 1 => i - 1 \in 1 .. n
        BY <3>1
      <4> QED
        BY <1>7, <2>1, <4>1
    <3>3. i < n => p[i + 1] = "/"
      <4>1. i < n => i + 1 \in 1 .. n /\ i < n + 1 + m
        BY <3>1
      <4> QED
        BY <1>7, <2>1, <4>1
    <3> QED
      BY <1>1, <1>5, <1>11, <3>1, <3>2, <3>3, Zenon DEF InGit
  <2>3. i # n + 1
    BY <1>7, <2>1
  <2>4. PICK k \in 1 .. m : i = n + 1 + k
    <3>1. i - (n + 1) \in 1 .. m /\ i = n + 1 + (i - (n + 1))
      BY <2>2, <2>3
    <3> QED
      BY <3>1
  <2>5. k = 1
    <3> SUFFICES ASSUME k # 1 PROVE FALSE
      OBVIOUS
    <3>1. k - 1 \in 1 .. m /\ i > 1 /\ i - 1 = n + 1 + (k - 1)
      BY <2>4
    <3> QED
      BY <1>7, <2>1, <3>1
  <2>6. m = 1
    <3> SUFFICES ASSUME m # 1 PROVE FALSE
      OBVIOUS
    <3>1. k + 1 \in 1 .. m /\ i < n + 1 + m /\ i + 1 = n + 1 + (k + 1)
      BY <1>6, <2>4, <2>5
    <3> QED
      BY <1>7, <2>1, <3>1
  <2>7. name[1] = ".git"
    BY <1>7, <2>1, <2>4, <2>5
  <2> QED
    BY <1>6, <2>6, <2>7, Small
<1>12. q \in Seq(C) /\ q # <<>> /\ Last(q) = Last(name)
  BY <1>4, <1>8
<1>13. InGit(q) <=> InGit(p) \/ name = <<".git">>
  BY <1>9, <1>10, <1>11
<1> QED
  BY <1>12, <1>13, <1>a, Zenon DEF LevelEnds, LevelInGit

(* The atoms of a path.                                                     *)
NameAtoms == UNION {Range(e.name) : e \in Entries(Tree)}
Atoms(r) == NameAtoms \cup Range(r.path) \cup {"/"}

(* The path of the entry at the end of a way, as glob builds it.            *)
PathTo(r, w) == r.path \o FlattenSeq([i \in 1 .. Len(w) |-> <<"/">> \o w[i].name])

(* These are the atoms of the path and of the names.                        *)
LEMMA AtomsHold ==
  ASSUME NEW r
  PROVE  /\ "/" \in Atoms(r) /\ Range(r.path) \subseteq Atoms(r)
         /\ \A e \in Entries(Tree) : Range(e.name) \subseteq Atoms(r)
<1>1. \A e \in Entries(Tree) : Range(e.name) \subseteq NameAtoms
  BY Zenon DEF NameAtoms
<1> QED
  BY <1>1 DEF Atoms

(* Paths and names are sequences of them.                                   *)
LEMMA NamesAre ==
  ASSUME NEW r \in Roots
  PROVE  /\ r.path \in Seq(Atoms(r))
         /\ \A e \in Entries(Tree) :
              e.name \in Seq(Atoms(r)) /\ e.name # <<>> /\ "/" \notin Range(e.name)
<1>0. r.path \in Seq(Range(r.path))
  BY TreeAssumption
<1>1. Range(r.path) \subseteq Atoms(r)
  BY AtomsHold
<1>2. r.path \in Seq(Atoms(r))
  BY <1>0, <1>1, SeqMonotonic, Zenon
<1>3. ASSUME NEW e \in Entries(Tree)
      PROVE  e.name \in Seq(Atoms(r)) /\ e.name # <<>> /\ "/" \notin Range(e.name)
  <2>1. e.name \in Seq(Range(e.name)) /\ e.name # <<>> /\ "/" \notin Range(e.name)
    BY NamesAssumption
  <2>2. Range(e.name) \subseteq Atoms(r)
    BY AtomsHold
  <2> QED
    BY <2>1, <2>2, SeqMonotonic
<1> QED
  BY <1>2, <1>3

(* The path ends like the name of the entry, and lies in a .git if the     *)
(* root does or a name on the way is one.                                  *)
LEMMA PathIs ==
  ASSUME NEW r \in Roots, NEW n \in Nat, n >= 1, NEW w \in [1 .. n -> Entries(Tree)]
  PROVE  /\ PathTo(r, w) \in Seq(Atoms(r)) /\ PathTo(r, w) # <<>>
         /\ Last(PathTo(r, w)) = Last(w[n].name)
         /\ InGit(PathTo(r, w)) <=> InGit(r.path) \/ \E i \in 1 .. n : w[i].name = <<".git">>
<1>1. Len(w) = n
  OBVIOUS
<1>2. PICK s : s = [i \in 1 .. Len(w) |-> <<"/">> \o w[i].name]
  OBVIOUS
<1>3. Len(s) = n /\ \A i \in 1 .. n : s[i] = <<"/">> \o w[i].name
  BY <1>1, <1>2
<1>4. PICK f : /\ FlattenSeq(s) = f[n] /\ f[1] = s[1]
               /\ \A i \in 1 .. n - 1 : f[i + 1] = f[i] \o s[i + 1]
  <2>1. Len(s) \in Nat /\ Len(s) >= 1
    BY <1>3
  <2>2. PICK f : /\ FlattenSeq(s) = f[Len(s)] /\ f[1] = s[1]
                 /\ \A i \in 1 .. Len(s) - 1 : f[i + 1] = f[i] \o s[i + 1]
    BY <2>1, FlattenIs
  <2> QED
    BY <1>3, <2>2
<1>5. PICK A : A = Atoms(r)
  OBVIOUS
<1>6. /\ r.path \in Seq(A) /\ <<"/">> \in Seq(A)
      /\ \A e \in Entries(Tree) : e.name \in Seq(A) /\ e.name # <<>> /\ "/" \notin Range(e.name)
  <2>1. "/" \in A
    BY <1>5, AtomsHold
  <2>2. <<"/">> \in Seq(A)
    BY <2>1
  <2> QED
    BY <1>5, <2>2, NamesAre, Zenon
<1>7. "/" \in A
  BY <1>5, AtomsHold
<1>8. \A i \in 1 .. n : w[i] \in Entries(Tree) /\ s[i] \in Seq(A)
  <2> SUFFICES ASSUME NEW i \in 1 .. n PROVE w[i] \in Entries(Tree) /\ s[i] \in Seq(A)
    OBVIOUS
  <2>1. w[i] \in Entries(Tree)
    OBVIOUS
  <2>2. w[i].name \in Seq(A)
    BY <1>6, <2>1
  <2>3. <<"/">> \o w[i].name \in Seq(A)
    BY <1>6, <2>2, ConcatProperties, Zenon
  <2> QED
    BY <1>3, <2>1, <2>3
<1> DEFINE Git(p, i) == InGit(p) <=> InGit(r.path) \/ \E k \in 1 .. i : w[k].name = <<".git">>
           Good(i) == /\ f[i] \in Seq(A) /\ r.path \o f[i] \in Seq(A) /\ r.path \o f[i] # <<>>
                      /\ Last(r.path \o f[i]) = Last(w[i].name) /\ Git(r.path \o f[i], i)
           S == {i \in Nat : i + 1 <= n => Good(i + 1)}
<1>9. ASSUME NEW p \in Seq(A), NEW i \in 1 .. n, NEW q, q = p \o s[i]
      PROVE  /\ q \in Seq(A) /\ q # <<>> /\ Last(q) = Last(w[i].name)
             /\ InGit(q) <=> InGit(p) \/ w[i].name = <<".git">>
  <2>1. /\ w[i].name \in Seq(A) /\ w[i].name # <<>> /\ "/" \notin Range(w[i].name)
        /\ q = p \o (<<"/">> \o w[i].name)
    BY <1>3, <1>6, <1>8, <1>9
  <2>2. /\ q \in Seq(A) /\ q # <<>> /\ Last(q) = Last(w[i].name)
        /\ InGit(q) <=> InGit(p) \/ w[i].name = <<".git">>
    <3>1. PICK name \in Seq(A) : name = w[i].name
      BY <2>1
    <3>2. name # <<>> /\ "/" \notin Range(name) /\ q = Level(p, name)
      BY <2>1, <3>1 DEF Level
    <3>3. LevelEnds(A, p, name) /\ LevelInGit(p, name)
      BY <1>7, <3>2, LevelAdded
    <3> QED
      BY <3>1, <3>2, <3>3, Zenon DEF LevelEnds, LevelInGit
  <2> QED
    BY <2>2
<1>10. Good(1)
  <2>1. 1 \in 1 .. n
    OBVIOUS
  <2>2. f[1] = s[1] /\ s[1] \in Seq(A)
    BY <1>4, <1>8, <2>1
  <2>3. PICK q : q = r.path \o f[1]
    OBVIOUS
  <2>4. /\ q \in Seq(A) /\ q # <<>> /\ Last(q) = Last(w[1].name)
        /\ InGit(q) <=> InGit(r.path) \/ w[1].name = <<".git">>
    BY <1>6, <1>9, <2>1, <2>2, <2>3
  <2>5. \A k \in 1 .. 1 : k = 1
    OBVIOUS
  <2>6. Git(q, 1)
    BY <2>1, <2>4, <2>5
  <2> HIDE DEF Git
  <2> QED
    BY <2>2, <2>3, <2>4, <2>6
<1>11. ASSUME NEW i \in Nat, i + 1 <= n, i >= 1, Good(i) PROVE Good(i + 1)
  <2>1. i + 1 \in 1 .. n /\ i \in 1 .. n - 1
    BY <1>11
  <2>2. f[i + 1] = f[i] \o s[i + 1] /\ s[i + 1] \in Seq(A)
    BY <1>4, <1>8, <2>1
  <2>3. PICK p : p = r.path \o f[i]
    OBVIOUS
  <2>4. p \in Seq(A) /\ Git(p, i) /\ f[i] \in Seq(A)
    BY <1>11, <2>3
  <2>5. PICK q : q = r.path \o f[i + 1]
    OBVIOUS
  <2>6. f[i + 1] \in Seq(A) /\ q = p \o s[i + 1]
    <3>1. f[i] \o s[i + 1] \in Seq(A)
      BY <2>2, <2>4, ConcatProperties, Zenon
    <3>2. (r.path \o f[i]) \o s[i + 1] = r.path \o (f[i] \o s[i + 1])
      <4>1. PICK a \in Seq(A) : a = r.path
        BY <1>6
      <4>2. PICK b \in Seq(A) : b = f[i]
        BY <2>4
      <4>3. PICK c \in Seq(A) : c = s[i + 1]
        BY <2>2
      <4>4. (a \o b) \o c = a \o (b \o c)
        BY ConcatAssociative
      <4> QED
        BY <4>1, <4>2, <4>3, <4>4, Zenon
    <3> QED
      BY <2>2, <2>3, <2>5, <3>1, <3>2, Zenon
  <2>7. /\ q \in Seq(A) /\ q # <<>> /\ Last(q) = Last(w[i + 1].name)
        /\ InGit(q) <=> InGit(p) \/ w[i + 1].name = <<".git">>
    BY <1>9, <2>1, <2>4, <2>6
  <2>8. \A k \in 1 .. i + 1 : k \in 1 .. i \/ k = i + 1
    BY <1>11
  <2>9. \A k \in 1 .. i : k \in 1 .. i + 1
    BY <1>11
  <2>10. i + 1 \in 1 .. i + 1
    BY <1>11
  <2>11. Git(q, i + 1)
    BY <2>4, <2>7, <2>8, <2>9, <2>10
  <2> HIDE DEF Git
  <2> QED
    BY <2>5, <2>6, <2>7, <2>11
<1>12. Good(n)
  <2>1. 0 \in S
    BY <1>10
  <2>2. ASSUME NEW i \in Nat, i \in S PROVE i + 1 \in S
    <3> SUFFICES ASSUME (i + 1) + 1 <= n PROVE Good((i + 1) + 1)
      OBVIOUS
    <3>1. i + 1 \in Nat /\ i + 1 >= 1 /\ i + 1 <= n
      OBVIOUS
    <3>2. Good(i + 1)
      BY <2>2, <3>1
    <3> HIDE DEF Good
    <3> QED
      BY <1>11, <3>1, <3>2
  <2>3. n - 1 \in Nat /\ (n - 1) + 1 = n
    OBVIOUS
  <2>4. n - 1 \in S
    <3> HIDE DEF S
    <3> QED
      BY <2>1, <2>2, <2>3, NatSetInduction
  <2>5. (n - 1) + 1 <= n => Good((n - 1) + 1)
    BY <2>4
  <2> HIDE DEF Good
  <2> QED
    BY <2>3, <2>5
<1>13. PathTo(r, w) = r.path \o f[n]
  BY <1>2, <1>4 DEF PathTo
<1> QED
  BY <1>5, <1>12, <1>13

(* A way that the search walks, from the directory to the entry x.          *)
Walks(dir, n, w) ==
  /\ w[1] \in Tree[dir]
  /\ \A i \in 1 .. n - 1 : Walked(w[i]) /\ w[i + 1] \in Tree[w[i].node]

(* What the search of a root finds, without the patterns.                   *)
LEMMA FoundIs ==
  ASSUME NEW r \in Roots, NEW x
  PROVE  x \in {t.entry.node : t \in {u \in Found : u.root = r}} <=>
           /\ ~InGit(r.path)
           /\ \E n \in 1 .. Cardinality(DOMAIN Tree) : \E w \in [1 .. n -> Entries(Tree)] :
                Walks(r.node, n, w) /\ Source(w[n]) /\ w[n].node = x
<1>0. Cardinality(DOMAIN Tree) \in Nat
  BY TreeAssumption, FS_CardinalityType
<1>1. ASSUME NEW n \in 1 .. Cardinality(DOMAIN Tree), NEW w \in [1 .. n -> Entries(Tree)]
      PROVE  w \in Ways(Tree, prune_dirs, r.node) <=>
               /\ w[1] \in Tree[r.node]
               /\ \A i \in 1 .. n - 1 :
                    /\ w[i].node \in DOMAIN Tree /\ ~is_pruned_dir(w[i].name, prune_dirs)
                    /\ w[i + 1] \in Tree[w[i].node]
  <2>1. Len(w) = n
    BY <1>0
  <2> QED
    BY <2>1 DEF Ways
<1>2. ASSUME NEW e \in Entries(Tree)
      PROVE  is_pruned_dir(e.name, prune_dirs) <=>
               e.name = <<".git">> \/ e.name[1] = "scons-local"
  <2>1. PICK name : name = e.name
    OBVIOUS
  <2>2. name \in Seq(Range(name)) /\ name # <<>> /\ "/" \notin Range(name)
    BY <2>1, NamesAssumption
  <2>3. PICK C : C = Range(name)
    OBVIOUS
  <2>4. is_pruned_dir(name, prune_dirs) <=> name = <<".git">> \/ name[1] = "scons-local"
    BY <2>2, <2>3, PrunedIs, Zenon
  <2> QED
    BY <2>1, <2>4
<1>3. ASSUME NEW n \in 1 .. Cardinality(DOMAIN Tree), NEW w \in [1 .. n -> Entries(Tree)]
      PROVE  w \in Ways(Tree, prune_dirs, r.node) <=> Walks(r.node, n, w)
  <2>1. n \in Nat
    BY <1>0
  <2>2. \A i \in 1 .. n - 1 : w[i] \in Entries(Tree)
    BY <2>1
  <2>3. \A i \in 1 .. n - 1 :
          w[i].node \in DOMAIN Tree /\ ~is_pruned_dir(w[i].name, prune_dirs) <=> Walked(w[i])
    BY <1>2, <2>2, Zenon DEF Walked
  <2> QED
    BY <1>1, <2>3, Zenon DEF Walks
<1>4. ASSUME NEW n \in 1 .. Cardinality(DOMAIN Tree), NEW w \in [1 .. n -> Entries(Tree)],
             w \in Ways(Tree, prune_dirs, r.node)
      PROVE  /\ apply_filter(PathTo(r, w), includes)
             /\ ~apply_filter(PathTo(r, w), default_excludes)
             /\ w[n].node \notin DOMAIN Tree /\ ~w[n].link
             <=> ~InGit(r.path) /\ Source(w[n])
  <2>1. n \in Nat /\ n >= 1
    BY <1>0
  <2>2. PICK p : p = PathTo(r, w)
    OBVIOUS
  <2>3. PICK C : C = Atoms(r)
    OBVIOUS
  <2>4. /\ p \in Seq(C) /\ p # <<>> /\ Last(p) = Last(w[n].name)
        /\ InGit(p) <=> InGit(r.path) \/ \E i \in 1 .. n : w[i].name = <<".git">>
    BY <2>1, <2>2, <2>3, PathIs
  <2>5. apply_filter(p, includes) <=> Last(w[n].name) \in SourceSuffixes
    BY <2>4, IncludedIs
  <2>6. ASSUME Last(w[n].name) \in SourceSuffixes
        PROVE  apply_filter(p, default_excludes) <=> InGit(r.path)
    <3>1. apply_filter(p, default_excludes) <=> InGit(p)
      BY <2>4, <2>6, ExcludedIs
    <3>2. w[n].name # <<".git">>
      <4>1. Last(<<".git">>) = ".git"
        BY DEF Last
      <4> QED
        BY <2>6, <4>1 DEF SourceSuffixes
    <3>3. \A i \in 1 .. n - 1 : w[i].name # <<".git">>
      BY <1>3, <1>4, Zenon DEF Walks, Walked
    <3>4. \A i \in 1 .. n : i = n \/ i \in 1 .. n - 1
      BY <2>1
    <3>5. ~\E i \in 1 .. n : w[i].name = <<".git">>
      BY <3>2, <3>3, <3>4, Zenon
    <3> QED
      BY <2>4, <3>1, <3>5
  <2>7. Source(w[n]) <=>
          w[n].node \notin DOMAIN Tree /\ ~w[n].link /\ Last(w[n].name) \in SourceSuffixes
    BY Zenon DEF Source, SourceSuffixes
  <2> QED
    BY <2>2, <2>5, <2>6, <2>7
<1> DEFINE Test(w) == [entry |-> Last(w), path |-> PathTo(r, w)]
           Passes(w) == /\ apply_filter(PathTo(r, w), includes)
                        /\ ~apply_filter(PathTo(r, w), default_excludes)
                        /\ Last(w).node \notin DOMAIN Tree /\ ~Last(w).link
           Hits == glob(Tree, r, includes, default_excludes, prune_dirs)
<1>5. x \in {t.entry.node : t \in {u \in Found : u.root = r}} <=>
        \E t \in Hits : t.entry.node = x
  <2>1. \A u : u \in Found <=> \E q \in Roots :
          \E t \in glob(Tree, q, includes, default_excludes, prune_dirs) :
             u = [root |-> q, path |-> t.path, entry |-> t.entry]
    BY DEF Found
  <2>2. ASSUME NEW u \in Found, u.root = r, u.entry.node = x
        PROVE  \E t \in Hits : t.entry.node = x
    <3>1. PICK q \in Roots :
            \E t \in glob(Tree, q, includes, default_excludes, prune_dirs) :
               u = [root |-> q, path |-> t.path, entry |-> t.entry]
      BY <2>1
    <3>2. PICK t \in glob(Tree, q, includes, default_excludes, prune_dirs) :
            u = [root |-> q, path |-> t.path, entry |-> t.entry]
      BY <3>1
    <3>3. q = r /\ t.entry.node = x
      BY <2>2, <3>2
    <3> QED
      BY <3>3
  <2>3. ASSUME NEW t \in Hits, t.entry.node = x
        PROVE  \E u \in Found : u.root = r /\ u.entry.node = x
    <3>1. PICK u : u = [root |-> r, path |-> t.path, entry |-> t.entry]
      OBVIOUS
    <3>2. u \in Found
      BY <2>1, <3>1
    <3> QED
      BY <2>3, <3>1, <3>2
  <2> HIDE DEF Hits
  <2> QED
    BY <2>2, <2>3
<1>6. \A t : t \in Hits <=>
        \E w \in Ways(Tree, prune_dirs, r.node) : t = Test(w) /\ Passes(w)
  <2> SUFFICES ASSUME NEW t
               PROVE  t \in Hits <=>
                        \E w \in Ways(Tree, prune_dirs, r.node) : t = Test(w) /\ Passes(w)
    OBVIOUS
  <2>1. t \in Tested(Tree, prune_dirs, r) <=>
          \E w \in Ways(Tree, prune_dirs, r.node) : t = Test(w)
    BY Zenon DEF Tested, PathTo
  <2>2. \A w : t = Test(w) => t.entry = Last(w) /\ t.path = PathTo(r, w)
    <3>1. \A w : Test(w).entry = Last(w)
      BY Zenon
    <3>2. \A w : Test(w).path = PathTo(r, w)
      BY Zenon
    <3> HIDE DEF Test
    <3> QED
      BY <3>1, <3>2, Zenon
  <2>3. t \in Hits <=>
          /\ t \in Tested(Tree, prune_dirs, r)
          /\ apply_filter(t.path, includes) /\ ~apply_filter(t.path, default_excludes)
          /\ t.entry.node \notin DOMAIN Tree /\ ~t.entry.link
    BY Zenon DEF glob
  <2> HIDE DEF Hits, Test
  <2> QED
    BY <2>1, <2>2, <2>3, Zenon
<1>7. (\E t \in Hits : t.entry.node = x) <=>
        \E w \in Ways(Tree, prune_dirs, r.node) : Passes(w) /\ Last(w).node = x
  <2>1. \A w : Test(w).entry = Last(w)
    BY Zenon
  <2> HIDE DEF Hits, Test, Passes
  <2> QED
    BY <1>6, <2>1, Zenon
<1>8. \A w : w \in Ways(Tree, prune_dirs, r.node) =>
        \E n \in 1 .. Cardinality(DOMAIN Tree) : w \in [1 .. n -> Entries(Tree)]
  BY Zenon DEF Ways
<1>9. ASSUME NEW n \in 1 .. Cardinality(DOMAIN Tree), NEW w \in [1 .. n -> Entries(Tree)],
             w \in Ways(Tree, prune_dirs, r.node)
      PROVE  Passes(w) /\ Last(w).node = x <=>
               ~InGit(r.path) /\ Source(w[n]) /\ w[n].node = x
  <2>1. Last(w) = w[n]
    BY <1>0 DEF Last
  <2> QED
    BY <1>4, <1>9, <2>1, Zenon
<1> HIDE DEF Hits, Passes
<1> DEFINE Sides == /\ ~InGit(r.path)
                    /\ \E n \in 1 .. Cardinality(DOMAIN Tree) : \E w \in [1 .. n -> Entries(Tree)] :
                         Walks(r.node, n, w) /\ Source(w[n]) /\ w[n].node = x
<1>10. ASSUME NEW w \in Ways(Tree, prune_dirs, r.node), Passes(w), Last(w).node = x
       PROVE  Sides
  <2>1. PICK n \in 1 .. Cardinality(DOMAIN Tree) : w \in [1 .. n -> Entries(Tree)]
    BY <1>8, Zenon
  <2>2. Walks(r.node, n, w)
    BY <1>3, <2>1, Zenon
  <2> QED
    BY <1>9, <1>10, <2>1, <2>2, Zenon
<1>11. ASSUME Sides
       PROVE  \E w \in Ways(Tree, prune_dirs, r.node) : Passes(w) /\ Last(w).node = x
  <2>1. PICK n \in 1 .. Cardinality(DOMAIN Tree) : \E w \in [1 .. n -> Entries(Tree)] :
          Walks(r.node, n, w) /\ Source(w[n]) /\ w[n].node = x
    BY <1>11
  <2>2. PICK w \in [1 .. n -> Entries(Tree)] :
          Walks(r.node, n, w) /\ Source(w[n]) /\ w[n].node = x
    BY <2>1
  <2>3. w \in Ways(Tree, prune_dirs, r.node)
    BY <1>3, <2>2, Zenon
  <2> QED
    BY <1>9, <1>11, <2>2, <2>3, Zenon
<1>12. x \in {t.entry.node : t \in {u \in Found : u.root = r}} <=> Sides
  <2> HIDE DEF Sides
  <2> QED
    BY <1>5, <1>7, <1>10, <1>11, Zenon
<1> QED
  BY <1>12, Zenon

(* What a directory holds is an entry of the tree.                          *)
LEMMA Inside ==
  ASSUME NEW d \in DOMAIN Tree, NEW e \in Tree[d]
  PROVE  e \in Entries(Tree)
BY Zenon DEF Entries

(* The sources of the directories that are reached.                         *)
LEMMA BelowIs ==
  ASSUME NEW dir \in DOMAIN Tree, NEW x
  PROVE  x \in Below[dir] <=>
           \E d \in Reached(dir) : \E e \in Tree[d] : Source(e) /\ e.node = x
<1>1. Below[dir] = {e.node : e \in {y \in UNION {Tree[d] : d \in Reached(dir)} : Source(y)}}
  BY Zenon DEF Below
<1> QED
  BY <1>1

(* What is reached is in every set that is closed.                          *)
LEMMA ReachedIs ==
  ASSUME NEW dir \in DOMAIN Tree, NEW d
  PROVE  d \in Reached(dir) <=>
           /\ d \in DOMAIN Tree
           /\ \A ds \in SUBSET DOMAIN Tree : dir \in ds /\ Closed(ds) => d \in ds
BY Zenon DEF Reached

(* A way that is walked stays within what is reached.                       *)
LEMMA WalksReached ==
  ASSUME NEW dir \in DOMAIN Tree, NEW n \in Nat, n >= 1,
         NEW w \in [1 .. n -> Entries(Tree)], Walks(dir, n, w)
  PROVE  \E d \in Reached(dir) : w[n] \in Tree[d]
<1>1. CASE n = 1
  <2>1. dir \in Reached(dir)
    BY ReachedIs
  <2> QED
    BY <1>1, <2>1 DEF Walks
<1>2. CASE n # 1
  <2>1. ASSUME NEW ds \in SUBSET DOMAIN Tree, dir \in ds, Closed(ds)
        PROVE  w[n - 1].node \in ds
    <3> DEFINE S == {i \in Nat : i + 1 \in 1 .. n - 1 => w[i + 1].node \in ds}
    <3>1. \A i \in 1 .. n - 1 : Walked(w[i]) /\ w[i + 1] \in Tree[w[i].node]
      BY Zenon DEF Walks
    <3>2. \A d \in ds : \A e \in Tree[d] : Walked(e) => e.node \in ds
      BY <2>1, Zenon DEF Closed
    <3>3. 0 \in S
      <4>1. 1 \in 1 .. n - 1 => w[1].node \in ds
        BY <2>1, <3>1, <3>2, Zenon DEF Walks
      <4> QED
        BY <4>1
    <3>4. ASSUME NEW i \in Nat, i \in S PROVE i + 1 \in S
      <4> SUFFICES ASSUME (i + 1) + 1 \in 1 .. n - 1 PROVE w[(i + 1) + 1].node \in ds
        OBVIOUS
      <4>1. i + 1 \in 1 .. n - 1
        OBVIOUS
      <4>2. w[i + 1].node \in ds
        BY <3>4, <4>1
      <4>3. w[(i + 1) + 1] \in Tree[w[i + 1].node] /\ Walked(w[(i + 1) + 1])
        BY <3>1, <4>1, Zenon
      <4> QED
        BY <3>2, <4>2, <4>3, Zenon
    <3>5. n - 2 \in Nat /\ (n - 2) + 1 = n - 1 /\ n - 1 \in 1 .. n - 1
      BY <1>2
    <3>6. n - 2 \in S
      <4> HIDE DEF S
      <4> QED
        BY <3>3, <3>4, <3>5, NatSetInduction
    <3> QED
      BY <3>5, <3>6
  <2>2. n - 1 \in 1 .. n - 1 /\ (n - 1) + 1 = n
    BY <1>2
  <2>3. Walked(w[n - 1]) /\ w[(n - 1) + 1] \in Tree[w[n - 1].node]
    BY <2>2, Zenon DEF Walks
  <2>4. w[n - 1].node \in DOMAIN Tree
    BY <2>3, Zenon DEF Walked
  <2>5. w[n - 1].node \in Reached(dir)
    BY <2>1, <2>4, ReachedIs, Zenon
  <2> QED
    BY <2>2, <2>3, <2>5
<1> QED
  BY <1>1, <1>2

(* A way through directories none of which it meets twice.                  *)
Simple(dir, n, w) ==
  /\ w[1] \in Tree[dir]
  /\ \A i \in 1 .. n : Walked(w[i]) /\ w[i].node # dir
  /\ \A i \in 1 .. n - 1 : w[i + 1] \in Tree[w[i].node]
  /\ \A i, j \in 1 .. n : w[i].node = w[j].node => i = j

(* One entry more.                                                          *)
More(w, n, e) == [j \in 1 .. n + 1 |-> IF j <= n THEN w[j] ELSE e]

(* Where such ways lead.                                                    *)
SimplyReached(dir) ==
  {dir} \cup {x \in DOMAIN Tree : \E n \in Nat : \E w \in [1 .. n -> Entries(Tree)] :
                Simple(dir, n, w) /\ \E i \in 1 .. n : w[i].node = x}

(* They lead to all that is reached: one entry more is known already or     *)
(* makes such a way longer.                                                 *)
LEMMA SimplyClosed ==
  ASSUME NEW dir \in DOMAIN Tree
  PROVE  Closed(SimplyReached(dir))
<1> SUFFICES ASSUME NEW d \in SimplyReached(dir), NEW e \in Tree[d], Walked(e),
                    e.node \notin SimplyReached(dir)
             PROVE  FALSE
  BY Zenon DEF Closed
<1>1. d \in DOMAIN Tree /\ e.node \in DOMAIN Tree
  BY Zenon DEF SimplyReached, Walked
<1>2. e \in Entries(Tree) /\ e.node # dir
  BY <1>1, Inside, Zenon DEF SimplyReached
<1>3. ~\E n \in Nat : \E w \in [1 .. n -> Entries(Tree)] :
        Simple(dir, n, w) /\ \E i \in 1 .. n : w[i].node = e.node
  BY <1>1, Zenon DEF SimplyReached
<1>4. CASE d = dir
  <2>1. PICK w : w = [j \in 1 .. 1 |-> e]
    OBVIOUS
  <2>2. w \in [1 .. 1 -> Entries(Tree)] /\ w[1] = e /\ 1 \in 1 .. 1
    BY <1>2, <2>1
  <2>3. Simple(dir, 1, w)
    BY <1>2, <1>4, <2>2 DEF Simple
  <2> QED
    BY <1>3, <2>2, <2>3
<1>5. CASE d # dir
  <2>1. PICK m \in Nat : \E w \in [1 .. m -> Entries(Tree)] :
          Simple(dir, m, w) /\ \E i \in 1 .. m : w[i].node = d
    BY <1>5, Zenon DEF SimplyReached
  <2>2. PICK w \in [1 .. m -> Entries(Tree)] :
          Simple(dir, m, w) /\ \E i \in 1 .. m : w[i].node = d
    BY <2>1
  <2>3. PICK n \in 1 .. m : w[n].node = d
    BY <2>2
  <2>4. PICK v : v = More(w, n, e)
    OBVIOUS
  <2>5. n \in Nat /\ n >= 1 /\ m >= n /\ n + 1 \in Nat
    OBVIOUS
  <2>6. v \in [1 .. n + 1 -> Entries(Tree)] /\ (\A j \in 1 .. n : v[j] = w[j]) /\ v[n + 1] = e
    BY <1>2, <2>4, <2>5 DEF More
  <2>7. \A i \in 1 .. n + 1 : i \in 1 .. n \/ i = n + 1
    BY <2>5
  <2>8. \A i \in 1 .. n : i \in 1 .. m
    BY <2>5
  <2>9. \A i \in 1 .. n : w[i].node # e.node
    BY <1>3, <2>2, <2>8, Zenon
  <2>10. v[1] \in Tree[dir]
    BY <2>2, <2>5, <2>6 DEF Simple
  <2>11. \A i \in 1 .. n + 1 : Walked(v[i]) /\ v[i].node # dir
    BY <1>2, <2>2, <2>6, <2>7, <2>8, Zenon DEF Simple
  <2>12. ASSUME NEW i \in 1 .. (n + 1) - 1 PROVE v[i + 1] \in Tree[v[i].node]
    <3>1. i \in 1 .. n /\ (i = n \/ (i + 1 \in 1 .. n /\ i \in 1 .. m - 1))
      BY <2>5
    <3>2. CASE i = n
      BY <2>3, <2>6, <3>1, <3>2
    <3>3. CASE i # n
      <4>1. w[i + 1] \in Tree[w[i].node]
        BY <2>2, <3>1, <3>3, Zenon DEF Simple
      <4> QED
        BY <2>6, <3>1, <3>3, <4>1
    <3> QED
      BY <3>2, <3>3
  <2>13. \A i, j \in 1 .. n + 1 : v[i].node = v[j].node => i = j
    <3>1. \A i, j \in 1 .. n : w[i].node = w[j].node => i = j
      BY <2>2, <2>8, Zenon DEF Simple
    <3> QED
      BY <2>6, <2>7, <2>9, <3>1, Zenon
  <2>14. Simple(dir, n + 1, v)
    BY <2>10, <2>11, <2>12, <2>13, Zenon DEF Simple
  <2>15. n + 1 \in 1 .. n + 1
    BY <2>5
  <2> QED
    BY <1>3, <2>5, <2>6, <2>14, <2>15, Zenon
<1> QED
  BY <1>4, <1>5

(* There are no more directories on such a way than there are.              *)
LEMMA SimpleShort ==
  ASSUME NEW dir \in DOMAIN Tree, NEW n \in Nat, NEW w \in [1 .. n -> Entries(Tree)],
         Simple(dir, n, w), NEW k \in 1 .. n
  PROVE  k + 1 <= Cardinality(DOMAIN Tree)
<1>1. PICK f : f = [j \in 0 .. k |-> IF j = 0 THEN dir ELSE w[j].node]
  OBVIOUS
<1>2. \A j \in 1 .. n : w[j].node \in DOMAIN Tree /\ w[j].node # dir
  BY Zenon DEF Simple, Walked
<1>3. \A i, j \in 1 .. n : w[i].node = w[j].node => i = j
  BY Zenon DEF Simple
<1>4. k \in Nat /\ \A j \in 0 .. k : j = 0 \/ (j # 0 /\ j \in 1 .. n)
  OBVIOUS
<1>5. \A j \in 0 .. k : f[j] = IF j = 0 THEN dir ELSE w[j].node
  BY <1>1
<1>6. f \in [0 .. k -> DOMAIN Tree]
  BY <1>1, <1>2, <1>4
<1>7. \A i, j \in 0 .. k : f[i] = f[j] => i = j
  BY <1>2, <1>3, <1>4, <1>5, Zenon
<1>8. f \in Injection(0 .. k, DOMAIN Tree)
  BY <1>6, <1>7 DEF Injection, IsInjective
<1>9. Cardinality(0 .. k) = k + 1
  BY <1>4, FS_Interval
<1>10. IsFiniteSet(DOMAIN Tree)
  BY TreeAssumption
<1>11. Cardinality(0 .. k) <= Cardinality(DOMAIN Tree)
  BY <1>8, <1>10, FS_Injection, Zenon
<1> QED
  BY <1>9, <1>11

(* What is reached is found by a way no longer than there are directories.  *)
LEMMA ReachedWalks ==
  ASSUME NEW dir \in DOMAIN Tree, NEW d \in Reached(dir), NEW e \in Tree[d]
  PROVE  \E n \in 1 .. Cardinality(DOMAIN Tree) : \E w \in [1 .. n -> Entries(Tree)] :
           Walks(dir, n, w) /\ w[n] = e
<1>0. Cardinality(DOMAIN Tree) \in Nat /\ Cardinality(DOMAIN Tree) >= 1
  <2>1. Cardinality(DOMAIN Tree) \in Nat /\ Cardinality(DOMAIN Tree) # 0
    BY TreeAssumption, FS_CardinalityType, FS_EmptySet
  <2> QED
    BY <2>1
<1>1. d \in SimplyReached(dir)
  <2>1. SimplyReached(dir) \in SUBSET DOMAIN Tree /\ dir \in SimplyReached(dir)
    BY DEF SimplyReached
  <2> QED
    BY <2>1, SimplyClosed, ReachedIs, Zenon
<1>2. d \in DOMAIN Tree /\ e \in Entries(Tree)
  BY ReachedIs, Inside
<1>3. CASE d = dir
  <2>1. PICK w : w = [j \in 1 .. 1 |-> e]
    OBVIOUS
  <2>2. w \in [1 .. 1 -> Entries(Tree)] /\ w[1] = e
    BY <1>2, <2>1
  <2>3. Walks(dir, 1, w)
    BY <1>3, <2>2 DEF Walks
  <2>4. 1 \in 1 .. Cardinality(DOMAIN Tree)
    BY <1>0
  <2> QED
    BY <2>2, <2>3, <2>4, Zenon
<1>4. CASE d # dir
  <2>1. PICK m \in Nat : \E w \in [1 .. m -> Entries(Tree)] :
          Simple(dir, m, w) /\ \E i \in 1 .. m : w[i].node = d
    BY <1>1, <1>4, Zenon DEF SimplyReached
  <2>2. PICK w \in [1 .. m -> Entries(Tree)] :
          Simple(dir, m, w) /\ \E i \in 1 .. m : w[i].node = d
    BY <2>1
  <2>3. PICK n \in 1 .. m : w[n].node = d
    BY <2>2
  <2>4. PICK v : v = More(w, n, e)
    OBVIOUS
  <2>5. n \in Nat /\ n >= 1 /\ m >= n /\ n + 1 \in Nat
    OBVIOUS
  <2>6. v \in [1 .. n + 1 -> Entries(Tree)] /\ (\A j \in 1 .. n : v[j] = w[j]) /\ v[n + 1] = e
    BY <1>2, <2>4, <2>5 DEF More
  <2>7. v[1] \in Tree[dir]
    BY <2>2, <2>5, <2>6 DEF Simple
  <2>8. ASSUME NEW i \in 1 .. (n + 1) - 1 PROVE Walked(v[i]) /\ v[i + 1] \in Tree[v[i].node]
    <3>1. i \in 1 .. n /\ i \in 1 .. m /\ (i = n \/ (i + 1 \in 1 .. n /\ i \in 1 .. m - 1))
      BY <2>5
    <3>2. Walked(v[i])
      BY <2>2, <2>6, <3>1 DEF Simple
    <3>3. CASE i = n
      BY <2>3, <2>6, <3>1, <3>2, <3>3
    <3>4. CASE i # n
      <4>1. w[i + 1] \in Tree[w[i].node]
        BY <2>2, <3>1, <3>4, Zenon DEF Simple
      <4> QED
        BY <2>6, <3>1, <3>2, <3>4, <4>1
    <3> QED
      BY <3>3, <3>4
  <2>9. Walks(dir, n + 1, v)
    BY <2>7, <2>8, Zenon DEF Walks
  <2>10. n + 1 <= Cardinality(DOMAIN Tree)
    BY <2>2, SimpleShort
  <2>11. n + 1 \in 1 .. Cardinality(DOMAIN Tree)
    BY <1>0, <2>5, <2>10
  <2> QED
    BY <2>6, <2>9, <2>11, Zenon
<1> QED
  BY <1>3, <1>4

(* Each search finds the sources below its directory and nothing else: the *)
(* patterns that antglob.py translates and matches, its pruning and its    *)
(* walk (antglob.py:56-201) come to what the updater means by them, in     *)
(* every tree of names.                                                    *)
THEOREM SearchFinds == SearchExact
<1> SUFFICES ASSUME NEW r \in Roots, NEW x
             PROVE  x \in {t.entry.node : t \in {u \in Found : u.root = r}} <=> x \in Sought(r)
  BY Zenon DEF SearchExact
<1>0. r.node \in DOMAIN Tree
  BY TreeAssumption
<1>1. x \in {t.entry.node : t \in {u \in Found : u.root = r}} <=>
        /\ ~InGit(r.path)
        /\ \E n \in 1 .. Cardinality(DOMAIN Tree) : \E w \in [1 .. n -> Entries(Tree)] :
             Walks(r.node, n, w) /\ Source(w[n]) /\ w[n].node = x
  BY FoundIs
<1>2. x \in Sought(r) <=> ~InGit(r.path) /\ x \in Below[r.node]
  BY Zenon DEF Sought
<1>3. ASSUME NEW n \in 1 .. Cardinality(DOMAIN Tree), NEW w \in [1 .. n -> Entries(Tree)],
             Walks(r.node, n, w), Source(w[n]), w[n].node = x
      PROVE  x \in Below[r.node]
  <2>1. n \in Nat /\ n >= 1
    <3>1. Cardinality(DOMAIN Tree) \in Nat
      BY TreeAssumption, FS_CardinalityType
    <3> QED
      BY <3>1
  <2>2. \E d \in Reached(r.node) : w[n] \in Tree[d]
    BY <1>0, <1>3, <2>1, WalksReached
  <2> QED
    BY <1>0, <1>3, <2>2, BelowIs, Zenon
<1>4. ASSUME x \in Below[r.node]
      PROVE  \E n \in 1 .. Cardinality(DOMAIN Tree) : \E w \in [1 .. n -> Entries(Tree)] :
               Walks(r.node, n, w) /\ Source(w[n]) /\ w[n].node = x
  <2>1. PICK d \in Reached(r.node) : \E e \in Tree[d] : Source(e) /\ e.node = x
    BY <1>0, <1>4, BelowIs, Zenon
  <2>2. PICK e \in Tree[d] : Source(e) /\ e.node = x
    BY <2>1
  <2>3. \E n \in 1 .. Cardinality(DOMAIN Tree) : \E w \in [1 .. n -> Entries(Tree)] :
          Walks(r.node, n, w) /\ w[n] = e
    BY <1>0, ReachedWalks
  <2> QED
    BY <2>2, <2>3, Zenon
<1> QED
  BY <1>1, <1>2, <1>3, <1>4, Zenon

(* AntConvention: whenever a search is about to begin, the expressions     *)
(* match just the paths that their patterns fit, whatever patterns of the  *)
(* convention and paths are asked about, and each search finds just the    *)
(* sources below its directory.                                            *)
THEOREM ConventionKept == Spec => []AntConvention
<1>1. PatternsFit
  BY ConventionAssumption, ConventionHolds, Zenon DEF PatternsFit
<1>2. AntConvention
  BY <1>1, SearchFinds DEF AntConvention
<1> QED
  BY <1>2, PTL

-----------------------------------------------------------------------------
Text    == Seq(Paragraphs) \ {<<>>}
Touched == pc \in {"open", "write"}

(* The run's variables fit together: what is still to be updated was found *)
(* below a directory, and outside an update there is no path.              *)
RunInv ==
  /\ pc \in {"idle", "search", "update", "open", "write"}
  /\ dirs \in Seq(Roots) /\ sources \subseteq Found
  /\ run \in [source_dirs : Seq(Roots), dry_run : BOOLEAN]
  /\ Touched => ~run.dry_run /\ path \in Files
  /\ ~Touched => path = ""
  /\ pc \in {"idle", "search"} => sources = {}
  /\ pc = "idle" => dirs = <<>>
  /\ pc # "idle" => outcome = "none"
  /\ stops \in 0 .. MaxStops /\ saves \in 0 .. MaxSaves

(* No text is empty, and the one to be written is a licensed one.          *)
TextInv ==
  /\ files \in [Files -> Text]
  /\ Touched => new_text \in Text /\ new_text[1] = "brief" /\ Len(new_text) > 1

(* A file whose text is not what the developer wrote, now or once the      *)
(* update that is under way has written what it holds.                     *)
Spoilt ==
  {f \in Files : ~(pc = "write" /\ f = path) /\ Body(files[f]) # body[f]}
    \cup {f \in Files : Touched /\ f = path /\ Body(new_text) # body[f]}

BodyInv ==
  /\ DOMAIN body = Files /\ lost \in Nat
  /\ Cardinality(Spoilt) <= lost

(* What the run has still to look at.                                       *)
BelowAll(ds) == UNION {Sought(ds[i]) : i \in DOMAIN ds}
InDirs    == BelowAll(dirs)
InSources == {s.entry.node : s \in sources}
Pending   == InDirs \cup InSources \cup {path}

LicensedInv ==
  /\ Pending \subseteq Wanted \cup {""}
  /\ ~run.dry_run /\ (pc # "idle" \/ outcome = "done") =>
       \A f \in Wanted \ (saved \cup Pending) :
         files[f][1] = "brief" /\ Len(files[f]) > 1

IInv == RunInv /\ TextInv

-----------------------------------------------------------------------------
(* Texts.                                                                   *)

(* The new text is a licensed one and keeps what stands below the license; *)
(* a license alone, which the update refuses, is the one exception to its  *)
(* having a second paragraph.                                              *)
LEMMA UpdatedText ==
  ASSUME NEW t \in Text
  PROVE  /\ Updated(t) \in Text /\ Updated(t)[1] = "brief"
         /\ Body(Updated(t)) = Body(t)
         /\ (licensed(t) => Len(t) > 1) => Len(Updated(t)) > 1
<1>1. PICK b : b = Body(t)
  OBVIOUS
<1>2. b \in Seq(Paragraphs) /\ ((licensed(t) => Len(t) > 1) => Len(b) > 0)
  <2>1. t \in Seq(Paragraphs) /\ t # <<>> /\ Len(t) \in Nat
    BY DEF Text
  <2>2. Tail(t) \in Seq(Paragraphs) /\ Len(Tail(t)) = Len(t) - 1
    BY <2>1
  <2>3. CASE licensed(t)
    BY <1>1, <2>1, <2>2, <2>3 DEF Body
  <2>4. CASE ~licensed(t)
    BY <1>1, <2>1, <2>4 DEF Body
  <2> QED
    BY <2>3, <2>4
<1>3. PICK u : u = <<"brief">> \o b
  OBVIOUS
<1>4. /\ u \in Seq(Paragraphs) /\ Len(u) = Len(b) + 1 /\ u[1] = "brief"
      /\ Tail(u) = b
  <2>1. <<"brief">> \in Seq(Paragraphs)
    BY DEF Paragraphs
  <2> QED
    BY <1>2, <1>3, <2>1
<1>5. u \in Text
  BY <1>2, <1>4 DEF Text
<1>6. Body(u) = b
  BY <1>4 DEF Body, licensed
<1>7. Updated(t) = u
  BY <1>1, <1>3 DEF Updated
<1> QED
  BY <1>1, <1>2, <1>4, <1>5, <1>6, <1>7

(* Part of a text that is not empty is a text.                              *)
LEMMA PartText ==
  ASSUME NEW t \in Text, NEW n \in 1 .. Len(t)
  PROVE  SubSeq(t, 1, n) \in Text
<1>1. t \in Seq(Paragraphs) /\ n \in Nat /\ n >= 1 /\ n <= Len(t)
  BY DEF Text
<1>2. SubSeq(t, 1, n) \in Seq(Paragraphs) /\ Len(SubSeq(t, 1, n)) = n
  BY <1>1
<1> QED
  BY <1>1, <1>2 DEF Text

(* The empty file is a text.                                                *)
LEMMA EmptyText == <<"">> \in Text /\ Len(<<"">>) = 1
BY DEF Text, Paragraphs

(* What a search finds are files of the tree.                               *)
LEMMA FoundFiles == \A s \in Found : s.root \in Roots /\ s.entry.node \in Files
<1> SUFFICES ASSUME NEW s \in Found
             PROVE  s.root \in Roots /\ s.entry.node \in Files
  OBVIOUS
<1>1. PICK r \in Roots : \E t \in glob(Tree, r, includes, default_excludes, prune_dirs) :
        s = [root |-> r, path |-> t.path, entry |-> t.entry]
  BY DEF Found
<1>2. PICK t \in glob(Tree, r, includes, default_excludes, prune_dirs) :
        s = [root |-> r, path |-> t.path, entry |-> t.entry]
  BY <1>1
<1>3. t \in Tested(Tree, prune_dirs, r) /\ t.entry.node \notin DOMAIN Tree
  BY DEF glob
<1>4. PICK w \in Ways(Tree, prune_dirs, r.node) : t.entry = Last(w)
  <2>1. PICK w \in Ways(Tree, prune_dirs, r.node) :
          t = [entry |-> Last(w),
               path  |-> r.path \o FlattenSeq([i \in 1 .. Len(w) |-> <<"/">> \o w[i].name])]
    BY <1>3, Zenon DEF Tested
  <2>2. t.entry = Last(w)
    BY <2>1
  <2> QED
    BY <2>2
<1>5. PICK n \in 1 .. Cardinality(DOMAIN Tree) : w \in [1 .. n -> Entries(Tree)]
  BY DEF Ways
<1>6. Last(w) \in Entries(Tree)
  <2>1. Cardinality(DOMAIN Tree) \in Nat
    BY TreeAssumption, FS_CardinalityType
  <2> QED
    BY <1>5 DEF Last
<1> QED
  BY <1>2, <1>3, <1>4, <1>6 DEF Files

-----------------------------------------------------------------------------
(* The run's variables and the texts.                                       *)

(* One case for each step the run or the developer can take.               *)
LEMMA Steps ==
  ASSUME [Next]_vars
  PROVE  \/ \E ds \in Seq(Roots), dry \in BOOLEAN : main(ds, dry)
         \/ Search \/ NextDir \/ Done
         \/ ReadSource \/ NoBlankLine \/ OpenSource \/ WriteSource
         \/ Stop \/ StopWriting
         \/ \E f \in Files, text \in Texts : Save(f, text)
         \/ UNCHANGED vars
<1>1. ASSUME NEW d1 \in Roots, NEW d2 \in Roots
      PROVE  <<d1>> \in Seq(Roots) /\ <<d1, d2>> \in Seq(Roots)
  OBVIOUS
<1> QED
  BY <1>1 DEF Next, update_license_in_source_directories, update_license

LEMMA NoDirs == <<>> \in Seq(Roots)
OBVIOUS

LEMMA Counted ==
  /\ 0 \in 0 .. MaxSaves /\ 0 \in 0 .. MaxStops
  /\ \A n \in 0 .. MaxSaves : n < MaxSaves => n + 1 \in 0 .. MaxSaves
  /\ \A n \in 0 .. MaxStops : n < MaxStops => n + 1 \in 0 .. MaxStops
BY BoundsAssumption

LEMMA InitTyped == Init => RunInv /\ TextInv
<1> SUFFICES ASSUME Init PROVE RunInv /\ TextInv
  OBVIOUS
<1>1. RunInv
  <2>1. /\ run = [source_dirs |-> <<>>, dry_run |-> TRUE] /\ dirs = <<>>
        /\ stops = 0 /\ saves = 0
    BY DEF Init
  <2>2. run \in [source_dirs : Seq(Roots), dry_run : BOOLEAN] /\ dirs \in Seq(Roots)
    BY <2>1, NoDirs
  <2>3. stops \in 0 .. MaxStops /\ saves \in 0 .. MaxSaves
    BY <2>1, Counted
  <2>4. /\ pc = "idle" /\ sources = {} /\ path = ""
    BY DEF Init
  <2> QED
    BY <2>1, <2>2, <2>3, <2>4 DEF RunInv, Touched
<1>2. TextInv
  BY TextsAssumption DEF Init, TextInv, Text, Touched
<1> QED
  BY <1>1, <1>2

LEMMA RunStep ==
  ASSUME RunInv, TextInv, [Next]_vars
  PROVE  RunInv'
<1> USE DEF RunInv, Touched
<1>1. ASSUME NEW ds \in Seq(Roots), NEW dry \in BOOLEAN, main(ds, dry)
      PROVE  RunInv'
  BY <1>1 DEF main
<1>2. CASE Search
  <2>1. dirs \in Seq(Roots) /\ dirs # <<>> /\ dirs' = Tail(dirs)
    BY <1>2 DEF Search
  <2>2. dirs' \in Seq(Roots)
    <3> HIDE DEF RunInv
    <3> QED
      BY <2>1
  <2> QED
    BY <1>2, <2>2 DEF Search, history
<1>3. CASE NextDir
  BY <1>3 DEF NextDir, history
<1>4. CASE Done
  BY <1>4, NoDirs DEF Done, End, history
<1>5. CASE ReadSource
  <2>1. PICK s \in sources :
          /\ sources' = sources \ {s}
          /\ \/ ~run.dry_run /\ pc' = "open" /\ path' = s.entry.node
             \/ UNCHANGED <<pc, path>>
    BY <1>5 DEF ReadSource
  <2>2. s.entry.node \in Files
    BY FoundFiles
  <2> QED
    BY <1>5, <2>1, <2>2 DEF ReadSource, history
<1>6. CASE NoBlankLine
  BY <1>6, NoDirs DEF NoBlankLine, End, history
<1>7. CASE OpenSource
  BY <1>7 DEF OpenSource, history
<1>8. CASE WriteSource
  BY <1>8 DEF WriteSource, history
<1>9. CASE Stop
  <2>1. stops' \in 0 .. MaxStops
    <3>1. stops < MaxStops /\ stops' = stops + 1
      BY <1>9 DEF Stop, Ended
    <3> QED
      BY <3>1, Counted
  <2> QED
    BY <1>9, NoDirs, <2>1 DEF Stop, Ended, End
<1>10. CASE StopWriting
  <2>1. stops' \in 0 .. MaxStops
    <3>1. stops < MaxStops /\ stops' = stops + 1
      BY <1>10 DEF StopWriting, Ended
    <3> QED
      BY <3>1, Counted
  <2> QED
    BY <1>10, NoDirs, <2>1 DEF StopWriting, Ended, End
<1>11. ASSUME NEW f \in Files, NEW text \in Texts, Save(f, text)
       PROVE  RunInv'
  <2>1. saves' \in 0 .. MaxSaves
    <3>1. saves < MaxSaves /\ saves' = saves + 1
      BY <1>11 DEF Save
    <3> QED
      BY <3>1, Counted
  <2> QED
    BY <1>11, <2>1 DEF Save, local
<1>12. CASE UNCHANGED vars
  BY <1>12 DEF vars, local, history
<1> QED
  BY <1>1, <1>2, <1>3, <1>4, <1>5, <1>6, <1>7, <1>8, <1>9, <1>10, <1>11, <1>12, Steps

LEMMA TextStep ==
  ASSUME RunInv, TextInv, [Next]_vars
  PROVE  TextInv'
<1> USE DEF TextInv, Touched
<1>1. CASE UNCHANGED <<files, pc, new_text>>
  BY <1>1
<1>2. CASE files' = files /\ pc' \notin {"open", "write"}
  BY <1>2
<1>3. CASE ReadSource
  <2>1. PICK s \in sources :
          LET f == s.entry.node IN
          /\ licensed(files[f]) => Len(files[f]) > 1
          /\ IF Updated(files[f]) # files[f] /\ ~run.dry_run
             THEN pc' = "open" /\ path' = f /\ new_text' = Updated(files[f])
             ELSE UNCHANGED <<pc, path, new_text>>
    BY <1>3 DEF ReadSource
  <2>2. s.entry.node \in Files /\ files' = files
    BY <1>3, FoundFiles DEF RunInv, ReadSource
  <2>3. PICK t \in Text : t = files[s.entry.node]
    BY <2>2
  <2>4. UNCHANGED <<pc, new_text>> \/ new_text' = Updated(t)
    BY <2>1, <2>3
  <2> QED
    BY <2>1, <2>2, <2>3, <2>4, UpdatedText
<1>4. CASE OpenSource
  <2>1. files' = [files EXCEPT ![path] = <<"">>] /\ new_text' = new_text
    BY <1>4 DEF OpenSource
  <2>2. files' \in [Files -> Text]
    BY <2>1, EmptyText
  <2> QED
    BY <1>4, <2>1, <2>2 DEF OpenSource
<1>5. CASE WriteSource
  BY <1>5 DEF WriteSource
<1>6. CASE StopWriting
  <2>1. PICK n \in 0 .. Len(new_text) :
          files' = [files EXCEPT ![path] =
                      IF n = 0 THEN <<"">> ELSE SubSeq(new_text, 1, n)]
    BY <1>6 DEF StopWriting
  <2>2. new_text \in Text
    BY <1>6 DEF StopWriting
  <2>3. n # 0 => SubSeq(new_text, 1, n) \in Text
    <3>1. Len(new_text) \in Nat
      BY <2>2 DEF Text
    <3>2. n # 0 => n \in 1 .. Len(new_text)
      BY <3>1
    <3> QED
      BY <2>2, <3>2, PartText
  <2>4. PICK u \in Text : files' = [files EXCEPT ![path] = u]
    BY <2>1, <2>3, EmptyText
  <2>5. pc' = "idle"
    BY <1>6 DEF StopWriting, Ended, End
  <2> QED
    BY <2>4, <2>5
<1>7. ASSUME NEW f \in Files, NEW text \in Texts, Save(f, text)
      PROVE  TextInv'
  <2>1. text \in Text
    BY TextsAssumption DEF Text
  <2> QED
    BY <1>7, <2>1 DEF Save, local
<1>8. CASE \/ Search \/ NextDir \/ Done \/ NoBlankLine \/ Stop
           \/ \E ds \in Seq(Roots), dry \in BOOLEAN : main(ds, dry)
  BY <1>2, <1>8 DEF Search, NextDir, Done, NoBlankLine, Stop, Ended, End, main
<1>9. CASE UNCHANGED vars
  BY <1>1, <1>9 DEF vars, local
<1> QED
  BY <1>3, <1>4, <1>5, <1>6, <1>7, <1>8, <1>9, Steps

(* The inductive invariant holds in every state.                            *)
THEOREM Invariant == Spec => []IInv
<1>1. Init => IInv
  BY InitTyped DEF IInv
<1>2. IInv /\ [Next]_vars => IInv'
  BY RunStep, TextStep DEF IInv
<1> QED
  BY <1>1, <1>2, PTL DEF Spec

(* TypeOK: the paragraphs of each file, the place the run is at, and that  *)
(* a file is only opened for writing by a run that is not a dry one.       *)
THEOREM TypeCorrect == Spec => []TypeOK
<1>1. IInv => TypeOK
  <2> SUFFICES ASSUME IInv PROVE TypeOK
    OBVIOUS
  <2>1. ASSUME NEW f \in Files
        PROVE  files[f] # <<>> /\ Range(files[f]) \subseteq Paragraphs
    BY DEF IInv, TextInv, Text, Range
  <2>2. Range(dirs) \subseteq Roots
    <3>1. dirs \in Seq(Roots)
      BY DEF IInv, RunInv
    <3>2. \A i \in DOMAIN dirs : dirs[i] \in Roots
      BY <3>1
    <3> QED
      BY <3>2 DEF Range
  <2> QED
    BY <2>1, <2>2 DEF IInv, RunInv, TypeOK, Touched
<1> QED
  BY <1>1, Invariant, PTL

-----------------------------------------------------------------------------
(* What the developer wrote is kept.                                        *)

LEMMA FewFiles ==
  ASSUME NEW A \in SUBSET Files, NEW B \in SUBSET Files
  PROVE  /\ Cardinality(A) \in Nat /\ Cardinality(B) \in Nat
         /\ B \subseteq A => Cardinality(B) <= Cardinality(A)
         /\ \A f : B \subseteq A \cup {f} => Cardinality(B) <= Cardinality(A) + 1
<1>1. IsFiniteSet(A) /\ IsFiniteSet(B)
  BY TreeAssumption, FS_Subset
<1>2. Cardinality(A) \in Nat /\ Cardinality(B) \in Nat
  BY <1>1, FS_CardinalityType
<1>3. ASSUME B \subseteq A PROVE Cardinality(B) <= Cardinality(A)
  BY <1>1, <1>3, FS_Subset
<1>4. ASSUME NEW f, B \subseteq A \cup {f}
      PROVE  Cardinality(B) <= Cardinality(A) + 1
  <2>1. /\ IsFiniteSet(A \cup {f})
        /\ Cardinality(A \cup {f}) \in {Cardinality(A), Cardinality(A) + 1}
    BY <1>1, FS_AddElement
  <2>2. Cardinality(B) <= Cardinality(A \cup {f})
    BY <1>4, <2>1, FS_Subset
  <2> QED
    BY <1>2, <2>1, <2>2
<1> QED
  BY <1>2, <1>3, <1>4

LEMMA SpoiltFiles == Spoilt \in SUBSET Files /\ Spoilt' \in SUBSET Files
BY DEF Spoilt

(* A step that spoils nothing, or one file and counts it, keeps BodyInv.   *)
LEMMA BodyKeptBy ==
  ASSUME BodyInv, DOMAIN body' = Files,
         \/ Spoilt' \subseteq Spoilt /\ lost' = lost
         \/ \E f : Spoilt' \subseteq Spoilt \cup {f} /\ lost' = lost + 1
  PROVE  BodyInv'
<1>1. /\ Cardinality(Spoilt) \in Nat /\ Cardinality(Spoilt)' \in Nat
      /\ lost \in Nat /\ Cardinality(Spoilt) <= lost
  BY SpoiltFiles, FewFiles DEF BodyInv
<1>2. CASE Spoilt' \subseteq Spoilt /\ lost' = lost
  <2>1. Cardinality(Spoilt)' <= Cardinality(Spoilt)
    BY <1>2, SpoiltFiles, FewFiles
  <2> QED
    BY <1>1, <1>2, <2>1 DEF BodyInv
<1>3. ASSUME NEW f, Spoilt' \subseteq Spoilt \cup {f}, lost' = lost + 1
      PROVE  BodyInv'
  <2>1. Cardinality(Spoilt)' <= Cardinality(Spoilt) + 1
    BY <1>3, SpoiltFiles, FewFiles
  <2> QED
    BY <1>1, <1>3, <2>1 DEF BodyInv
<1> QED
  BY <1>2, <1>3

LEMMA InitBodies == Init => BodyInv
<1> SUFFICES ASSUME Init PROVE BodyInv
  OBVIOUS
<1>1. Spoilt = {}
  BY DEF Init, Spoilt, Touched
<1>2. DOMAIN body = Files /\ lost = 0
  BY DEF Init
<1> QED
  BY <1>1, <1>2, FS_EmptySet DEF BodyInv

LEMMA BodyStep ==
  ASSUME RunInv, TextInv, BodyInv, [Next]_vars
  PROVE  BodyInv'
<1>0. DOMAIN body = Files
  BY DEF BodyInv
<1>1. ASSUME UNCHANGED <<files, body, lost>>, pc # "write", ~Touched'
      PROVE  BodyInv'
  <2>1. Spoilt' \subseteq Spoilt
    BY <1>1 DEF Spoilt, Touched
  <2> QED
    BY <1>0, <1>1, <2>1, BodyKeptBy
<1>2. CASE \/ Search \/ NextDir \/ Done \/ NoBlankLine \/ Stop
           \/ \E ds \in Seq(Roots), dry \in BOOLEAN : main(ds, dry)
  <2>1. UNCHANGED <<files, body, lost>> /\ pc # "write" /\ ~Touched'
    BY <1>2 DEF Search, NextDir, Done, NoBlankLine, Stop, Ended, End, main, Touched, history
  <2> QED
    BY <1>1, <2>1
<1>3. CASE ReadSource
  <2>1. PICK s \in sources :
          IF Updated(files[s.entry.node]) # files[s.entry.node] /\ ~run.dry_run
          THEN /\ pc' = "open" /\ path' = s.entry.node
               /\ new_text' = Updated(files[s.entry.node])
          ELSE UNCHANGED <<pc, path, new_text>>
    BY <1>3 DEF ReadSource
  <2>2. PICK f \in Files : f = s.entry.node
    BY FoundFiles DEF RunInv
  <2>3. Body(Updated(files[f])) = Body(files[f])
    BY UpdatedText DEF TextInv
  <2>4. pc = "update" /\ UNCHANGED <<files, body, lost>>
    BY <1>3 DEF ReadSource, history
  <2>5. CASE UNCHANGED <<pc, path, new_text>>
    BY <1>1, <2>4, <2>5 DEF Touched
  <2>6. CASE pc' = "open" /\ path' = f /\ new_text' = Updated(files[f])
    <3>1. Spoilt' \subseteq Spoilt
      BY <2>3, <2>4, <2>6 DEF Spoilt, Touched
    <3> QED
      BY <1>0, <2>4, <3>1, BodyKeptBy
  <2> QED
    BY <2>1, <2>2, <2>5, <2>6
<1>4. CASE OpenSource
  <2>1. /\ pc = "open" /\ pc' = "write" /\ UNCHANGED <<path, new_text, body, lost>>
        /\ files' = [files EXCEPT ![path] = <<"">>] /\ files \in [Files -> Text]
    BY <1>4 DEF OpenSource, history, TextInv
  <2>2. \A f \in Files : f # path => files'[f] = files[f]
    BY <2>1
  <2>3. Spoilt' \subseteq Spoilt
    BY <2>1, <2>2 DEF Spoilt, Touched
  <2> QED
    BY <1>0, <2>1, <2>3, BodyKeptBy
<1>5. CASE WriteSource
  <2>1. /\ pc = "write" /\ pc' = "update" /\ UNCHANGED <<body, lost>>
        /\ files' = [files EXCEPT ![path] = new_text] /\ files \in [Files -> Text]
    BY <1>5 DEF WriteSource, history, TextInv
  <2>2. \A f \in Files : files'[f] = IF f = path THEN new_text ELSE files[f]
    BY <2>1
  <2>3. Spoilt' \subseteq Spoilt
    BY <2>1, <2>2 DEF Spoilt, Touched
  <2> QED
    BY <1>0, <2>1, <2>3, BodyKeptBy
<1>6. CASE StopWriting
  <2>1. /\ pc = "write" /\ pc' = "idle" /\ body' = body /\ lost' = lost + 1
        /\ \E u : files' = [files EXCEPT ![path] = u]
        /\ files \in [Files -> Text]
    BY <1>6 DEF StopWriting, Ended, End, TextInv
  <2>2. \A f \in Files : f # path => files'[f] = files[f]
    BY <2>1
  <2>3. Spoilt' \subseteq Spoilt \cup {path}
    BY <2>1, <2>2 DEF Spoilt, Touched
  <2> QED
    BY <1>0, <2>1, <2>3, BodyKeptBy
<1>7. ASSUME NEW f \in Files, NEW text \in Texts, Save(f, text)
      PROVE  BodyInv'
  <2>1. /\ UNCHANGED <<pc, path, new_text>> /\ files \in [Files -> Text]
        /\ files' = [files EXCEPT ![f] = text]
        /\ body' = [body EXCEPT ![f] = Body(text)]
        /\ lost' = lost + (IF pc \in {"open", "write"} /\ path = f THEN 1 ELSE 0)
    BY <1>7 DEF Save, local, TextInv
  <2>2. DOMAIN body' = Files
    BY <1>0, <2>1
  <2>3. /\ \A g \in Files \ {f} : files'[g] = files[g] /\ body'[g] = body[g]
        /\ Body(files'[f]) = body'[f]
    BY <1>0, <2>1
  <2>4. CASE Touched /\ path = f
    <3>1. Spoilt' \subseteq Spoilt \cup {f}
      BY <2>1, <2>3 DEF Spoilt, Touched
    <3>2. lost' = lost + 1
      BY <2>1, <2>4 DEF Touched
    <3> QED
      BY <2>2, <3>1, <3>2, BodyKeptBy
  <2>5. CASE ~(Touched /\ path = f)
    <3>1. Spoilt' \subseteq Spoilt
      BY <2>1, <2>3, <2>5 DEF Spoilt, Touched
    <3>2. lost' = lost
      BY <2>1, <2>5 DEF Touched, BodyInv
    <3> QED
      BY <2>2, <3>1, <3>2, BodyKeptBy
  <2> QED
    BY <2>4, <2>5
<1>8. CASE UNCHANGED vars
  <2>1. UNCHANGED <<files, pc, path, new_text, body, lost>>
    BY <1>8 DEF vars, local, history
  <2>2. Spoilt' \subseteq Spoilt
    BY <2>1 DEF Spoilt, Touched
  <2> QED
    BY <1>0, <2>1, <2>2, BodyKeptBy
<1> QED
  BY <1>2, <1>3, <1>4, <1>5, <1>6, <1>7, <1>8, Steps

(* BodiesKept: but for one file for every stop or save that hit an update  *)
(* the files hold what the developer last wrote.                           *)
THEOREM NothingElseLost == Spec => []BodiesKept
<1>1. Init => IInv /\ BodyInv
  BY InitTyped, InitBodies DEF IInv
<1>2. IInv /\ BodyInv /\ [Next]_vars => (IInv /\ BodyInv)'
  BY RunStep, TextStep, BodyStep DEF IInv
<1>3. IInv /\ BodyInv => BodiesKept
  <2> SUFFICES ASSUME IInv, BodyInv PROVE BodiesKept
    OBVIOUS
  <2> DEFINE damaged == {f \in Files : Body(files[f]) # body[f]}
             writing == IF pc = "write" THEN {path} ELSE {}
  <2>1. damaged \ writing \subseteq Spoilt
    BY DEF Spoilt
  <2>2. Cardinality(damaged \ writing) <= Cardinality(Spoilt)
    BY <2>1, SpoiltFiles, FewFiles
  <2>3. /\ Cardinality(damaged \ writing) \in Nat /\ Cardinality(Spoilt) \in Nat
        /\ lost \in Nat /\ Cardinality(Spoilt) <= lost
    BY SpoiltFiles, FewFiles DEF BodyInv
  <2>4. Cardinality(damaged \ writing) <= lost
    <3> HIDE DEF damaged, writing
    <3> QED
      BY <2>2, <2>3
  <2> QED
    BY <2>4 DEF BodiesKept
<1> QED
  BY <1>1, <1>2, <1>3, PTL DEF Spec

-----------------------------------------------------------------------------
(* Every source is licensed, and only sources are changed: what the         *)
(* searches find is what is sought (SearchFinds).                           *)

LEMMA BelowFiles ==
  ASSUME NEW ds \in Seq(Roots)
  PROVE  \A i \in DOMAIN ds : Sought(ds[i]) \subseteq Files
<1>1. \A r \in Roots : Sought(r) \subseteq Files
  BY FoundFiles, SearchFinds DEF SearchExact
<1>2. \A i \in DOMAIN ds : ds[i] \in Roots
  OBVIOUS
<1> QED
  BY <1>1, <1>2

LEMMA WantedFiles == ASSUME RunInv PROVE Wanted \subseteq Files
<1>1. run.source_dirs \in Seq(Roots)
  BY DEF RunInv
<1>2. \A i \in DOMAIN run.source_dirs : Sought(run.source_dirs[i]) \subseteq Files
  BY <1>1, BelowFiles
<1> QED
  BY <1>2 DEF Wanted

LEMMA FirstDir ==
  ASSUME NEW ds \in Seq(Roots), ds # <<>>
  PROVE  /\ Head(ds) \in Roots
         /\ BelowAll(ds) = Sought(Head(ds)) \cup BelowAll(Tail(ds))
<1>1. Len(ds) \in Nat /\ Len(ds) > 0 /\ Head(ds) = ds[1] /\ DOMAIN ds = 1 .. Len(ds)
  OBVIOUS
<1>2. Tail(ds) \in Seq(Roots) /\ ds[1] \in Roots
  BY <1>1
<1>3. PICK tl \in Seq(Roots) : tl = Tail(ds)
  BY <1>2
<1>4. /\ Len(tl) = Len(ds) - 1 /\ DOMAIN tl = 1 .. Len(tl)
      /\ \A i \in 1 .. Len(tl) : tl[i] = ds[i + 1]
  BY <1>1, <1>3
<1>5. ASSUME NEW x, NEW i \in DOMAIN ds, x \in Sought(ds[i])
      PROVE  x \in Sought(ds[1]) \cup BelowAll(tl)
  <2>1. CASE i = 1
    BY <1>5, <2>1
  <2>2. CASE i # 1
    <3>1. i - 1 \in DOMAIN tl /\ tl[i - 1] = ds[i]
      BY <1>1, <1>4, <2>2
    <3> QED
      BY <1>5, <3>1 DEF BelowAll
  <2> QED
    BY <2>1, <2>2
<1>6. ASSUME NEW x, NEW j \in DOMAIN tl, x \in Sought(tl[j])
      PROVE  x \in BelowAll(ds)
  <2>1. j + 1 \in DOMAIN ds /\ ds[j + 1] = tl[j]
    BY <1>1, <1>4
  <2> QED
    BY <1>6, <2>1 DEF BelowAll
<1>7. Sought(ds[1]) \subseteq BelowAll(ds)
  BY <1>1 DEF BelowAll
<1>8. BelowAll(ds) \subseteq Sought(ds[1]) \cup BelowAll(tl)
  BY <1>5 DEF BelowAll
<1>9. BelowAll(tl) \subseteq BelowAll(ds)
  BY <1>6 DEF BelowAll
<1> QED
  BY <1>1, <1>2, <1>3, <1>7, <1>8, <1>9

LEMMA Unchanged ==
  /\ dirs' = dirs => InDirs' = InDirs
  /\ sources' = sources => InSources' = InSources
  /\ run' = run => Wanted' = Wanted
  /\ Wanted = BelowAll(run.source_dirs) /\ Wanted' = BelowAll(run'.source_dirs)
BY DEF InDirs, InSources, Wanted, BelowAll

LEMMA NothingLeft ==
  /\ dirs = <<>> /\ sources = {} /\ path = "" => Pending = {""}
  /\ dirs' = <<>> /\ sources' = {} /\ path' = "" => Pending' = {""}
<1>1. dirs = <<>> => InDirs = {}
  BY DEF InDirs, BelowAll
<1>2. dirs' = <<>> => InDirs' = {}
  BY DEF InDirs, BelowAll
<1> QED
  BY <1>1, <1>2 DEF Pending, InSources

LEMMA InitLicensed == Init => LicensedInv
<1> SUFFICES ASSUME Init PROVE LicensedInv
  OBVIOUS
<1>1. dirs = <<>> /\ sources = {} /\ path = "" /\ run.dry_run
  BY DEF Init
<1>2. Pending = {""}
  BY <1>1, NothingLeft
<1> QED
  BY <1>1, <1>2 DEF LicensedInv

LEMMA LicensedStep ==
  ASSUME RunInv, TextInv, LicensedInv, [Next]_vars
  PROVE  LicensedInv'
<1>w. Wanted \subseteq Files /\ "" \notin Files
  BY WantedFiles, TreeAssumption
<1>1. ASSUME UNCHANGED <<files, run>>, saved \subseteq saved', pc' # "idle", pc # "idle",
             Pending' \subseteq Pending \cup {""}, Pending \subseteq Pending' \cup {""}
      PROVE  LicensedInv'
  BY <1>1, <1>w, Unchanged DEF LicensedInv
<1>2. ASSUME pc' = "idle", outcome' # "done", run' = run,
             dirs' = <<>>, sources' = {}, path' = ""
      PROVE  LicensedInv'
  BY <1>2, NothingLeft DEF LicensedInv
<1>3. ASSUME NEW ds \in Seq(Roots), NEW dry \in BOOLEAN, main(ds, dry)
      PROVE  LicensedInv'
  <2>1. run' = [source_dirs |-> ds, dry_run |-> dry] /\ dirs' = ds
        /\ sources' = {} /\ path' = ""
    BY <1>3 DEF main, RunInv, Touched
  <2>2. Pending' = Wanted' \cup {""}
    BY <2>1, Unchanged DEF Pending, InDirs, InSources
  <2> QED
    BY <2>2 DEF LicensedInv
<1>4. CASE Search
  <2>1. /\ dirs \in Seq(Roots) /\ dirs # <<>> /\ dirs' = Tail(dirs)
        /\ sources = {} /\ sources' = {t \in Found : t.root = Head(dirs)}
        /\ UNCHANGED <<files, run, saved, path>> /\ pc # "idle" /\ pc' # "idle"
    BY <1>4 DEF Search, history, RunInv
  <2>2. {s.entry.node : s \in sources'} = Sought(Head(dirs))
    BY <2>1, FirstDir, SearchFinds DEF SearchExact
  <2>3. Pending' = Pending
    <3>1. InDirs = Sought(Head(dirs)) \cup InDirs'
      BY <2>1, FirstDir DEF InDirs
    <3>2. InSources = {} /\ InSources' = Sought(Head(dirs))
      BY <2>1, <2>2 DEF InSources
    <3> QED
      BY <2>1, <3>1, <3>2 DEF Pending
  <2> QED
    BY <1>1, <2>1, <2>3
<1>5. CASE NextDir
  <2>1. UNCHANGED <<files, run, saved, dirs, sources, path>> /\ pc # "idle" /\ pc' # "idle"
    BY <1>5 DEF NextDir, history
  <2>2. Pending' = Pending
    BY <2>1, Unchanged DEF Pending
  <2> QED
    BY <1>1, <2>1, <2>2
<1>6. CASE Done
  <2>1. /\ pc = "search" /\ dirs = <<>> /\ sources = {} /\ path = ""
        /\ UNCHANGED <<files, run, saved, dirs, sources, path>>
    BY <1>6 DEF Done, End, history, RunInv, Touched
  <2>2. Pending' = Pending
    BY <2>1, Unchanged DEF Pending
  <2> QED
    BY <2>1, <2>2, Unchanged DEF LicensedInv
<1>7. CASE ReadSource
  <2>1. PICK s \in sources :
          /\ sources' = sources \ {s}
          /\ licensed(files[s.entry.node]) => Len(files[s.entry.node]) > 1
          /\ IF Updated(files[s.entry.node]) # files[s.entry.node] /\ ~run.dry_run
             THEN /\ pc' = "open" /\ path' = s.entry.node
                  /\ new_text' = Updated(files[s.entry.node])
             ELSE UNCHANGED <<pc, path, new_text>>
    BY <1>7 DEF ReadSource
  <2>2. PICK f \in Files : f = s.entry.node
    BY FoundFiles DEF RunInv
  <2>3. /\ pc = "update" /\ path = "" /\ UNCHANGED <<files, dirs, run, saved, outcome>>
    BY <1>7 DEF ReadSource, history, RunInv, Touched
  <2>6. InSources = InSources' \cup {f}
    BY <2>1, <2>2 DEF InSources
  <2>4. CASE pc' = "open" /\ path' = f
    <3>1. Pending' \subseteq Pending \cup {""} /\ Pending \subseteq Pending' \cup {""}
      BY <2>3, <2>4, <2>6, Unchanged DEF Pending
    <3> QED
      BY <1>1, <2>3, <2>4, <3>1
  <2>5. CASE UNCHANGED <<pc, path>> /\ (run.dry_run \/ Updated(files[f]) = files[f])
    <3>1. Pending' \subseteq Pending /\ Pending \subseteq Pending' \cup {f}
      BY <2>3, <2>5, <2>6, Unchanged DEF Pending
    <3>2. Updated(files[f]) = files[f] => files[f][1] = "brief" /\ Len(files[f]) > 1
      BY <2>1, <2>2, UpdatedText DEF TextInv
    <3> QED
      BY <2>3, <2>5, <3>1, <3>2, Unchanged DEF LicensedInv
  <2> QED
    BY <2>1, <2>2, <2>4, <2>5
<1>8. CASE NoBlankLine \/ Stop \/ StopWriting
  BY <1>2, <1>8 DEF NoBlankLine, Stop, StopWriting, Ended, End
<1>9. CASE OpenSource
  <2>1. /\ files' = [files EXCEPT ![path] = <<"">>] /\ files \in [Files -> Text]
        /\ UNCHANGED <<dirs, sources, path, run, saved, outcome>> /\ pc # "idle"
    BY <1>9 DEF OpenSource, history, TextInv
  <2>2. Pending' = Pending /\ path \in Pending
    BY <2>1, Unchanged DEF Pending
  <2>3. \A f \in Files : f # path => files'[f] = files[f]
    BY <2>1
  <2>4. Wanted' = Wanted
    BY <2>1, Unchanged
  <2>5. ASSUME ~run'.dry_run, NEW f \in Wanted \ (saved' \cup Pending')
        PROVE  files'[f][1] = "brief" /\ Len(files'[f]) > 1
    <3>1. f \in Files /\ f \notin saved /\ f \notin Pending /\ f # path
      BY <1>w, <2>1, <2>2
    <3>2. files[f][1] = "brief" /\ Len(files[f]) > 1
      BY <2>1, <2>5, <3>1 DEF LicensedInv
    <3> QED
      BY <2>3, <3>1, <3>2
  <2> QED
    BY <2>2, <2>4, <2>5 DEF LicensedInv
<1>10. CASE WriteSource
  <2>1. /\ files' = [files EXCEPT ![path] = new_text] /\ files \in [Files -> Text]
        /\ UNCHANGED <<dirs, sources, run, saved, outcome>> /\ pc # "idle" /\ path' = ""
        /\ new_text[1] = "brief" /\ Len(new_text) > 1
    BY <1>10 DEF WriteSource, history, TextInv, Touched
  <2>2. Pending' \subseteq Pending \cup {""} /\ Pending \subseteq Pending' \cup {path}
    BY <2>1, Unchanged DEF Pending
  <2>3. \A f \in Files : files'[f] = IF f = path THEN new_text ELSE files[f]
    BY <2>1
  <2>4. Wanted' = Wanted
    BY <2>1, Unchanged
  <2>5. ASSUME ~run'.dry_run, NEW f \in Wanted \ (saved' \cup Pending')
        PROVE  files'[f][1] = "brief" /\ Len(files'[f]) > 1
    <3>1. f \in Files /\ f # "" /\ f \notin saved
      BY <1>w, <2>1, <2>4
    <3>2. CASE f = path
      BY <2>1, <2>3, <3>1, <3>2
    <3>3. CASE f # path
      <4>1. f \notin Pending
        BY <2>2, <2>5, <3>3
      <4>2. files[f][1] = "brief" /\ Len(files[f]) > 1
        BY <2>1, <2>5, <3>1, <4>1 DEF LicensedInv
      <4> QED
        BY <2>3, <3>1, <3>3, <4>2
    <3> QED
      BY <3>2, <3>3
  <2>6. Pending' \subseteq Wanted' \cup {""}
    BY <2>2, <2>4 DEF LicensedInv
  <2> QED
    BY <2>4, <2>5, <2>6 DEF LicensedInv
<1>11. ASSUME NEW f \in Files, NEW text \in Texts, Save(f, text)
       PROVE  LicensedInv'
  <2>1. /\ files' = [files EXCEPT ![f] = text] /\ files \in [Files -> Text]
        /\ saved' = saved \cup {f}
        /\ UNCHANGED <<pc, dirs, sources, path, run, outcome>>
    BY <1>11 DEF Save, local, TextInv
  <2>2. Pending' = Pending
    BY <2>1, Unchanged DEF Pending
  <2>3. \A g \in Files : g # f => files'[g] = files[g]
    BY <2>1
  <2> QED
    BY <1>w, <2>1, <2>2, <2>3, Unchanged DEF LicensedInv
<1>12. CASE UNCHANGED vars
  <2>1. UNCHANGED <<files, pc, dirs, sources, path, run, saved, outcome>>
    BY <1>12 DEF vars, local, history
  <2>2. Pending' = Pending
    BY <2>1, Unchanged DEF Pending
  <2> QED
    BY <2>1, <2>2, Unchanged DEF LicensedInv
<1> QED
  BY <1>3, <1>4, <1>5, <1>6, <1>7, <1>8, <1>9, <1>10, <1>11, <1>12, Steps

(* After a run that reports Done every source below its directories begins *)
(* with the brief license and a blank line, whatever happened before.      *)
THEOREM DoneLicensed == Spec => []DoneMeansLicensed
<1>1. Init => IInv /\ LicensedInv
  BY InitTyped, InitLicensed DEF IInv
<1>2. IInv /\ LicensedInv /\ [Next]_vars => (IInv /\ LicensedInv)'
  BY RunStep, TextStep, LicensedStep DEF IInv
<1>3. IInv /\ LicensedInv => DoneMeansLicensed
  <2> SUFFICES ASSUME IInv, LicensedInv, outcome = "done", ~run.dry_run,
                      NEW f \in Wanted \ saved
               PROVE  files[f][1] = "brief" /\ Len(files[f]) > 1
    BY DEF DoneMeansLicensed
  <2>1. pc = "idle" /\ dirs = <<>> /\ sources = {} /\ path = ""
    BY DEF IInv, RunInv, Touched
  <2>2. Pending = {""}
    BY <2>1, NothingLeft
  <2>3. f # ""
    BY WantedFiles, TreeAssumption DEF IInv
  <2> QED
    BY <2>2, <2>3 DEF LicensedInv
<1> QED
  BY <1>1, <1>2, <1>3, PTL DEF Spec

(* A step that is not a save changes only sources below the directories of *)
(* the run, and with --dry-run nothing.                                    *)
THEOREM SourcesAlone == Spec => OnlySourcesChange
<1>1. Init => IInv /\ LicensedInv
  BY InitTyped, InitLicensed DEF IInv
<1>2. IInv /\ LicensedInv /\ [Next]_vars => (IInv /\ LicensedInv)'
  BY RunStep, TextStep, LicensedStep DEF IInv
<1>3. ASSUME IInv, LicensedInv, [Next]_vars, saves' = saves, NEW f \in Files,
             files'[f] # files[f]
      PROVE  ~run.dry_run /\ f \in Wanted
  <2>1. Touched /\ \E u : files' = [files EXCEPT ![path] = u]
    <3>1. \A g \in Files, text \in Texts : ~Save(g, text)
      <4> SUFFICES ASSUME NEW g \in Files, NEW text \in Texts, Save(g, text)
                   PROVE  FALSE
        OBVIOUS
      <4>1. saves' = saves + 1
        BY DEF Save
      <4>2. saves \in 0 .. MaxSaves
        BY <1>3 DEF IInv, RunInv
      <4>3. saves + 1 # saves
        BY <4>2, BoundsAssumption
      <4> QED
        BY <1>3, <4>1, <4>3
    <3>2. OpenSource \/ WriteSource \/ StopWriting
      BY <1>3, <3>1, Steps DEF main, Search, NextDir, Done, ReadSource, NoBlankLine, Stop, vars
    <3> QED
      BY <3>2 DEF OpenSource, WriteSource, StopWriting, Touched
  <2>2. f = path
    BY <1>3, <2>1 DEF IInv, TextInv
  <2>3. path \in Pending
    BY DEF Pending
  <2>4. path \in Files /\ ~run.dry_run
    BY <1>3, <2>1 DEF IInv, RunInv
  <2> QED
    BY <1>3, <2>2, <2>3, <2>4, TreeAssumption DEF LicensedInv
<1>4. IInv /\ LicensedInv /\ [Next]_vars =>
        [saves' = saves => \A f \in Files :
           files'[f] # files[f] => ~run.dry_run /\ f \in Wanted]_vars
  BY <1>3
<1> QED
  BY <1>1, <1>2, <1>4, PTL DEF Spec, OnlySourcesChange
=============================================================================
