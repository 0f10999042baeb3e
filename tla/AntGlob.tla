------------------------------- MODULE AntGlob -------------------------------
(***************************************************************************)
(* The file search of jsoncpp's tools (devtools/antglob.py).               *)
(*                                                                         *)
(* A text is a sequence of atoms: "/", "*" and pieces of names, so that    *)
(* src/a.h is <<"src", "/", "a", ".h">>.  A tree maps each directory to    *)
(* its entries; an entry that is a link shows another directory or file.   *)
(***************************************************************************)
EXTENDS Naturals, Sequences, FiniteSets, SequencesExt

-----------------------------------------------------------------------------
(* ant_pattern_to_re.                                                       *)

(* _ANT_RE: what a pattern is cut into, the first alternative that fits.    *)
(* Mutant: the shorter one comes first.                                     *)
AlternativesSwapped == << <<"/", "*", "*">>, <<"/", "*", "*", "/">>,
                          <<"*", "*", "/">>, <<"*">>, <<"/">> >>
Alternatives == << <<"/", "*", "*", "/">>, <<"*", "*", "/">>, <<"/", "*", "*">>,
                   <<"*">>, <<"/">> >>

Token(p) ==
  LET fit == {i \in DOMAIN Alternatives : IsPrefix(Alternatives[i], p)}
  IN  IF fit = {} THEN <<Head(p)>>
      ELSE Alternatives[CHOOSE i \in fit : \A j \in fit : i <= j]

Tokens(p) ==
  LET from[i \in 1 .. Len(p) + 1] ==
        IF i > Len(p) THEN <<>>
        ELSE LET token == Token(SubSeq(p, i, Len(p)))
             IN  <<token>> \o from[i + Len(token)]
  IN  from[1]

(* The expression a token becomes.                                          *)
Accepts(token, text) ==
  \/ /\ token = <<"/", "*", "*", "/">>
     /\ text # <<>> /\ Head(text) = "/" /\ Last(text) = "/"
  \/ token = <<"*", "*", "/">> /\ (text = <<>> \/ Last(text) = "/")
  \/ token = <<"/", "*", "*">> /\ text # <<>> /\ Head(text) = "/"
  \/ token = <<"*">> /\ \A i \in DOMAIN text : text[i] # "/"
  \/ Len(token) = 1 /\ token # <<"*">> /\ text = token

(* from[i]: the places from which the tokens from i on match the text.     *)
Matches(tokens, text) ==
  LET from[i \in 1 .. Len(tokens) + 1] ==
        IF i > Len(tokens) THEN {Len(text) + 1}
        ELSE LET ends == from[i + 1]
             IN  {j \in 1 .. Len(text) + 1 : \E k \in ends :
                    j <= k /\ Accepts(tokens[i], SubSeq(text, j, k - 1))}
  IN  1 \in from[1]

apply_filter(full_path, patterns) == \E p \in patterns : Matches(Tokens(p), full_path)

-----------------------------------------------------------------------------
(* glob.                                                                    *)

(* fnmatch looks at the name of the entry alone, in which no "/" occurs.    *)
(* Mutant: the names are compared as they are.                              *)
is_pruned_dir_named(name, prune_dirs) == name \in prune_dirs

is_pruned_dir(name, prune_dirs) ==
  \E p \in prune_dirs : Matches([i \in DOMAIN p |-> <<p[i]>>], name)

Entries(tree) == UNION {tree[d] : d \in DOMAIN tree}

(* The ways from a directory down to an entry, through directories that    *)
(* are not pruned. In a tree without a circle of links none is longer than *)
(* there are directories.                                                  *)
Ways(tree, prune_dirs, dir) ==
  {w \in UNION {[1 .. n -> Entries(tree)] : n \in 1 .. Cardinality(DOMAIN tree)} :
     /\ w[1] \in tree[dir]
     /\ \A i \in 1 .. Len(w) - 1 :
          /\ w[i].node \in DOMAIN tree /\ ~is_pruned_dir(w[i].name, prune_dirs)
          /\ w[i + 1] \in tree[w[i].node]}

(* [entry |-> the entry, path |-> its path] of all that is looked at below *)
(* a directory. The order of the result is left out.                       *)
Tested(tree, prune_dirs, root) ==
  {[entry |-> Last(w),
    path  |-> root.path \o FlattenSeq([i \in 1 .. Len(w) |-> <<"/">> \o w[i].name])]
   : w \in Ways(tree, prune_dirs, root.node)}

(* The regular files; directories and links are dropped by their type.      *)
glob(tree, root, includes, excludes, prune_dirs) ==
  {t \in Tested(tree, prune_dirs, root) :
     /\ apply_filter(t.path, includes)
     /\ ~apply_filter(t.path, excludes)
     /\ t.entry.node \notin DOMAIN tree /\ ~t.entry.link}

-----------------------------------------------------------------------------
(* The convention in the words of ant, on names instead of characters: **  *)
(* stands for any number of directories and at the end for at least one    *)
(* name, * for any part of a name.                                         *)

FitsName(pattern, name) ==
  IF pattern # <<>> /\ Head(pattern) = "*"
  THEN IsSuffix(Tail(pattern), name) ELSE pattern = name

(* from[i]: the names from which the pattern from i on fits.               *)
Fits(pattern, names) ==
  LET from[i \in 1 .. Len(pattern) + 1] ==
        IF i > Len(pattern) THEN {Len(names) + 1}
        ELSE LET ends == from[i + 1]
             IN  {j \in 1 .. Len(names) + 1 :
                    IF pattern[i] # <<"*", "*">>
                    THEN j <= Len(names) /\ FitsName(pattern[i], names[j]) /\ j + 1 \in ends
                    ELSE IF i = Len(pattern) THEN j <= Len(names)
                    ELSE \E k \in ends : j <= k}
  IN  1 \in from[1]

(* What it is about: names without a slash, and patterns of **, of plain   *)
(* names and of names whose one * comes first. The pattern ** alone is not *)
(* of the convention: here it means *.                                     *)
Plain(name)   == name \in Seq(Range(name) \ {"*", "/"})
Starred(name) ==
  name \in Seq(Range(name)) /\ name # <<>> /\ Head(name) = "*" /\ Plain(Tail(name))
IsPath(names) ==
  /\ names \in Seq(Range(names)) /\ names # <<>>
  /\ \A name \in Range(names) : name \in Seq(Range(name) \ {"/"})
IsPattern(pattern) ==
  /\ pattern \in Seq(Range(pattern)) /\ pattern \notin {<<>>, << <<"*", "*">> >>}
  /\ \A name \in Range(pattern) : name = <<"*", "*">> \/ Plain(name) \/ Starred(name)

Joined(names) ==
  FlattenSeq([i \in 1 .. 2 * Len(names) - 1 |->
                IF i % 2 = 1 THEN names[(i + 1) \div 2] ELSE <<"/">>])

=============================================================================
