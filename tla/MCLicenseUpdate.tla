-------------------------- MODULE MCLicenseUpdate --------------------------
EXTENDS LicenseUpdate

Entry(name, node) == [name |-> name, node |-> node, link |-> FALSE]
Link(name, node)  == [name |-> name, node |-> node, link |-> TRUE]

\* src/{a.h, to.h -> a.h, lib/b.inl, l -> lib, .git/c.h, scons-local-1/d.h = c.h}
MCTree ==
  [src  |-> {Entry(<<"a", ".h">>, "a.h"), Link(<<"to", ".h">>, "a.h"),
             Entry(<<"lib">>, "lib"), Link(<<"l">>, "lib"),
             Entry(<<".git">>, "git"), Entry(<<"scons-local", "-1">>, "scons")},
   lib  |-> {Entry(<<"b", ".inl">>, "b.inl")},
   git  |-> {Entry(<<"c", ".h">>, "c.h")},
   scons |-> {Entry(<<"d", ".h">>, "c.h")}]

MCRoots == {[path |-> <<"src">>, node |-> "src"],
            [path |-> <<"src", "/", "lib">>, node |-> "lib"],
            [path |-> <<"src", "/", ".git">>, node |-> "git"]}
MCTexts == {<<"code">>, <<"old", "more">>, <<"old">>}

(* Patterns of up to three names and paths of up to four.                   *)
PatternNames == {<<"*", "*">>, <<"*">>, <<"*", ".h">>, <<"a">>}
PathNames    == {<<>>, <<"a">>, <<".h">>, <<"a", ".h">>}
MCPatterns == UNION {[1 .. n -> PatternNames] : n \in 1 .. 3} \ {<< <<"*", "*">> >>}
MCPaths    == UNION {[1 .. n -> PathNames] : n \in 1 .. 4}

=============================================================================
