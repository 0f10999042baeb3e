---------------------------- MODULE LicenseUpdate ----------------------------
(****************************************************************************)
(* jsoncpp's license updater (devtools/licenseupdater.py): it searches      *)
(* directories for C++ sources and rewrites each in place, a truncating     *)
(* open and then a write.  A run may be stopped at any point, and the       *)
(* developer saves files meanwhile.                                         *)
(*                                                                          *)
(* A text is the sequence of its paragraphs, what lies between blank        *)
(* lines: "brief" is BRIEF_LICENSE, "old" any other paragraph that begins   *)
(* with LICENSE_BEGIN, "" nothing at all.                                   *)
(****************************************************************************)
EXTENDS AntGlob

CONSTANTS
  Tree,      \* [directories -> their entries]
  Roots,     \* what the command line may name: [path, node]
  Texts,     \* what the developer saves
  Patterns, Paths,  \* what the convention is asked about: lists of names
  MaxSaves,  \* bound: how often the developer saves
  MaxStops   \* bound: how often a run is stopped

Files == {e.node : e \in Entries(Tree)} \ DOMAIN Tree
Paragraphs == {"brief", "old", "code", "more", ""}

ASSUME TreeAssumption ==
  /\ IsFiniteSet(DOMAIN Tree) /\ IsFiniteSet(Files) /\ "" \notin Files
  /\ \A r \in Roots : r.node \in DOMAIN Tree /\ r.path \in Seq(Range(r.path))
ASSUME NamesAssumption ==
  \A e \in Entries(Tree) :
    e.name \in Seq(Range(e.name)) /\ e.name # <<>> /\ "/" \notin Range(e.name)
ASSUME TextsAssumption ==
  \A text \in Texts : text \in Seq(Paragraphs) /\ text # <<>>
ASSUME ConventionAssumption ==
  (\A p \in Patterns : IsPattern(p)) /\ \A names \in Paths : IsPath(names)
ASSUME BoundsAssumption == MaxSaves \in Nat /\ MaxStops \in Nat

VARIABLES
  files,     \* [Files -> the text]
  pc,        \* where the run is
  dirs,      \* source_dirs still to search
  sources,   \* cpp_sources still to update
  path,      \* the file being updated, or ""
  new_text,  \* what is to be written to it
  run        \* the arguments: source_dirs and dry_run

(* History: for the properties only.                                        *)
VARIABLES
  body,      \* [Files -> what the developer last wrote below the license]
  saved,     \* the files saved since the run began
  saves, stops,
  lost,      \* how often a text was lost to a stop or to a race
  outcome    \* how the last run ended

local   == <<pc, dirs, sources, path, new_text>>
history == <<body, saved, saves, stops, lost>>
vars    == <<files, local, run, history, outcome>>

licensed(text) == text[1] \in {"brief", "old"}
Body(text) == IF licensed(text) THEN Tail(text) ELSE text

-----------------------------------------------------------------------------
(* licenseupdater.py.                                                       *)

includes == {<<"*", "*", "/", "*", x>> : x \in {".h", ".cpp", ".inl"}}

(* antglob.py has 25: the two of .git stand for every version control, and *)
(* those of single files are left out, of which **/._* and **/.#* would     *)
(* also drop a source of such a name.                                       *)
default_excludes ==
  {<<"*", "*", "/", ".git">>, <<"*", "*", "/", ".git", "/", "*", "*">>}
prune_dirs == {<<".git">>, <<"scons-local", "*">>, <<".", "/", "build", "*">>}

(* What the search of each directory finds.                                *)
Found == UNION {{[root |-> r, path |-> t.path, entry |-> t.entry] :
                 t \in glob(Tree, r, includes, default_excludes, prune_dirs)} : r \in Roots}

Init ==
  /\ files \in [Files -> Texts] /\ body = [f \in Files |-> Body(files[f])]
  /\ pc = "idle" /\ dirs = <<>> /\ sources = {} /\ path = "" /\ new_text = <<"">>
  /\ run = [source_dirs |-> <<>>, dry_run |-> TRUE]
  /\ saved = {} /\ saves = 0 /\ stops = 0 /\ lost = 0 /\ outcome = "none"

(* A run that ends takes its local variables with it.                      *)
End(o) ==
  /\ pc' = "idle" /\ outcome' = o
  /\ dirs' = <<>> /\ sources' = {} /\ path' = "" /\ new_text' = <<"">>

main(ds, dry) ==
  /\ pc = "idle" /\ pc' = "search"
  /\ dirs' = ds /\ run' = [source_dirs |-> ds, dry_run |-> dry]
  /\ saved' = {} /\ outcome' = "none"
  /\ UNCHANGED <<files, sources, path, new_text, body, saves, stops, lost>>

Search ==
  /\ pc = "search" /\ dirs # <<>> /\ pc' = "update"
  /\ dirs' = Tail(dirs)
  /\ sources' = {t \in Found : t.root = Head(dirs)}
  /\ UNCHANGED <<files, path, new_text, run, history, outcome>>

Done ==
  /\ pc = "search" /\ dirs = <<>> /\ End("done")
  /\ UNCHANGED <<files, run, history>>

NextDir ==
  /\ pc = "update" /\ sources = {} /\ pc' = "search"
  /\ UNCHANGED <<files, dirs, sources, path, new_text, run, history, outcome>>

(* What comes below the new license. Mutant: the old one stays.             *)
UpdatedTwice(text) == <<"brief">> \o text
Updated(text)      == <<"brief">> \o Body(text)

(* A license that no blank line ends: index raises a ValueError. Mutant:   *)
(* such a file is passed over.                                             *)
NoBlankLinePassed ==
  /\ pc = "update" /\ UNCHANGED pc
  /\ \E s \in sources :
       /\ licensed(files[s.entry.node]) /\ Len(files[s.entry.node]) = 1
       /\ sources' = sources \ {s}
  /\ UNCHANGED <<files, dirs, path, new_text, run, history, outcome>>

NoBlankLine ==
  /\ pc = "update" /\ End("error")
  /\ \E s \in sources :
       licensed(files[s.entry.node]) /\ Len(files[s.entry.node]) = 1
  /\ UNCHANGED <<files, run, history>>

(* update_license up to the open: the file is read and closed. Mutant: what *)
(* the option --dry-run says is forgotten.                                  *)
ReadSourceWet ==
  /\ pc = "update" /\ pc' = "open"
  /\ \E s \in sources :
       LET f == s.entry.node IN
       /\ sources' = sources \ {s} /\ path' = f
       /\ licensed(files[f]) => Len(files[f]) > 1
       /\ new_text' = Updated(files[f]) /\ new_text' # files[f]
  /\ UNCHANGED <<files, dirs, run, history, outcome>>

ReadSource ==
  /\ pc = "update"
  /\ \E s \in sources :
       LET f == s.entry.node IN
       /\ sources' = sources \ {s}
       /\ licensed(files[f]) => Len(files[f]) > 1
       /\ IF Updated(files[f]) # files[f] /\ ~run.dry_run
          THEN pc' = "open" /\ path' = f /\ new_text' = Updated(files[f])
          ELSE UNCHANGED <<pc, path, new_text>>
  /\ UNCHANGED <<files, dirs, run, history, outcome>>

OpenSource ==
  /\ pc = "open" /\ pc' = "write"
  /\ files' = [files EXCEPT ![path] = <<"">>]
  /\ UNCHANGED <<dirs, sources, path, new_text, run, history, outcome>>

WriteSource ==
  /\ pc = "write" /\ pc' = "update"
  /\ files' = [files EXCEPT ![path] = new_text]
  /\ path' = "" /\ new_text' = <<"">>
  /\ UNCHANGED <<dirs, sources, run, history, outcome>>

Ended ==
  /\ stops < MaxStops /\ stops' = stops + 1
  /\ pc # "idle" /\ End("stopped")
  /\ UNCHANGED <<run, body, saved, saves>>

Stop == pc # "write" /\ Ended /\ UNCHANGED <<files, lost>>

(* Some of the text may have reached the file.                              *)
StopWriting ==
  /\ pc = "write" /\ Ended /\ lost' = lost + 1
  /\ \E n \in 0 .. Len(new_text) :
       files' = [files EXCEPT ![path] =
                   IF n = 0 THEN <<"">> ELSE SubSeq(new_text, 1, n)]

update_license == ReadSource \/ NoBlankLine \/ OpenSource \/ WriteSource
update_license_in_source_directories ==
  Search \/ NextDir \/ Done \/ update_license \/ Stop \/ StopWriting

-----------------------------------------------------------------------------
(* The developer saves a file, also one that is being updated.              *)
Save(f, text) ==
  /\ saves < MaxSaves /\ saves' = saves + 1
  /\ files' = [files EXCEPT ![f] = text]
  /\ body' = [body EXCEPT ![f] = Body(text)]
  /\ saved' = saved \cup {f}
  /\ lost' = lost + (IF pc \in {"open", "write"} /\ path = f THEN 1 ELSE 0)
  /\ UNCHANGED <<local, run, stops, outcome>>

Next ==
  \/ \E d1, d2 \in Roots, dry \in BOOLEAN : main(<<d1>>, dry) \/ main(<<d1, d2>>, dry)
  \/ update_license_in_source_directories
  \/ \E f \in Files, text \in Texts : Save(f, text)

Spec == Init /\ [][Next]_vars

-----------------------------------------------------------------------------
(* Properties.                                                              *)

TypeOK ==
  /\ \A f \in Files : files[f] # <<>> /\ Range(files[f]) \subseteq Paragraphs
  /\ pc \in {"idle", "search", "update", "open", "write"}
  /\ Range(dirs) \subseteq Roots /\ path \in Files \cup {""}
  /\ pc \in {"open", "write"} => ~run.dry_run /\ path \in Files
  /\ stops \in 0 .. MaxStops /\ saves \in 0 .. MaxSaves

(* What stands below the license of a file is what the developer last      *)
(* wrote, in every file but those that a stop in the middle of the write   *)
(* or a save in the middle of an update cost, at most one for each: no run *)
(* loses anything else, how often it is stopped and started again.         *)
BodiesKept ==
  LET damaged == {f \in Files : Body(files[f]) # body[f]}
      writing == IF pc = "write" THEN {path} ELSE {}
  IN  Cardinality(damaged \ writing) <= lost

(* The sources below a directory, without antglob: those in it and in what *)
(* it leads to through directories that are neither version control nor    *)
(* scons-local; no links.                                                  *)
Walked(e) ==
  e.node \in DOMAIN Tree /\ e.name # <<".git">> /\ e.name[1] # "scons-local"
Source(e) ==
  e.node \notin DOMAIN Tree /\ ~e.link /\ Last(e.name) \in {".h", ".cpp", ".inl"}

Closed(ds) == \A d \in ds : \A e \in Tree[d] : Walked(e) => e.node \in ds
Reached(dir) ==
  {d \in DOMAIN Tree : \A ds \in SUBSET DOMAIN Tree : dir \in ds /\ Closed(ds) => d \in ds}
Below == [dir \in DOMAIN Tree |->
            {e.node : e \in {x \in UNION {Tree[d] : d \in Reached(dir)} : Source(x)}}]

(* A directory that lies in a version control directory itself has none.   *)
InGit(p) ==
  \E i \in DOMAIN p : /\ p[i] = ".git"
                      /\ i > 1 => p[i - 1] = "/"
                      /\ i < Len(p) => p[i + 1] = "/"
Sought(r) == IF InGit(r.path) THEN {} ELSE Below[r.node]

(* Each search finds just these.                                            *)
SearchExact ==
  \A r \in Roots : {t.entry.node : t \in {u \in Found : u.root = r}} = Sought(r)

(* The convention of ant_pattern_to_re's docstring (antglob.py:64-67) and  *)
(* of its test table (166-190), on every pattern and path: whenever a      *)
(* search is about to begin, the regular expressions it would use match a  *)
(* path just when name by name the pattern fits, and the search of each    *)
(* directory finds the sources below it.                                   *)
PatternsFit ==
  \A p \in Patterns, names \in Paths :
    Matches(Tokens(Joined(p)), Joined(names)) <=> Fits(p, names)
AntConvention == pc = "search" => PatternsFit /\ SearchExact

(* The sources below the directories of the run.                           *)
Wanted == UNION {Sought(run.source_dirs[i]) : i \in DOMAIN run.source_dirs}

(* The usage text (licenseupdater.py:67), "Updates license text in sources *)
(* of the project in source files found in the directory specified": after *)
(* a run that reports Done, whatever earlier runs left behind, each source *)
(* below the directories begins with the brief license and a blank line.   *)
DoneMeansLicensed ==
  outcome = "done" /\ ~run.dry_run =>
    \A f \in Wanted \ saved : files[f][1] = "brief" /\ Len(files[f]) > 1

(* The same text and licenseupdater.py:21, "but don't change it": a run    *)
(* changes the sources below its directories and no other file, and with   *)
(* --dry-run none.                                                         *)
OnlySourcesChange ==
  [][saves' = saves => \A f \in Files :
       files'[f] # files[f] => ~run.dry_run /\ f \in Wanted]_vars

=============================================================================
