------------------------------ MODULE Sources ------------------------------
(***************************************************************************)
(* A source tree, what its files say, and the embedded files: all that a   *)
(* command reads.  What can be said of them without following a command    *)
(* (which files the imports lead to, whether something is wrong with them, *)
(* whether checking one of them finds an error) is said here.              *)
(***************************************************************************)
EXTENDS Integers, SequencesExt

CONSTANTS
  Files,     \* the source files of the program, by canonical path
  Entry,     \* the file named on the command line
  Paths,     \* import paths; a path is also a unit's place below the -o directory
  Stem,      \* the entry's file stem
  None,      \* no file
  Trees,     \* the source trees a run considers: see Tree
  Names,     \* module names
  Dirs,      \* directories of source files
  Embeds,    \* paths as `@embed` writes them, relative
  Contents,  \* bytes of embedded files
  Programs   \* for each source tree, what its files may say: see Program

ASSUME EntryAssumption == Entry \in Files /\ Stem \in Paths /\ None \notin Files

\* A source tree: the imports of each file in order, for each import path what
\* the entry's directory and then each -I root hold under it, the files that
\* exist but cannot be opened, and the files with a syntax error or a declaration
\* macro that does not expand.
Tree == [import: [Files -> Seq(Paths)],
         at: [Paths -> Seq(Files \cup {None})],
         unreadable: SUBSET Files,
         broken: SUBSET Files]

ASSUME TreesAssumption == Trees \subseteq Tree
\* The entry's directory is searched first: its stem names the entry itself.
ASSUME StemAssumption ==
  \A tr \in Trees : tr.at[Stem] # << >> /\ Head(tr.at[Stem]) = Entry

\* What else a source tree says: the module each file declares, the modules its
\* qualified references name, the files with an error of their own, the
\* directory each file is in and the embeds it reads.
Program == [module: [Files -> Names \cup {None}],
            uses: [Files -> SUBSET Names],
            wrong: SUBSET Files,
            dir: [Files -> Dirs],
            embeds: [Files -> SUBSET Embeds]]

ASSUME ProgramsAssumption == \A tr \in Trees : Programs[tr] \subseteq Program

\* A command line.  write: build rather than check.  mode: of the embed manifest.
\* checked: without --skip-check.
Command == {c \in [write: BOOLEAN, mode: {"Off", "Enforce", "Emit"}, checked: BOOLEAN] :
              ~c.write => c.mode = "Off" /\ c.checked}

VARIABLES
  tree,      \* what is on disk
  program,   \* what the source files say
  disk       \* the embedded files: their bytes, or None

-----------------------------------------------------------------------------
\* The imports

\* The file that the first search root with a file under path p holds, if any.
Located(p) ==
  {f \in Files : \E i \in DOMAIN tree.at[p] :
     tree.at[p][i] = f /\ \A j \in 1 .. i - 1 : tree.at[p][j] = None}

\* The readable files that f's imports name.
Needs(f) == (UNION {Located(p) : p \in ToSet(tree.import[f])}) \ tree.unreadable

\* The files that the imports lead to from the entry.
Closed(C) == Entry \in C /\ \A f \in C : Needs(f) \subseteq C
Reach == {f \in Files : \A C \in SUBSET Files : Closed(C) => f \in C}

\* Something is wrong with the sources F: a syntax error, an import of nothing,
\* a cycle.
Blame(F) ==
  \/ \E f \in F : f \in tree.broken \/ \E p \in ToSet(tree.import[f]) : Located(p) = {}
  \/ \E S \in SUBSET F : S # {} /\ \A f \in S : Needs(f) \cap S # {}

-----------------------------------------------------------------------------
\* One file

\* The files the program embeds.
Embedded == UNION {{program.dir[f]} \X program.embeds[f] : f \in Files}

\* Checking file f finds nothing, but for what a manifest may say.
Apt(f) ==
  /\ f \notin program.wrong
  /\ \A name \in program.uses[f] : name # None /\ \E g \in Needs(f) : program.module[g] = name
  /\ \A e \in program.embeds[f] : disk[<<program.dir[f], e>>] # None

\* Manifest mf holds the bytes that f embeds.
Pins(mf, f) == \A e \in program.embeds[f] : mf[e] = disk[<<program.dir[f], e>>]
=============================================================================
