---------------------------- MODULE BuildDriver ----------------------------
(***************************************************************************)
(* `vestra build` and `vestra check`: load the module graph, lower every   *)
(* unit, then resolve, check and write the units one by one, dependencies  *)
(* first; and the manifest that pins the files `@embed` reads.             *)
(*                                                                         *)
(* A session is a few commands on one source tree, between which the user  *)
(* may edit embedded files.  The output directory and the manifest file    *)
(* outlive a command, everything else belongs to one.                      *)
(***************************************************************************)
EXTENDS ModuleGraph

CONSTANTS
  Sessions,  \* for each source tree, the command lines a user may give, in order
  MaxEdits   \* bound: edits of embedded files

ASSUME SessionsAssumption == \A tr \in Trees : Sessions[tr] \subseteq Seq(Command)
\* No manifest is told from any there could be.
ASSUME ManifestAssumption == None \notin [Embeds -> Contents \cup {None}]

VARIABLES
  phase,     \* idle, load, sort, check, emit, done
  plan,      \* the commands the user is still to give
  cmd,       \* the command being run, or the last
  todo,      \* position in topo_order of the unit to come
  store,     \* the unit whose exports each module name stands for
  recorded,  \* EmbedManifest::recorded
  expected,  \* EmbedManifest::expected
  manifest,  \* the manifest file, or None
  wrote,     \* the output paths this command wrote
  exit,      \* its exit code
  past,      \* the commands since the last edit, with their exit codes
  edits

vars == <<graphVars, phase, plan, cmd, program, todo, store, disk, recorded, expected,
          manifest, wrote, exit, past, edits>>

NoExports == [m \in Names |-> 0]
NoEntries == [e \in Embeds |-> None]

-----------------------------------------------------------------------------
\* Beginning and ending a command

Init ==
  /\ tree \in Trees /\ program \in Programs[tree]
  /\ units = << >> /\ relpaths = << >> /\ deps = << >>
  /\ frames = << >> /\ faulty = FALSE /\ order = << >>
  /\ phase = "idle" /\ plan \in Sessions[tree] /\ todo = 1 /\ store = NoExports
  /\ cmd = [write |-> FALSE, mode |-> "Off", checked |-> TRUE]
  /\ disk \in [Embedded -> Contents]
  /\ recorded = NoEntries /\ expected = NoEntries /\ manifest = None
  /\ wrote = {} /\ exit = 0 /\ past = << >> /\ edits = 0

\* load_embed_manifest, when there is a manifest to load.
LoadManifest == IF cmd'.mode = "Enforce" /\ manifest # None THEN manifest ELSE NoEntries

\* The command's own state is new; the entry is unit 1, if it can be read and
\* the manifest to enforce can.
Begin ==
  /\ phase = "idle" /\ plan # << >>
  /\ cmd' = Head(plan) /\ plan' = Tail(plan)
  /\ order' = << >> /\ todo' = 1 /\ store' = NoExports
  /\ recorded' = NoEntries /\ wrote' = {}
  /\ expected' = LoadManifest
  /\ IF (cmd'.mode = "Enforce" /\ manifest = None) \/ Entry \in tree.unreadable
     THEN /\ units' = << >> /\ relpaths' = << >> /\ deps' = << >> /\ frames' = << >>
          /\ faulty' = FALSE /\ phase' = "done" /\ exit' = 1
     ELSE /\ units' = << Entry >> /\ relpaths' = << Stem >> /\ deps' = << << >> >>
          /\ frames' = << [unit |-> 1, next |-> 1] >>
          /\ faulty' = (Entry \in tree.broken) /\ phase' = "load" /\ exit' = 0
  /\ UNCHANGED <<tree, program, disk, manifest, past, edits>>

Loading ==
  /\ phase = "load" /\ LoadStep
  /\ UNCHANGED <<phase, plan, cmd, program, todo, store, disk, recorded, expected,
                 manifest, wrote, exit, past, edits>>

\* The gate before any resolution.
Lower ==
  /\ phase = "load" /\ frames = << >>
  /\ phase' = IF faulty THEN "done" ELSE "sort"
  /\ exit' = IF faulty THEN 1 ELSE 0
  /\ UNCHANGED <<graphVars, plan, cmd, program, todo, store, disk, recorded, expected,
                 manifest, wrote, past, edits>>

Sorting ==
  /\ phase = "sort"
  /\ IF Sorted THEN phase' = "check" /\ UNCHANGED graphVars
               ELSE SortStep /\ UNCHANGED phase
  /\ UNCHANGED <<plan, cmd, program, todo, store, disk, recorded, expected, manifest,
                 wrote, exit, past, edits>>

-----------------------------------------------------------------------------
\* One unit after the other

This == order[todo]
ThisFile == units[This]
ThisModule == program.module[ThisFile]
OnDisk(e) == disk[<<program.dir[ThisFile], e>>]

\* The names a unit may refer to: modules of its dependencies that export.
Visible == {m \in Names : store[m] # 0 /\
              \E k \in DOMAIN deps[This] : program.module[units[deps[This][k]]] = m}

\* Slip: an entry in the manifest is enough.
PinnedByName(e) == expected[e] # None

\* The reader's check of an embedded file against the manifest to enforce.
Pinned(e) == expected[e] = OnDisk(e)

\* make_embed_reader yields the bytes of e.
Readable(e) == OnDisk(e) # None /\ (cmd.mode = "Enforce" => Pinned(e))

\* Slip: every unit's reader starts an empty manifest.
RecordAfresh ==
  [e \in Embeds |-> IF e \in program.embeds[ThisFile] THEN OnDisk(e) ELSE None]

\* EmbedManifest::recorded once this unit's embeds are read.
Record ==
  [e \in Embeds |->
     IF e \in program.embeds[ThisFile] /\ OnDisk(e) # None /\ cmd.mode # "Off"
     THEN OnDisk(e) ELSE recorded[e]]

\* Slip: nobody asks for errors after the checkers have run.
SoundIfResolved ==
  /\ program.uses[ThisFile] \subseteq Visible
  /\ \A e \in program.embeds[ThisFile] : Readable(e)

\* resolve() and the three checkers report nothing.
Sound ==
  /\ ThisFile \notin program.wrong
  /\ program.uses[ThisFile] \subseteq Visible
  /\ \A e \in program.embeds[ThisFile] : Readable(e)

CheckUnit ==
  /\ phase = "check" /\ todo <= Len(order) /\ cmd.checked
  /\ recorded' = Record
  /\ IF Sound
     THEN /\ phase' = "emit"
          /\ store' = IF ThisModule # None THEN [store EXCEPT ![ThisModule] = This]
                                           ELSE store
          /\ UNCHANGED <<faulty, exit>>
     ELSE /\ phase' = "done" /\ faulty' = TRUE /\ exit' = 1
          /\ UNCHANGED store
  /\ UNCHANGED <<tree, units, relpaths, deps, frames, order, plan, cmd, program, todo,
                 disk, expected, manifest, wrote, past, edits>>

\* --skip-check
SkipCheck ==
  /\ phase = "check" /\ todo <= Len(order) /\ ~cmd.checked
  /\ phase' = "emit"
  /\ UNCHANGED <<graphVars, plan, cmd, program, todo, store, disk, recorded, expected,
                 manifest, wrote, exit, past, edits>>

\* Slip: only the entry's header and source are written.
EmitEntry ==
  /\ phase = "emit"
  /\ wrote' = IF cmd.write /\ This = 1 THEN wrote \cup {relpaths[This]} ELSE wrote
  /\ todo' = todo + 1 /\ phase' = "check"
  /\ UNCHANGED <<graphVars, plan, cmd, program, store, disk, recorded, expected,
                 manifest, exit, past, edits>>

\* Write the unit's header and source, at once.
EmitUnit ==
  /\ phase = "emit"
  /\ wrote' = IF cmd.write THEN wrote \cup {relpaths[This]} ELSE wrote
  /\ todo' = todo + 1 /\ phase' = "check"
  /\ UNCHANGED <<graphVars, plan, cmd, program, store, disk, recorded, expected,
                 manifest, exit, past, edits>>

\* All units are through; the manifest is written if it was asked for and the
\* file can be.
Finish(writable) ==
  /\ phase = "check" /\ todo > Len(order)
  /\ phase' = "done"
  /\ exit' = IF cmd.mode = "Emit" /\ ~writable THEN 1 ELSE 0
  /\ manifest' = IF cmd.mode = "Emit" /\ writable THEN recorded ELSE manifest
  /\ UNCHANGED <<graphVars, plan, cmd, program, todo, store, disk, recorded, expected,
                 wrote, past, edits>>

Exit ==
  /\ phase = "done"
  /\ phase' = "idle"
  /\ past' = Append(past, [cmd |-> cmd, exit |-> exit])
  /\ UNCHANGED <<graphVars, plan, cmd, program, todo, store, disk, recorded, expected,
                 manifest, wrote, exit, edits>>

\* The user changes, removes or restores an embedded file between two commands.
Edit(file, bytes) ==
  /\ phase = "idle" /\ plan # << >> /\ edits < MaxEdits
  /\ disk' = [disk EXCEPT ![file] = bytes]
  /\ past' = << >> /\ edits' = edits + 1
  /\ UNCHANGED <<graphVars, phase, plan, cmd, program, todo, store, recorded, expected,
                 manifest, wrote, exit>>

Work ==
  \/ Loading \/ Lower \/ Sorting
  \/ CheckUnit \/ SkipCheck \/ EmitUnit
  \/ \E writable \in BOOLEAN : Finish(writable)
  \/ Exit

Next ==
  \/ Begin
  \/ Work
  \/ \E file \in Embedded, bytes \in Contents \cup {None} : Edit(file, bytes)

Spec == Init /\ [][Next]_vars

\* A command that was started runs; nobody need start another.
FairSpec == Spec /\ WF_vars(Work)

-----------------------------------------------------------------------------
\* Safety

TypeOK ==
  /\ GraphTypeOK
  /\ phase \in {"idle", "load", "sort", "check", "emit", "done"}
  /\ plan \in Seq(Command) /\ cmd \in Command
  /\ program \in Program
  /\ todo \in Nat \ {0}
  /\ store \in [Names -> Nat]
  /\ disk \in [Embedded -> Contents \cup {None}]
  /\ recorded \in [Embeds -> Contents \cup {None}]
  /\ expected \in [Embeds -> Contents \cup {None}]
  /\ manifest \in {None} \cup [Embeds -> Contents \cup {None}]
  /\ wrote \in SUBSET Paths
  /\ exit \in {0, 1}
  /\ past \in Seq([cmd: Command, exit: {0, 1}])
  /\ edits \in Nat

ImportCycle == \E S \in SUBSET ToSet(units) : S # {} /\ \A f \in S : Needs(f) \cap S # {}

\* Loading finds exactly what is wrong with the sources: it follows every import
\* there is, and fails if and only if a file it reached does not parse, imports
\* something that is not there, or lies on a cycle.  A diamond is no cycle.
LoadVerdict ==
  phase = "load" /\ frames = << >> =>
    /\ LoadedOnce
    /\ \A f \in ToSet(units) : Needs(f) \subseteq ToSet(units)
    /\ faulty <=> \/ \E f \in ToSet(units) :
                       f \in tree.broken \/ \E p \in ToSet(tree.import[f]) : Located(p) = {}
                  \/ ImportCycle

\* When a unit is resolved, the exports of each module it imports are in store,
\* and are those of the unit it imports if no other unit declares that module.
DependenciesFirst ==
  phase = "check" /\ todo <= Len(order) /\ cmd.checked =>
    \A k \in DOMAIN deps[This] :
      LET d == deps[This][k]
          name == program.module[units[d]]
          Namesakes == {i \in DOMAIN units : program.module[units[i]] = name}
      IN name # None => store[name] \in Namesakes /\ (Namesakes = {d} => store[name] = d)

\* A command that exits 0 has written every header its units include.
IncludesWritten ==
  phase = "done" /\ exit = 0 /\ cmd.write =>
    \A i \in DOMAIN units : ToSet(tree.import[units[i]]) \subseteq wrote

\* It has if no file goes by two import paths and every file can be read.
IncludesWrittenIfPlain ==
  /\ tree.unreadable = {}
  /\ \A p, r \in Paths : Located(p) \cap Located(r) # {} => p = r
  => IncludesWritten

\* No two units of a build share an output path.
OutputsApart == IsInjective(relpaths)

\* A build that enforces a manifest and exits 0 embeds exactly the bytes the
\* manifest pins, in every unit.
EmbedsPinned ==
  phase = "done" /\ exit = 0 /\ cmd.mode = "Enforce" /\ cmd.checked =>
    \A i \in DOMAIN units : \A e \in program.embeds[units[i]] :
      disk[<<program.dir[units[i]], e>>] = manifest[e] /\ manifest[e] # None

\* On an unchanged tree, what one build recorded a later build accepts.
RoundTrip ==
  \A i, j \in DOMAIN past :
    /\ i < j /\ \A k \in i .. j : past[k].cmd.checked
    /\ past[i].cmd.mode = "Emit" /\ past[i].exit = 0 /\ past[j].cmd.mode = "Enforce"
    => past[j].exit = 0

\* It does if no two directories hold an embed of the same relative path.
RoundTripIfApart ==
  (\A f, g \in Files : program.embeds[f] \cap program.embeds[g] # {} =>
     program.dir[f] = program.dir[g])
  => RoundTrip

\* The build subcommand refuses to emit C++ when sema reports errors.
NothingWrittenIfRefused == cmd.checked /\ faulty => wrote = {}

-----------------------------------------------------------------------------
\* What it implements

Stage ==
  CASE phase = "idle" -> "idle"
    [] phase = "done" -> "over"
    [] OTHER -> "running"

Contract == INSTANCE BuildContract WITH stage <- Stage

\* Whatever order the imports are followed in, and however units share files and
\* modules: a command exits 0 if and only if nothing is wrong with the sources (or
\* the manifest cannot be saved); it writes only headers of files that pass the
\* checks, each once, at a path that names it and after those it includes; and
\* only a command that exits 0 leaves a manifest, of what it embedded.
KeepsContract == Contract!Spec

-----------------------------------------------------------------------------
\* Liveness

\* Every command ends, whatever the files import.
CommandsEnd == phase # "idle" ~> phase = "idle"

=============================================================================
