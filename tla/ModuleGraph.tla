---------------------------- MODULE ModuleGraph ----------------------------
(***************************************************************************)
(* How the driver reads a program: load_module_graph follows the imports   *)
(* of the entry file depth first, loads every file once, reports imports   *)
(* it cannot find and imports that close a cycle, and records for each     *)
(* unit the units it depends on.  topo_order then lists dependencies       *)
(* before their importers.                                                 *)
(*                                                                         *)
(* A file is its canonical path, so two import paths may name one file.    *)
(* `frames` is the C++ recursion of `load`, later that of `visit`.         *)
(***************************************************************************)
EXTENDS Sources

VARIABLES
  units,     \* ModuleGraph::files, the file of each unit in loading order
  relpaths,  \* ModuleGraph::relpaths
  deps,      \* ModuleGraph::deps
  frames,    \* the recursion: the unit of each call and its next import
  faulty,    \* the reporter holds an error
  order      \* topo_order's result so far

graphVars == <<tree, units, relpaths, deps, frames, faulty, order>>

-----------------------------------------------------------------------------
\* The recursion

Frame == frames[Len(frames)]
Unit == Frame.unit
Import == tree.import[units[Unit]]

\* The import the call on top has come to.
AtImport(p) == frames # << >> /\ Frame.next <= Len(Import) /\ p = Import[Frame.next]

\* Slip: the recursion is not tracked.
NobodyOnStack == {}

\* Slip: files that were ever entered, whether or not their call is over.
EverEntered == ToSet(units)

\* The units whose call is not over, and on_stack, their files.
Active == {frames[i].unit : i \in DOMAIN frames}
OnStack == {units[i] : i \in Active}

Advance == [frames EXCEPT ![Len(frames)].next = @ + 1]
AddDep(i, d) == [deps EXCEPT ![i] = Append(@, d)]

-----------------------------------------------------------------------------
\* load

\* Slip: every unit takes the output path of the entry.
EnterUnitAtStem(f, p) ==
  /\ units' = Append(units, f)
  /\ relpaths' = Append(relpaths, Stem)
  /\ deps' = Append(deps, << >>)
  /\ faulty' = (faulty \/ f \in tree.broken)

\* The unit of file f, to be found below the output directory at path p.
EnterUnit(f, p) ==
  /\ units' = Append(units, f)
  /\ relpaths' = Append(relpaths, p)
  /\ deps' = Append(deps, << >>)
  /\ faulty' = (faulty \/ f \in tree.broken)

\* No root holds the import: an error at the import statement.
ImportMissing(p) ==
  /\ AtImport(p) /\ Located(p) = {}
  /\ faulty' = TRUE
  /\ frames' = Advance
  /\ UNCHANGED <<tree, units, relpaths, deps, order>>

\* Slip: the loop over the imports does not go on.
ImportCyclicForever(p, f) ==
  /\ AtImport(p) /\ f \in Located(p) \cap OnStack
  /\ faulty' = TRUE
  /\ UNCHANGED <<tree, units, relpaths, deps, frames, order>>

\* The import closes a cycle: an error, and no dependency.
ImportCyclic(p, f) ==
  /\ AtImport(p) /\ f \in Located(p) \cap OnStack
  /\ faulty' = TRUE
  /\ frames' = Advance
  /\ UNCHANGED <<tree, units, relpaths, deps, order>>

\* The file is loaded already: `visited` yields its unit.
ImportVisited(p, f) ==
  /\ AtImport(p) /\ f \in Located(p) \ OnStack
  /\ \E d \in DOMAIN units : units[d] = f /\ deps' = AddDep(Unit, d)
  /\ frames' = Advance
  /\ UNCHANGED <<tree, units, relpaths, faulty, order>>

\* Slip: the -1 of a failed load is recorded as a dependency.
ImportUnreadableKept(p, f) ==
  /\ AtImport(p) /\ f \in (Located(p) \ ToSet(units)) \cap tree.unreadable
  /\ deps' = AddDep(Unit, -1)
  /\ frames' = Advance
  /\ UNCHANGED <<tree, units, relpaths, faulty, order>>

\* The file cannot be opened: a line on stderr, but neither an error of the
\* reporter nor a dependency.
ImportUnreadable(p, f) ==
  /\ AtImport(p) /\ f \in (Located(p) \ ToSet(units)) \cap tree.unreadable
  /\ frames' = Advance
  /\ UNCHANGED <<tree, units, relpaths, deps, faulty, order>>

\* A file not seen before is parsed, and its imports come first.
ImportNew(p, f) ==
  /\ AtImport(p) /\ f \in Located(p) \ (ToSet(units) \cup tree.unreadable)
  /\ EnterUnit(f, p)
  /\ frames' = Append(frames, [unit |-> Len(units) + 1, next |-> 1])
  /\ UNCHANGED <<tree, order>>

\* `load` returns to the importer, which records the dependency.
LoadReturn ==
  /\ frames # << >> /\ Frame.next > Len(Import)
  /\ frames' = IF Len(frames) = 1 THEN << >>
               ELSE [Front(frames) EXCEPT ![Len(frames) - 1].next = @ + 1]
  /\ deps' = IF Len(frames) = 1 THEN deps
             ELSE AddDep(frames[Len(frames) - 1].unit, Unit)
  /\ UNCHANGED <<tree, units, relpaths, faulty, order>>

LoadStep ==
  \/ \E p \in Paths :
       \/ ImportMissing(p)
       \/ \E f \in Located(p) : \/ ImportCyclic(p, f) \/ ImportVisited(p, f)
                               \/ ImportUnreadable(p, f) \/ ImportNew(p, f)
  \/ LoadReturn

-----------------------------------------------------------------------------
\* topo_order

Seen == ToSet(order) \cup Active

\* The loop over all units visits the next one not seen.
VisitRoot ==
  /\ frames = << >>
  /\ \E i \in DOMAIN units \ Seen :
       /\ \A j \in 1 .. i - 1 : j \in Seen
       /\ frames' = << [unit |-> i, next |-> 1] >>
  /\ UNCHANGED <<tree, units, relpaths, deps, faulty, order>>

\* A call visits its unit's next dependency ...
Visit ==
  /\ frames # << >> /\ Frame.next <= Len(deps[Unit])
  /\ LET d == deps[Unit][Frame.next]
     IN frames' = IF d \in Seen THEN Advance
                  ELSE Append(Advance, [unit |-> d, next |-> 1])
  /\ UNCHANGED <<tree, units, relpaths, deps, faulty, order>>

\* Slip: importers are listed before what they import.
VisitReturnReversed ==
  /\ frames # << >> /\ Frame.next > Len(deps[Unit])
  /\ order' = << Unit >> \o order
  /\ frames' = Front(frames)
  /\ UNCHANGED <<tree, units, relpaths, deps, faulty>>

\* ... and lists the unit after the last of them.
VisitReturn ==
  /\ frames # << >> /\ Frame.next > Len(deps[Unit])
  /\ order' = Append(order, Unit)
  /\ frames' = Front(frames)
  /\ UNCHANGED <<tree, units, relpaths, deps, faulty>>

SortStep == VisitRoot \/ Visit \/ VisitReturn
Sorted == frames = << >> /\ DOMAIN units \subseteq Seen

-----------------------------------------------------------------------------
\* What the graph must be

GraphTypeOK ==
  /\ tree \in Tree
  /\ units \in Seq(Files)
  /\ relpaths \in Seq(Paths)
  /\ deps \in Seq(Seq(Nat))
  /\ frames \in Seq([unit: Nat, next: Nat])
  /\ faulty \in BOOLEAN
  /\ order \in Seq(Nat)

\* No set of units is closed under needing one another: whatever the files
\* import, topo_order and the checks after it have somewhere to begin.
DepsAcyclic ==
  \A S \in SUBSET DOMAIN units :
    S # {} => \E i \in S : ToSet(deps[i]) \cap S = {}

\* A diamond loads once: every file is at most one unit.
LoadedOnce == IsInjective(units)
=============================================================================
