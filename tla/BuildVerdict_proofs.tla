------------------------ MODULE BuildVerdict_proofs ------------------------
(***************************************************************************)
(* What a command's exit code stands for, for every source tree and every  *)
(* session: loading fails exactly when the sources are wrong, the order    *)
(* lists dependencies first, and a build that exits 0 has written the      *)
(* headers its units include and recorded what a later build accepts.      *)
(*                                                                         *)
(* All of it rests on one idea: what a command finds depends on the tree   *)
(* alone.  The files it loads are those the imports reach (Reach), its     *)
(* verdict on them is Blame, its verdict on one of them is Apt, and none   *)
(* of the three mentions a variable of the command.                        *)
(***************************************************************************)
EXTENDS BuildDriver_proofs

-----------------------------------------------------------------------------
\* What the tree alone says

LEMMA TreeAlone ==
  ASSUME tree' = tree
  PROVE  /\ \A p : Located(p)' = Located(p)
         /\ \A f : Needs(f)' = Needs(f)
         /\ \A F : Blame(F)' = Blame(F)
         /\ Reach' = Reach
<1>1. \A p : Located(p)' = Located(p)
  BY DEF Located
<1>2. \A f : Needs(f)' = Needs(f)
  BY <1>1 DEF Needs
<1>3. \A F : Blame(F)' = Blame(F)
  BY <1>1, <1>2 DEF Blame
<1>4. Reach' = Reach
  BY <1>2 DEF Reach, Closed
<1> QED BY <1>1, <1>2, <1>3, <1>4

LEMMA NeedsFacts ==
  /\ \A f : Needs(f) \subseteq Files
  /\ \A f, g : g \in Needs(f) <=>
       g \notin tree.unreadable /\ \E p \in ToSet(tree.import[f]) : g \in Located(p)
<1>1. \A f, g : g \in Needs(f) <=>
        g \notin tree.unreadable /\ \E p \in ToSet(tree.import[f]) : g \in Located(p)
  <2> TAKE f, g
  <2>1. g \in UNION {Located(p) : p \in ToSet(tree.import[f])} <=>
          \E p \in ToSet(tree.import[f]) : g \in Located(p)
    OBVIOUS
  <2> QED BY <2>1, Zenon DEF Needs
<1> QED BY <1>1 DEF Located

LEMMA BlameGrows ==
  ASSUME NEW F, NEW G, F \subseteq G, Blame(F)
  PROVE  Blame(G)
BY DEF Blame

LEMMA ReachFacts ==
  /\ Reach \subseteq Files /\ Entry \in Reach
  /\ \A f \in Reach : Needs(f) \subseteq Reach
  /\ \A C \in SUBSET Files : Closed(C) => Reach \subseteq C
BY EntryAssumption, NeedsFacts DEF Reach, Closed

-----------------------------------------------------------------------------
\* Loading: the invariant

\* The call of unit i, if it has one, is past an import of path p.
Past(i, p) ==
  \E j \in DOMAIN tree.import[units[i]] :
    /\ tree.import[units[i]][j] = p
    /\ \A k \in DOMAIN frames : frames[k].unit = i => j < frames[k].next

DepFiles(i) == {units[d] : d \in ToSet(deps[i])}

\* What unit i imports as p is loaded and, unless something was reported, a
\* dependency.
Settled(i, p) ==
  /\ Located(p) \ tree.unreadable \subseteq ToSet(units)
  /\ ~faulty => Located(p) # {} /\ Located(p) \ tree.unreadable \subseteq DepFiles(i)

PastIsSettled == \A i \in DOMAIN units : \A p \in Paths : Past(i, p) => Settled(i, p)

\* A call that waits for another is at the import the other loads.
Chained ==
  \A k \in DOMAIN frames : k + 1 \in DOMAIN frames =>
    \E f \in Files, p \in Paths :
      /\ units[frames[k].unit] = f
      /\ frames[k].next \in DOMAIN tree.import[f] /\ tree.import[f][frames[k].next] = p
      /\ units[frames[k + 1].unit] \in Located(p)

\* Only imported files are dependencies.
DepsNeeded ==
  \A i \in DOMAIN units : \E f \in Files : units[i] = f /\ DepFiles(i) \subseteq Needs(f)

LoadInv ==
  /\ Chained /\ PastIsSettled /\ DepsNeeded
  /\ ToSet(units) \cap tree.unreadable = {}
  /\ ToSet(units) \cap tree.broken # {} => faulty
  /\ faulty => Blame(ToSet(units))
  /\ Entry \in ToSet(units) /\ ToSet(units) \subseteq Reach

LEMMA AdvanceIs ==
  ASSUME GraphTypeOK, GraphShape, frames # << >>, NEW k \in DOMAIN frames
  PROVE  /\ Advance[k].unit = frames[k].unit
         /\ Advance[k].next = IF k = Len(frames) THEN frames[k].next + 1 ELSE frames[k].next
<1>1. frames \in Seq(Call) /\ Len(frames) \in Nat \ {0} /\ DOMAIN frames = 1 .. Len(frames)
  BY EmptySeq, LenProperties DEF GraphTypeOK, Call
<1>2. frames[k] \in Call
  BY <1>1, ElementOfSeq
<1>3. Advance[k] = IF k = Len(frames) THEN [frames[k] EXCEPT !.next = @ + 1] ELSE frames[k]
  BY <1>1 DEF Advance
<1> QED BY <1>2, <1>3 DEF Call

\* The import the call on top is at, and the file it belongs to.
LEMMA AtImportFacts ==
  ASSUME GraphTypeOK, GraphShape, NEW p, AtImport(p)
  PROVE  /\ frames # << >> /\ Len(frames) \in DOMAIN frames /\ Unit = frames[Len(frames)].unit
         /\ Unit \in DOMAIN units /\ units[Unit] \in Files
         /\ frames[Len(frames)].next \in DOMAIN tree.import[units[Unit]]
         /\ p = tree.import[units[Unit]][frames[Len(frames)].next]
         /\ p \in Paths /\ p \in ToSet(tree.import[units[Unit]])
<1>1. /\ frames # << >> /\ Frame \in Call /\ Len(frames) \in DOMAIN frames /\ Frame.next >= 1
      /\ Unit \in DOMAIN units /\ Unit = frames[Len(frames)].unit
      /\ Frame = frames[Len(frames)]
  BY AdvanceFacts DEF AtImport, Unit, Frame
<1>2. units[Unit] \in Files
  BY <1>1, Domains
<1>3. Import = tree.import[units[Unit]] /\ Import \in Seq(Paths)
  BY <1>2 DEF Import, GraphTypeOK, Tree
<1>4. Frame.next \in DOMAIN Import /\ p = Import[Frame.next]
  BY <1>1, <1>3, LenProperties DEF AtImport, Call
<1>5. p \in Paths /\ p \in ToSet(Import)
  BY <1>3, <1>4, ElementOfSeq, LenProperties DEF ToSet
<1> QED BY <1>1, <1>2, <1>3, <1>4, <1>5

\* A call that goes past one more import stays chained and settled if that
\* import is.
LEMMA GoesPast ==
  ASSUME GraphInv, StackApart, LoadInv, NEW p, AtImport(p), frames' = Advance,
         UNCHANGED <<tree, units>>, faulty => faulty',
         \A i \in DOMAIN units : ToSet(deps[i]) \subseteq ToSet(deps'[i]),
         NEW U, U = Unit, Settled(U, p)'
  PROVE  Chained' /\ PastIsSettled'
<1>1. /\ GraphTypeOK /\ GraphShape /\ frames # << >> /\ Len(frames) \in DOMAIN frames
      /\ U = frames[Len(frames)].unit /\ U \in DOMAIN units
      /\ frames[Len(frames)].next \in DOMAIN tree.import[units[U]]
      /\ p = tree.import[units[U]][frames[Len(frames)].next] /\ p \in Paths
  BY AtImportFacts DEF GraphInv
<1>2. /\ DOMAIN frames' = DOMAIN frames
      /\ \A k \in DOMAIN frames :
           /\ frames'[k].unit = frames[k].unit
           /\ frames'[k].next = IF k = Len(frames) THEN frames[k].next + 1 ELSE frames[k].next
  BY <1>1, AdvanceFacts, AdvanceIs
<1>3. \A q : Located(q)' = Located(q)
  BY TreeAlone
<1>4. /\ Len(frames) \in Nat /\ DOMAIN frames = 1 .. Len(frames)
      /\ \A k \in DOMAIN frames : frames[k].next \in Nat
  BY <1>1, Domains DEF Call
<1>5. Chained'
  <2>1. \A k \in DOMAIN frames : k + 1 \in DOMAIN frames =>
          frames'[k].unit = frames[k].unit /\ frames'[k].next = frames[k].next
    BY <1>2, <1>4
  <2>2. \A k \in DOMAIN frames : frames'[k].unit = frames[k].unit
    BY <1>2
  <2> QED BY <1>2, <1>3, <2>1, <2>2 DEF LoadInv, Chained
<1>6. ASSUME NEW i \in DOMAIN units, NEW q \in Paths, Past(i, q)'
      PROVE  Settled(i, q)'
  <2>1. PICK j \in DOMAIN tree.import[units[i]] :
          /\ tree.import[units[i]][j] = q
          /\ \A k \in DOMAIN frames : frames[k].unit = i => j < frames'[k].next
    BY <1>2, <1>6 DEF Past
  <2>2. CASE i = U /\ j = frames[Len(frames)].next
    BY <1>1, <2>1, <2>2
  <2>3. CASE ~(i = U /\ j = frames[Len(frames)].next)
    <3>1. tree.import[units[i]] \in Seq(Paths)
      BY <1>1, Domains DEF GraphTypeOK, Tree
    <3>2. j \in Nat
      BY <3>1, LenProperties
    <3>3. \A k \in DOMAIN frames : frames[k].unit = i => j < frames[k].next
      BY <1>1, <1>2, <1>4, <2>1, <2>3, <3>2
    <3>4. Settled(i, q)
      BY <2>1, <3>3 DEF LoadInv, PastIsSettled, Past
    <3> QED BY <1>3, <3>4 DEF Settled, DepFiles
  <2> QED BY <2>2, <2>3
<1> QED BY <1>5, <1>6 DEF PastIsSettled

\* What loading found before a step, it still has found after one that only
\* goes on.
LEMMA RestKept ==
  ASSUME LoadInv, UNCHANGED <<tree, units>>, faulty => faulty',
         faulty' => faulty \/ Blame(ToSet(units)),
         Chained', PastIsSettled', DepsNeeded'
  PROVE  LoadInv'
<1>1. \A F : Blame(F)' = Blame(F)
  BY TreeAlone
<1>2. Reach' = Reach
  BY TreeAlone
<1>3. faulty' => Blame(ToSet(units))'
  <2>1. PICK F : F = ToSet(units)
    OBVIOUS
  <2>2. faulty' => Blame(F)'
    BY <1>1, <2>1 DEF LoadInv
  <2>3. ToSet(units)' = F
    BY <2>1 DEF ToSet
  <2> QED BY <2>2, <2>3 DEF Blame
<1> QED BY <1>2, <1>3 DEF LoadInv

LEMMA SameDeps ==
  ASSUME DepsNeeded, UNCHANGED <<tree, units, deps>>
  PROVE  DepsNeeded'
<1>1. \A f : Needs(f)' = Needs(f)
  BY TreeAlone
<1> QED BY <1>1 DEF DepsNeeded, DepFiles

LEMMA MissingStep ==
  ASSUME GraphInv, StackApart, LoadInv, NEW p \in Paths, ImportMissing(p)
  PROVE  LoadInv'
<1>1. /\ AtImport(p) /\ Located(p) = {} /\ faulty' = TRUE /\ frames' = Advance
      /\ UNCHANGED <<tree, units, relpaths, deps, order>>
  BY DEF ImportMissing
<1>2. PICK U : U = Unit
  OBVIOUS
<1>3. Settled(U, p)'
  BY <1>1, TreeAlone DEF Settled
<1>4. Chained' /\ PastIsSettled'
  BY <1>1, <1>2, <1>3, GoesPast
<1>5. Blame(ToSet(units))
  <2>1. U \in DOMAIN units /\ p \in ToSet(tree.import[units[U]])
    BY <1>1, <1>2, AtImportFacts DEF GraphInv
  <2> QED BY <1>1, <2>1 DEF Blame, ToSet
<1> QED BY <1>1, <1>4, <1>5, SameDeps, RestKept DEF LoadInv

\* The calls from the one that loads f up to the one that imports it again are
\* the cycle.
LEMMA OnStackIsCycle ==
  ASSUME GraphInv, LoadInv, NEW p \in Paths, AtImport(p), NEW f \in Located(p) \cap OnStack
  PROVE  Blame(ToSet(units))
<1> DEFINE n == Len(frames)
           file(k) == units[frames[k].unit]
<1>1. /\ GraphTypeOK /\ GraphShape /\ n \in DOMAIN frames /\ Unit = frames[n].unit
      /\ p \in ToSet(tree.import[file(n)]) /\ n \in Nat /\ DOMAIN frames = 1 .. n
  BY AtImportFacts, Domains DEF GraphInv
<1>2. PICK a \in DOMAIN frames : f = file(a)
  BY DEF OnStack, Active
<1> DEFINE S == {file(k) : k \in a .. n}
<1>3. \A k \in DOMAIN frames : file(k) \in ToSet(units) /\ file(k) \notin tree.unreadable
  BY <1>1 DEF GraphShape, ToSet, LoadInv
<1>4. file(a) \in S
  BY <1>1, <1>2
<1>5. ASSUME NEW k \in a .. n
      PROVE  Needs(file(k)) \cap S # {}
  <2>1. CASE k = n
    <3>1. f \in Needs(file(k))
      BY <1>1, <1>2, <1>3, <2>1, NeedsFacts
    <3> QED BY <1>2, <1>4, <3>1
  <2>2. CASE k # n
    <3> a \in 1 .. n
      BY <1>1, <1>2
    <3> HIDE DEF n
    <3>1. k \in DOMAIN frames /\ k + 1 \in DOMAIN frames /\ k + 1 \in a .. n
      BY <1>1, <2>2
    <3>2. PICK q \in Paths :
            /\ frames[k].next \in DOMAIN tree.import[file(k)]
            /\ tree.import[file(k)][frames[k].next] = q
            /\ file(k + 1) \in Located(q)
      BY <3>1 DEF LoadInv, Chained
    <3>3. file(k + 1) \in Needs(file(k))
      BY <1>3, <3>1, <3>2, NeedsFacts DEF ToSet
    <3> QED BY <3>1, <3>3
  <2> QED BY <2>1, <2>2
<1>6. S \in SUBSET ToSet(units)
  BY <1>1, <1>2, <1>3
<1>7. \A g \in S : Needs(g) \cap S # {}
  BY <1>5
<1> HIDE DEF S
<1> QED BY <1>4, <1>6, <1>7 DEF Blame

LEMMA CyclicStep ==
  ASSUME GraphInv, StackApart, LoadInv, NEW p \in Paths, NEW f \in Located(p),
         ImportCyclic(p, f)
  PROVE  LoadInv'
<1>1. /\ AtImport(p) /\ f \in Located(p) \cap OnStack /\ faulty' = TRUE /\ frames' = Advance
      /\ UNCHANGED <<tree, units, relpaths, deps, order>>
  BY DEF ImportCyclic
<1>2. PICK U : U = Unit
  OBVIOUS
<1>3. f \in ToSet(units)
  BY <1>1 DEF OnStack, Active, GraphInv, GraphShape, ToSet
<1>4. Located(p) = {f}
  BY LocatedIsOne DEF GraphInv
<1>5. Settled(U, p)'
  <2>1. Located(p)' = {f} /\ ToSet(units)' = ToSet(units)
    BY <1>1, <1>4, TreeAlone DEF ToSet
  <2> QED BY <1>1, <1>3, <2>1 DEF Settled
<1>6. Chained' /\ PastIsSettled'
  BY <1>1, <1>2, <1>5, GoesPast
<1>7. Blame(ToSet(units))
  BY <1>1, OnStackIsCycle
<1> QED BY <1>1, <1>6, <1>7, SameDeps, RestKept DEF LoadInv

LEMMA UnreadableStep ==
  ASSUME GraphInv, StackApart, LoadInv, NEW p \in Paths, NEW f \in Located(p),
         ImportUnreadable(p, f)
  PROVE  LoadInv'
<1>1. /\ AtImport(p) /\ f \in tree.unreadable /\ frames' = Advance
      /\ UNCHANGED <<tree, units, relpaths, deps, faulty, order>>
  BY DEF ImportUnreadable
<1>2. PICK U : U = Unit
  OBVIOUS
<1>3. Located(p) = {f}
  BY LocatedIsOne DEF GraphInv
<1>4. Settled(U, p)'
  <2>1. Located(p)' = {f} /\ tree.unreadable' = tree.unreadable
    BY <1>1, <1>3, TreeAlone
  <2> QED BY <1>1, <2>1 DEF Settled
<1>5. Chained' /\ PastIsSettled'
  BY <1>1, <1>2, <1>4, GoesPast
<1> QED BY <1>1, <1>5, SameDeps, RestKept DEF LoadInv

\* A dependency on a file the unit imports.
LEMMA OneMoreDep ==
  ASSUME GraphTypeOK, GraphShape, DepsNeeded, UNCHANGED <<tree, units>>,
         NEW i \in DOMAIN units, NEW d \in DOMAIN units, units[d] \in Needs(units[i]),
         deps' = AddDep(i, d)
  PROVE  /\ DepsNeeded'
         /\ \A j \in DOMAIN units : ToSet(deps[j]) \subseteq ToSet(deps'[j])
         /\ d \in ToSet(deps'[i])
<1>1. \A j \in DOMAIN units :
        ToSet(deps'[j]) = IF j = i THEN ToSet(deps[j]) \cup {d} ELSE ToSet(deps[j])
  BY AddDepFacts
<1>2. ASSUME NEW j \in DOMAIN units
      PROVE  \E f \in Files : units[j] = f /\ DepFiles(j)' \subseteq Needs(f)'
  <2>1. PICK f \in Files : units[j] = f /\ DepFiles(j) \subseteq Needs(f)
    BY DEF DepsNeeded
  <2>2. DepFiles(j)' \subseteq Needs(f)
    BY <1>1, <2>1 DEF DepFiles
  <2> QED BY <2>1, <2>2, TreeAlone
<1>3. DepsNeeded'
  BY <1>2 DEF DepsNeeded
<1> QED BY <1>1, <1>3

LEMMA VisitedStep ==
  ASSUME GraphInv, StackApart, LoadInv, NEW p \in Paths, NEW f \in Located(p),
         ImportVisited(p, f)
  PROVE  LoadInv'
<1>1. /\ AtImport(p) /\ frames' = Advance
      /\ UNCHANGED <<tree, units, relpaths, faulty, order>>
  BY DEF ImportVisited
<1>2. PICK d \in DOMAIN units : units[d] = f /\ deps' = AddDep(Unit, d)
  BY DEF ImportVisited
<1>3. PICK U : U = Unit
  OBVIOUS
<1>4. /\ GraphTypeOK /\ GraphShape /\ U \in DOMAIN units
      /\ p \in ToSet(tree.import[units[U]])
  BY <1>1, <1>3, AtImportFacts DEF GraphInv
<1>5. f \in ToSet(units) /\ f \notin tree.unreadable
  BY <1>2 DEF ToSet, LoadInv
<1>6. f \in Needs(units[U])
  BY <1>4, <1>5, NeedsFacts
<1>7. /\ DepsNeeded' /\ d \in ToSet(deps'[U])
      /\ \A j \in DOMAIN units : ToSet(deps[j]) \subseteq ToSet(deps'[j])
  BY <1>1, <1>2, <1>3, <1>4, <1>6, OneMoreDep DEF LoadInv
<1>8. Settled(U, p)'
  <2>1. Located(p)' = {f} /\ ToSet(units)' = ToSet(units)
    BY <1>1, LocatedIsOne, TreeAlone DEF ToSet, GraphInv
  <2>2. f \in DepFiles(U)'
    BY <1>1, <1>2, <1>7 DEF DepFiles
  <2> QED BY <1>5, <2>1, <2>2 DEF Settled
<1>9. Chained' /\ PastIsSettled'
  BY <1>1, <1>3, <1>7, <1>8, GoesPast
<1> QED BY <1>1, <1>7, <1>9, RestKept

LEMMA NewStep ==
  ASSUME GraphInv, StackApart, LoadInv, NEW p \in Paths, NEW f \in Located(p),
         ImportNew(p, f)
  PROVE  LoadInv'
<1>0. PICK n, u : n = Len(frames) /\ u = Len(units) + 1
  OBVIOUS
<1> DEFINE c == [unit |-> u, next |-> 1]
<1>1. /\ AtImport(p) /\ units' = Append(units, f) /\ deps' = Append(deps, << >>)
      /\ faulty' = (faulty \/ f \in tree.broken) /\ frames' = Append(frames, c)
      /\ UNCHANGED <<tree, order>>
      /\ f \notin ToSet(units) /\ f \notin tree.unreadable /\ f \in Files
  BY <1>0 DEF ImportNew, EnterUnit, Located
<1>2. PICK U : U = Unit
  OBVIOUS
<1>3. /\ GraphTypeOK /\ GraphShape /\ n \in DOMAIN frames /\ U = frames[n].unit
      /\ U \in DOMAIN units /\ units[U] \in Files
      /\ frames[n].next \in DOMAIN tree.import[units[U]]
      /\ p = tree.import[units[U]][frames[n].next] /\ p \in ToSet(tree.import[units[U]])
  BY <1>0, <1>1, <1>2, AtImportFacts DEF GraphInv
<1>4. /\ units \in Seq(Files) /\ deps \in Seq(Seq(Nat)) /\ frames \in Seq(Call)
      /\ << >> \in Seq(Nat) /\ c \in Call /\ n \in Nat /\ DOMAIN frames = 1 .. n
      /\ u \notin DOMAIN units /\ DOMAIN deps = DOMAIN units /\ Len(deps) = Len(units)
      /\ DOMAIN units = 1 .. Len(units)
  <2>1. /\ units \in Seq(Files) /\ deps \in Seq(Seq(Nat)) /\ frames \in Seq(Call)
        /\ << >> \in Seq(Nat) /\ Len(deps) = Len(units)
    BY <1>3 DEF GraphTypeOK, GraphShape, Call
  <2>2. /\ Len(units) \in Nat /\ n \in Nat /\ DOMAIN units = 1 .. Len(units)
        /\ DOMAIN frames = 1 .. n /\ DOMAIN deps = DOMAIN units
    BY <1>0, <1>3, Domains
  <2>3. u \in Nat /\ u \notin DOMAIN units
    BY <1>0, <2>2
  <2>4. c \in Call
    BY <2>3 DEF Call
  <2> QED BY <2>1, <2>2, <2>3, <2>4
<1>5. /\ DOMAIN units' = DOMAIN units \cup {u} /\ units'[u] = f
      /\ \A i \in DOMAIN units : units'[i] = units[i]
      /\ ToSet(units') = ToSet(units) \cup {f}
  BY <1>0, <1>1, <1>4, AppendFacts, LenProperties
<1>6. /\ deps'[u] = << >> /\ \A i \in DOMAIN units : deps'[i] = deps[i]
  BY <1>0, <1>1, <1>4, AppendFacts
<1>7. /\ DOMAIN frames' = 1 .. n + 1 /\ frames'[n + 1] = c
      /\ \A k \in DOMAIN frames : frames'[k] = frames[k]
  <2> HIDE DEF c
  <2> QED BY <1>0, <1>1, <1>4, AppendFacts
<1>8. \A q : Located(q)' = Located(q)
  BY <1>1, TreeAlone
<1>9. \A g : Needs(g)' = Needs(g)
  BY <1>1, TreeAlone
<1>10. Reach' = Reach
  BY <1>1, TreeAlone
<1>11. \A i \in DOMAIN units : DepFiles(i)' = DepFiles(i)
  BY <1>3, <1>4, <1>5, <1>6 DEF DepFiles, GraphShape
<1>12. f \in Needs(units[U]) /\ units[U] \in ToSet(units)
  BY <1>1, <1>3, NeedsFacts DEF ToSet
<1>13. Chained'
  <2> SUFFICES ASSUME NEW k \in DOMAIN frames', k + 1 \in DOMAIN frames'
               PROVE  \E g \in Files, q \in Paths :
                        /\ units'[frames'[k].unit] = g
                        /\ frames'[k].next \in DOMAIN tree.import[g]
                        /\ tree.import[g][frames'[k].next] = q
                        /\ units'[frames'[k + 1].unit] \in Located(q)
    BY <1>1, <1>8 DEF Chained
  <2> HIDE DEF c
  <2>0. k \in 1 .. n
    BY <1>4, <1>7
  <2>1. /\ k \in DOMAIN frames /\ frames'[k] = frames[k] /\ frames[k].unit \in DOMAIN units
        /\ units'[frames'[k].unit] = units[frames[k].unit]
    BY <1>3, <1>4, <1>5, <1>7, <2>0 DEF GraphShape
  <2>2. CASE k = n
    <3>1. frames'[k + 1].unit = u /\ units'[frames'[k + 1].unit] = f
      BY <1>5, <1>7, <2>2 DEF c
    <3> QED BY <1>3, <2>1, <2>2, <3>1
  <2>3. CASE k # n
    <3>1. k + 1 \in DOMAIN frames
      BY <1>4, <2>0, <2>3
    <3>2. frames'[k + 1] = frames[k + 1] /\ frames[k + 1].unit \in DOMAIN units
      BY <1>3, <1>7, <3>1 DEF GraphShape
    <3>3. units'[frames'[k + 1].unit] = units[frames[k + 1].unit]
      BY <1>5, <3>2
    <3> QED BY <2>1, <3>1, <3>3 DEF LoadInv, Chained
  <2> QED BY <2>2, <2>3
<1>14. PastIsSettled'
  <2> SUFFICES ASSUME NEW i \in DOMAIN units', NEW q \in Paths, Past(i, q)'
               PROVE  Settled(i, q)'
    BY DEF PastIsSettled
  <2>1. PICK j \in DOMAIN tree.import[units'[i]] :
          /\ tree.import[units'[i]][j] = q
          /\ \A k \in DOMAIN frames' : frames'[k].unit = i => j < frames'[k].next
    BY <1>1 DEF Past
  <2>2. i # u
    <3>1. tree.import[f] \in Seq(Paths)
      BY <1>1, <1>3 DEF GraphTypeOK, Tree
    <3>2. i = u => j \in Nat /\ j >= 1
      BY <1>5, <3>1, LenProperties
    <3>3. n + 1 \in DOMAIN frames' /\ frames'[n + 1].unit = u /\ frames'[n + 1].next = 1
      BY <1>4, <1>7
    <3> HIDE DEF c
    <3> QED BY <2>1, <3>2, <3>3
  <2>3. i \in DOMAIN units /\ units'[i] = units[i]
    BY <1>5, <2>2
  <2>4. \A k \in DOMAIN frames : frames[k].unit = i => j < frames[k].next
    <3>1. \A k \in DOMAIN frames : k \in DOMAIN frames' /\ frames'[k] = frames[k]
      BY <1>4, <1>7
    <3> QED BY <2>1, <3>1
  <2>5. Settled(i, q)
    BY <2>1, <2>3, <2>4 DEF LoadInv, PastIsSettled, Past
  <2>6. DepFiles(i)' = DepFiles(i) /\ ToSet(units) \subseteq ToSet(units')
    BY <1>5, <1>11, <2>3
  <2> QED BY <1>1, <1>8, <2>5, <2>6 DEF Settled
<1>15. DepsNeeded'
  <2>1. DepFiles(u)' = {}
    <3>1. ToSet(<< >>) = {}
      BY DEF ToSet
    <3> QED BY <1>6, <3>1 DEF DepFiles
  <2>2. ASSUME NEW i \in DOMAIN units
        PROVE  \E g \in Files : units'[i] = g /\ DepFiles(i)' \subseteq Needs(g)
    BY <1>5, <1>11 DEF LoadInv, DepsNeeded
  <2> QED BY <1>1, <1>5, <1>9, <2>1, <2>2 DEF DepsNeeded
<1>16. ToSet(units') \cap tree'.unreadable = {}
  BY <1>1, <1>5 DEF LoadInv
<1>17. ToSet(units') \cap tree'.broken # {} => faulty'
  BY <1>1, <1>5 DEF LoadInv
<1>18. faulty' => Blame(ToSet(units))'
  <2>1. PICK G : G = ToSet(units) \cup {f}
    OBVIOUS
  <2>2. faulty => Blame(G)
    BY <2>1, BlameGrows DEF LoadInv
  <2>3. f \in tree.broken => Blame(G)
    BY <2>1 DEF Blame
  <2>4. faulty' => Blame(G)'
    BY <1>1, <2>2, <2>3, TreeAlone
  <2>5. ToSet(units)' = G
    BY <1>5, <2>1
  <2> QED BY <2>4, <2>5 DEF Blame
<1>19. Entry \in ToSet(units') /\ ToSet(units') \subseteq Reach
  BY <1>5, <1>12, ReachFacts DEF LoadInv
<1> QED BY <1>10, <1>13, <1>14, <1>15, <1>16, <1>17, <1>18, <1>19 DEF LoadInv

\* `load` returns: all its imports are settled, and the importer's with it.
LEMMA ReturnStep ==
  ASSUME GraphInv, StackApart, LoadInv, LoadReturn
  PROVE  LoadInv'
<1>0. PICK n : n = Len(frames)
  OBVIOUS
<1>1. /\ frames # << >> /\ Frame.next > Len(Import) /\ GraphTypeOK /\ GraphShape
      /\ UNCHANGED <<tree, units, relpaths, faulty, order>>
  BY DEF LoadReturn, GraphInv
<1>2. PICK U : U = Unit
  OBVIOUS
<1>3. /\ frames # << >> /\ frames \in Seq(Call) /\ n \in Nat \ {0} /\ DOMAIN frames = 1 .. n /\ n \in DOMAIN frames
      /\ U = frames[n].unit /\ U \in DOMAIN units /\ units[U] \in Files
      /\ \A k \in DOMAIN frames : frames[k] \in Call
  <2>1. frames \in Seq(Call) /\ n \in Nat \ {0} /\ DOMAIN frames = 1 .. n
    BY <1>0, <1>1, EmptySeq, LenProperties DEF GraphTypeOK, Call
  <2> QED BY <1>0, <1>1, <1>2, <2>1, AdvanceFacts, Domains DEF Unit, Frame
<1>4. \A j \in DOMAIN tree.import[units[U]] : j \in Nat /\ j < frames[n].next
  <2>1. Import = tree.import[units[U]] /\ Import \in Seq(Paths)
    BY <1>1, <1>2, <1>3 DEF Import, GraphTypeOK, Tree
  <2>2. frames[n].next > Len(Import) /\ frames[n].next \in Nat
    BY <1>0, <1>1, <1>3 DEF Frame, Call
  <2>3. PICK I \in Seq(Paths) : I = tree.import[units[U]] /\ I = Import
    BY <2>1
  <2>4. DOMAIN I = 1 .. Len(I) /\ Len(I) \in Nat
    BY LenProperties
  <2> QED BY <2>2, <2>3, <2>4
<1>5. \A q : Located(q)' = Located(q)
  BY <1>1, TreeAlone
<1>6. \A k \in DOMAIN frames : frames[k].unit = U => k = n
  BY <1>3 DEF StackApart
<1>7. CASE n = 1
  <2>1. frames' = << >> /\ deps' = deps
    BY <1>0, <1>7 DEF LoadReturn
  <2>2. Chained'
    BY <2>1 DEF Chained
  <2>3. ASSUME NEW i \in DOMAIN units, NEW q \in Paths, Past(i, q)'
        PROVE  Settled(i, q)'
    <3>1. PICK j \in DOMAIN tree.import[units[i]] : tree.import[units[i]][j] = q
      BY <1>1, <2>3 DEF Past
    <3>2. \A k \in DOMAIN frames : frames[k].unit = i => j < frames[k].next
      BY <1>3, <1>4, <1>7, <3>1
    <3>3. Settled(i, q)
      BY <3>1, <3>2 DEF LoadInv, PastIsSettled, Past
    <3> QED BY <1>1, <1>5, <2>1, <3>3 DEF Settled, DepFiles
  <2>4. PastIsSettled'
    BY <1>1, <2>3 DEF PastIsSettled
  <2> QED BY <1>1, <2>1, <2>2, <2>4, SameDeps, RestKept DEF LoadInv
<1>8. CASE n # 1
  <2> DEFINE r == Front(frames)
             e == [r[n - 1] EXCEPT !.next = @ + 1]
  <2>1. /\ r \in Seq(Call) /\ Len(r) = n - 1 /\ DOMAIN r = 1 .. n - 1
        /\ \A k \in 1 .. n - 1 : r[k] = frames[k]
    BY <1>0, <1>3, FrontFacts
  <2>2. n - 1 \in 1 .. n - 1 /\ n - 1 \in DOMAIN frames /\ n - 1 + 1 = n
    BY <1>3, <1>8
  <2>3. PICK P : P = frames[n - 1].unit
    OBVIOUS
  <2>4. e \in Call /\ e.unit = P /\ e.next = frames[n - 1].next + 1
    <3>1. PICK x \in Call : x = frames[n - 1] /\ x = r[n - 1] /\ x.unit = P
      BY <1>3, <2>1, <2>2, <2>3
    <3> HIDE DEF r
    <3> QED BY <3>1 DEF Call
  <2>5. frames' = [r EXCEPT ![n - 1] = e] /\ deps' = AddDep(P, U)
    BY <1>0, <1>2, <1>8, <2>3 DEF LoadReturn
  <2>6. /\ DOMAIN frames' = 1 .. n - 1
        /\ \A k \in 1 .. n - 1 : frames'[k] = IF k = n - 1 THEN e ELSE frames[k]
    <3>1. frames' \in Seq(Call) /\ Len(frames') = n - 1
          /\ \A k \in 1 .. n - 1 : frames'[k] = IF k = n - 1 THEN e ELSE r[k]
      <4> HIDE DEF e, r
      <4> QED BY <2>1, <2>2, <2>4, <2>5, ExceptSeq
    <3>2. DOMAIN frames' = 1 .. n - 1
      BY <3>1, LenProperties
    <3> HIDE DEF e, r
    <3> QED BY <2>1, <3>1, <3>2
  <2> HIDE DEF e, r
  <2>7. PICK f \in Files, p \in Paths :
          /\ units[P] = f /\ P \in DOMAIN units
          /\ frames[n - 1].next \in DOMAIN tree.import[f]
          /\ tree.import[f][frames[n - 1].next] = p
          /\ units[U] \in Located(p)
    BY <1>1, <1>3, <2>2, <2>3 DEF LoadInv, Chained, GraphShape
  <2>8. units[U] \in ToSet(units) /\ units[U] \notin tree.unreadable
    BY <1>3 DEF LoadInv, ToSet
  <2>9. units[U] \in Needs(units[P])
    BY <2>7, <2>8, NeedsFacts DEF ToSet
  <2>10. /\ DepsNeeded' /\ U \in ToSet(deps'[P])
         /\ \A j \in DOMAIN units : ToSet(deps[j]) \subseteq ToSet(deps'[j])
    BY <1>1, <1>3, <2>5, <2>7, <2>9, OneMoreDep DEF LoadInv
  <2>11. Chained'
    <3>1. ASSUME NEW k \in DOMAIN frames', k + 1 \in DOMAIN frames'
          PROVE  /\ k \in DOMAIN frames /\ k + 1 \in DOMAIN frames /\ frames'[k] = frames[k]
                 /\ frames'[k + 1].unit = frames[k + 1].unit
      <4>1. k \in 1 .. n - 1 /\ k + 1 \in 1 .. n - 1 /\ k # n - 1
        BY <1>3, <2>6, <3>1
      <4>2. k \in DOMAIN frames /\ k + 1 \in DOMAIN frames
        BY <1>3, <4>1
      <4>3. frames'[k + 1].unit = frames[k + 1].unit
        BY <2>3, <2>4, <2>6, <4>1
      <4> QED BY <2>6, <4>1, <4>2, <4>3
    <3> QED BY <1>1, <1>5, <3>1 DEF LoadInv, Chained
  <2>12. ASSUME NEW i \in DOMAIN units, NEW q \in Paths, Past(i, q)'
         PROVE  Settled(i, q)'
    <3>1. PICK j \in DOMAIN tree.import[units[i]] :
            /\ tree.import[units[i]][j] = q
            /\ \A k \in DOMAIN frames' : frames'[k].unit = i => j < frames'[k].next
      BY <1>1, <2>12 DEF Past
    <3>2. CASE i = P /\ j = frames[n - 1].next
      <4>1. q = p /\ Located(p) = {units[U]}
        BY <1>1, <2>7, <3>1, <3>2, LocatedIsOne
      <4>2. units[U] \in DepFiles(P)'
        BY <1>1, <2>10 DEF DepFiles
      <4>3. Located(p)' = {units[U]} /\ ToSet(units)' = ToSet(units)
        BY <1>1, <1>5, <4>1 DEF ToSet
      <4>4. Settled(P, p)'
        BY <2>8, <4>2, <4>3 DEF Settled
      <4> QED BY <3>2, <4>1, <4>4
    <3>3. CASE ~(i = P /\ j = frames[n - 1].next)
      <4>1. tree.import[units[i]] \in Seq(Paths) /\ j \in Nat
        <5>1. tree.import[units[i]] \in Seq(Paths)
          BY <1>1, Domains DEF GraphTypeOK, Tree
        <5> QED BY <5>1, LenProperties
      <4>2. ASSUME NEW k \in DOMAIN frames, frames[k].unit = i PROVE j < frames[k].next
        <5>1. CASE k = n
          BY <1>3, <1>4, <4>2, <5>1
        <5>2. CASE k = n - 1
          <6>1. i = P /\ j < e.next
            BY <2>2, <2>3, <2>4, <2>6, <3>1, <4>2, <5>2
          <6>2. frames[n - 1].next \in Nat
            BY <1>3, <2>2 DEF Call
          <6> QED BY <2>4, <3>3, <4>1, <5>2, <6>1, <6>2
        <5>3. CASE k # n /\ k # n - 1
          <6>1. k \in 1 .. n - 1
            BY <1>3, <5>3
          <6> QED BY <2>6, <3>1, <4>2, <5>3, <6>1
        <5> QED BY <5>1, <5>2, <5>3
      <4>3. Settled(i, q)
        BY <3>1, <4>2 DEF LoadInv, PastIsSettled, Past
      <4>4. DepFiles(i) \subseteq DepFiles(i)' /\ ToSet(units)' = ToSet(units)
        BY <1>1, <2>10 DEF DepFiles, ToSet
      <4> QED BY <1>1, <1>5, <4>3, <4>4 DEF Settled
    <3> QED BY <3>2, <3>3
  <2>13. PastIsSettled'
    BY <1>1, <2>12 DEF PastIsSettled
  <2> QED BY <1>1, <2>10, <2>11, <2>13, RestKept
<1> QED BY <1>7, <1>8

LEMMA LoadStepFinds ==
  ASSUME GraphInv, StackApart, LoadInv, LoadStep
  PROVE  LoadInv'
BY MissingStep, CyclicStep, VisitedStep, UnreadableStep, NewStep, ReturnStep DEF LoadStep

-----------------------------------------------------------------------------
\* Loading: the verdict

\* What a command goes on with: the files the imports reach, nothing wrong with
\* them, and each unit's dependencies are what its file needs.
Linked ==
  /\ Entry \notin tree.unreadable /\ ToSet(units) = Reach /\ ~Blame(Reach)
  /\ \A i \in DOMAIN units : \E f \in Files : units[i] = f /\ DepFiles(i) = Needs(f)

LEMMA LoadingEnds ==
  ASSUME GraphInv, LoadInv, frames = << >>
  PROVE  /\ \A f \in ToSet(units) : Needs(f) \subseteq ToSet(units)
         /\ ToSet(units) = Reach /\ (faulty <=> Blame(ToSet(units)))
         /\ ~faulty => Linked
<1>1. GraphTypeOK /\ GraphShape
  BY DEF GraphInv
<1>2. ASSUME NEW i \in DOMAIN units, NEW p \in ToSet(tree.import[units[i]])
      PROVE  Settled(i, p)
  <2>1. tree.import[units[i]] \in Seq(Paths)
    BY <1>1, Domains DEF GraphTypeOK, Tree
  <2>2. PICK j \in DOMAIN tree.import[units[i]] : tree.import[units[i]][j] = p
    BY DEF ToSet
  <2>3. p \in Paths
    BY <2>1, <2>2, ElementOfSeq, LenProperties
  <2> QED BY <2>2, <2>3 DEF LoadInv, PastIsSettled, Past
<1>3. ASSUME NEW i \in DOMAIN units, NEW g \in Needs(units[i])
      PROVE  g \in ToSet(units) /\ (~faulty => g \in DepFiles(i))
  <2>1. PICK p \in ToSet(tree.import[units[i]]) : g \in Located(p) /\ g \notin tree.unreadable
    BY NeedsFacts
  <2> QED BY <1>2, <2>1 DEF Settled
<1>4. \A f \in ToSet(units) : \E i \in DOMAIN units : units[i] = f
  BY DEF ToSet
<1>5. \A f \in ToSet(units) : Needs(f) \subseteq ToSet(units)
  BY <1>3, <1>4
<1>6. ToSet(units) = Reach
  <2>1. ToSet(units) \in SUBSET Files /\ Closed(ToSet(units))
    BY <1>1, <1>4, <1>5, Domains DEF LoadInv, Closed
  <2> QED BY <2>1, ReachFacts DEF LoadInv
<1>7. ASSUME ~faulty PROVE ~Blame(ToSet(units))
  <2>1. ASSUME NEW f \in ToSet(units)
        PROVE  f \notin tree.broken /\ \A p \in ToSet(tree.import[f]) : Located(p) # {}
    BY <1>2, <1>4, <1>7 DEF LoadInv, Settled
  <2>2. ASSUME NEW S \in SUBSET ToSet(units), S # {}, \A f \in S : Needs(f) \cap S # {}
        PROVE  FALSE
    <3> DEFINE W == {i \in DOMAIN units : units[i] \in S}
    <3>1. W \in SUBSET DOMAIN units /\ W # {}
      BY <1>4, <2>2
    <3>2. PICK i \in W : ToSet(deps[i]) \cap W = {}
      <4> HIDE DEF W
      <4> QED BY <3>1 DEF GraphInv, DepsAcyclic
    <3>3. PICK g \in S : g \in Needs(units[i])
      BY <2>2, <3>2
    <3>4. PICK d \in ToSet(deps[i]) : units[d] = g
      BY <1>3, <1>7, <3>2, <3>3 DEF DepFiles
    <3>5. d \in DOMAIN units
      BY <1>1, <3>2, <3>4, Domains DEF GraphShape
    <3> QED BY <3>2, <3>3, <3>4, <3>5
  <2> QED BY <2>1, <2>2 DEF Blame
<1>8. ASSUME ~faulty, NEW i \in DOMAIN units
      PROVE  \E f \in Files : units[i] = f /\ DepFiles(i) = Needs(f)
  BY <1>3, <1>8 DEF LoadInv, DepsNeeded
<1> QED BY <1>5, <1>6, <1>7, <1>8 DEF LoadInv, Linked

-----------------------------------------------------------------------------
\* Sorting: the invariant

\* A call that waits for another is just past the dependency the other visits.
Awaited ==
  \A k \in DOMAIN frames : k + 1 \in DOMAIN frames =>
    /\ frames[k].next - 1 \in DOMAIN deps[frames[k].unit]
    /\ deps[frames[k].unit][frames[k].next - 1] = frames[k + 1].unit

\* The dependencies a call is past are listed, but for the one it waits for.
PastIsListed ==
  \A k \in DOMAIN frames : \A j \in DOMAIN deps[frames[k].unit] :
    j < frames[k].next =>
      \/ deps[frames[k].unit][j] \in ToSet(order)
      \/ k + 1 \in DOMAIN frames /\ j = frames[k].next - 1

\* What a listed unit depends on is listed before it.
DepsListed ==
  \A k \in DOMAIN order : \A d \in ToSet(deps[order[k]]) :
    \E j \in DOMAIN order : j < k /\ order[j] = d

\* No unit is visited or listed twice.
VisitedOnce ==
  /\ IsInjective(order) /\ Active \cap ToSet(order) = {}
  /\ \A j, k \in DOMAIN frames : frames[j].unit = frames[k].unit => j = k

SortInv == Awaited /\ PastIsListed /\ DepsListed /\ VisitedOnce

\* The calls from that of unit d up to one that needs d would be a cycle.
LEMMA NotWaiting ==
  ASSUME GraphInv, Awaited, frames # << >>, NEW d \in ToSet(deps[Unit])
  PROVE  d \notin Active
<1>1. PICK n : n = Len(frames)
  OBVIOUS
<1>2. /\ n \in Nat /\ DOMAIN frames = 1 .. n /\ n \in DOMAIN frames /\ Unit = frames[n].unit
      /\ GraphShape
  BY <1>1, AdvanceFacts, Domains DEF GraphInv, Unit, Frame
<1> SUFFICES ASSUME NEW a \in DOMAIN frames, frames[a].unit = d PROVE FALSE
  BY DEF Active
<1> DEFINE S == {frames[k].unit : k \in a .. n}
<1>3. S \in SUBSET DOMAIN units /\ d \in S
  BY <1>2 DEF GraphShape
<1>4. ASSUME NEW k \in a .. n PROVE ToSet(deps[frames[k].unit]) \cap S # {}
  <2>1. CASE k = n
    BY <1>2, <1>3, <2>1
  <2>2. CASE k # n
    <3>1. k \in DOMAIN frames /\ k + 1 \in DOMAIN frames /\ k + 1 \in a .. n
      BY <1>2, <2>2
    <3>2. frames[k + 1].unit \in ToSet(deps[frames[k].unit])
      BY <3>1 DEF Awaited, ToSet
    <3> QED BY <3>1, <3>2
  <2> QED BY <2>1, <2>2
<1>5. \A i \in S : ToSet(deps[i]) \cap S # {}
  BY <1>4
<1> HIDE DEF S
<1> QED BY <1>3, <1>5 DEF GraphInv, DepsAcyclic

\* One more call, of a unit not seen yet.
LEMMA CallFacts ==
  ASSUME NEW s \in Seq(Call), NEW d \in Nat, NEW n, n = Len(s)
  PROVE  LET t == Append(s, [unit |-> d, next |-> 1])
         IN /\ n \in Nat /\ DOMAIN s = 1 .. n /\ DOMAIN t = 1 .. n + 1
            /\ \A k \in 1 .. n : t[k] = s[k]
            /\ t[n + 1].unit = d /\ t[n + 1].next = 1
<1> DEFINE c == [unit |-> d, next |-> 1]
<1>1. c \in Call /\ c.unit = d /\ c.next = 1
  BY DEF Call
<1> HIDE DEF c
<1>2. /\ n \in Nat /\ DOMAIN s = 1 .. n /\ DOMAIN Append(s, c) = 1 .. n + 1
      /\ \A k \in DOMAIN s : Append(s, c)[k] = s[k]
      /\ Append(s, c)[n + 1] = c
  BY <1>1, AppendFacts, LenProperties
<1> QED BY <1>1, <1>2 DEF c

LEMMA RootVisited ==
  ASSUME GraphInv, SortInv, VisitRoot
  PROVE  SortInv'
<1>1. PICK i \in DOMAIN units : i \notin ToSet(order) /\ frames' = << [unit |-> i, next |-> 1] >>
  BY DEF VisitRoot, Seen
<1>2. frames = << >> /\ UNCHANGED <<deps, order>> /\ i \in Nat
  BY Domains DEF VisitRoot, GraphInv
<1>3. DOMAIN frames' = {1} /\ frames'[1].unit = i /\ frames'[1].next = 1
  BY <1>1
<1>4. \A j \in DOMAIN deps[i] : j >= 1
  <2>1. deps[i] \in Seq(Nat)
    BY Domains DEF GraphInv
  <2> QED BY <2>1, LenProperties
<1>5. Awaited' /\ DepsListed'
  BY <1>2, <1>3 DEF Awaited, DepsListed, SortInv
<1>6. PastIsListed'
  <2>1. \A j \in DOMAIN deps[i] : j \in Nat /\ ~(j < 1)
    <3>1. deps[i] \in Seq(Nat)
      BY Domains DEF GraphInv
    <3> QED BY <3>1, LenProperties
  <2> QED BY <1>2, <1>3, <2>1 DEF PastIsListed
<1>7. VisitedOnce'
  BY <1>1, <1>2, <1>3 DEF VisitedOnce, SortInv, Active, IsInjective, ToSet
<1> QED BY <1>5, <1>6, <1>7 DEF SortInv

LEMMA DependencyVisited ==
  ASSUME GraphInv, SortInv, Visit
  PROVE  SortInv'
<1>1. PICK n, U, d : n = Len(frames) /\ U = Unit /\ d = deps[Unit][Frame.next]
  OBVIOUS
<1>2. /\ frames # << >> /\ GraphTypeOK /\ GraphShape /\ UNCHANGED <<units, deps, order>>
      /\ frames' = IF d \in Seen THEN Advance ELSE Append(Advance, [unit |-> d, next |-> 1])
      /\ Frame.next <= Len(deps[U])
  BY <1>1 DEF Visit, GraphInv
<1>3. /\ n \in DOMAIN frames /\ n \in Nat /\ DOMAIN frames = 1 .. n /\ U = frames[n].unit
      /\ U \in DOMAIN units /\ deps[U] \in Seq(Nat) /\ frames[n].next \in Nat \ {0}
      /\ d = deps[U][frames[n].next] /\ frames[n].next <= Len(deps[U])
      /\ \A k \in DOMAIN frames : frames[k].next \in Nat /\ frames[k].unit \in DOMAIN units
  BY <1>1, <1>2, AdvanceFacts, Domains DEF Unit, Frame, Call, GraphShape
<1>4. /\ frames[n].next \in DOMAIN deps[U] /\ d \in ToSet(deps[U])
      /\ d \in DOMAIN units /\ d \in Nat
  <2>1. frames[n].next \in DOMAIN deps[U]
    BY <1>3, LenProperties
  <2>2. d \in ToSet(deps[U])
    BY <1>3, <2>1 DEF ToSet
  <2>3. d \in DOMAIN units
    BY <1>2, <1>3, <2>2, Domains DEF GraphShape
  <2> QED BY <1>2, <2>1, <2>2, <2>3, Domains
<1>5. d \notin Active
  BY <1>1, <1>2, <1>4, NotWaiting DEF SortInv
<1>6. /\ Advance \in Seq(Call) /\ DOMAIN Advance = DOMAIN frames
      /\ \A k \in DOMAIN frames :
           /\ Advance[k].unit = frames[k].unit
           /\ Advance[k].next = IF k = n THEN frames[k].next + 1 ELSE frames[k].next
  BY <1>1, <1>2, AdvanceFacts, AdvanceIs
<1>7. DepsListed'
  BY <1>2 DEF SortInv, DepsListed
\* the calls that were there, whether or not one more is made
<1>8. /\ DOMAIN frames \subseteq DOMAIN frames'
      /\ \A k \in DOMAIN frames :
           /\ frames'[k].unit = frames[k].unit
           /\ frames'[k].next = IF k = n THEN frames[k].next + 1 ELSE frames[k].next
      /\ IF d \in Seen THEN DOMAIN frames' = 1 .. n
         ELSE /\ DOMAIN frames' = 1 .. n + 1
              /\ frames'[n + 1].unit = d /\ frames'[n + 1].next = 1
  <2>1. CASE d \in Seen
    BY <1>2, <1>3, <1>6, <2>1
  <2>2. CASE d \notin Seen
    <3>1. frames' = Append(Advance, [unit |-> d, next |-> 1])
      BY <1>2, <2>2
    <3>2. n = Len(Advance)
      BY <1>3, <1>6, LenProperties
    <3>3. /\ DOMAIN frames' = 1 .. n + 1 /\ \A k \in 1 .. n : frames'[k] = Advance[k]
          /\ frames'[n + 1].unit = d /\ frames'[n + 1].next = 1
      BY <1>4, <1>6, <3>1, <3>2, CallFacts
    <3> QED BY <1>3, <1>6, <2>2, <3>3
  <2> QED BY <2>1, <2>2
<1>9. \A k \in DOMAIN frames' : k \in DOMAIN frames \/ (k = n + 1 /\ d \notin Seen)
  BY <1>3, <1>8
<1>10. \A k \in DOMAIN frames : k \in Nat /\ k <= n
  BY <1>3
<1>11. Awaited'
  <2> SUFFICES ASSUME NEW k \in DOMAIN frames', k + 1 \in DOMAIN frames'
               PROVE  /\ frames'[k].next - 1 \in DOMAIN deps[frames'[k].unit]
                      /\ deps[frames'[k].unit][frames'[k].next - 1] = frames'[k + 1].unit
    BY <1>2 DEF Awaited
  <2>1. k \in DOMAIN frames
    BY <1>3, <1>8, <1>9
  <2>2. CASE k = n
    <3>1. n + 1 \notin DOMAIN frames
      BY <1>3, <1>10
    <3>2. frames'[n + 1].unit = d
      BY <1>8, <1>9, <2>2, <3>1
    <3>3. frames'[n].unit = U /\ frames'[n].next - 1 = frames[n].next
      BY <1>3, <1>8
    <3> QED BY <1>3, <1>4, <2>2, <3>2, <3>3
  <2>3. CASE k # n
    <3>1. k + 1 \in DOMAIN frames
      BY <1>3, <2>1, <2>3
    <3> QED BY <1>8, <2>1, <2>3, <3>1 DEF SortInv, Awaited
  <2> QED BY <2>2, <2>3
<1>12. PastIsListed'
  <2> SUFFICES ASSUME NEW k \in DOMAIN frames', NEW j \in DOMAIN deps[frames'[k].unit],
                      j < frames'[k].next
               PROVE  \/ deps[frames'[k].unit][j] \in ToSet(order)
                      \/ k + 1 \in DOMAIN frames' /\ j = frames'[k].next - 1
    BY <1>2 DEF PastIsListed
  <2>1. j \in Nat \ {0}
    <3>1. frames'[k].unit \in DOMAIN units
      BY <1>3, <1>4, <1>8, <1>9
    <3>2. deps[frames'[k].unit] \in Seq(Nat)
      BY <1>2, <3>1, Domains
    <3> QED BY <3>2, LenProperties
  <2>2. CASE k \notin DOMAIN frames
    BY <1>8, <1>9, <2>1, <2>2
  <2>3. CASE k \in DOMAIN frames /\ k # n
    <3>1. j < frames[k].next /\ j \in DOMAIN deps[frames[k].unit]
      BY <1>8, <2>3
    <3>2. \/ deps[frames[k].unit][j] \in ToSet(order)
          \/ k + 1 \in DOMAIN frames /\ j = frames[k].next - 1
      BY <2>3, <3>1 DEF SortInv, PastIsListed
    <3> QED BY <1>8, <2>3, <3>2
  <2>4. CASE k = n
    <3>1. frames'[k].unit = U /\ frames'[k].next = frames[n].next + 1
      BY <1>3, <1>8, <2>4
    <3>2. CASE j = frames[n].next
      <4>1. d \in Seen => d \in ToSet(order)
        BY <1>5 DEF Seen
      <4>2. d \notin Seen => k + 1 \in DOMAIN frames'
        BY <1>3, <1>8, <2>4
      <4>3. j = frames'[k].next - 1
        BY <1>3, <3>1, <3>2
      <4> QED BY <1>3, <3>1, <3>2, <4>1, <4>2, <4>3
    <3>3. CASE j # frames[n].next
      <4>1. j < frames[n].next
        BY <1>3, <2>1, <3>1, <3>3
      <4>2. n + 1 \notin DOMAIN frames
        BY <1>3, <1>10
      <4>3. deps[U][j] \in ToSet(order)
        BY <1>3, <3>1, <4>1, <4>2 DEF SortInv, PastIsListed
      <4> QED BY <3>1, <4>3
    <3> QED BY <3>2, <3>3
  <2> QED BY <2>2, <2>3, <2>4
<1>13. VisitedOnce'
  <2>1. IsInjective(order)' /\ ToSet(order)' = ToSet(order)
    BY <1>2 DEF SortInv, VisitedOnce, IsInjective, ToSet
  <2>2. \A k \in DOMAIN frames' :
          frames'[k].unit \in Active \/ (k = n + 1 /\ frames'[k].unit = d /\ d \notin Seen)
    BY <1>8, <1>9 DEF Active
  <2>3. Active' \cap ToSet(order)' = {}
    <3>1. Active' \subseteq {frames'[k].unit : k \in DOMAIN frames'}
      BY DEF Active
    <3>2. \A x \in Active' : x \in Active \/ x \notin Seen
      BY <2>2, <3>1
    <3> QED BY <2>1, <3>2 DEF SortInv, VisitedOnce, Seen
  <2>4. ASSUME NEW j \in DOMAIN frames', NEW k \in DOMAIN frames',
               frames'[j].unit = frames'[k].unit
        PROVE  j = k
    <3>1. CASE j \in DOMAIN frames /\ k \in DOMAIN frames
      BY <1>8, <2>4, <3>1 DEF SortInv, VisitedOnce
    <3>2. CASE j \notin DOMAIN frames \/ k \notin DOMAIN frames
      <4>1. \A l \in DOMAIN frames : frames'[l].unit \in Active
        BY <1>8 DEF Active
      <4>2. \A l \in DOMAIN frames' :
              l \notin DOMAIN frames => l = n + 1 /\ frames'[l].unit = d
        BY <1>8, <1>9
      <4> QED BY <1>5, <2>4, <3>2, <4>1, <4>2
    <3> QED BY <3>1, <3>2
  <2> QED BY <2>1, <2>3, <2>4 DEF VisitedOnce
<1> QED BY <1>7, <1>11, <1>12, <1>13 DEF SortInv

LEMMA UnitListed ==
  ASSUME GraphInv, SortInv, VisitReturn
  PROVE  SortInv'
<1>1. PICK n, U, l : n = Len(frames) /\ U = Unit /\ l = Len(order)
  OBVIOUS
<1>2. /\ frames # << >> /\ GraphTypeOK /\ GraphShape /\ UNCHANGED <<units, deps>>
      /\ Frame.next > Len(deps[U]) /\ order' = Append(order, U) /\ frames' = Front(frames)
  BY <1>1 DEF VisitReturn, GraphInv
<1>3. /\ n \in DOMAIN frames /\ n \in Nat /\ DOMAIN frames = 1 .. n /\ U = frames[n].unit
      /\ U \in DOMAIN units /\ U \in Nat /\ deps[U] \in Seq(Nat) /\ U \in Active
      /\ frames[n].next > Len(deps[U]) /\ frames[n].next \in Nat
      /\ frames \in Seq(Call) /\ order \in Seq(Nat) /\ l \in Nat /\ DOMAIN order = 1 .. l
  <2>1. frames \in Seq(Call) /\ order \in Seq(Nat)
    BY <1>2 DEF GraphTypeOK, Call
  <2> QED BY <1>1, <1>2, <2>1, AdvanceFacts, Domains DEF Unit, Frame, Call
<1>4. /\ DOMAIN frames' = 1 .. n - 1 /\ \A k \in 1 .. n - 1 : frames'[k] = frames[k]
  BY <1>1, <1>2, <1>3, FrontFacts
<1>5. \A k \in DOMAIN frames' :
        /\ k \in DOMAIN frames /\ k + 1 \in DOMAIN frames /\ frames'[k] = frames[k]
        /\ k + 1 \in DOMAIN frames' \/ k + 1 = n
  BY <1>3, <1>4
<1>6. /\ DOMAIN order' = 1 .. l + 1 /\ order'[l + 1] = U
      /\ \A k \in DOMAIN order : order'[k] = order[k]
      /\ ToSet(order') = ToSet(order) \cup {U}
  <2>1. order \in Seq(Nat) /\ U \in Nat /\ order' = Append(order, U) /\ l = Len(order)
    BY <1>1, <1>2, <1>3
  <2> QED BY <2>1, AppendFacts
<1>7. ToSet(deps[U]) \subseteq ToSet(order)
  <2>1. ASSUME NEW j \in DOMAIN deps[U] PROVE deps[U][j] \in ToSet(order)
    <3>1. j < frames[n].next
      BY <1>3, LenProperties
    <3>2. n + 1 \notin DOMAIN frames
      BY <1>3
    <3> QED BY <1>3, <3>1, <3>2 DEF SortInv, PastIsListed
  <2> QED BY <2>1 DEF ToSet
<1>8. Awaited'
  BY <1>2, <1>5 DEF SortInv, Awaited
<1>9. PastIsListed'
  <2> SUFFICES ASSUME NEW k \in DOMAIN frames', NEW j \in DOMAIN deps[frames[k].unit],
                      j < frames[k].next
               PROVE  \/ deps[frames[k].unit][j] \in ToSet(order')
                      \/ k + 1 \in DOMAIN frames' /\ j = frames[k].next - 1
    BY <1>2, <1>5 DEF PastIsListed
  <2>1. \/ deps[frames[k].unit][j] \in ToSet(order)
        \/ k + 1 \in DOMAIN frames /\ j = frames[k].next - 1
    BY <1>5 DEF SortInv, PastIsListed
  <2>2. j = frames[k].next - 1 => deps[frames[k].unit][j] = frames[k + 1].unit
    BY <1>5 DEF SortInv, Awaited
  <2> QED BY <1>3, <1>5, <1>6, <2>1, <2>2
<1>10. DepsListed'
  <2> SUFFICES ASSUME NEW k \in DOMAIN order', NEW d \in ToSet(deps[order'[k]])
               PROVE  \E j \in DOMAIN order' : j < k /\ order'[j] = d
    BY <1>2 DEF DepsListed
  <2>1. CASE k = l + 1
    <3>1. PICK j \in DOMAIN order : order[j] = d
      BY <1>6, <1>7, <2>1 DEF ToSet
    <3> QED BY <1>3, <1>6, <2>1, <3>1
  <2>2. CASE k # l + 1
    <3>1. k \in DOMAIN order /\ order'[k] = order[k]
      BY <1>3, <1>6, <2>2
    <3>2. PICK j \in DOMAIN order : j < k /\ order[j] = d
      BY <3>1 DEF SortInv, DepsListed
    <3> QED BY <1>3, <1>6, <3>2
  <2> QED BY <2>1, <2>2
<1>11. VisitedOnce'
  <2>1. U \notin ToSet(order)
    BY <1>3 DEF SortInv, VisitedOnce
  <2>2. IsInjective(order)'
    <3>1. \A j, k \in DOMAIN order : order[j] = order[k] => j = k
      BY DEF SortInv, VisitedOnce, IsInjective
    <3>2. \A j \in DOMAIN order : order'[j] = order[j] /\ order[j] # U
      BY <1>6, <2>1 DEF ToSet
    <3>3. \A k \in DOMAIN order' : k \in DOMAIN order \/ (k = l + 1 /\ order'[k] = U)
      BY <1>3, <1>6
    <3> QED BY <3>1, <3>2, <3>3 DEF IsInjective
  <2>3. \A k \in DOMAIN frames' : frames'[k].unit \in Active /\ frames'[k].unit # U
    <3>1. \A k \in DOMAIN frames' : k # n
      BY <1>3, <1>4
    <3> QED BY <1>3, <1>5, <3>1 DEF SortInv, VisitedOnce, Active
  <2>4. Active' \cap ToSet(order)' = {}
    <3>1. \A x \in Active' : x \in Active /\ x # U
      BY <2>3 DEF Active
    <3> QED BY <1>6, <3>1 DEF SortInv, VisitedOnce
  <2>5. \A j, k \in DOMAIN frames' : frames'[j].unit = frames'[k].unit => j = k
    BY <1>5 DEF SortInv, VisitedOnce
  <2> QED BY <2>2, <2>4, <2>5 DEF VisitedOnce
<1> QED BY <1>8, <1>9, <1>10, <1>11 DEF SortInv

LEMMA SortStepLists ==
  ASSUME GraphInv, SortInv, SortStep
  PROVE  SortInv'
BY RootVisited, DependencyVisited, UnitListed DEF SortStep

-----------------------------------------------------------------------------
\* Commands: loading and sorting

VerdictInv ==
  /\ phase = "load" => order = << >> /\ LoadInv
  /\ phase = "sort" => SortInv
  /\ phase \in {"check", "emit"} => DepsListed /\ IsInjective(order)
  /\ phase \in {"sort", "check", "emit"} \/ (phase = "done" /\ exit = 0) => Linked

LEMMA LinkedStays ==
  ASSUME Linked, UNCHANGED <<tree, units, deps>>
  PROVE  Linked'
<1>1. \A f : Needs(f)' = Needs(f)
  BY TreeAlone
<1>2. \E F : F = Reach /\ ToSet(units)' = F /\ ~Blame(F)' /\ Reach' = F
  BY TreeAlone DEF Linked, ToSet
<1>3. ToSet(units)' = Reach' /\ ~Blame(Reach)'
  BY <1>2 DEF Blame
<1> QED BY <1>1, <1>3 DEF Linked, DepFiles

\* A command starts with the entry, which needs nothing yet.
LEMMA BeginLoads ==
  ASSUME IInv, Begin, phase' = "load"
  PROVE  LoadInv'
<1> DEFINE c == [unit |-> 1, next |-> 1]
<1>1. /\ units' = << Entry >> /\ deps' = << << >> >> /\ frames' = << c >>
      /\ faulty' = (Entry \in tree.broken) /\ tree' = tree /\ Entry \notin tree.unreadable
  BY DEF Begin
<1>2. /\ DOMAIN units' = {1} /\ units'[1] = Entry /\ ToSet(units') = {Entry}
      /\ deps'[1] = << >> /\ ToSet(<< >>) = {} /\ DOMAIN frames' = {1}
  BY <1>1 DEF ToSet
<1>3. frames'[1].unit = 1 /\ frames'[1].next = 1
  BY <1>1
<1> HIDE DEF c
<1>4. Chained'
  BY <1>2 DEF Chained
<1>5. PastIsSettled'
  <2> SUFFICES ASSUME NEW p \in Paths, Past(1, p)' PROVE FALSE
    BY <1>2 DEF PastIsSettled
  <2>1. PICK j \in DOMAIN tree.import[Entry] : j < 1
    BY <1>1, <1>2, <1>3 DEF Past
  <2>2. tree.import[Entry] \in Seq(Paths)
    BY EntryAssumption DEF IInv, TypeOK, GraphTypeOK, Tree
  <2> QED BY <2>1, <2>2, LenProperties
<1>6. DepsNeeded'
  BY <1>2, EntryAssumption DEF DepsNeeded, DepFiles
<1>7. faulty' => Blame(ToSet(units))'
  <2>1. PICK F : F = {Entry}
    OBVIOUS
  <2>2. faulty' => Blame(F)'
    BY <1>1, <2>1 DEF Blame
  <2> QED BY <1>2, <2>1, <2>2 DEF Blame
<1>8. Reach' = Reach
  BY <1>1, TreeAlone
<1> QED BY <1>1, <1>2, <1>4, <1>5, <1>6, <1>7, <1>8, ReachFacts DEF LoadInv

LEMMA WorkFinds ==
  ASSUME IInv, VerdictInv, Work
  PROVE  VerdictInv'
<1>0. GraphInv
  BY DEF IInv
<1>1. CASE Loading
  BY <1>1, LoadStepFinds DEF Loading, LoadStep, ImportMissing, ImportCyclic, ImportVisited,
     ImportUnreadable, ImportNew, LoadReturn, IInv, VerdictInv
<1>2. CASE Lower
  <2>1. /\ phase = "load" /\ frames = << >> /\ order = << >> /\ LoadInv
        /\ UNCHANGED graphVars
        /\ IF faulty THEN phase' = "done" /\ exit' = 1 ELSE phase' = "sort" /\ exit' = 0
    BY <1>2 DEF Lower, VerdictInv
  <2>2. ~faulty => Linked'
    BY <1>0, <2>1, LoadingEnds, LinkedStays DEF graphVars
  <2>3. DOMAIN frames' = {} /\ DOMAIN order' = {} /\ ToSet(order)' = {} /\ Active' = {}
    BY <2>1 DEF graphVars, ToSet, Active
  <2>4. SortInv'
    BY <2>3 DEF SortInv, Awaited, PastIsListed, DepsListed, VisitedOnce, IsInjective
  <2> QED BY <2>1, <2>2, <2>4 DEF VerdictInv
<1>3. CASE Sorting
  <2>1. /\ phase = "sort" /\ SortInv /\ Linked /\ UNCHANGED <<tree, units, deps>>
    BY <1>3 DEF Sorting, VerdictInv, SortStep, VisitRoot, Visit, VisitReturn, graphVars
  <2>2. CASE Sorted
    <3>1. phase' = "check" /\ UNCHANGED graphVars
      BY <1>3, <2>2 DEF Sorting
    <3>2. DepsListed' /\ IsInjective(order)'
      BY <2>1, <3>1 DEF SortInv, VisitedOnce, DepsListed, IsInjective, graphVars
    <3> QED BY <2>1, <3>1, <3>2, LinkedStays DEF VerdictInv
  <2>3. CASE ~Sorted
    <3>1. phase' = "sort" /\ SortStep
      BY <1>3, <2>1, <2>3 DEF Sorting
    <3> QED BY <1>0, <2>1, <3>1, SortStepLists, LinkedStays DEF VerdictInv
  <2> QED BY <2>2, <2>3
<1>4. ASSUME UNCHANGED <<tree, units, deps, order>>, phase \in {"check", "emit"},
             phase' \in {"check", "emit"} \/ phase' = "done"
      PROVE  VerdictInv'
  <2>1. DepsListed' /\ IsInjective(order)' /\ Linked'
    BY <1>4, LinkedStays DEF VerdictInv, DepsListed, IsInjective
  <2> QED BY <1>4, <2>1 DEF VerdictInv
<1>5. CASE CheckUnit
  BY <1>4, <1>5 DEF CheckUnit
<1>6. CASE SkipCheck
  BY <1>4, <1>6 DEF SkipCheck, graphVars
<1>7. CASE EmitUnit
  BY <1>4, <1>7 DEF EmitUnit, graphVars
<1>8. ASSUME NEW writable \in BOOLEAN, Finish(writable) PROVE VerdictInv'
  BY <1>4, <1>8 DEF Finish, graphVars
<1>9. CASE Exit
  BY <1>9 DEF Exit, VerdictInv
<1> QED BY <1>1, <1>2, <1>3, <1>5, <1>6, <1>7, <1>8, <1>9 DEF Work

LEMMA VerdictInvariance == Spec => []VerdictInv
<1>1. Init => VerdictInv
  BY DEF Init, VerdictInv
<1>2. IInv /\ VerdictInv /\ [Next]_vars => VerdictInv'
  <2> SUFFICES ASSUME IInv, VerdictInv, [Next]_vars PROVE VerdictInv'
    OBVIOUS
  <2>1. CASE Begin
    <3>1. phase' \in {"load", "done"} /\ order' = << >> /\ (phase' = "done" => exit' = 1)
      BY <2>1 DEF Begin
    <3> QED BY <2>1, <3>1, BeginLoads DEF VerdictInv
  <2>2. CASE Work
    BY <2>2, WorkFinds
  <2>3. ASSUME NEW file \in Embedded, NEW bytes \in Contents \cup {None}, Edit(file, bytes)
        PROVE  VerdictInv'
    BY <2>3 DEF Edit, VerdictInv
  <2>4. CASE UNCHANGED vars
    <3>1. UNCHANGED <<tree, units, deps, frames, order, faulty, phase, exit>>
      BY <2>4 DEF vars, graphVars
    <3>2. LoadInv => LoadInv'
      <4>1. LoadInv => Chained' /\ PastIsSettled' /\ DepsNeeded'
        <5>1. \A q : Located(q)' = Located(q)
          BY <3>1, TreeAlone
        <5>2. LoadInv => Chained'
          BY <3>1, <5>1 DEF LoadInv, Chained
        <5>3. LoadInv => PastIsSettled'
          BY <3>1, <5>1 DEF LoadInv, PastIsSettled, Past, Settled, DepFiles, ToSet
        <5> QED BY <3>1, <5>2, <5>3, SameDeps DEF LoadInv
      <4> QED BY <3>1, <4>1, RestKept
    <3>3. SortInv => SortInv'
      BY <3>1 DEF SortInv, Awaited, PastIsListed, DepsListed, VisitedOnce, IsInjective,
         Active, ToSet
    <3>4. DepsListed /\ IsInjective(order) => DepsListed' /\ IsInjective(order)'
      BY <3>1 DEF DepsListed, IsInjective
    <3> QED BY <3>1, <3>2, <3>3, <3>4, LinkedStays DEF VerdictInv
  <2> QED BY <2>1, <2>2, <2>3, <2>4 DEF Next
<1> QED BY Invariance, <1>1, <1>2, PTL DEF Spec

\* load_module_graph's verdict is the sources': when it returns, it has followed
\* every import of every file it loaded, each file once, and it has reported an
\* error if and only if one of them does not parse, imports what no root holds, or
\* lies on an import cycle.  A diamond is no cycle.
THEOREM LoadingJudges == Spec => []LoadVerdict
<1>1. IInv /\ VerdictInv => LoadVerdict
  <2> SUFFICES ASSUME IInv, VerdictInv, phase = "load", frames = << >>
               PROVE  /\ LoadedOnce
                      /\ \A f \in ToSet(units) : Needs(f) \subseteq ToSet(units)
                      /\ faulty <=> Blame(ToSet(units))
    BY DEF LoadVerdict, Blame, ImportCycle
  <2> QED BY LoadingEnds DEF IInv, GraphInv, VerdictInv
<1> QED BY Invariance, VerdictInvariance, <1>1, PTL

\* topo_order lists every unit once, and what a unit depends on before it.
THEOREM ListedOnceInOrder ==
  Spec => [](phase \in {"check", "emit"} =>
               IsInjective(order) /\ ToSet(order) = DOMAIN units /\ DepsListed)
<1>1. IInv /\ PinInv /\ VerdictInv =>
        (phase \in {"check", "emit"} =>
           IsInjective(order) /\ ToSet(order) = DOMAIN units /\ DepsListed)
  BY DEF IInv, GraphInv, GraphShape, PinInv, VerdictInv
<1> QED BY Invariance, PinInvariance, VerdictInvariance, <1>1, PTL

-----------------------------------------------------------------------------
\* Commands: the units one by one

\* The unit at position k of the order is checked.
Through(k) == k < todo \/ (phase = "emit" /\ k = todo)

LEMMA OrderFacts ==
  ASSUME IInv, NEW k \in DOMAIN order
  PROVE  /\ k \in Nat /\ todo \in Nat /\ order[k] \in DOMAIN units
         /\ units[order[k]] \in Files /\ Len(order) \in Nat /\ k >= 1 /\ k <= Len(order)
<1>1. GraphTypeOK /\ GraphShape /\ todo \in Nat
  BY DEF IInv, GraphInv, TypeOK
<1>2. Len(order) \in Nat /\ DOMAIN order = 1 .. Len(order)
  BY <1>1, Domains
<1>3. order[k] \in DOMAIN units
  BY <1>1 DEF GraphShape, ToSet
<1> QED BY <1>1, <1>2, <1>3, Domains

\* A module name stands for a unit that declares it, once there is a checked one.
ExportsInv ==
  /\ phase \in {"load", "sort"} => store = NoExports
  /\ phase \in {"check", "emit"} /\ cmd.checked =>
       /\ \A name \in Names : store[name] # 0 =>
            /\ name # None /\ store[name] \in DOMAIN units
            /\ program.module[units[store[name]]] = name
       /\ \A k \in DOMAIN order : Through(k) =>
            \A name \in Names \ {None} :
              program.module[units[order[k]]] = name => store[name] # 0

LEMMA ExportsInvariance == Spec => []ExportsInv
<1>1. Init => ExportsInv
  BY DEF Init, ExportsInv
<1>2. IInv /\ PinInv /\ ExportsInv /\ [Next]_vars => ExportsInv'
  <2> SUFFICES ASSUME IInv, PinInv, ExportsInv, [Next]_vars PROVE ExportsInv'
    OBVIOUS
  <2>1. CASE Begin
    BY <2>1 DEF Begin, ExportsInv
  <2>2. CASE Loading
    BY <2>2 DEF Loading, ExportsInv
  <2>3. CASE Lower
    BY <2>3 DEF Lower, ExportsInv
  <2>4. CASE Sorting
    <3>1. CASE phase' = "sort"
      BY <2>4, <3>1 DEF Sorting, ExportsInv
    <3>2. CASE phase' = "check"
      <4>1. /\ phase = "sort" /\ todo = 1 /\ UNCHANGED <<units, order, store, program, todo>>
        BY <2>4, <3>2 DEF Sorting, PinInv, graphVars
      <4>2. \A name \in Names : store[name] = 0
        BY <4>1 DEF ExportsInv, NoExports
      <4>3. \A k \in DOMAIN order : ~(k < 1)
        BY OrderFacts
      <4> QED BY <3>2, <4>1, <4>2, <4>3 DEF ExportsInv, Through
    <3> QED BY <2>4, <3>1, <3>2 DEF Sorting
  <2>5. CASE CheckUnit
    <3>1. /\ phase = "check" /\ cmd.checked /\ todo <= Len(order)
          /\ UNCHANGED <<units, order, cmd, program, todo>>
          /\ phase' \in {"emit", "done"}
      BY <2>5 DEF CheckUnit
    <3>2. This \in DOMAIN units /\ This \in Nat \ {0} /\ ThisFile \in Files
      BY <3>1, ThisFacts, Domains DEF IInv, GraphInv
    <3>3. ThisModule \in Names \cup {None} /\ store \in [Names -> Nat]
      BY <3>2 DEF ThisModule, IInv, TypeOK, Program
    <3>4. PICK h, t : h = ThisModule /\ t = This /\ program.module[units[t]] = h
      BY DEF ThisModule, ThisFile
    <3>5. phase' = "emit" => store' = IF h # None THEN [store EXCEPT ![h] = t] ELSE store
      BY <2>5, <3>4 DEF CheckUnit
    <3>6. ASSUME phase' = "emit", NEW name \in Names
          PROVE  store'[name] = IF name = h /\ h # None THEN t ELSE store[name]
      BY <3>3, <3>4, <3>5, <3>6
    <3>7. ASSUME phase' = "emit", NEW name \in Names, store'[name] # 0
          PROVE  /\ name # None /\ store'[name] \in DOMAIN units
                 /\ program.module[units[store'[name]]] = name
      BY <3>1, <3>2, <3>4, <3>6, <3>7 DEF ExportsInv
    <3>8. ASSUME phase' = "emit", NEW k \in DOMAIN order, k < todo \/ k = todo,
                 NEW name \in Names \ {None}, program.module[units[order[k]]] = name
          PROVE  store'[name] # 0
      <4>1. CASE name = h
        BY <3>2, <3>4, <3>6, <3>8, <4>1
      <4>2. CASE name # h
        <5>1. k < todo
          BY <3>4, <3>8, <4>2 DEF This
        <5> QED BY <3>1, <3>6, <3>8, <4>2, <5>1 DEF ExportsInv, Through
      <4> QED BY <4>1, <4>2
    <3> QED BY <3>1, <3>7, <3>8 DEF ExportsInv, Through
  <2>6. CASE SkipCheck
    BY <2>6 DEF SkipCheck, ExportsInv
  <2>7. CASE EmitUnit
    <3>1. /\ phase = "emit" /\ phase' = "check" /\ todo' = todo + 1
          /\ UNCHANGED <<units, order, cmd, program, store>>
      BY <2>7 DEF EmitUnit, graphVars
    <3>2. \A k \in DOMAIN order : k < todo + 1 => k < todo \/ k = todo
      BY OrderFacts
    <3> QED BY <3>1, <3>2 DEF ExportsInv, Through
  <2>8. ASSUME NEW writable \in BOOLEAN, Finish(writable) PROVE ExportsInv'
    BY <2>8 DEF Finish, ExportsInv
  <2>9. CASE Exit
    BY <2>9 DEF Exit, ExportsInv
  <2>10. ASSUME NEW file \in Embedded, NEW bytes \in Contents \cup {None}, Edit(file, bytes)
         PROVE  ExportsInv'
    BY <2>10 DEF Edit, ExportsInv
  <2>11. CASE UNCHANGED vars
    BY <2>11 DEF vars, graphVars, ExportsInv, Through
  <2> QED BY <2>1, <2>2, <2>3, <2>4, <2>5, <2>6, <2>7, <2>8, <2>9, <2>10, <2>11 DEF Next, Work
<1> QED BY Invariance, PinInvariance, <1>1, <1>2, PTL DEF Spec

\* Whatever order the imports are written in, a unit is resolved after every
\* module it imports has exported: its name stands for a unit that declares it,
\* and for the one imported unless another declares it too.
THEOREM ImportsExportFirst == Spec => []DependenciesFirst
<1>1. IInv /\ VerdictInv /\ ExportsInv => DependenciesFirst
  <2> SUFFICES ASSUME IInv, VerdictInv, ExportsInv, phase = "check", todo <= Len(order),
                      cmd.checked, NEW k \in DOMAIN deps[This],
                      NEW d, d = deps[This][k], NEW name, name = program.module[units[d]],
                      name # None
               PROVE  LET Namesakes == {i \in DOMAIN units : program.module[units[i]] = name}
                      IN store[name] \in Namesakes /\ (Namesakes = {d} => store[name] = d)
    BY DEF DependenciesFirst
  <2>1. todo \in DOMAIN order
    BY Domains DEF IInv, GraphInv, TypeOK
  <2>2. d \in ToSet(deps[order[todo]])
    BY DEF ToSet, This
  <2>3. PICK j \in DOMAIN order : j < todo /\ order[j] = d
    BY <2>1, <2>2 DEF VerdictInv, DepsListed
  <2>4. d \in DOMAIN units /\ units[d] \in Files
    BY <2>3, OrderFacts
  <2>5. name \in Names
    BY <2>4 DEF IInv, TypeOK, Program
  <2>6. store[name] # 0
    BY <2>3, <2>5 DEF ExportsInv, Through
  <2> QED BY <2>5, <2>6 DEF ExportsInv
<1> QED BY Invariance, VerdictInvariance, ExportsInvariance, <1>1, PTL

-----------------------------------------------------------------------------
\* Commands: what they write

WroteInv ==
  /\ phase \in {"check", "emit"} /\ cmd.write =>
       \A k \in DOMAIN order : k < todo => relpaths[order[k]] \in wrote
  /\ phase = "done" /\ exit = 0 /\ cmd.write =>
       \A i \in DOMAIN units : relpaths[i] \in wrote

LEMMA WroteInvariance == Spec => []WroteInv
<1>1. Init => WroteInv
  BY DEF Init, WroteInv
<1>2. IInv /\ PinInv /\ WroteInv /\ [Next]_vars => WroteInv'
  <2> SUFFICES ASSUME IInv, PinInv, WroteInv, [Next]_vars PROVE WroteInv'
    OBVIOUS
  <2>1. CASE Begin
    BY <2>1 DEF Begin, WroteInv
  <2>2. CASE Loading
    BY <2>2 DEF Loading, WroteInv
  <2>3. CASE Lower
    BY <2>3 DEF Lower, WroteInv
  <2>4. CASE Sorting
    <3>1. phase' = "check" => todo' = 1 /\ order' = order
      BY <2>4 DEF Sorting, PinInv, graphVars
    <3>2. \A k \in DOMAIN order : ~(k < 1)
      BY OrderFacts
    <3> QED BY <2>4, <3>1, <3>2 DEF Sorting, WroteInv
  <2>5. CASE CheckUnit
    BY <2>5 DEF CheckUnit, WroteInv
  <2>6. CASE SkipCheck
    BY <2>6 DEF SkipCheck, WroteInv, graphVars
  <2>7. CASE EmitUnit
    <3>1. /\ phase = "emit" /\ phase' = "check" /\ todo' = todo + 1
          /\ UNCHANGED <<relpaths, order, cmd>>
          /\ cmd.write => wrote' = wrote \cup {relpaths[order[todo]]}
      BY <2>7 DEF EmitUnit, graphVars, This
    <3>2. \A k \in DOMAIN order : k < todo + 1 => k < todo \/ k = todo
      BY OrderFacts
    <3> QED BY <3>1, <3>2 DEF WroteInv
  <2>8. ASSUME NEW writable \in BOOLEAN, Finish(writable) PROVE WroteInv'
    <3>1. /\ phase = "check" /\ phase' = "done" /\ todo > Len(order)
          /\ UNCHANGED <<units, relpaths, cmd, wrote>>
      BY <2>8 DEF Finish, graphVars
    <3>2. \A i \in DOMAIN units : \E k \in DOMAIN order : i = order[k] /\ k < todo
      <4>1. \A i \in DOMAIN units : \E k \in DOMAIN order : i = order[k]
        BY <3>1 DEF PinInv, ToSet
      <4>2. \A k \in DOMAIN order : k < todo
        BY <3>1, OrderFacts
      <4> QED BY <4>1, <4>2
    <3> QED BY <3>1, <3>2 DEF WroteInv
  <2>9. CASE Exit
    BY <2>9 DEF Exit, WroteInv
  <2>10. ASSUME NEW file \in Embedded, NEW bytes \in Contents \cup {None}, Edit(file, bytes)
         PROVE  WroteInv'
    BY <2>10 DEF Edit, WroteInv
  <2>11. CASE UNCHANGED vars
    BY <2>11 DEF vars, graphVars, WroteInv
  <2> QED BY <2>1, <2>2, <2>3, <2>4, <2>5, <2>6, <2>7, <2>8, <2>9, <2>10, <2>11 DEF Next, Work
<1> QED BY Invariance, PinInvariance, <1>1, <1>2, PTL DEF Spec

\* A build that exits 0 has written every header its units include, if every file
\* can be read and none goes by two import paths.
THEOREM HeadersWritten == Spec => []IncludesWrittenIfPlain
<1>1. IInv /\ VerdictInv /\ WroteInv => IncludesWrittenIfPlain
  <2> SUFFICES ASSUME IInv, VerdictInv, WroteInv, tree.unreadable = {},
                      \A p, r \in Paths : Located(p) \cap Located(r) # {} => p = r,
                      phase = "done", exit = 0, cmd.write,
                      NEW i \in DOMAIN units, NEW p \in ToSet(tree.import[units[i]])
               PROVE  p \in wrote
    BY DEF IncludesWrittenIfPlain, IncludesWritten
  <2>1. Linked /\ GraphTypeOK /\ GraphShape
    BY DEF VerdictInv, IInv, GraphInv
  <2>2. units[i] \in Reach
    BY <2>1 DEF Linked, ToSet
  <2>3. PICK f \in Located(p) : TRUE
    BY <2>1, <2>2 DEF Linked, Blame
  <2>4. f \in DepFiles(i)
    BY <2>1, NeedsFacts DEF Linked
  <2>5. PICK d \in DOMAIN units : units[d] = f
    BY <2>1, <2>4, Domains DEF DepFiles, GraphShape
  <2>6. f \in Located(relpaths[d]) /\ relpaths[d] \in Paths
    BY <2>1, <2>5, Domains DEF IInv, GraphInv, Placed
  <2>7. p \in Paths
    <3>1. tree.import[units[i]] \in Seq(Paths)
      BY <2>1, Domains DEF GraphTypeOK, Tree
    <3> QED BY <3>1, ElementOfSeq, LenProperties DEF ToSet
  <2>8. p = relpaths[d]
    BY <2>6, <2>7
  <2> QED BY <2>5, <2>8 DEF WroteInv
<1> QED BY Invariance, VerdictInvariance, WroteInvariance, <1>1, PTL

-----------------------------------------------------------------------------
\* Commands: what a manifest is good for

Good == Entry \notin tree.unreadable /\ ~Blame(Reach) /\ \A f \in Reach : Apt(f)
Right == manifest # None /\ \A f \in Reach : Pins(manifest, f)

EmbedsApart ==
  \A f, g \in Files : program.embeds[f] \cap program.embeds[g] # {} =>
    program.dir[f] = program.dir[g]

LEMMA SourcesAlone ==
  ASSUME UNCHANGED <<tree, program, disk>>
  PROVE  /\ \A f : Apt(f)' = Apt(f)
         /\ \A mf, f : Pins(mf, f)' = Pins(mf, f)
         /\ Good' = Good /\ EmbedsApart' = EmbedsApart
         /\ manifest' = manifest => Right' = Right
<1>1. \A f : Apt(f)' = Apt(f)
  BY TreeAlone DEF Apt
<1>2. \A mf, f : Pins(mf, f)' = Pins(mf, f)
  BY DEF Pins
<1>3. Good' = Good
  <2>1. PICK R : R = Reach /\ Reach' = R /\ Blame(R)' = Blame(R)
    BY TreeAlone
  <2>2. Blame(Reach)' = Blame(R)' /\ Blame(Reach) = Blame(R)
    BY <2>1 DEF Blame
  <2> QED BY <1>1, <2>1, <2>2 DEF Good
<1>4. EmbedsApart' = EmbedsApart
  BY DEF EmbedsApart
<1>5. manifest' = manifest => Right' = Right
  BY TreeAlone DEF Right, Pins
<1> QED BY <1>1, <1>2, <1>3, <1>4, <1>5

\* The resolver and the checkers judge a file by itself, whatever came before it
\* in the order, and by the manifest that is enforced.
LEMMA SoundIsApt ==
  ASSUME IInv, VerdictInv, ExportsInv, phase = "check", todo <= Len(order), cmd.checked,
         NEW f, f = ThisFile
  PROVE  /\ f \in Reach
         /\ Sound <=> Apt(f) /\ (cmd.mode = "Enforce" => Pins(expected, f))
<1>1. /\ Linked /\ GraphTypeOK /\ GraphShape /\ This \in DOMAIN units /\ f \in Files
      /\ todo \in DOMAIN order /\ f = units[This] /\ DOMAIN deps = DOMAIN units
  BY ThisFacts, Domains DEF VerdictInv, IInv, GraphInv, TypeOK, ThisFile
<1>2. f \in Reach
  BY <1>1 DEF Linked, ToSet
<1>3. DepFiles(This) = Needs(f) /\ program.uses[f] \subseteq Names
  BY <1>1 DEF Linked, IInv, TypeOK, Program
<1>4. ASSUME NEW name \in Names
      PROVE  name \in Visible <=>
               name # None /\ \E g \in Needs(f) : program.module[g] = name
  <2>1. ASSUME name \in Visible
        PROVE  name # None /\ \E g \in Needs(f) : program.module[g] = name
    <3>1. PICK k \in DOMAIN deps[This] :
            store[name] # 0 /\ program.module[units[deps[This][k]]] = name
      BY <2>1 DEF Visible
    <3>2. units[deps[This][k]] \in DepFiles(This)
      BY DEF DepFiles, ToSet
    <3> QED BY <1>3, <3>1, <3>2 DEF ExportsInv
  <2>2. ASSUME name # None, NEW g \in Needs(f), program.module[g] = name
        PROVE  name \in Visible
    <3>1. PICK d \in ToSet(deps[This]) : units[d] = g
      BY <1>3 DEF DepFiles
    <3>2. PICK j \in DOMAIN order : j < todo /\ order[j] = d
      BY <1>1 DEF VerdictInv, DepsListed, This
    <3>3. store[name] # 0
      BY <2>2, <3>1, <3>2 DEF ExportsInv, Through
    <3>4. PICK k \in DOMAIN deps[This] : deps[This][k] = d
      BY DEF ToSet
    <3> QED BY <2>2, <3>1, <3>3, <3>4 DEF Visible
  <2> QED BY <2>1, <2>2
<1>5. program.uses[f] \subseteq Visible <=>
        \A name \in program.uses[f] : name # None /\ \E g \in Needs(f) : program.module[g] = name
  BY <1>3, <1>4
<1>6. (\A e \in program.embeds[f] : Readable(e)) <=>
        /\ \A e \in program.embeds[f] : disk[<<program.dir[f], e>>] # None
        /\ cmd.mode = "Enforce" => Pins(expected, f)
  BY DEF Readable, Pinned, OnDisk, Pins
<1> QED BY <1>2, <1>5, <1>6 DEF Sound, Apt

\* A command under way: the units checked so far are apt, and what they embed is
\* recorded.
CheckedInv ==
  phase \in {"check", "emit"} /\ cmd.checked =>
    \A k \in DOMAIN order : \A f \in Files : Through(k) /\ f = units[order[k]] =>
      /\ Apt(f)
      /\ EmbedsApart /\ cmd.mode = "Emit" => Pins(recorded, f)

\* One that is over: it exits 0 only if all is well, it has then recorded what a
\* later build needs, and a build that enforces a manifest exits 1 only if all is
\* not well.
OverInv ==
  phase = "done" /\ cmd.checked =>
    /\ exit = 0 => Good
    /\ exit = 0 /\ cmd.mode = "Emit" /\ EmbedsApart => Right
    /\ exit = 1 /\ cmd.mode = "Enforce" => ~(Good /\ Right)

RunInv == CheckedInv /\ OverInv

\* After a build that recorded its embeds, all is well until the user edits or
\* gives a command that skips the checks.
PastInv ==
  EmbedsApart =>
    /\ (phase = "done" => cmd.checked) =>
         \A i \in DOMAIN past :
           /\ past[i].cmd.mode = "Emit" /\ past[i].exit = 0
           /\ \A k \in i .. Len(past) : past[k].cmd.checked
           => Good /\ Right
    /\ RoundTrip

LEMMA CheckUnitRuns ==
  ASSUME IInv, PinInv, VerdictInv, ExportsInv, RunInv, CheckUnit
  PROVE  RunInv'
<1>1. /\ phase = "check" /\ todo <= Len(order) /\ cmd.checked /\ recorded' = Record
      /\ UNCHANGED <<tree, units, order, cmd, program, todo, disk, expected, manifest>>
      /\ IF Sound THEN phase' = "emit" ELSE phase' = "done" /\ exit' = 1
  BY DEF CheckUnit
<1>2. PICK f, t : f = ThisFile /\ t = todo
  OBVIOUS
<1>3. f \in Files /\ recorded \in [Embeds -> Contents \cup {None}]
      /\ program.embeds \in [Files -> SUBSET Embeds]
  BY <1>1, <1>2, ThisFacts DEF IInv, TypeOK, Program
<1>4. /\ f \in Reach
      /\ Sound <=> Apt(f) /\ (cmd.mode = "Enforce" => Pins(expected, f))
  BY <1>1, <1>2, SoundIsApt
<1>5. /\ \A g : Apt(g)' = Apt(g)
      /\ Good' = Good /\ Right' = Right /\ EmbedsApart' = EmbedsApart
  BY <1>1, SourcesAlone
<1>6. CASE Sound
  <2>1. ASSUME NEW k \in DOMAIN order, NEW g \in Files, k < t \/ k = t, g = units[order[k]]
        PROVE  Apt(g) /\ (EmbedsApart /\ cmd.mode = "Emit" =>
                            \A e \in program.embeds[g] :
                              recorded'[e] = disk[<<program.dir[g], e>>])
    <3>1. Apt(f)
      BY <1>4, <1>6
    <3>2. \A e \in program.embeds[f] : OnDisk(e) = disk[<<program.dir[f], e>>] /\ OnDisk(e) # None
      BY <1>2, <3>1 DEF OnDisk, Apt
    <3>3. ASSUME cmd.mode = "Emit", NEW e \in Embeds
          PROVE  recorded'[e] = IF e \in program.embeds[f] THEN disk[<<program.dir[f], e>>]
                                ELSE recorded[e]
      BY <1>1, <1>2, <1>3, <3>2, <3>3 DEF Record
    <3>4. CASE k = t
      <4>1. g = f
        BY <1>2, <2>1, <3>4 DEF ThisFile, This
      <4> QED BY <1>3, <3>1, <3>3, <4>1
    <3>5. CASE k < t
      <4>1. Apt(g) /\ (EmbedsApart /\ cmd.mode = "Emit" => Pins(recorded, g))
        BY <1>1, <1>2, <2>1, <3>5 DEF RunInv, CheckedInv, Through
      <4>2. ASSUME EmbedsApart, cmd.mode = "Emit", NEW e \in program.embeds[g]
            PROVE  recorded'[e] = disk[<<program.dir[g], e>>]
        <5>1. e \in Embeds
          BY <1>3, <4>2
        <5>2. e \in program.embeds[f] => program.dir[f] = program.dir[g]
          BY <1>3, <4>2 DEF EmbedsApart
        <5> QED BY <3>3, <4>1, <4>2, <5>1, <5>2 DEF Pins
      <4> QED BY <4>1, <4>2
    <3> QED BY <2>1, <3>4, <3>5
  <2>2. CheckedInv'
    BY <1>1, <1>2, <1>5, <2>1 DEF CheckedInv, Through, Pins
  <2> QED BY <1>1, <1>6, <2>2 DEF RunInv, OverInv
<1>7. CASE ~Sound
  <2>1. cmd.mode = "Enforce" => expected = manifest
    BY <1>1 DEF PinInv
  <2>2. cmd.mode = "Enforce" => ~(Good /\ Right)
    BY <1>4, <1>7, <2>1 DEF Good, Right
  <2> QED BY <1>1, <1>5, <1>7, <2>2 DEF RunInv, CheckedInv, OverInv
<1> QED BY <1>6, <1>7

LEMMA FinishRuns ==
  ASSUME IInv, PinInv, VerdictInv, RunInv, NEW writable \in BOOLEAN, Finish(writable)
  PROVE  RunInv'
<1>1. /\ phase = "check" /\ phase' = "done" /\ todo > Len(order)
      /\ UNCHANGED <<tree, units, order, cmd, program, disk>>
      /\ exit' = IF cmd.mode = "Emit" /\ ~writable THEN 1 ELSE 0
      /\ manifest' = IF cmd.mode = "Emit" /\ writable THEN recorded ELSE manifest
  BY DEF Finish, graphVars
<1>2. Good' = Good /\ EmbedsApart' = EmbedsApart /\ Reach' = Reach
  BY <1>1, SourcesAlone, TreeAlone
<1>3. ASSUME cmd.checked, NEW f \in Reach
      PROVE  Apt(f) /\ (EmbedsApart /\ cmd.mode = "Emit" => Pins(recorded, f))
  <2>1. f \in Files /\ f \in ToSet(units)
    BY <1>1, ReachFacts DEF VerdictInv, Linked
  <2>2. PICK i \in DOMAIN units : units[i] = f
    BY <2>1 DEF ToSet
  <2>3. PICK k \in DOMAIN order : i = order[k]
    BY <1>1 DEF PinInv, ToSet
  <2>4. k < todo
    BY <1>1, OrderFacts
  <2> QED BY <1>1, <1>3, <2>1, <2>2, <2>3, <2>4 DEF RunInv, CheckedInv, Through
<1>4. cmd.checked => Good
  BY <1>1, <1>3 DEF Good, VerdictInv, Linked
<1>5. ASSUME cmd.checked, exit' = 0, cmd.mode = "Emit", EmbedsApart
      PROVE  Right'
  <2>1. manifest' = recorded /\ recorded # None
    BY <1>1, <1>5, ManifestAssumption DEF IInv, TypeOK
  <2>2. \A f \in Reach : \A e \in program.embeds[f] : recorded[e] = disk[<<program.dir[f], e>>]
    BY <1>3, <1>5 DEF Pins
  <2> QED BY <1>1, <1>2, <2>1, <2>2 DEF Right, Pins
<1>6. cmd.mode = "Enforce" => exit' = 0
  BY <1>1
<1> QED BY <1>1, <1>2, <1>4, <1>5, <1>6 DEF RunInv, CheckedInv, OverInv

\* A command over before it checks anything has not found all well.
LEMMA StopsEarly ==
  ASSUME IInv, VerdictInv, phase' = "done", exit' = 1, Begin \/ Lower
  PROVE  ~(cmd'.mode = "Enforce" /\ Good /\ Right)
<1>1. CASE Begin
  BY <1>1 DEF Begin, Good, Right
<1>2. CASE Lower
  <2>1. frames = << >> /\ faulty /\ LoadInv
    BY <1>2 DEF Lower, VerdictInv
  <2>2. Blame(Reach)
    BY <2>1, LoadingEnds DEF IInv
  <2> QED BY <2>2 DEF Good
<1> QED BY <1>1, <1>2

LEMMA RunInvariance == Spec => []RunInv
<1>1. Init => RunInv
  BY DEF Init, RunInv, CheckedInv, OverInv
<1>2. IInv /\ PinInv /\ VerdictInv /\ ExportsInv /\ RunInv /\ [Next]_vars => RunInv'
  <2> SUFFICES ASSUME IInv, PinInv, VerdictInv, ExportsInv, RunInv, [Next]_vars PROVE RunInv'
    OBVIOUS
  <2>1. ASSUME Begin \/ Lower PROVE RunInv'
    <3>1. /\ UNCHANGED <<tree, program, disk, manifest>> /\ phase' \in {"load", "sort", "done"}
          /\ phase' = "done" => exit' = 1
      BY <2>1 DEF Begin, Lower, graphVars
    <3>2. Good' = Good /\ Right' = Right
      BY <3>1, SourcesAlone
    <3> QED BY <2>1, <3>1, <3>2, StopsEarly DEF RunInv, CheckedInv, OverInv
  <2>2. CASE Loading
    BY <2>2 DEF Loading, RunInv, CheckedInv, OverInv
  <2>3. CASE Sorting
    <3>1. phase' = "check" => todo' = 1 /\ order' = order
      BY <2>3 DEF Sorting, PinInv, graphVars
    <3>2. \A k \in DOMAIN order : ~(k < 1)
      BY OrderFacts
    <3> QED BY <2>3, <3>1, <3>2 DEF Sorting, RunInv, CheckedInv, OverInv, Through
  <2>4. CASE SkipCheck
    BY <2>4 DEF SkipCheck, RunInv, CheckedInv, OverInv
  <2>5. CASE EmitUnit
    <3>1. /\ phase = "emit" /\ phase' = "check" /\ todo' = todo + 1
          /\ UNCHANGED <<tree, units, order, cmd, program, disk, recorded>>
      BY <2>5 DEF EmitUnit, graphVars
    <3>2. \A k \in DOMAIN order : k < todo + 1 => k < todo \/ k = todo
      BY OrderFacts
    <3>3. /\ \A f : Apt(f)' = Apt(f)
          /\ EmbedsApart' = EmbedsApart
      BY <3>1, SourcesAlone
    <3> QED BY <3>1, <3>2, <3>3 DEF RunInv, CheckedInv, OverInv, Through, Pins
  <2>6. CASE Exit
    BY <2>6 DEF Exit, RunInv, CheckedInv, OverInv
  <2>7. ASSUME NEW file \in Embedded, NEW bytes \in Contents \cup {None}, Edit(file, bytes)
        PROVE  RunInv'
    BY <2>7 DEF Edit, RunInv, CheckedInv, OverInv
  <2>8. CASE UNCHANGED vars
    <3>1. UNCHANGED <<tree, units, order, cmd, program, todo, disk, recorded, manifest,
                      phase, exit>>
      BY <2>8 DEF vars, graphVars
    <3>2. /\ \A f : Apt(f)' = Apt(f)
          /\ EmbedsApart' = EmbedsApart /\ Good' = Good /\ Right' = Right
      BY <3>1, SourcesAlone
    <3> QED BY <3>1, <3>2 DEF RunInv, CheckedInv, OverInv, Through, Pins
  <2> QED BY <2>1, <2>2, <2>3, <2>4, <2>5, <2>6, <2>7, <2>8, CheckUnitRuns, FinishRuns
          DEF Next, Work
<1> QED BY Invariance, PinInvariance, VerdictInvariance, ExportsInvariance, <1>1, <1>2,
        PTL DEF Spec

\* The command that ends joins the past.
LEMMA ExitPasses ==
  ASSUME IInv, RunInv, PastInv, Exit
  PROVE  PastInv'
<1> DEFINE r == [cmd |-> cmd, exit |-> exit]
<1>0. PICK n : n = Len(past)
  OBVIOUS
<1>1. /\ phase = "done" /\ phase' = "idle" /\ past' = Append(past, r)
      /\ UNCHANGED <<tree, cmd, program, disk, manifest, exit>>
  BY DEF Exit, graphVars
<1>2. /\ past \in Seq([cmd: Command, exit: {0, 1}]) /\ r \in [cmd: Command, exit: {0, 1}]
      /\ exit \in {0, 1}
  BY DEF IInv, TypeOK
<1>3. r.cmd = cmd /\ r.exit = exit
  OBVIOUS
<1> HIDE DEF r
<1>4. /\ n \in Nat /\ DOMAIN past = 1 .. n /\ DOMAIN past' = 1 .. n + 1 /\ Len(past') = n + 1
      /\ past'[n + 1] = r /\ \A i \in 1 .. n : past'[i] = past[i]
  BY <1>0, <1>1, <1>2, AppendFacts, LenProperties
<1>5. Good' = Good /\ Right' = Right /\ EmbedsApart' = EmbedsApart
  BY <1>1, SourcesAlone
<1> SUFFICES ASSUME EmbedsApart
             PROVE  /\ \A i \in DOMAIN past' :
                         /\ past'[i].cmd.mode = "Emit" /\ past'[i].exit = 0
                         /\ \A k \in i .. Len(past') : past'[k].cmd.checked
                         => Good /\ Right
                    /\ RoundTrip'
  BY <1>5 DEF PastInv
\* what an older command leaves is there when this one, checked too, is over
<1>6. ASSUME NEW i \in 1 .. n, past[i].cmd.mode = "Emit", past[i].exit = 0,
             \A k \in i .. n + 1 : past'[k].cmd.checked
      PROVE  Good /\ Right /\ cmd.checked
  <2>1. cmd.checked
    BY <1>3, <1>4, <1>6
  <2>2. \A k \in i .. n : past[k].cmd.checked
    BY <1>4, <1>6
  <2> QED BY <1>0, <1>1, <1>4, <1>6, <2>1, <2>2 DEF PastInv
<1>7. ASSUME NEW i \in 1 .. n + 1, past'[i].cmd.mode = "Emit", past'[i].exit = 0,
             \A k \in i .. n + 1 : past'[k].cmd.checked
      PROVE  Good /\ Right
  <2>1. CASE i = n + 1
    <3>1. cmd.checked /\ cmd.mode = "Emit" /\ exit = 0
      BY <1>3, <1>4, <1>7, <2>1
    <3> QED BY <1>1, <3>1 DEF RunInv, OverInv
  <2>2. CASE i # n + 1
    <3>1. i \in 1 .. n /\ past'[i] = past[i]
      BY <1>4, <2>2
    <3> QED BY <1>6, <1>7, <3>1
  <2> QED BY <2>1, <2>2
<1>8. RoundTrip'
  <2> SUFFICES ASSUME NEW i \in 1 .. n + 1, NEW j \in 1 .. n + 1, i < j,
                      \A k \in i .. j : past'[k].cmd.checked,
                      past'[i].cmd.mode = "Emit", past'[i].exit = 0,
                      past'[j].cmd.mode = "Enforce"
               PROVE  past'[j].exit = 0
    BY <1>4 DEF RoundTrip
  <2>1. i \in 1 .. n /\ past'[i] = past[i]
    BY <1>4
  <2>2. CASE j = n + 1
    <3>1. cmd.mode = "Enforce" /\ past'[j].exit = exit
      BY <1>3, <1>4, <2>2
    <3>2. Good /\ Right /\ cmd.checked
      BY <1>6, <2>1, <2>2
    <3> QED BY <1>1, <1>2, <3>1, <3>2 DEF RunInv, OverInv
  <2>3. CASE j # n + 1
    <3>1. j \in 1 .. n /\ past'[j] = past[j]
      BY <1>4, <2>3
    <3>2. \A k \in i .. j : past[k].cmd.checked
      BY <1>4, <3>1
    <3>3. RoundTrip
      BY DEF PastInv
    <3> QED BY <1>4, <2>1, <3>1, <3>2, <3>3 DEF RoundTrip
  <2> QED BY <2>2, <2>3
<1> QED BY <1>4, <1>7, <1>8

\* What a build recorded, any later build that enforces it accepts, until an
\* embedded file changes or a command skips the checks, if no two directories hold
\* an embed of the same relative path.
THEOREM RecordedIsAccepted == Spec => []RoundTripIfApart
<1>1. Init => PastInv
  BY DEF Init, PastInv, RoundTrip
<1>2. IInv /\ RunInv /\ RunInv' /\ PastInv /\ [Next]_vars => PastInv'
  <2> SUFFICES ASSUME IInv, RunInv, RunInv', PastInv, [Next]_vars PROVE PastInv'
    OBVIOUS
  <2>1. ASSUME UNCHANGED <<tree, program, disk, manifest, past>>,
               (phase' = "done" => cmd'.checked) => (phase = "done" => cmd.checked)
        PROVE  PastInv'
    <3>1. Good' = Good /\ Right' = Right /\ EmbedsApart' = EmbedsApart
      BY <2>1, SourcesAlone
    <3> QED BY <2>1, <3>1 DEF PastInv, RoundTrip
  <2>2. CASE Begin
    BY <2>1, <2>2 DEF Begin
  <2>3. CASE Loading
    BY <2>1, <2>3 DEF Loading, LoadStep, ImportMissing, ImportCyclic, ImportVisited,
       ImportUnreadable, ImportNew, LoadReturn
  <2>4. CASE Lower
    BY <2>1, <2>4 DEF Lower, graphVars
  <2>5. CASE Sorting
    BY <2>1, <2>5 DEF Sorting, SortStep, VisitRoot, Visit, VisitReturn, graphVars
  <2>6. CASE CheckUnit
    BY <2>1, <2>6 DEF CheckUnit
  <2>7. CASE SkipCheck
    BY <2>1, <2>7 DEF SkipCheck, graphVars
  <2>8. CASE EmitUnit
    BY <2>1, <2>8 DEF EmitUnit, graphVars
  <2>9. ASSUME NEW writable \in BOOLEAN, Finish(writable) PROVE PastInv'
    <3>1. /\ phase = "check" /\ phase' = "done" /\ cmd' = cmd /\ past' = past
          /\ UNCHANGED <<tree, program, disk>> /\ (exit' = 0 \/ manifest' = manifest)
          /\ cmd.mode # "Emit" => manifest' = manifest
      BY <2>9 DEF Finish, graphVars
    <3>2. CASE manifest' = manifest
      BY <2>1, <3>1, <3>2
    <3>3. CASE manifest' # manifest
      <4>1. Good' = Good /\ EmbedsApart' = EmbedsApart
        BY <3>1, SourcesAlone
      <4>2. exit' = 0 /\ cmd.mode = "Emit"
        BY <3>1, <3>3
      <4>3. cmd.checked /\ EmbedsApart => Good' /\ Right'
        BY <3>1, <4>1, <4>2 DEF RunInv, OverInv
      <4> QED BY <3>1, <4>1, <4>3 DEF PastInv, RoundTrip
    <3> QED BY <3>2, <3>3
  <2>10. CASE Exit
    BY <2>10, ExitPasses
  <2>11. ASSUME NEW file \in Embedded, NEW bytes \in Contents \cup {None}, Edit(file, bytes)
         PROVE  PastInv'
    BY <2>11 DEF Edit, PastInv, RoundTrip
  <2>12. CASE UNCHANGED vars
    BY <2>1, <2>12 DEF vars, graphVars
  <2> QED BY <2>2, <2>3, <2>4, <2>5, <2>6, <2>7, <2>8, <2>9, <2>10, <2>11, <2>12
          DEF Next, Work
<1>3. PastInv => RoundTripIfApart
  BY DEF PastInv, RoundTripIfApart, EmbedsApart
<1> QED BY Invariance, RunInvariance, <1>1, <1>2, <1>3, PTL DEF Spec

-----------------------------------------------------------------------------
\* The contract: what a command has left behind so far

\* It writes the units checked, and them alone, at paths by which they are
\* imported.
LeftInv ==
  /\ \A i \in DOMAIN units :
       relpaths[i] = Stem \/ \E j \in DOMAIN units : relpaths[i] \in ToSet(tree.import[units[j]])
  /\ Stage = "running" => exit = 0
  /\ phase \in {"load", "sort"} => wrote = {}
  /\ phase \in {"check", "emit"} /\ cmd.write =>
       \A p \in wrote : \E k \in DOMAIN order : k < todo /\ p = relpaths[order[k]]

\* What it records is of the units checked, and nothing of theirs is left out.
EntriesInv ==
  /\ phase \in {"load", "sort"} \/ (phase \in {"check", "emit"} /\ ~cmd.checked) =>
       recorded = NoEntries
  /\ phase \in {"check", "emit"} /\ cmd.checked /\ cmd.mode = "Emit" =>
       /\ \A e \in Embeds : recorded[e] # None =>
            \E k \in DOMAIN order :
              /\ Through(k) /\ e \in program.embeds[units[order[k]]]
              /\ recorded[e] = disk[<<program.dir[units[order[k]]], e>>]
       /\ \A k \in DOMAIN order : Through(k) =>
            \A e \in program.embeds[units[order[k]]] : recorded[e] # None

LEMMA SameSources ==
  /\ \A p : Contract!Located(p) = Located(p)
  /\ \A f : Contract!Needs(f) = Needs(f)
  /\ \A F : Contract!Blame(F) <=> Blame(F)
  /\ Contract!Reach = Reach
  /\ \A f : Contract!Apt(f) <=> Apt(f)
  /\ \A mf, f : Contract!Pins(mf, f) <=> Pins(mf, f)
  /\ Contract!Embedded = Embedded /\ Contract!Command = Command
<1>1. \A p : Contract!Located(p) = Located(p)
  BY DEF Contract!Located, Located
<1>0. \A q : Contract!ToSet(q) = ToSet(q)
  BY DEF Contract!ToSet, ToSet
<1>2. \A f : Contract!Needs(f) = Needs(f)
  <2> TAKE f
  <2>1. {Contract!Located(p) : p \in Contract!ToSet(tree.import[f])}
          = {Located(p) : p \in ToSet(tree.import[f])}
    BY <1>0, <1>1
  <2> QED BY <2>1, Zenon DEF Contract!Needs, Needs
<1>3. \A F : Contract!Blame(F) <=> Blame(F)
  BY <1>0, <1>1, <1>2, Zenon DEF Contract!Blame, Blame
<1>4. Contract!Reach = Reach
  BY <1>2 DEF Contract!Reach, Reach, Contract!Closed, Closed
<1>5. \A f : Contract!Apt(f) <=> Apt(f)
  BY <1>2 DEF Contract!Apt, Apt
<1>6. \A mf, f : Contract!Pins(mf, f) <=> Pins(mf, f)
  BY DEF Contract!Pins, Pins
<1>7. Contract!Embedded = Embedded /\ Contract!Command = Command
  BY DEF Contract!Embedded, Embedded, Contract!Command, Command
<1> QED BY <1>1, <1>2, <1>3, <1>4, <1>5, <1>6, <1>7

\* A unit is entered under the import that the call on top has come to.
LEMMA LoadingNames ==
  ASSUME IInv, LeftInv, Loading
  PROVE  LeftInv'
<1>1. /\ GraphTypeOK /\ GraphShape /\ LoadStep
      /\ phase = "load" /\ phase' = "load" /\ UNCHANGED <<exit, wrote, tree>>
  BY DEF Loading, IInv, GraphInv, LoadStep, ImportMissing, ImportCyclic, ImportVisited,
     ImportUnreadable, ImportNew, LoadReturn
<1>2. CASE UNCHANGED <<units, relpaths>>
  BY <1>1, <1>2 DEF LeftInv, Stage
<1>3. ASSUME NEW p \in Paths, NEW f \in Located(p), ImportNew(p, f)
      PROVE  LeftInv'
  <2>1. units' = Append(units, f) /\ relpaths' = Append(relpaths, p) /\ AtImport(p)
    BY <1>3 DEF ImportNew, EnterUnit
  <2>2. /\ Unit \in DOMAIN units /\ p \in ToSet(tree.import[units[Unit]])
    BY <1>1, <2>1, AtImportFacts
  <2>3. /\ Len(units) \in Nat /\ DOMAIN units = 1 .. Len(units)
        /\ DOMAIN relpaths = DOMAIN units
        /\ units \in Seq(Files) /\ relpaths \in Seq(Paths) /\ f \in Files
        /\ Len(relpaths) = Len(units)
    BY <1>1, Domains DEF GraphTypeOK, GraphShape, Located
  <2>4. /\ DOMAIN units' = 1 .. Len(units) + 1
        /\ \A i \in DOMAIN units : units'[i] = units[i] /\ relpaths'[i] = relpaths[i]
        /\ relpaths'[Len(units) + 1] = p
    BY <2>1, <2>3, AppendFacts
  <2>5. ASSUME NEW i \in DOMAIN units'
        PROVE  \/ relpaths'[i] = Stem
               \/ \E j \in DOMAIN units' : relpaths'[i] \in ToSet(tree.import[units'[j]])
    <3>1. CASE i \in DOMAIN units
      BY <2>3, <2>4, <3>1 DEF LeftInv
    <3>2. CASE i = Len(units) + 1
      BY <2>2, <2>3, <2>4, <3>2
    <3> QED BY <2>3, <2>4, <3>1, <3>2
  <2> QED BY <1>1, <2>5 DEF LeftInv, Stage
<1> QED BY <1>1, <1>2, <1>3 DEF LoadStep, ImportMissing, ImportCyclic, ImportVisited,
        ImportUnreadable, LoadReturn

LEMMA LeftInvariance == Spec => []LeftInv
<1>1. Init => LeftInv
  BY DEF Init, LeftInv, Stage
<1>2. IInv /\ PinInv /\ LeftInv /\ [Next]_vars => LeftInv'
  <2> SUFFICES ASSUME IInv, PinInv, LeftInv, [Next]_vars PROVE LeftInv'
    OBVIOUS
  <2> USE DEF Stage
  <2>1. CASE Begin
    <3>1. /\ phase' \in {"load", "done"} /\ wrote' = {} /\ (phase' = "load" => exit' = 0)
          /\ units' = << >> \/ (relpaths' = << Stem >> /\ DOMAIN units' = {1})
      BY <2>1 DEF Begin
    <3> QED BY <3>1 DEF LeftInv
  <2>2. CASE Loading
    BY <2>2, LoadingNames
  <2>3. CASE Lower
    BY <2>3 DEF Lower, LeftInv, graphVars
  <2>4. CASE Sorting
    <3>1. UNCHANGED <<tree, units, relpaths, exit, wrote>> /\ phase = "sort"
          /\ phase' \in {"sort", "check"}
      BY <2>4 DEF Sorting, SortStep, VisitRoot, Visit, VisitReturn, graphVars
    <3> QED BY <3>1 DEF LeftInv
  <2>5. CASE CheckUnit
    BY <2>5 DEF CheckUnit, LeftInv
  <2>6. CASE SkipCheck
    BY <2>6 DEF SkipCheck, LeftInv, graphVars
  <2>7. CASE EmitUnit
    <3>1. /\ phase = "emit" /\ phase' = "check" /\ todo' = todo + 1
          /\ UNCHANGED <<tree, units, relpaths, order, cmd, exit>>
          /\ cmd.write => wrote' = wrote \cup {relpaths[order[todo]]}
      BY <2>7 DEF EmitUnit, graphVars, This
    <3>2. todo \in DOMAIN order /\ todo < todo + 1 /\ \A k \in DOMAIN order : k < todo => k < todo + 1
      BY <3>1, OrderFacts, Domains DEF IInv, TypeOK, GraphInv
    <3> QED BY <3>1, <3>2 DEF LeftInv
  <2>8. ASSUME NEW writable \in BOOLEAN, Finish(writable) PROVE LeftInv'
    BY <2>8 DEF Finish, LeftInv, graphVars
  <2>9. CASE Exit
    BY <2>9 DEF Exit, LeftInv, graphVars
  <2>10. ASSUME NEW file \in Embedded, NEW bytes \in Contents \cup {None}, Edit(file, bytes)
         PROVE  LeftInv'
    BY <2>10 DEF Edit, LeftInv, graphVars
  <2>11. CASE UNCHANGED vars
    BY <2>11 DEF vars, graphVars, LeftInv
  <2> QED BY <2>1, <2>2, <2>3, <2>4, <2>5, <2>6, <2>7, <2>8, <2>9, <2>10, <2>11 DEF Next, Work
<1> QED BY Invariance, PinInvariance, <1>1, <1>2, PTL DEF Spec

LEMMA CheckUnitRecords ==
  ASSUME IInv, VerdictInv, ExportsInv, EntriesInv, CheckUnit
  PROVE  EntriesInv'
<1>1. /\ phase = "check" /\ todo <= Len(order) /\ cmd.checked /\ recorded' = Record
      /\ UNCHANGED <<tree, units, order, cmd, program, todo, disk>>
      /\ IF Sound THEN phase' = "emit" ELSE phase' = "done"
  BY DEF CheckUnit
<1>2. PICK f, t : f = ThisFile /\ t = todo
  OBVIOUS
<1>3. /\ f \in Files /\ recorded \in [Embeds -> Contents \cup {None}]
      /\ program.embeds \in [Files -> SUBSET Embeds]
      /\ t \in DOMAIN order /\ f = units[order[t]]
      /\ \A k \in DOMAIN order : k \in Nat /\ units[order[k]] \in Files
  BY <1>1, <1>2, ThisFacts, OrderFacts, Domains DEF IInv, TypeOK, Program, GraphInv, ThisFile, This
<1>4. CASE ~Sound
  BY <1>1, <1>4 DEF EntriesInv
<1>5. CASE Sound /\ cmd.mode # "Emit"
  BY <1>1, <1>5 DEF EntriesInv
<1>6. CASE Sound /\ cmd.mode = "Emit"
  <2>1. Apt(f)
    BY <1>1, <1>2, <1>6, SoundIsApt
  <2>2. \A e \in program.embeds[f] : OnDisk(e) = disk[<<program.dir[f], e>>] /\ OnDisk(e) # None
    BY <1>2, <2>1 DEF OnDisk, Apt
  <2>3. ASSUME NEW e \in Embeds
        PROVE  recorded'[e] = IF e \in program.embeds[f] THEN disk[<<program.dir[f], e>>]
                              ELSE recorded[e]
    BY <1>1, <1>2, <1>3, <1>6, <2>2, <2>3 DEF Record
  <2>4. ASSUME NEW e \in Embeds, recorded'[e] # None
        PROVE  \E k \in DOMAIN order :
                 /\ k < t \/ k = t
                 /\ e \in program.embeds[units[order[k]]]
                 /\ recorded'[e] = disk[<<program.dir[units[order[k]]], e>>]
    <3>1. CASE e \in program.embeds[f]
      BY <1>3, <2>3, <2>4, <3>1
    <3>2. CASE e \notin program.embeds[f]
      <4>1. recorded'[e] = recorded[e]
        BY <2>3, <2>4, <3>2
      <4>2. PICK k \in DOMAIN order :
              /\ k < t /\ e \in program.embeds[units[order[k]]]
              /\ recorded[e] = disk[<<program.dir[units[order[k]]], e>>]
        BY <1>1, <1>2, <1>6, <2>4, <4>1 DEF EntriesInv, Through
      <4> QED BY <4>1, <4>2
    <3> QED BY <3>1, <3>2
  <2>5. ASSUME NEW k \in DOMAIN order, k < t \/ k = t, NEW e \in program.embeds[units[order[k]]]
        PROVE  recorded'[e] # None
    <3>1. e \in Embeds
      BY <1>3, <2>5
    <3>2. CASE e \in program.embeds[f]
      BY <2>2, <2>3, <3>1, <3>2
    <3>3. CASE e \notin program.embeds[f]
      <4>1. recorded'[e] = recorded[e] /\ k < t
        BY <1>3, <2>3, <2>5, <3>1, <3>3
      <4> QED BY <1>1, <1>2, <1>6, <2>5, <4>1 DEF EntriesInv, Through
    <3> QED BY <3>2, <3>3
  <2> QED BY <1>1, <1>2, <1>6, <2>4, <2>5 DEF EntriesInv, Through
<1> QED BY <1>4, <1>5, <1>6

LEMMA EntriesInvariance == Spec => []EntriesInv
<1>1. Init => EntriesInv
  BY DEF Init, EntriesInv
<1>2. IInv /\ PinInv /\ VerdictInv /\ ExportsInv /\ EntriesInv /\ [Next]_vars => EntriesInv'
  <2> SUFFICES ASSUME IInv, PinInv, VerdictInv, ExportsInv, EntriesInv, [Next]_vars
               PROVE  EntriesInv'
    OBVIOUS
  <2>0. NoEntries' = NoEntries
    BY DEF NoEntries
  <2>1. CASE Begin
    BY <2>0, <2>1 DEF Begin, EntriesInv
  <2>2. CASE Loading
    BY <2>0, <2>2 DEF Loading, EntriesInv
  <2>3. CASE Lower
    BY <2>0, <2>3 DEF Lower, EntriesInv
  <2>4. CASE Sorting
    <3>1. /\ recorded = NoEntries /\ recorded' = recorded /\ phase' \in {"sort", "check"}
          /\ phase' = "check" => todo' = 1 /\ order' = order
      BY <2>4 DEF Sorting, EntriesInv, PinInv, graphVars
    <3>2. \A k \in DOMAIN order : ~(k < 1)
      BY OrderFacts
    <3>3. \A e \in Embeds : recorded'[e] = None
      BY <3>1 DEF NoEntries
    <3> QED BY <2>0, <3>1, <3>2, <3>3 DEF EntriesInv, Through
  <2>5. CASE SkipCheck
    BY <2>0, <2>5 DEF SkipCheck, EntriesInv
  <2>6. CASE EmitUnit
    <3>1. /\ phase = "emit" /\ phase' = "check" /\ todo' = todo + 1
          /\ UNCHANGED <<tree, units, order, cmd, program, disk, recorded>>
      BY <2>6 DEF EmitUnit, graphVars
    <3>2. \A k \in DOMAIN order : Through(k)' <=> Through(k)
      BY <3>1, OrderFacts DEF Through, IInv, TypeOK
    <3> QED BY <2>0, <3>1, <3>2 DEF EntriesInv
  <2>7. ASSUME NEW writable \in BOOLEAN, Finish(writable) PROVE EntriesInv'
    BY <2>7 DEF Finish, EntriesInv
  <2>8. CASE Exit
    BY <2>8 DEF Exit, EntriesInv
  <2>9. ASSUME NEW file \in Embedded, NEW bytes \in Contents \cup {None}, Edit(file, bytes)
        PROVE  EntriesInv'
    BY <2>9 DEF Edit, EntriesInv
  <2>10. CASE UNCHANGED vars
    BY <2>0, <2>10 DEF vars, graphVars, EntriesInv, Through
  <2> QED BY <2>1, <2>2, <2>3, <2>4, <2>5, <2>6, <2>7, <2>8, <2>9, <2>10, CheckUnitRecords
          DEF Next, Work
<1> QED BY Invariance, PinInvariance, VerdictInvariance, ExportsInvariance, <1>1, <1>2,
        PTL DEF Spec

-----------------------------------------------------------------------------
\* The contract: every step is one of its steps, or hidden

ContractInv ==
  /\ IInv /\ PinInv /\ VerdictInv /\ ExportsInv /\ WroteInv /\ RunInv /\ LeftInv /\ EntriesInv

LEMMA ContractInvariance == Spec => []ContractInv
BY Invariance, PinInvariance, VerdictInvariance, ExportsInvariance, WroteInvariance,
   RunInvariance, LeftInvariance, EntriesInvariance, PTL DEF ContractInv

Unseen == UNCHANGED <<tree, program, disk, Stage, cmd, manifest, wrote, exit, past>>

\* A command is under way when nothing can be wrong with the sources any more.
LEMMA UnderWay ==
  ASSUME ContractInv, phase \in {"check", "emit"}
  PROVE  /\ Stage = "running" /\ exit = 0
         /\ Linked /\ ~Contract!Blame(Contract!Reach)
         /\ \A k \in DOMAIN order : units[order[k]] \in Reach
BY SameSources, OrderFacts DEF ContractInv, LeftInv, Stage, VerdictInv, Linked, ToSet

\* A unit that is through its checks is approved.
LEMMA ThroughIsApproved ==
  ASSUME ContractInv, phase \in {"check", "emit"}, NEW k \in DOMAIN order, Through(k),
         NEW f, f = units[order[k]]
  PROVE  Contract!Approved(f)
<1>1. f \in Files
  BY OrderFacts DEF ContractInv
<1>2. cmd.checked => Apt(f)
  BY <1>1 DEF ContractInv, RunInv, CheckedInv
<1>3. cmd.checked /\ cmd.mode = "Enforce" => Pins(manifest, f)
  BY DEF ContractInv, PinInv, Held, Pins, Through
<1> QED BY <1>2, <1>3, SameSources DEF Contract!Approved

\* When all units are through, every file the imports lead to is.
LEMMA AllThrough ==
  ASSUME ContractInv, phase = "check", todo > Len(order)
  PROVE  /\ \A k \in DOMAIN order : Through(k) /\ k < todo
         /\ \A f \in Reach : \E k \in DOMAIN order : f = units[order[k]]
<1>1. \A k \in DOMAIN order : Through(k) /\ k < todo
  BY OrderFacts DEF ContractInv, Through, IInv, TypeOK
<1>2. ASSUME NEW f \in Reach PROVE \E k \in DOMAIN order : f = units[order[k]]
  <2>1. f \in ToSet(units)
    BY UnderWay DEF Linked
  <2>2. PICK i \in DOMAIN units : units[i] = f
    BY <2>1 DEF ToSet
  <2>3. PICK k \in DOMAIN order : i = order[k]
    BY DEF ContractInv, PinInv, ToSet
  <2> QED BY <2>2, <2>3
<1> QED BY <1>1, <1>2

LEMMA BeginAsks ==
  ASSUME ContractInv, ContractInv', Begin
  PROVE  Contract!Next
<1>1. cmd' \in Contract!Command
  BY SameSources DEF ContractInv, IInv, TypeOK, Command
<1>2. Contract!Ask(cmd')
  BY DEF Begin, Contract!Ask, Contract!Starts, Stage
<1> QED BY <1>1, <1>2 DEF Contract!Next

LEMMA LowerRefuses ==
  ASSUME ContractInv, Lower
  PROVE  Unseen \/ Contract!Next
<1>1. /\ phase = "load" /\ frames = << >> /\ exit = 0
      /\ UNCHANGED <<tree, program, disk, cmd, manifest, wrote, past>>
      /\ IF faulty THEN phase' = "done" /\ exit' = 1 ELSE phase' = "sort" /\ exit' = 0
  BY DEF Lower, ContractInv, LeftInv, Stage, graphVars
<1>2. CASE ~faulty
  BY <1>1, <1>2 DEF Unseen, Stage
<1>3. CASE faulty
  <2>1. Blame(Reach)
    BY <1>1, <1>3, LoadingEnds DEF ContractInv, IInv, VerdictInv
  <2>2. Contract!Refuse
    BY <1>1, <1>3, <2>1, SameSources
       DEF Contract!Refuse, Contract!EndWith, Contract!Accepted, Stage
  <2> QED BY <2>2 DEF Contract!Next
<1> QED BY <1>2, <1>3

LEMMA CheckUnitRefuses ==
  ASSUME ContractInv, CheckUnit
  PROVE  Unseen \/ Contract!Next
<1>1. /\ phase = "check" /\ todo <= Len(order) /\ cmd.checked /\ Stage = "running"
      /\ UNCHANGED <<tree, program, disk, cmd, manifest, wrote, past>>
      /\ IF Sound THEN phase' = "emit" /\ exit' = exit ELSE phase' = "done" /\ exit' = 1
  BY DEF CheckUnit, Stage
<1>2. CASE Sound
  BY <1>1, <1>2 DEF Unseen, Stage
<1>3. CASE ~Sound
  <2>1. PICK f : f = ThisFile
    OBVIOUS
  <2>2. /\ f \in Reach
        /\ ~(Apt(f) /\ (cmd.mode = "Enforce" => Pins(expected, f)))
    BY <1>1, <1>3, <2>1, SoundIsApt DEF ContractInv
  <2>3. cmd.mode = "Enforce" => expected = manifest
    BY <1>1 DEF ContractInv, PinInv
  <2>4. f \in Contract!Reach /\ ~Contract!Approved(f)
    BY <1>1, <2>2, <2>3, SameSources DEF Contract!Approved
  <2>5. Contract!Refuse
    BY <1>1, <1>3, <2>4 DEF Contract!Refuse, Contract!EndWith, Contract!Accepted, Stage
  <2> QED BY <2>5 DEF Contract!Next
<1> QED BY <1>2, <1>3

\* The header of a unit is new, and those of the files it imports are there.
LEMMA EmitUnitWrites ==
  ASSUME ContractInv, EmitUnit
  PROVE  Unseen \/ Contract!Next
<1>1. /\ phase = "emit" /\ phase' = "check"
      /\ UNCHANGED <<tree, program, disk, cmd, manifest, exit, past>>
      /\ wrote' = IF cmd.write THEN wrote \cup {relpaths[This]} ELSE wrote
  BY DEF EmitUnit, graphVars
<1>2. CASE ~cmd.write
  BY <1>1, <1>2 DEF Unseen, Stage
<1>3. CASE cmd.write
  <2>1. PICK t, i, f, p : t = todo /\ i = order[todo] /\ f = units[i] /\ p = relpaths[i]
    OBVIOUS
  <2>2. /\ IInv /\ GraphTypeOK /\ GraphShape /\ t \in DOMAIN order /\ i \in DOMAIN units
        /\ f \in Files /\ p \in Paths /\ f \in Located(p)
    BY <1>1, <2>1, ThisFacts, Domains
       DEF ContractInv, IInv, GraphInv, TypeOK, Placed, This, ThisFile
  <2>3. /\ f \in Reach /\ ~Contract!Blame(Contract!Reach) /\ Stage = "running"
        /\ Contract!Approved(f) /\ Linked
    BY <1>1, <2>1, <2>2, UnderWay, ThroughIsApproved DEF Through
  <2>4. ~Contract!Written(f)
    <3> SUFFICES ASSUME NEW q \in wrote, f \in Located(q) PROVE FALSE
      BY SameSources DEF Contract!Written
    <3>1. PICK k \in DOMAIN order : k < t /\ q = relpaths[order[k]]
      BY <1>1, <1>3, <2>1 DEF ContractInv, LeftInv
    <3>2. /\ order[k] \in DOMAIN units /\ q \in Paths /\ units[order[k]] \in Located(q)
          /\ k \in Nat /\ t \in Nat
      BY <2>1, <2>2, <3>1, OrderFacts, Domains DEF IInv, GraphInv, Placed
    <3>3. units[order[k]] = f
      BY <2>2, <3>2, LocatedIsOne
    <3>4. order[k] = i
      BY <2>1, <2>2, <3>2, <3>3 DEF IInv, GraphInv, LoadedOnce, IsInjective
    <3>5. k = t
      BY <1>1, <2>1, <2>2, <3>4 DEF ContractInv, VerdictInv, IsInjective
    <3> QED BY <3>1, <3>2, <3>5
  <2>5. ASSUME NEW g \in Needs(f) PROVE Contract!Written(g)
    <3>1. PICK d \in ToSet(deps[i]) : units[d] = g
      BY <2>1, <2>2, <2>3, <2>5 DEF Linked, DepFiles
    <3>2. PICK k \in DOMAIN order : k < t /\ order[k] = d
      BY <1>1, <2>1, <2>2, <3>1 DEF ContractInv, VerdictInv, DepsListed
    <3>3. relpaths[d] \in wrote
      BY <1>1, <1>3, <2>1, <3>2 DEF ContractInv, WroteInv
    <3>4. g \in Located(relpaths[d])
      BY <2>2, <3>1, <3>2, OrderFacts DEF IInv, GraphInv, Placed
    <3> QED BY <3>3, <3>4, SameSources DEF Contract!Written
  <2>6. Contract!PathIn(p)
    <3>1. \A q : Contract!ToSet(q) = ToSet(q)
      BY DEF Contract!ToSet, ToSet
    <3>2. \A j \in DOMAIN units : units[j] \in Reach
      BY <2>3 DEF Linked, ToSet
    <3> QED BY <2>1, <2>2, <3>1, <3>2, SameSources DEF ContractInv, LeftInv, Contract!PathIn
  <2>7. wrote' = wrote \cup {p} /\ Stage' = Stage
    BY <1>1, <1>3, <2>1, <2>3 DEF This, Stage
  <2>8. Contract!Write(f, p)
    BY <1>1, <1>3, <2>2, <2>3, <2>4, <2>5, <2>6, <2>7, SameSources DEF Contract!Write
  <2> QED BY <2>2, <2>8 DEF Contract!Next
<1> QED BY <1>2, <1>3

\* What is recorded is what a manifest of the program may say.
LEMMA RecordedIsAll ==
  ASSUME ContractInv, phase = "check", todo > Len(order), cmd.mode = "Emit"
  PROVE  Contract!Recorded(recorded)
<1>1. recorded \in [Embeds -> Contents \cup {None}]
  BY DEF ContractInv, IInv, TypeOK
<1>2. CASE ~cmd.checked
  <2>1. \A e \in Embeds : recorded[e] = None
    BY <1>2 DEF ContractInv, EntriesInv, NoEntries
  <2> QED BY <1>1, <1>2, <2>1 DEF Contract!Recorded
<1>3. CASE cmd.checked
  <2> SUFFICES ASSUME NEW e \in Embeds
               PROVE  IF Contract!Bytes(e) # {} THEN recorded[e] \in Contract!Bytes(e)
                      ELSE recorded[e] = None
    BY <1>1, <1>3 DEF Contract!Recorded
  <2>1. Contract!Bytes(e)
          = {disk[<<program.dir[f], e>>] : f \in {g \in Reach : e \in program.embeds[g]}}
    BY SameSources DEF Contract!Bytes
  <2>2. ASSUME recorded[e] # None PROVE recorded[e] \in Contract!Bytes(e)
    <3>1. PICK k \in DOMAIN order :
            /\ e \in program.embeds[units[order[k]]]
            /\ recorded[e] = disk[<<program.dir[units[order[k]]], e>>]
      BY <1>3, <2>2 DEF ContractInv, EntriesInv
    <3>2. units[order[k]] \in Reach
      BY UnderWay
    <3> QED BY <2>1, <3>1, <3>2
  <2>3. ASSUME Contract!Bytes(e) # {} PROVE recorded[e] # None
    <3>1. PICK f \in Reach : e \in program.embeds[f]
      BY <2>1, <2>3
    <3>2. PICK k \in DOMAIN order : f = units[order[k]] /\ Through(k)
      BY AllThrough
    <3> QED BY <1>3, <3>1, <3>2 DEF ContractInv, EntriesInv
  <2> QED BY <2>2, <2>3
<1> QED BY <1>2, <1>3

LEMMA FinishEnds ==
  ASSUME ContractInv, NEW writable \in BOOLEAN, Finish(writable)
  PROVE  Contract!Next
<1>1. /\ phase = "check" /\ todo > Len(order) /\ phase' = "done"
      /\ UNCHANGED <<tree, program, disk, cmd, wrote, past>>
      /\ exit' = IF cmd.mode = "Emit" /\ ~writable THEN 1 ELSE 0
      /\ manifest' = IF cmd.mode = "Emit" /\ writable THEN recorded ELSE manifest
  BY DEF Finish, graphVars
<1>2. Contract!Accepted
  <2>1. \A f \in Reach : Contract!Approved(f)
    BY <1>1, AllThrough, ThroughIsApproved
  <2> QED BY <1>1, <2>1, UnderWay, SameSources DEF Contract!Accepted
<1>3. Contract!AllWritten
  <2> SUFFICES ASSUME cmd.write, NEW f \in Reach PROVE Contract!Written(f)
    BY SameSources DEF Contract!AllWritten
  <2>1. PICK k \in DOMAIN order : f = units[order[k]] /\ k < todo
    BY <1>1, AllThrough
  <2>2. relpaths[order[k]] \in wrote
    BY <1>1, <2>1 DEF ContractInv, WroteInv
  <2>3. f \in Located(relpaths[order[k]])
    BY <2>1, OrderFacts DEF ContractInv, IInv, GraphInv, Placed
  <2> QED BY <2>2, <2>3, SameSources DEF Contract!Written
<1>4. ASSUME NEW code, exit' = code PROVE Contract!EndWith(code)
  BY <1>1, <1>4 DEF Contract!EndWith, Stage
<1>5. CASE cmd.mode = "Emit" /\ ~writable
  <2>1. Contract!SaveFails
    BY <1>1, <1>2, <1>3, <1>4, <1>5 DEF Contract!SaveFails
  <2> QED BY <2>1 DEF Contract!Next
<1>6. CASE cmd.mode = "Emit" /\ writable
  <2>1. Contract!Recorded(manifest')
    <3>1. Contract!Recorded(recorded)
      BY <1>1, <1>6, RecordedIsAll
    <3> QED BY <1>1, <1>6, <3>1
  <2>2. Contract!Succeed
    BY <1>1, <1>2, <1>3, <1>4, <1>6, <2>1 DEF Contract!Succeed
  <2> QED BY <2>2 DEF Contract!Next
<1>7. CASE cmd.mode # "Emit"
  <2>1. Contract!Succeed
    BY <1>1, <1>2, <1>3, <1>4, <1>7 DEF Contract!Succeed
  <2> QED BY <2>1 DEF Contract!Next
<1> QED BY <1>5, <1>6, <1>7

LEMMA ContractStep ==
  ContractInv /\ ContractInv' /\ [Next]_vars => [Contract!Next]_(Contract!vars)
<1> SUFFICES ASSUME ContractInv, ContractInv', [Next]_vars PROVE Unseen \/ Contract!Next
  BY DEF Unseen, Contract!vars
<1>1. CASE Begin
  BY <1>1, BeginAsks
<1>2. CASE Loading
  BY <1>2 DEF Loading, LoadStep, ImportMissing, ImportCyclic, ImportVisited,
     ImportUnreadable, ImportNew, LoadReturn, Unseen, Stage
<1>3. CASE Sorting
  BY <1>3 DEF Sorting, SortStep, VisitRoot, Visit, VisitReturn, graphVars, Unseen, Stage
<1>4. CASE SkipCheck
  BY <1>4 DEF SkipCheck, graphVars, Unseen, Stage
<1>5. CASE Exit
  <2>1. Contract!Leave
    BY <1>5 DEF Exit, Contract!Leave, Stage, graphVars
  <2> QED BY <2>1 DEF Contract!Next
<1>6. ASSUME NEW file \in Embedded, NEW bytes \in Contents \cup {None}, Edit(file, bytes)
      PROVE  Contract!Next
  <2>1. disk' \in [Embedded -> Contents \cup {None}]
    BY <1>6 DEF Edit, ContractInv, IInv, TypeOK
  <2>2. Contract!Change
    BY <1>6, <2>1, SameSources DEF Edit, Contract!Change, Stage, graphVars
  <2> QED BY <2>2 DEF Contract!Next
<1>7. CASE UNCHANGED vars
  BY <1>7 DEF vars, graphVars, Unseen, Stage
<1> QED BY <1>1, <1>2, <1>3, <1>4, <1>5, <1>6, <1>7, LowerRefuses, CheckUnitRefuses,
        EmitUnitWrites, FinishEnds DEF Next, Work

\* The refinement: every session of the driver is one of BuildContract, in which
\* there is no module graph, no order and no store.  A command exits 0 exactly when
\* nothing is wrong with the sources, but for a manifest that cannot be saved; what
\* it has written at any moment, a failed build included, are headers of files that
\* pass the checks, each once and after those it includes; and only a command that
\* exits 0 changes the manifest.
THEOREM KeepsTheContract == Spec => KeepsContract
<1>1. Init => Contract!Init
  <2> SUFFICES ASSUME Init PROVE Contract!Init
    OBVIOUS
  <2>1. cmd \in Contract!Command
    BY DEF Init, Contract!Command
  <2> QED BY <2>1, SameSources DEF Init, Contract!Init, Stage
<1> QED BY ContractInvariance, <1>1, ContractStep, PTL DEF Spec, KeepsContract, Contract!Spec
=============================================================================
