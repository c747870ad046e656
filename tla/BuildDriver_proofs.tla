------------------------ MODULE BuildDriver_proofs -------------------------
(***************************************************************************)
(* What holds of the driver for every source tree and every session.       *)
(***************************************************************************)
EXTENDS BuildDriver, SequenceTheorems, TLAPS

-----------------------------------------------------------------------------
\* Sequences

LEMMA AppendFacts ==
  ASSUME NEW S, NEW s \in Seq(S), NEW x \in S
  PROVE  /\ Append(s, x) \in Seq(S)
         /\ Len(Append(s, x)) = Len(s) + 1
         /\ DOMAIN s = 1 .. Len(s) /\ DOMAIN Append(s, x) = 1 .. Len(s) + 1
         /\ \A i \in DOMAIN s : Append(s, x)[i] = s[i]
         /\ Append(s, x)[Len(s) + 1] = x
         /\ ToSet(Append(s, x)) = ToSet(s) \cup {x}
<1>1. /\ Append(s, x) \in Seq(S) /\ Len(Append(s, x)) = Len(s) + 1
      /\ Append(s, x)[Len(s) + 1] = x
      /\ \A i \in 1 .. Len(s) : Append(s, x)[i] = s[i]
  BY AppendProperties
<1>2. DOMAIN s = 1 .. Len(s) /\ DOMAIN Append(s, x) = 1 .. Len(s) + 1 /\ Len(s) \in Nat
  BY <1>1, LenProperties
<1>3. ToSet(Append(s, x)) = ToSet(s) \cup {x}
  BY <1>1, <1>2 DEF ToSet
<1> QED BY <1>1, <1>2, <1>3

LEMMA FrontFacts ==
  ASSUME NEW S, NEW s \in Seq(S), s # << >>
  PROVE  /\ Front(s) \in Seq(S)
         /\ Len(s) \in Nat \ {0} /\ DOMAIN s = 1 .. Len(s)
         /\ Len(Front(s)) = Len(s) - 1 /\ DOMAIN Front(s) = 1 .. Len(s) - 1
         /\ \A i \in 1 .. Len(s) - 1 : Front(s)[i] = s[i]
<1>1. Len(s) \in Nat \ {0} /\ DOMAIN s = 1 .. Len(s) /\ \A i \in 1 .. Len(s) : s[i] \in S
  BY EmptySeq, LenProperties, ElementOfSeq
<1>2. Front(s) = SubSeq(s, 1, Len(s) - 1)
  BY DEF Front
<1>3. /\ Front(s) \in Seq(S)
      /\ Len(Front(s)) = IF 1 <= Len(s) - 1 THEN Len(s) - 1 - 1 + 1 ELSE 0
      /\ \A i \in 1 .. Len(s) - 1 - 1 + 1 : Front(s)[i] = s[1 + i - 1]
  BY <1>1, <1>2, SubSeqProperties
<1>4. Len(Front(s)) = Len(s) - 1
  <2>1. \A n \in Nat \ {0} : (IF 1 <= n - 1 THEN n - 1 - 1 + 1 ELSE 0) = n - 1
    OBVIOUS
  <2> QED BY <1>1, <1>3, <2>1, Zenon
<1>5. ASSUME NEW i \in 1 .. Len(s) - 1 PROVE Front(s)[i] = s[i]
  <2>1. i \in 1 .. Len(s) - 1 - 1 + 1 /\ 1 + i - 1 = i
    BY <1>1
  <2> QED BY <2>1, <1>3
<1> QED BY <1>1, <1>3, <1>4, <1>5, LenProperties

-----------------------------------------------------------------------------
\* The invariant: the graph

Call == [unit: Nat, next: Nat]

\* Every unit has an output path and a list of dependencies, and dependencies,
\* calls and the order name units.
GraphShape ==
  /\ tree \in Trees
  /\ Len(relpaths) = Len(units) /\ Len(deps) = Len(units)
  /\ \A i \in DOMAIN deps : ToSet(deps[i]) \subseteq DOMAIN units
  /\ \A k \in DOMAIN frames : frames[k].unit \in DOMAIN units /\ frames[k].next >= 1
  /\ ToSet(order) \subseteq DOMAIN units

\* While loading, each unit has at most one call, and nothing depends on a unit
\* whose call is not over.
StackApart ==
  /\ \A j, k \in DOMAIN frames : frames[j].unit = frames[k].unit => j = k
  /\ \A i \in DOMAIN deps : ToSet(deps[i]) \cap Active = {}

\* A unit is found at the path its output goes to.
Placed == \A i \in DOMAIN units : units[i] \in Located(relpaths[i])

GraphInv == GraphTypeOK /\ GraphShape /\ LoadedOnce /\ Placed /\ DepsAcyclic

\* An import path names at most one file.
LEMMA LocatedIsOne ==
  ASSUME GraphTypeOK, NEW p \in Paths, NEW f \in Located(p), NEW g \in Located(p)
  PROVE  f = g
<1>1. PICK i \in DOMAIN tree.at[p] : tree.at[p][i] = f /\ \A j \in 1 .. i - 1 : tree.at[p][j] = None
  BY DEF Located
<1>2. PICK l \in DOMAIN tree.at[p] : tree.at[p][l] = g /\ \A j \in 1 .. l - 1 : tree.at[p][j] = None
  BY DEF Located
<1>3. tree.at[p] \in Seq(Files \cup {None})
  BY DEF GraphTypeOK, Tree
<1>4. i \in 1 .. Len(tree.at[p]) /\ l \in 1 .. Len(tree.at[p]) /\ Len(tree.at[p]) \in Nat
  BY <1>1, <1>2, <1>3, LenProperties
<1>5. f # None /\ g # None
  BY EntryAssumption DEF Located
<1>6. ~(i < l) /\ ~(l < i)
  BY <1>1, <1>2, <1>4, <1>5
<1> QED BY <1>1, <1>2, <1>4, <1>6

\* Domains of the graph's sequences, in the terms the provers compute with.
LEMMA Domains ==
  ASSUME GraphTypeOK, GraphShape
  PROVE  /\ Len(units) \in Nat /\ DOMAIN units = 1 .. Len(units)
         /\ DOMAIN relpaths = 1 .. Len(units) /\ DOMAIN deps = 1 .. Len(units)
         /\ Len(frames) \in Nat /\ DOMAIN frames = 1 .. Len(frames)
         /\ Len(order) \in Nat /\ DOMAIN order = 1 .. Len(order)
         /\ \A i \in DOMAIN units : units[i] \in Files /\ relpaths[i] \in Paths
                                    /\ deps[i] \in Seq(Nat)
         /\ \A k \in DOMAIN frames : frames[k] \in Call
<1>1. /\ units \in Seq(Files) /\ relpaths \in Seq(Paths) /\ deps \in Seq(Seq(Nat))
      /\ frames \in Seq(Call) /\ order \in Seq(Nat)
      /\ Len(relpaths) = Len(units) /\ Len(deps) = Len(units)
  BY DEF GraphTypeOK, GraphShape, Call
<1>2. /\ Len(units) \in Nat /\ DOMAIN units = 1 .. Len(units)
      /\ DOMAIN relpaths = 1 .. Len(units) /\ DOMAIN deps = 1 .. Len(units)
      /\ Len(frames) \in Nat /\ DOMAIN frames = 1 .. Len(frames)
      /\ Len(order) \in Nat /\ DOMAIN order = 1 .. Len(order)
  BY <1>1, LenProperties
<1>3. /\ \A i \in DOMAIN units : units[i] \in Files /\ relpaths[i] \in Paths
                                 /\ deps[i] \in Seq(Nat)
      /\ \A k \in DOMAIN frames : frames[k] \in Call
  BY <1>1, <1>2, ElementOfSeq
<1> QED BY <1>2, <1>3

\* The call on top goes on to its next import or dependency.
LEMMA AdvanceFacts ==
  ASSUME GraphTypeOK, GraphShape, frames # << >>
  PROVE  /\ Frame \in Call /\ Len(frames) \in DOMAIN frames /\ Frame.next >= 1
         /\ Unit \in DOMAIN units /\ Unit \in Active
         /\ Advance \in Seq(Call) /\ DOMAIN Advance = DOMAIN frames
         /\ \A k \in DOMAIN frames : /\ Advance[k].unit = frames[k].unit
                                     /\ Advance[k].next >= 1
<1>1. frames \in Seq(Call) /\ Len(frames) \in Nat \ {0} /\ DOMAIN frames = 1 .. Len(frames)
  BY EmptySeq, LenProperties DEF GraphTypeOK, Call
<1>2. /\ Frame \in Call /\ Len(frames) \in DOMAIN frames /\ Frame.next >= 1
      /\ Unit \in DOMAIN units /\ Unit \in Active
  BY <1>1, ElementOfSeq DEF Frame, Unit, Active, GraphShape
<1> DEFINE e == [Frame EXCEPT !.next = @ + 1]
<1>3. e \in Call /\ e.unit = Frame.unit /\ e.next >= 1
  BY <1>2 DEF Call
<1>4. Advance = [frames EXCEPT ![Len(frames)] = e]
  BY DEF Advance, Frame
<1>5. /\ Advance \in Seq(Call) /\ Len(Advance) = Len(frames)
      /\ \A k \in 1 .. Len(frames) : Advance[k] = IF k = Len(frames) THEN e ELSE frames[k]
  <2> HIDE DEF e
  <2> QED BY <1>1, <1>3, <1>4, ExceptSeq
<1>6. \A k \in DOMAIN frames : Advance[k].unit = frames[k].unit /\ Advance[k].next >= 1
  <2> HIDE DEF e
  <2> QED BY <1>1, <1>3, <1>5 DEF Frame, GraphShape
<1>7. DOMAIN Advance = DOMAIN frames
  BY <1>1, <1>5, LenProperties
<1> QED BY <1>2, <1>5, <1>6, <1>7

\* A new dependency of unit i on unit d.
LEMMA AddDepFacts ==
  ASSUME GraphTypeOK, GraphShape, NEW i \in DOMAIN units, NEW d \in DOMAIN units
  PROVE  /\ AddDep(i, d) \in Seq(Seq(Nat)) /\ Len(AddDep(i, d)) = Len(units)
         /\ DOMAIN AddDep(i, d) = DOMAIN units
         /\ \A j \in DOMAIN units :
              ToSet(AddDep(i, d)[j]) = IF j = i THEN ToSet(deps[j]) \cup {d} ELSE ToSet(deps[j])
<1>1. /\ deps \in Seq(Seq(Nat)) /\ deps[i] \in Seq(Nat) /\ d \in Nat
      /\ i \in 1 .. Len(deps) /\ Len(deps) = Len(units) /\ DOMAIN units = 1 .. Len(deps)
  BY Domains DEF GraphTypeOK, GraphShape
<1> DEFINE e == Append(deps[i], d)
<1>2. e \in Seq(Nat) /\ ToSet(e) = ToSet(deps[i]) \cup {d}
  <2>1. \A s \in Seq(Nat), x \in Nat :
          Append(s, x) \in Seq(Nat) /\ ToSet(Append(s, x)) = ToSet(s) \cup {x}
    BY AppendFacts
  <2> QED BY <1>1, <2>1
<1>3. AddDep(i, d) = [deps EXCEPT ![i] = e]
  BY DEF AddDep
<1>4. /\ AddDep(i, d) \in Seq(Seq(Nat)) /\ Len(AddDep(i, d)) = Len(deps)
      /\ \A j \in 1 .. Len(deps) : AddDep(i, d)[j] = IF j = i THEN e ELSE deps[j]
  <2> HIDE DEF e
  <2> QED BY <1>1, <1>2, <1>3, ExceptSeq
<1>5. DOMAIN AddDep(i, d) = DOMAIN units
  BY <1>1, <1>4, LenProperties
<1> QED BY <1>1, <1>2, <1>4, <1>5

-----------------------------------------------------------------------------
\* The invariant: loading

\* One more dependency, of a unit that is being loaded on one that is not,
\* leaves the graph acyclic.
LEMMA DependencyKeepsAcyclic ==
  ASSUME GraphTypeOK, GraphShape, DepsAcyclic,
         NEW i \in DOMAIN units, NEW d \in DOMAIN units, d # i,
         \A j \in DOMAIN deps : i \notin ToSet(deps[j]),
         NEW S \in SUBSET DOMAIN units, S # {}
  PROVE  \E j \in S : ToSet(AddDep(i, d)[j]) \cap S = {}
<1>1. DOMAIN deps = DOMAIN units
  BY Domains
<1>2. \A j \in DOMAIN units :
        ToSet(AddDep(i, d)[j]) = IF j = i THEN ToSet(deps[j]) \cup {d} ELSE ToSet(deps[j])
  BY AddDepFacts
<1>3. CASE S = {i}
  BY <1>1, <1>2, <1>3
<1>4. CASE S # {i}
  <2>1. S \ {i} # {} /\ S \ {i} \in SUBSET DOMAIN units
    BY <1>4
  <2>2. PICK j \in S \ {i} : ToSet(deps[j]) \cap (S \ {i}) = {}
    BY <2>1 DEF DepsAcyclic
  <2>3. ToSet(AddDep(i, d)[j]) = ToSet(deps[j]) /\ i \notin ToSet(deps[j])
    BY <1>1, <1>2
  <2> QED BY <2>2, <2>3
<1> QED BY <1>3, <1>4

\* A call goes on without touching the graph.
LEMMA AdvanceKeeps ==
  ASSUME GraphInv, StackApart, frames # << >>, frames' = Advance, faulty' \in BOOLEAN,
         UNCHANGED <<tree, units, relpaths, deps, order>>
  PROVE  GraphInv' /\ StackApart'
<1> USE DEF GraphInv
<1>1. /\ Advance \in Seq(Call) /\ DOMAIN Advance = DOMAIN frames
      /\ \A k \in DOMAIN frames : /\ Advance[k].unit = frames[k].unit
                                  /\ Advance[k].next >= 1
  BY AdvanceFacts
<1>2. GraphTypeOK'
  BY <1>1 DEF GraphTypeOK, Call, Tree
<1>3. GraphShape'
  BY <1>1 DEF GraphShape
<1>4. LoadedOnce' /\ Placed' /\ DepsAcyclic'
  BY DEF LoadedOnce, Placed, Located, DepsAcyclic
<1>5. Active' = Active
  BY <1>1 DEF Active
<1>6. StackApart'
  BY <1>1, <1>5 DEF StackApart
<1> QED BY <1>2, <1>3, <1>4, <1>6

\* ... and one that records that its unit needs unit d.
LEMMA ImportVisitedKeeps ==
  ASSUME GraphInv, StackApart, NEW p, NEW f, ImportVisited(p, f)
  PROVE  GraphInv' /\ StackApart'
<1> USE DEF GraphInv
<1>1. frames # << >> /\ frames' = Advance /\ UNCHANGED <<tree, units, relpaths, faulty, order>>
  BY DEF ImportVisited, AtImport
<1>2. /\ Unit \in DOMAIN units /\ Unit \in Active
      /\ Advance \in Seq(Call) /\ DOMAIN Advance = DOMAIN frames
      /\ \A k \in DOMAIN frames : /\ Advance[k].unit = frames[k].unit
                                  /\ Advance[k].next >= 1
  BY <1>1, AdvanceFacts
<1>3. PICK d \in DOMAIN units : units[d] = f /\ deps' = AddDep(Unit, d)
  BY DEF ImportVisited
<1>4. d \notin Active /\ d # Unit
  BY <1>2, <1>3 DEF ImportVisited, OnStack
<1>5. /\ deps' \in Seq(Seq(Nat)) /\ Len(deps') = Len(units) /\ DOMAIN deps' = DOMAIN units
      /\ \A j \in DOMAIN units : ToSet(deps'[j]) =
           IF j = Unit THEN ToSet(deps[j]) \cup {d} ELSE ToSet(deps[j])
  BY <1>2, <1>3, AddDepFacts
<1>6. DOMAIN deps = DOMAIN units
  BY Domains
<1>7. GraphTypeOK'
  BY <1>1, <1>2, <1>5 DEF GraphTypeOK, Call, Tree
<1>8. GraphShape'
  BY <1>1, <1>2, <1>5, <1>6 DEF GraphShape
<1>9. LoadedOnce' /\ Placed'
  BY <1>1 DEF LoadedOnce, Placed, Located
<1>10. DepsAcyclic'
  <2> SUFFICES ASSUME NEW S \in SUBSET DOMAIN units, S # {}
               PROVE  \E j \in S : ToSet(deps'[j]) \cap S = {}
    BY <1>1 DEF DepsAcyclic
  <2>1. \A j \in DOMAIN deps : Unit \notin ToSet(deps[j])
    BY <1>2 DEF StackApart
  <2> QED BY <1>2, <1>3, <1>4, <2>1, DependencyKeepsAcyclic
<1>11. Active' = Active
  BY <1>1, <1>2 DEF Active
<1>12. StackApart'
  <2>1. \A j, k \in DOMAIN frames' : frames'[j].unit = frames'[k].unit => j = k
    BY <1>1, <1>2 DEF StackApart
  <2>2. ASSUME NEW j \in DOMAIN deps' PROVE ToSet(deps'[j]) \cap Active' = {}
    BY <1>4, <1>5, <1>6, <1>11, <2>2 DEF StackApart
  <2> QED BY <2>1, <2>2 DEF StackApart
<1> QED BY <1>7, <1>8, <1>9, <1>10, <1>12

\* A file is entered: a unit that nothing depends on yet.
LEMMA ImportNewKeeps ==
  ASSUME GraphInv, StackApart, NEW p \in Paths, NEW f, ImportNew(p, f)
  PROVE  GraphInv' /\ StackApart'
<1> USE DEF GraphInv
<1> DEFINE u == Len(units) + 1
           c == [unit |-> u, next |-> 1]
<1>1. /\ units' = Append(units, f) /\ relpaths' = Append(relpaths, p)
      /\ deps' = Append(deps, << >>) /\ faulty' = (faulty \/ f \in tree.broken)
      /\ frames' = Append(frames, c) /\ UNCHANGED <<tree, order>>
      /\ f \in Located(p) /\ f \notin ToSet(units) /\ f \in Files
  BY DEF ImportNew, EnterUnit, Located
<1>2. /\ units \in Seq(Files) /\ relpaths \in Seq(Paths) /\ deps \in Seq(Seq(Nat))
      /\ frames \in Seq(Call) /\ << >> \in Seq(Nat) /\ c \in Call /\ u \in Nat
      /\ u \notin DOMAIN units
  BY Domains DEF GraphTypeOK, Call
<1>3. /\ units' \in Seq(Files) /\ Len(units') = u /\ DOMAIN units' = 1 .. u
      /\ DOMAIN units = 1 .. Len(units)
      /\ units'[u] = f /\ \A i \in DOMAIN units : units'[i] = units[i]
  BY <1>1, <1>2, AppendFacts
<1>4. /\ relpaths' \in Seq(Paths) /\ Len(relpaths') = u
      /\ relpaths'[u] = p /\ \A i \in DOMAIN units : relpaths'[i] = relpaths[i]
  BY <1>1, <1>2, AppendFacts DEF GraphShape
<1>5. /\ deps' \in Seq(Seq(Nat)) /\ Len(deps') = u /\ DOMAIN deps' = 1 .. u
      /\ deps'[u] = << >> /\ \A i \in DOMAIN units : deps'[i] = deps[i]
  BY <1>1, <1>2, <1>3, AppendFacts DEF GraphShape
<1>6. /\ frames' \in Seq(Call) /\ DOMAIN frames = 1 .. Len(frames) /\ Len(frames) \in Nat
      /\ DOMAIN frames' = 1 .. Len(frames) + 1
      /\ frames'[Len(frames) + 1] = c /\ \A k \in DOMAIN frames : frames'[k] = frames[k]
  <2> HIDE DEF c
  <2> QED BY <1>1, <1>2, AppendFacts, LenProperties
<1>7. ToSet(deps'[u]) = {} /\ DOMAIN units' = DOMAIN units \cup {u}
  <2>1. ToSet(<< >>) = {}
    BY DEF ToSet
  <2>2. DOMAIN units' = DOMAIN units \cup {u}
    BY <1>3, LenProperties, <1>2
  <2> QED BY <1>5, <2>1, <2>2
<1>8. GraphTypeOK'
  BY <1>1, <1>3, <1>4, <1>5, <1>6 DEF GraphTypeOK, Call, Tree
<1>9. GraphShape'
  <2>1. \A k \in DOMAIN frames' : frames'[k].unit \in DOMAIN units' /\ frames'[k].next >= 1
    BY <1>6, <1>7 DEF GraphShape
  <2>2. \A i \in DOMAIN deps' : ToSet(deps'[i]) \subseteq DOMAIN units'
    BY <1>3, <1>5, <1>7, Domains DEF GraphShape
  <2> QED BY <1>1, <1>3, <1>4, <1>5, <1>7, <2>1, <2>2 DEF GraphShape
<1>10. LoadedOnce'
  <2>1. \A i \in DOMAIN units : units[i] # f
    BY <1>1 DEF ToSet
  <2> QED BY <1>3, <1>7, <2>1 DEF LoadedOnce, IsInjective
<1>11. Placed'
  <2> SUFFICES ASSUME NEW i \in DOMAIN units \cup {u}
               PROVE  (units[i] \in Located(relpaths[i]))'
    BY <1>7 DEF Placed
  <2>1. CASE i = u
    <3>1. units'[i] = f /\ relpaths'[i] = p
      BY <1>3, <1>4, <2>1
    <3> QED BY <1>1, <3>1 DEF Located
  <2>2. CASE i # u
    <3>1. i \in DOMAIN units /\ units[i] \in Located(relpaths[i])
      BY <2>2 DEF Placed
    <3>2. units'[i] = units[i] /\ relpaths'[i] = relpaths[i]
      BY <1>3, <1>4, <3>1
    <3> QED BY <1>1, <3>1, <3>2 DEF Located
  <2> QED BY <2>1, <2>2
<1>12. DepsAcyclic'
  <2> SUFFICES ASSUME NEW S \in SUBSET DOMAIN units', S # {}
               PROVE  \E i \in S : ToSet(deps'[i]) \cap S = {}
    BY DEF DepsAcyclic
  <2>1. CASE u \in S
    BY <2>1, <1>7
  <2>2. CASE u \notin S
    <3>1. S \in SUBSET DOMAIN units
      BY <2>2, <1>7
    <3> QED BY <3>1, <1>5 DEF DepsAcyclic
  <2> QED BY <2>1, <2>2
<1>13. StackApart'
  <2>1. \A k \in DOMAIN frames : frames[k].unit # u
    BY <1>2 DEF GraphShape
  <2>2. \A j, k \in DOMAIN frames' : frames'[j].unit = frames'[k].unit => j = k
    BY <1>6, <2>1 DEF StackApart
  <2>3. Active' = Active \cup {u}
    BY <1>6 DEF Active
  <2>4. ASSUME NEW i \in DOMAIN deps' PROVE ToSet(deps'[i]) \cap Active' = {}
    <3>1. CASE i = u
      BY <3>1, <1>7
    <3>2. CASE i # u
      <4>1. i \in DOMAIN units /\ i \in DOMAIN deps
        BY <3>2, <1>3, <1>5, <1>7, Domains
      <4>2. ToSet(deps[i]) \cap Active = {} /\ u \notin ToSet(deps[i])
        BY <4>1, <1>2 DEF StackApart, GraphShape
      <4> QED BY <4>1, <4>2, <2>3, <1>5
    <3> QED BY <3>1, <3>2
  <2> QED BY <2>2, <2>4 DEF StackApart
<1> QED BY <1>8, <1>9, <1>10, <1>11, <1>12, <1>13

\* A call ends, and its unit becomes a dependency of the importer's.
LEMMA LoadReturnKeeps ==
  ASSUME GraphInv, StackApart, LoadReturn
  PROVE  GraphInv' /\ StackApart'
<1> USE DEF GraphInv
<1> DEFINE n == Len(frames)
           P == frames[n - 1].unit
<1>1. /\ frames # << >> /\ UNCHANGED <<tree, units, relpaths, faulty, order>>
      /\ frames \in Seq(Call) /\ n \in Nat \ {0} /\ DOMAIN frames = 1 .. n
  BY EmptySeq, LenProperties DEF LoadReturn, GraphTypeOK, Call
<1>2. LoadedOnce' /\ Placed'
  BY <1>1 DEF LoadedOnce, Placed, Located
<1>3. CASE n = 1
  <2>1. frames' = << >> /\ deps' = deps
    BY <1>3 DEF LoadReturn
  <2>2. << >> \in Seq(Call) /\ DOMAIN << >> = {}
    OBVIOUS
  <2>3. GraphTypeOK'
    BY <1>1, <2>1, <2>2 DEF GraphTypeOK, Tree, Call
  <2>4. GraphShape' /\ DepsAcyclic'
    BY <1>1, <2>1, <2>2 DEF GraphShape, DepsAcyclic
  <2>5. StackApart'
    BY <2>1, <2>2 DEF StackApart, Active
  <2> QED BY <1>2, <2>3, <2>4, <2>5
<1>4. CASE n # 1
  <2> DEFINE r == Front(frames)
             e == [r[n - 1] EXCEPT !.next = @ + 1]
  <2>1. /\ r \in Seq(Call) /\ Len(r) = n - 1 /\ DOMAIN r = 1 .. n - 1
        /\ \A k \in 1 .. n - 1 : r[k] = frames[k]
    BY <1>1, FrontFacts
  <2>2. n - 1 \in 1 .. n - 1 /\ n \in DOMAIN frames /\ n - 1 \in DOMAIN frames
    BY <1>1, <1>4
  <2>3. r[n - 1] \in Call /\ r[n - 1] = frames[n - 1] /\ r[n - 1].next >= 1
    BY <2>1, <2>2, ElementOfSeq DEF GraphShape
  <2>4. e \in Call /\ e.unit = P /\ e.next >= 1
    BY <2>3 DEF Call
  <2>5. frames' = [r EXCEPT ![n - 1] = e] /\ deps' = AddDep(P, Unit)
    BY <1>4 DEF LoadReturn
  <2>6. /\ frames' \in Seq(Call) /\ Len(frames') = n - 1
        /\ \A k \in 1 .. n - 1 : frames'[k] = IF k = n - 1 THEN e ELSE r[k]
    <3> HIDE DEF e, r
    <3> QED BY <2>1, <2>2, <2>4, <2>5, ExceptSeq
  <2>7. /\ DOMAIN frames' = 1 .. n - 1
        /\ \A k \in 1 .. n - 1 : frames'[k].unit = frames[k].unit /\ frames'[k].next >= 1
    <3>1. DOMAIN frames' = 1 .. n - 1
      BY <2>6, LenProperties
    <3>2. ASSUME NEW k \in 1 .. n - 1
          PROVE  frames'[k].unit = frames[k].unit /\ frames'[k].next >= 1
      <4>1. k \in DOMAIN frames
        BY <1>1
      <4> HIDE DEF e
      <4> QED BY <2>1, <2>4, <2>6, <4>1 DEF GraphShape
    <3> QED BY <3>1, <3>2
  <2>8. P \in DOMAIN units /\ Unit \in DOMAIN units /\ P \in Active /\ P # Unit
    BY <1>1, <2>2 DEF GraphShape, Unit, Frame, Active, StackApart
  <2>9. /\ deps' \in Seq(Seq(Nat)) /\ Len(deps') = Len(units) /\ DOMAIN deps' = DOMAIN units
        /\ \A j \in DOMAIN units : ToSet(deps'[j]) =
             IF j = P THEN ToSet(deps[j]) \cup {Unit} ELSE ToSet(deps[j])
    BY <2>5, <2>8, AddDepFacts
  <2>10. DOMAIN deps = DOMAIN units
    BY Domains
  <2>11. GraphTypeOK'
    BY <1>1, <2>6, <2>9 DEF GraphTypeOK, Tree, Call
  <2>12. GraphShape'
    <3>1. \A k \in DOMAIN frames' : frames'[k].unit \in DOMAIN units /\ frames'[k].next >= 1
      BY <1>1, <2>7 DEF GraphShape
    <3>2. \A j \in DOMAIN deps' : ToSet(deps'[j]) \subseteq DOMAIN units
      BY <2>8, <2>9, <2>10 DEF GraphShape
    <3> QED BY <1>1, <2>9, <3>1, <3>2 DEF GraphShape
  <2>13. DepsAcyclic'
    <3> SUFFICES ASSUME NEW S \in SUBSET DOMAIN units, S # {}
                 PROVE  \E j \in S : ToSet(deps'[j]) \cap S = {}
      BY <1>1 DEF DepsAcyclic
    <3>1. \A j \in DOMAIN deps : P \notin ToSet(deps[j])
      BY <2>8 DEF StackApart
    <3> HIDE DEF P
    <3> QED BY <2>5, <2>8, <3>1, DependencyKeepsAcyclic
  <2>14. StackApart'
    <3>1. \A j, k \in DOMAIN frames' : frames'[j].unit = frames'[k].unit => j = k
      BY <1>1, <2>7 DEF StackApart
    <3>2. Active' \subseteq Active /\ Unit \notin Active'
      <4>1. Active' = {frames[k].unit : k \in 1 .. n - 1}
        BY <2>7 DEF Active
      <4>2. \A k \in 1 .. n - 1 : frames[k].unit # Unit
        BY <1>1, <2>2 DEF StackApart, Unit, Frame
      <4>3. \A k \in 1 .. n - 1 : k \in DOMAIN frames
        BY <1>1
      <4> HIDE DEF n, r
      <4> QED BY <4>1, <4>2, <4>3 DEF Active
    <3>3. ASSUME NEW j \in DOMAIN deps' PROVE ToSet(deps'[j]) \cap Active' = {}
      BY <3>2, <2>9, <2>10 DEF StackApart
    <3> QED BY <3>1, <3>3 DEF StackApart
  <2> QED BY <1>2, <2>11, <2>12, <2>13, <2>14
<1> QED BY <1>3, <1>4

\* Loading keeps the graph in order.
LEMMA LoadStepKeeps ==
  ASSUME GraphInv, StackApart, LoadStep
  PROVE  GraphInv' /\ StackApart'
<1>1. ASSUME NEW p \in Paths, ImportMissing(p) PROVE GraphInv' /\ StackApart'
  BY <1>1, AdvanceKeeps DEF ImportMissing, AtImport
<1>2. ASSUME NEW p \in Paths, NEW f \in Located(p), ImportCyclic(p, f)
      PROVE  GraphInv' /\ StackApart'
  BY <1>2, AdvanceKeeps DEF ImportCyclic, AtImport
<1>3. ASSUME NEW p \in Paths, NEW f \in Located(p), ImportUnreadable(p, f)
      PROVE  GraphInv' /\ StackApart'
  BY <1>3, AdvanceKeeps DEF ImportUnreadable, AtImport, GraphInv, GraphTypeOK
<1> QED BY <1>1, <1>2, <1>3, ImportVisitedKeeps, ImportNewKeeps, LoadReturnKeeps DEF LoadStep

-----------------------------------------------------------------------------
\* The invariant: sorting

\* topo_order reads the graph; it moves between the calls and the order.
LEMMA SortStepKeeps ==
  ASSUME GraphInv, SortStep
  PROVE  GraphInv'
<1> USE DEF GraphInv
<1>1. UNCHANGED <<tree, units, relpaths, deps, faulty>>
  BY DEF SortStep, VisitRoot, Visit, VisitReturn
<1>2. LoadedOnce' /\ Placed' /\ DepsAcyclic'
  BY <1>1 DEF LoadedOnce, Placed, Located, DepsAcyclic
<1>3. /\ frames \in Seq(Call) /\ order \in Seq(Nat)
      /\ \A k \in DOMAIN frames : frames[k].unit \in DOMAIN units /\ frames[k].next >= 1
      /\ \A d \in DOMAIN units : d \in Nat /\ [unit |-> d, next |-> 1] \in Call
  BY Domains DEF GraphTypeOK, GraphShape, Call
<1>4. SUFFICES /\ frames' \in Seq(Call) /\ order' \in Seq(Nat)
               /\ \A k \in DOMAIN frames' : /\ frames'[k].unit \in DOMAIN units
                                           /\ frames'[k].next >= 1
               /\ ToSet(order') \subseteq DOMAIN units
  BY <1>1, <1>2 DEF GraphTypeOK, GraphShape, Call, Tree
<1>5. ASSUME NEW s \in Seq(Call), NEW d \in DOMAIN units,
             \A k \in DOMAIN s : s[k].unit \in DOMAIN units /\ s[k].next >= 1
      PROVE  LET t == Append(s, [unit |-> d, next |-> 1])
             IN /\ t \in Seq(Call)
                /\ \A k \in DOMAIN t : t[k].unit \in DOMAIN units /\ t[k].next >= 1
  <2> DEFINE c == [unit |-> d, next |-> 1]
             t == Append(s, c)
  <2>1. c \in Call /\ c.unit \in DOMAIN units /\ c.next >= 1
    BY <1>3
  <2> HIDE DEF c
  <2>2. /\ t \in Seq(Call) /\ DOMAIN s = 1 .. Len(s) /\ DOMAIN t = 1 .. Len(s) + 1
        /\ Len(s) \in Nat /\ t[Len(s) + 1] = c /\ \A k \in DOMAIN s : t[k] = s[k]
    BY <2>1, AppendFacts, LenProperties
  <2>3. \A k \in DOMAIN t : t[k].unit \in DOMAIN units /\ t[k].next >= 1
    BY <1>5, <2>1, <2>2
  <2> QED BY <2>2, <2>3 DEF c
<1>6. CASE VisitRoot
  <2>1. PICK i \in DOMAIN units : frames' = << [unit |-> i, next |-> 1] >> /\ order' = order
    BY <1>6 DEF VisitRoot
  <2>2. /\ << >> \in Seq(Call) /\ DOMAIN << >> = {}
        /\ frames' = Append(<< >>, [unit |-> i, next |-> 1])
    BY <2>1
  <2> QED BY <1>3, <1>5, <2>1, <2>2 DEF GraphShape
<1>7. CASE Visit
  <2> DEFINE d == deps[Unit][Frame.next]
  <2>1. /\ frames # << >> /\ order' = order /\ Frame.next <= Len(deps[Unit])
        /\ frames' = IF d \in Seen THEN Advance
                     ELSE Append(Advance, [unit |-> d, next |-> 1])
    BY <1>7 DEF Visit
  <2>2. /\ Frame \in Call /\ Frame.next >= 1 /\ Unit \in DOMAIN units
        /\ Advance \in Seq(Call) /\ DOMAIN Advance = DOMAIN frames
        /\ \A k \in DOMAIN frames : /\ Advance[k].unit = frames[k].unit
                                    /\ Advance[k].next >= 1
    BY <2>1, AdvanceFacts
  <2>3. d \in DOMAIN units
    <3>1. deps[Unit] \in Seq(Nat) /\ Unit \in DOMAIN deps /\ Frame.next \in Nat
      BY <2>2, Domains DEF Call
    <3>2. Frame.next \in DOMAIN deps[Unit]
      BY <2>1, <2>2, <3>1, LenProperties
    <3> QED BY <3>1, <3>2 DEF GraphShape, ToSet
  <2>4. \A k \in DOMAIN Advance : /\ Advance[k].unit \in DOMAIN units
                                 /\ Advance[k].next >= 1
    BY <1>3, <2>2
  <2> HIDE DEF d
  <2> QED BY <1>3, <1>5, <2>1, <2>2, <2>3, <2>4 DEF GraphShape
<1>8. CASE VisitReturn
  <2>1. frames # << >> /\ order' = Append(order, Unit) /\ frames' = Front(frames)
    BY <1>8 DEF VisitReturn
  <2>2. Unit \in DOMAIN units /\ Unit \in Nat
    BY <1>3, <2>1, AdvanceFacts
  <2>3. order' \in Seq(Nat) /\ ToSet(order') = ToSet(order) \cup {Unit}
    BY <1>3, <2>1, <2>2, AppendFacts
  <2>4. /\ frames' \in Seq(Call) /\ DOMAIN frames' = 1 .. Len(frames) - 1
        /\ Len(frames) \in Nat \ {0} /\ DOMAIN frames = 1 .. Len(frames)
        /\ \A k \in 1 .. Len(frames) - 1 : frames'[k] = frames[k]
    BY <1>3, <2>1, FrontFacts
  <2>5. \A k \in DOMAIN frames' : k \in DOMAIN frames /\ frames'[k] = frames[k]
    BY <2>4
  <2> QED BY <1>3, <2>2, <2>3, <2>4, <2>5 DEF GraphShape
<1> QED BY <1>6, <1>7, <1>8 DEF SortStep

-----------------------------------------------------------------------------
\* The invariant: a session

IInv ==
  /\ TypeOK /\ GraphInv
  /\ phase = "load" => StackApart
  /\ phase = "emit" => todo <= Len(order)

\* Only an error is reported, or nothing at all.
LEMMA UnchangedGraph ==
  ASSUME GraphInv, faulty' \in BOOLEAN,
         UNCHANGED <<tree, units, relpaths, deps, frames, order>>
  PROVE  GraphInv' /\ (StackApart => StackApart')
<1>1. GraphTypeOK'
  BY DEF GraphInv, GraphTypeOK, Tree
<1>2. GraphShape'
  BY DEF GraphInv, GraphShape
<1>3. LoadedOnce' /\ Placed'
  BY DEF GraphInv, LoadedOnce, Placed, Located
<1>4. DepsAcyclic'
  BY DEF GraphInv, DepsAcyclic
<1>5. StackApart => StackApart'
  BY DEF StackApart, Active
<1> QED BY <1>1, <1>2, <1>3, <1>4, <1>5 DEF GraphInv

\* The unit to come, its file and what it embeds.
LEMMA ThisFacts ==
  ASSUME IInv, todo <= Len(order)
  PROVE  /\ This \in DOMAIN units /\ This \in Nat /\ ThisFile \in Files
         /\ relpaths[This] \in Paths
         /\ \A e \in program.embeds[ThisFile] : OnDisk(e) \in Contents \cup {None}
<1>1. GraphTypeOK /\ GraphShape /\ todo \in DOMAIN order
  BY Domains DEF IInv, GraphInv, TypeOK
<1>2. This \in DOMAIN units
  BY <1>1 DEF GraphShape, ToSet, This
<1>3. This \in Nat /\ ThisFile \in Files /\ relpaths[This] \in Paths
  BY <1>1, <1>2, Domains DEF ThisFile
<1>4. ASSUME NEW e \in program.embeds[ThisFile] PROVE OnDisk(e) \in Contents \cup {None}
  <2>1. <<program.dir[ThisFile], e>> \in Embedded
    BY <1>3 DEF Embedded
  <2> QED BY <2>1 DEF IInv, TypeOK, OnDisk
<1> QED BY <1>2, <1>3, <1>4

LEMMA InitIInv == Init => IInv
<1> SUFFICES ASSUME Init PROVE IInv
  OBVIOUS
<1> USE DEF Init
<1>1. tree \in Tree /\ tree \in Trees
  BY TreesAssumption
<1>2. /\ << >> \in Seq(Files) /\ << >> \in Seq(Paths) /\ << >> \in Seq(Seq(Nat))
      /\ << >> \in Seq(Call) /\ << >> \in Seq(Nat) /\ Len(<< >>) = 0
      /\ << >> \in Seq([cmd: Command, exit: {0, 1}])
      /\ DOMAIN << >> = {} /\ ToSet(<< >>) = {}
  BY DEF ToSet
<1>3. GraphTypeOK
  BY <1>1, <1>2 DEF GraphTypeOK, Call
<1>4. GraphShape /\ LoadedOnce /\ Placed /\ DepsAcyclic
  BY <1>1, <1>2 DEF GraphShape, LoadedOnce, IsInjective, Placed, DepsAcyclic
<1>5. plan \in Seq(Command) /\ program \in Program
  BY <1>1, SessionsAssumption, ProgramsAssumption
<1>6. cmd \in Command
  BY DEF Command
<1>7. store \in [Names -> Nat] /\ recorded \in [Embeds -> Contents \cup {None}]
  BY DEF NoExports, NoEntries
<1>8. disk \in [Embedded -> Contents \cup {None}]
  OBVIOUS
<1>9. TypeOK
  BY <1>2, <1>3, <1>5, <1>6, <1>7, <1>8 DEF TypeOK
<1> QED BY <1>3, <1>4, <1>9 DEF IInv, GraphInv

LEMMA BeginKeeps ==
  ASSUME IInv, Begin
  PROVE  IInv'
<1>1. /\ TypeOK /\ GraphTypeOK /\ GraphShape /\ plan # << >>
      /\ cmd' = Head(plan) /\ plan' = Tail(plan)
      /\ order' = << >> /\ todo' = 1 /\ store' = NoExports
      /\ recorded' = NoEntries /\ wrote' = {} /\ expected' = LoadManifest
      /\ UNCHANGED <<tree, program, disk, manifest, past, edits>>
      /\ phase' \in {"load", "done"} /\ exit' \in {0, 1}
  BY DEF IInv, GraphInv, Begin
<1>2. cmd' \in Command /\ plan' \in Seq(Command)
  BY <1>1, HeadTailProperties DEF TypeOK
<1>3. /\ << >> \in Seq(Files) /\ << >> \in Seq(Paths) /\ << >> \in Seq(Seq(Nat))
      /\ << >> \in Seq(Call) /\ << >> \in Seq(Nat) /\ Len(<< >>) = 0
      /\ DOMAIN << >> = {} /\ ToSet(<< >>) = {}
  BY DEF ToSet
<1>4. GraphInv' /\ (phase' = "load" => StackApart')
  <2>1. CASE phase' = "done"
    <3>1. /\ units' = << >> /\ relpaths' = << >> /\ deps' = << >> /\ frames' = << >>
          /\ faulty' = FALSE
      BY <2>1 DEF Begin
    <3>2. GraphTypeOK'
      BY <1>1, <1>3, <3>1 DEF GraphTypeOK, Tree, Call
    <3>3. GraphShape' /\ LoadedOnce' /\ Placed' /\ DepsAcyclic'
      BY <1>1, <1>3, <3>1 DEF GraphShape, LoadedOnce, IsInjective, Placed, DepsAcyclic
    <3> QED BY <2>1, <3>2, <3>3 DEF GraphInv
  <2>2. CASE phase' = "load"
    <3> DEFINE c == [unit |-> 1, next |-> 1]
    <3>1. /\ units' = << Entry >> /\ relpaths' = << Stem >> /\ deps' = << << >> >>
          /\ frames' = << c >> /\ faulty' = (Entry \in tree.broken)
      BY <2>2 DEF Begin
    <3>2. c \in Call /\ c.unit = 1 /\ c.next = 1
      BY DEF Call
    <3> HIDE DEF c
    <3>3. /\ units' \in Seq(Files) /\ Len(units') = 1 /\ DOMAIN units' = {1} /\ units'[1] = Entry
          /\ relpaths' \in Seq(Paths) /\ Len(relpaths') = 1 /\ relpaths'[1] = Stem
      BY <3>1, EntryAssumption
    <3>4. deps' \in Seq(Seq(Nat)) /\ Len(deps') = 1 /\ DOMAIN deps' = {1} /\ deps'[1] = << >>
      <4> HIDE DEF c
      <4> QED BY <1>3, <3>1
    <3>5. frames' \in Seq(Call) /\ DOMAIN frames' = {1} /\ frames'[1] = c
      BY <3>1, <3>2
    <3>6. GraphTypeOK'
      BY <1>1, <1>3, <3>1, <3>3, <3>4, <3>5 DEF GraphTypeOK, Tree, Call
    <3>7. GraphShape'
      BY <1>1, <1>3, <3>2, <3>3, <3>4, <3>5 DEF GraphShape
    <3>8. LoadedOnce'
      BY <3>3 DEF LoadedOnce, IsInjective
    <3>9. Placed'
      <4>1. tree.at[Stem] \in Seq(Files \cup {None})
        BY <1>1, EntryAssumption DEF GraphTypeOK, Tree
      <4>2. /\ tree.at[Stem] # << >> /\ Head(tree.at[Stem]) = Entry
        BY <1>1, StemAssumption DEF GraphShape
      <4>3. 1 \in DOMAIN tree.at[Stem] /\ tree.at[Stem][1] = Entry
        BY <4>1, <4>2, EmptySeq, LenProperties
      <4>4. Entry \in Located(Stem)
        BY <4>3, EntryAssumption DEF Located
      <4> QED BY <1>1, <3>3, <4>4 DEF Placed, Located
    <3>10. DepsAcyclic'
      BY <1>3, <3>3, <3>4 DEF DepsAcyclic
    <3>11. StackApart'
      BY <1>3, <3>4, <3>5 DEF StackApart
    <3> QED BY <3>6, <3>7, <3>8, <3>9, <3>10, <3>11 DEF GraphInv
  <2> QED BY <1>1, <2>1, <2>2
<1>5. /\ store' \in [Names -> Nat] /\ recorded' \in [Embeds -> Contents \cup {None}]
      /\ expected' \in [Embeds -> Contents \cup {None}]
  BY <1>1 DEF NoExports, NoEntries, LoadManifest, TypeOK
<1>6. disk' \in [Embedded' -> Contents \cup {None}]
  BY <1>1 DEF Embedded, TypeOK
<1>7. TypeOK'
  BY <1>1, <1>2, <1>4, <1>5, <1>6 DEF TypeOK, GraphInv, Program
<1> QED BY <1>1, <1>4, <1>7 DEF IInv

LEMMA WorkKeeps ==
  ASSUME IInv, Work
  PROVE  IInv'
<1>1. /\ TypeOK /\ GraphInv /\ GraphTypeOK /\ GraphShape /\ todo \in Nat \ {0}
      /\ faulty \in BOOLEAN /\ Len(order) \in Nat
  BY Domains DEF IInv, GraphInv, TypeOK, GraphTypeOK
<1>2. UNCHANGED <<program, disk>> => disk' \in [Embedded' -> Contents \cup {None}]
  BY <1>1 DEF Embedded, TypeOK
<1>3. CASE Loading
  <2>1. phase = "load" /\ phase' = "load" /\ GraphInv' /\ StackApart'
    BY <1>3, LoadStepKeeps DEF Loading, IInv
  <2>2. TypeOK'
    BY <1>1, <1>2, <1>3, <2>1 DEF Loading, TypeOK, GraphInv, Program, Command
  <2> QED BY <2>1, <2>2 DEF IInv
<1>4. CASE Lower
  <2>1. GraphInv' /\ phase' \in {"done", "sort"} /\ exit' \in {0, 1}
    BY <1>1, <1>4, UnchangedGraph DEF Lower, graphVars
  <2>2. TypeOK'
    BY <1>1, <1>2, <1>4, <2>1 DEF Lower, TypeOK, GraphInv, Program, Command
  <2> QED BY <2>1, <2>2 DEF IInv
<1>5. CASE Sorting
  <2>1. GraphInv' /\ phase' \in {"sort", "check"}
    BY <1>1, <1>5, UnchangedGraph, SortStepKeeps DEF Sorting, graphVars
  <2>2. TypeOK'
    BY <1>1, <1>2, <1>5, <2>1 DEF Sorting, TypeOK, GraphInv, Program, Command
  <2> QED BY <2>1, <2>2 DEF IInv
<1>6. CASE CheckUnit
  <2>1. /\ todo <= Len(order) /\ todo' = todo /\ order' = order
        /\ UNCHANGED <<tree, units, relpaths, deps, frames, order>>
        /\ UNCHANGED <<plan, cmd, program, todo, disk, expected, manifest, wrote, past, edits>>
        /\ recorded' = Record /\ phase' \in {"emit", "done"} /\ exit' \in {0, 1}
        /\ faulty' \in BOOLEAN
    BY <1>1, <1>6 DEF CheckUnit, TypeOK
  <2>2. GraphInv'
    BY <1>1, <2>1, UnchangedGraph
  <2>3. /\ This \in Nat
        /\ \A e \in program.embeds[ThisFile] : OnDisk(e) \in Contents \cup {None}
    BY <2>1, ThisFacts
  <2>4. recorded' \in [Embeds -> Contents \cup {None}]
    BY <1>1, <2>1, <2>3 DEF Record, TypeOK
  <2>5. store' \in [Names -> Nat]
    BY <1>1, <1>6, <2>3 DEF CheckUnit, TypeOK
  <2>6. TypeOK'
    BY <1>1, <1>2, <2>1, <2>2, <2>4, <2>5 DEF TypeOK, GraphInv, Program, Command
  <2> QED BY <2>1, <2>2, <2>6 DEF IInv
<1>7. CASE SkipCheck
  <2>1. GraphInv' /\ phase' = "emit" /\ todo' = todo /\ order' = order /\ todo <= Len(order)
    BY <1>1, <1>7, UnchangedGraph DEF SkipCheck, graphVars
  <2>2. TypeOK'
    BY <1>1, <1>2, <1>7, <2>1 DEF SkipCheck, TypeOK, GraphInv, Program, Command
  <2> QED BY <2>1, <2>2 DEF IInv
<1>8. CASE EmitUnit
  <2>1. GraphInv' /\ phase' = "check" /\ todo' = todo + 1
    BY <1>1, <1>8, UnchangedGraph DEF EmitUnit, graphVars
  <2>2. relpaths[This] \in Paths
    BY <1>8, ThisFacts DEF EmitUnit, IInv
  <2>3. wrote' \in SUBSET Paths
    BY <1>1, <1>8, <2>2 DEF EmitUnit, TypeOK
  <2>4. TypeOK'
    BY <1>1, <1>2, <1>8, <2>1, <2>3 DEF EmitUnit, TypeOK, GraphInv, Program, Command
  <2> QED BY <2>1, <2>4 DEF IInv
<1>9. ASSUME NEW writable \in BOOLEAN, Finish(writable) PROVE IInv'
  <2>1. GraphInv' /\ phase' = "done" /\ exit' \in {0, 1}
    BY <1>1, <1>9, UnchangedGraph DEF Finish, graphVars
  <2>2. manifest' \in {None} \cup [Embeds -> Contents \cup {None}]
    BY <1>1, <1>9 DEF Finish, TypeOK
  <2>3. TypeOK'
    BY <1>1, <1>2, <1>9, <2>1, <2>2 DEF Finish, TypeOK, GraphInv, Program, Command
  <2> QED BY <2>1, <2>3 DEF IInv
<1>10. CASE Exit
  <2>1. GraphInv' /\ phase' = "idle"
    BY <1>1, <1>10, UnchangedGraph DEF Exit, graphVars
  <2>2. past' \in Seq([cmd: Command, exit: {0, 1}])
    <3> DEFINE r == [cmd |-> cmd, exit |-> exit]
    <3>1. r \in [cmd: Command, exit: {0, 1}]
      BY <1>1 DEF TypeOK
    <3>2. past' = Append(past, r) /\ past \in Seq([cmd: Command, exit: {0, 1}])
      BY <1>1, <1>10 DEF Exit, TypeOK
    <3> HIDE DEF r
    <3> QED BY <3>1, <3>2, AppendFacts
  <2>3. TypeOK'
    BY <1>1, <1>2, <1>10, <2>1, <2>2 DEF Exit, TypeOK, GraphInv, Program
  <2> QED BY <2>1, <2>3 DEF IInv
<1> QED BY <1>3, <1>4, <1>5, <1>6, <1>7, <1>8, <1>9, <1>10 DEF Work, IInv

LEMMA EditKeeps ==
  ASSUME IInv, NEW file \in Embedded, NEW bytes \in Contents \cup {None}, Edit(file, bytes)
  PROVE  IInv'
<1>1. GraphInv' /\ phase' = phase /\ phase = "idle"
  BY UnchangedGraph DEF Edit, graphVars, IInv, GraphInv, GraphTypeOK
<1>2. disk' \in [Embedded' -> Contents \cup {None}]
  BY DEF Edit, Embedded, IInv, TypeOK
<1>3. TypeOK'
  BY <1>1, <1>2 DEF Edit, IInv, TypeOK, GraphInv, Program, Command
<1> QED BY <1>1, <1>3 DEF IInv

LEMMA StutterKeeps ==
  ASSUME IInv, UNCHANGED vars
  PROVE  IInv'
<1>1. GraphInv' /\ (StackApart => StackApart')
  BY UnchangedGraph DEF vars, graphVars, IInv, GraphInv, GraphTypeOK
<1>2. TypeOK'
  BY <1>1 DEF vars, graphVars, IInv, TypeOK, GraphInv, Program, Command, Embedded
<1> QED BY <1>1, <1>2 DEF IInv, vars, graphVars

THEOREM Invariance == Spec => []IInv
<1>1. IInv /\ [Next]_vars => IInv'
  <2> SUFFICES ASSUME IInv, [Next]_vars PROVE IInv'
    OBVIOUS
  <2> QED BY BeginKeeps, WorkKeeps, EditKeeps, StutterKeeps DEF Next
<1> QED BY InitIInv, <1>1, PTL DEF Spec

\* Type correctness, of the driver and its module graph.
THEOREM DriverTypeCorrect == Spec => []TypeOK
<1>1. IInv => TypeOK
  BY DEF IInv
<1> QED BY Invariance, <1>1, PTL

\* Whatever the files import, cycles and diamonds and aliases included, the
\* dependencies that load_module_graph records are acyclic: topo_order and the
\* checks after it always have a unit to begin with.
THEOREM GraphAcyclic == Spec => []DepsAcyclic
<1>1. IInv => DepsAcyclic
  BY DEF IInv, GraphInv
<1> QED BY Invariance, <1>1, PTL

\* No two units of a build are written to one output path.
THEOREM OutputsNeverCollide == Spec => []OutputsApart
<1>1. ASSUME IInv PROVE OutputsApart
  <2> SUFFICES ASSUME NEW i \in DOMAIN relpaths, NEW j \in DOMAIN relpaths,
                      relpaths[i] = relpaths[j]
               PROVE  i = j
    BY DEF OutputsApart, IsInjective
  <2>1. i \in DOMAIN units /\ j \in DOMAIN units /\ relpaths[i] \in Paths /\ GraphTypeOK
    BY <1>1, Domains DEF IInv, GraphInv
  <2>2. units[i] \in Located(relpaths[i]) /\ units[j] \in Located(relpaths[i])
    BY <1>1, <2>1 DEF IInv, GraphInv, Placed
  <2>3. units[i] = units[j]
    BY <2>1, <2>2, LocatedIsOne
  <2> QED BY <1>1, <2>1, <2>3 DEF IInv, GraphInv, LoadedOnce, IsInjective
<1> QED BY Invariance, <1>1, PTL

-----------------------------------------------------------------------------
\* Enforcing a manifest

\* What file f embeds is what the manifest pins.
Held(f) ==
  \A e \in program.embeds[f] :
    disk[<<program.dir[f], e>>] = manifest[e] /\ manifest[e] # None

\* The manifest enforced is the one on disk, the units are checked in an order
\* that leaves none out, and those checked so far embed what it pins.
PinInv ==
  /\ phase \in {"load", "sort"} => todo = 1
  /\ phase \in {"load", "sort", "check", "emit"} /\ cmd.mode = "Enforce" => expected = manifest
  /\ phase \in {"check", "emit"} => DOMAIN units \subseteq ToSet(order)
  /\ phase \in {"check", "emit"} /\ cmd.mode = "Enforce" /\ cmd.checked =>
       \A k \in DOMAIN order :
         k < todo \/ (phase = "emit" /\ k = todo) => Held(units[order[k]])
  /\ EmbedsPinned

LEMMA CheckUnitPins ==
  ASSUME IInv, PinInv, CheckUnit
  PROVE  PinInv'
<1>1. /\ phase = "check" /\ todo <= Len(order) /\ phase' \in {"emit", "done"}
      /\ phase' = "done" => exit' = 1
      /\ UNCHANGED <<units, order, cmd, program, todo, disk, expected, manifest>>
  BY DEF CheckUnit
<1>2. \A k \in DOMAIN order : k \in Nat /\ todo \in Nat
  BY Domains DEF IInv, GraphInv, TypeOK
<1>3. ASSUME phase' = "emit", cmd.mode = "Enforce" PROVE Held(ThisFile)
  <2> SUFFICES ASSUME NEW e \in program.embeds[ThisFile]
               PROVE  disk[<<program.dir[ThisFile], e>>] = manifest[e] /\ manifest[e] # None
    BY DEF Held
  <2>1. Readable(e) /\ expected = manifest
    BY <1>1, <1>3 DEF CheckUnit, Sound, PinInv
  <2> QED BY <1>3, <2>1 DEF Readable, Pinned, OnDisk
<1>4. ASSUME phase' = "emit", cmd.mode = "Enforce", cmd.checked,
             NEW k \in DOMAIN order, k < todo \/ k = todo
      PROVE  Held(units[order[k]])'
  <2>1. Held(units[order[k]])
    BY <1>1, <1>3, <1>4 DEF PinInv, ThisFile, This
  <2> QED BY <1>1, <2>1 DEF Held
<1>5. EmbedsPinned'
  BY <1>1 DEF EmbedsPinned
<1>6. /\ phase' \in {"check", "emit"} => DOMAIN units' \subseteq ToSet(order')
      /\ cmd'.mode = "Enforce" => expected' = manifest'
  BY <1>1 DEF PinInv
<1> QED BY <1>1, <1>4, <1>5, <1>6 DEF PinInv

LEMMA FinishPins ==
  ASSUME IInv, PinInv, NEW writable \in BOOLEAN, Finish(writable)
  PROVE  PinInv'
<1>1. /\ phase = "check" /\ todo > Len(order) /\ phase' = "done"
      /\ UNCHANGED <<units, order, cmd, program, disk>>
      /\ cmd.mode = "Enforce" => manifest' = manifest
  BY DEF Finish, graphVars
<1>2. ASSUME cmd.mode = "Enforce", cmd.checked, NEW i \in DOMAIN units
      PROVE  Held(units[i])
  <2>1. PICK k \in DOMAIN order : i = order[k]
    BY <1>1 DEF PinInv, ToSet
  <2>2. k < todo
    BY <1>1, Domains DEF IInv, GraphInv, TypeOK
  <2> QED BY <1>1, <1>2, <2>1, <2>2 DEF PinInv
<1>3. EmbedsPinned'
  BY <1>1, <1>2 DEF EmbedsPinned, Held
<1> QED BY <1>1, <1>3 DEF PinInv

LEMMA WorkPins ==
  ASSUME IInv, PinInv, Work
  PROVE  PinInv'
<1>1. CASE Loading
  BY <1>1 DEF Loading, PinInv, EmbedsPinned
<1>2. CASE Lower
  BY <1>2 DEF Lower, PinInv, EmbedsPinned
<1>3. CASE Sorting
  <2>1. /\ phase = "sort" /\ phase' \in {"sort", "check"}
        /\ UNCHANGED <<cmd, todo, expected, manifest>>
    BY <1>3 DEF Sorting
  <2>2. phase' = "check" => DOMAIN units' \subseteq ToSet(order')
    <3>1. ASSUME phase' = "check" PROVE Sorted /\ UNCHANGED graphVars
      BY <1>3, <2>1, <3>1 DEF Sorting
    <3>2. frames = << >> => Active = {}
      BY DEF Active
    <3> QED BY <3>1, <3>2 DEF Sorted, Seen, graphVars
  <2>3. ASSUME NEW k \in DOMAIN order' PROVE ~(k < 1)
    <3>1. order' \in Seq(Nat)
      BY WorkKeeps DEF IInv, TypeOK, GraphTypeOK
    <3> QED BY <3>1, LenProperties
  <2> QED BY <2>1, <2>2, <2>3 DEF PinInv, EmbedsPinned
<1>4. CASE SkipCheck
  <2>1. /\ phase = "check" /\ phase' = "emit" /\ ~cmd.checked
        /\ UNCHANGED <<units, order, cmd, program, todo, disk, expected, manifest>>
    BY <1>4 DEF SkipCheck, graphVars
  <2> QED BY <2>1 DEF PinInv, EmbedsPinned
<1>5. CASE EmitUnit
  <2>1. /\ phase = "emit" /\ phase' = "check" /\ todo' = todo + 1
        /\ UNCHANGED <<units, order, cmd, program, disk, expected, manifest>>
    BY <1>5 DEF EmitUnit, graphVars
  <2>2. \A k \in DOMAIN order : k < todo + 1 => k < todo \/ k = todo
    BY Domains DEF IInv, GraphInv, TypeOK
  <2> QED BY <2>1, <2>2 DEF PinInv, EmbedsPinned, Held
<1>6. CASE Exit
  BY <1>6 DEF Exit, PinInv, EmbedsPinned
<1> QED BY <1>1, <1>2, <1>3, <1>4, <1>5, <1>6, CheckUnitPins, FinishPins DEF Work

LEMMA PinInvariance == Spec => []PinInv
<1>1. Init => PinInv
  BY DEF Init, PinInv, EmbedsPinned
<1>2. IInv /\ PinInv /\ [Next]_vars => PinInv'
  <2> SUFFICES ASSUME IInv, PinInv, [Next]_vars PROVE PinInv'
    OBVIOUS
  <2>1. CASE Begin
    <3>1. /\ phase' \in {"load", "done"} /\ todo' = 1 /\ manifest' = manifest
          /\ phase' = "done" => exit' = 1
          /\ phase' = "load" /\ cmd'.mode = "Enforce" => expected' = manifest
      BY <2>1 DEF Begin, LoadManifest
    <3> QED BY <3>1 DEF PinInv, EmbedsPinned
  <2>2. CASE Work
    BY <2>2, WorkPins
  <2>3. ASSUME NEW file \in Embedded, NEW bytes \in Contents \cup {None}, Edit(file, bytes)
        PROVE  PinInv'
    BY <2>3 DEF Edit, PinInv, EmbedsPinned
  <2>4. CASE UNCHANGED vars
    BY <2>4 DEF vars, graphVars, PinInv, EmbedsPinned, Held
  <2> QED BY <2>1, <2>2, <2>3, <2>4 DEF Next
<1> QED BY Invariance, <1>1, <1>2, PTL DEF Spec

\* A build that enforces an embed manifest and exits 0 has embedded, in every
\* unit of the program, exactly the bytes the manifest pins.
THEOREM EnforcedEmbedsPinned == Spec => []EmbedsPinned
<1>1. PinInv => EmbedsPinned
  BY DEF PinInv
<1> QED BY PinInvariance, <1>1, PTL
=============================================================================
