--------------------------- MODULE Ending_proofs ---------------------------
(***************************************************************************)
(* A command cannot run for ever, whatever the files import: every step of *)
(* it takes a rank down in a well-founded order.  The rank says which      *)
(* stage the command is in, how many files or units that stage may still   *)
(* come to, how many calls may still end or begin before it comes to one,  *)
(* and how many turns the loop of the call on top has left.                *)
(***************************************************************************)
EXTENDS BuildVerdict_proofs, FiniteSets, FiniteSetTheorems, WellFoundedInduction

-----------------------------------------------------------------------------
\* The rank and its order

\* The turns left of a loop over s that has come to position k.
TurnsLeft(k, s) == IF k <= Len(s) THEN Len(s) + 1 - k ELSE 0

ImportsLeft == IF frames = << >> THEN 0 ELSE TurnsLeft(Frame.next, Import)
DepsLeft == IF frames = << >> THEN 0 ELSE TurnsLeft(Frame.next, deps[Unit])

\* load: files not loaded; calls of load; imports of the file on top.
LoadRank ==
  << <<4, Cardinality(Files \ ToSet(units))>>, <<Len(frames), ImportsLeft>> >>

\* topo_order: units not listed; units nobody visits; dependencies of the unit on top.
SortRank ==
  << <<3, Cardinality(DOMAIN units \ ToSet(order))>>,
     <<Cardinality(DOMAIN units \ Active), DepsLeft>> >>

\* The loop of run_build: units to come; whether the unit is still to be checked.
UnitsRank(unchecked) == << <<2, TurnsLeft(todo, order)>>, <<unchecked, 0>> >>

Rank ==
  CASE phase = "load"  -> LoadRank
    [] phase = "sort"  -> SortRank
    [] phase = "check" -> UnitsRank(1)
    [] phase = "emit"  -> UnitsRank(0)
    [] phase = "done"  -> << <<1, 0>>, <<0, 0>> >>
    [] phase = "idle"  -> << <<0, 0>>, <<0, 0>> >>

Pairs == Nat \X Nat
Ranks == Pairs \X Pairs
NatBelow == {ss \in Nat \X Nat : ss[1] < ss[2]}
PairBelow == LexPairOrdering(NatBelow, NatBelow, Nat, Nat)
Below == LexPairOrdering(PairBelow, PairBelow, Pairs, Pairs)

LEMMA BelowWellFounded == IsWellFoundedOn(Below, Ranks)
<1>1. IsWellFoundedOn(NatBelow, Nat)
  BY NatLessThanWellFounded DEF NatBelow, OpToRel
<1>2. IsWellFoundedOn(PairBelow, Pairs)
  BY <1>1, WFLexPairOrdering DEF PairBelow, Pairs
<1> QED BY <1>2, WFLexPairOrdering DEF Below, Ranks

LEMMA PairBelowIs ==
  ASSUME NEW a \in Nat, NEW b \in Nat, NEW c \in Nat, NEW d \in Nat,
         a < c \/ (a = c /\ b < d)
  PROVE  << <<a, b>>, <<c, d>> >> \in PairBelow
<1>1. a < c => <<a, c>> \in NatBelow
  BY DEF NatBelow
<1>2. b < d => <<b, d>> \in NatBelow
  BY DEF NatBelow
<1> QED BY <1>1, <1>2 DEF PairBelow, LexPairOrdering

\* A later stage is below an earlier one ...
LEMMA StageOver ==
  ASSUME NEW k \in Nat, NEW a \in Nat, NEW b \in Nat, NEW c \in Nat,
         NEW l \in Nat, NEW e \in Nat, NEW g \in Nat, NEW h \in Nat, k < l
  PROVE  << << <<k, a>>, <<b, c>> >>, << <<l, e>>, <<g, h>> >> >> \in Below
<1>1. <<k, a>> \in Pairs /\ <<b, c>> \in Pairs /\ <<l, e>> \in Pairs /\ <<g, h>> \in Pairs
  BY DEF Pairs
<1>2. << <<k, a>>, <<l, e>> >> \in PairBelow
  BY PairBelowIs
<1> QED BY <1>1, <1>2 DEF Below, LexPairOrdering

\* ... and within a stage three numbers are compared, one after the other.
LEMMA WithinStage ==
  ASSUME NEW k \in Nat, NEW a \in Nat, NEW b \in Nat, NEW c \in Nat,
         NEW e \in Nat, NEW g \in Nat, NEW h \in Nat,
         a < e \/ (a = e /\ b < g) \/ (a = e /\ b = g /\ c < h)
  PROVE  << << <<k, a>>, <<b, c>> >>, << <<k, e>>, <<g, h>> >> >> \in Below
<1>1. <<k, a>> \in Pairs /\ <<b, c>> \in Pairs /\ <<k, e>> \in Pairs /\ <<g, h>> \in Pairs
  BY DEF Pairs
<1>2. CASE a < e
  <2>1. << <<k, a>>, <<k, e>> >> \in PairBelow
    BY <1>2, PairBelowIs
  <2> QED BY <1>1, <2>1 DEF Below, LexPairOrdering
<1>3. CASE a = e /\ (b < g \/ (b = g /\ c < h))
  <2>1. << <<b, c>>, <<g, h>> >> \in PairBelow
    BY <1>3, PairBelowIs
  <2> QED BY <1>1, <1>3, <2>1 DEF Below, LexPairOrdering
<1> QED BY <1>2, <1>3

LEMMA TurnsLeftNat ==
  ASSUME NEW S, NEW s \in Seq(S), NEW k \in Nat
  PROVE  /\ TurnsLeft(k, s) \in Nat
         /\ k <= Len(s) => k + 1 \in Nat /\ TurnsLeft(k + 1, s) < TurnsLeft(k, s)
<1>1. Len(s) \in Nat
  BY LenProperties
<1> QED BY <1>1 DEF TurnsLeft

\* One element less is left to come to.
LEMMA OneLess ==
  ASSUME NEW S, IsFiniteSet(S), NEW T, NEW x \in S \ T
  PROVE  /\ Cardinality(S \ T) \in Nat /\ Cardinality(S \ (T \cup {x})) \in Nat
         /\ Cardinality(S \ (T \cup {x})) < Cardinality(S \ T)
<1>1. PICK R, Q : R = S \ T /\ Q = S \ (T \cup {x})
  OBVIOUS
<1>2. x \in R /\ Q = R \ {x}
  BY <1>1
<1>3. IsFiniteSet(R)
  BY <1>1, FS_Subset
<1>4. IsFiniteSet(Q) /\ Cardinality(Q) = Cardinality(R) - 1
  BY <1>2, <1>3, FS_RemoveElement
<1>5. Cardinality(R) \in Nat /\ Cardinality(Q) \in Nat
  BY <1>3, <1>4, FS_CardinalityType
<1>6. Cardinality(Q) < Cardinality(R)
  BY <1>4, <1>5
<1> QED BY <1>1, <1>5, <1>6, Zenon

LEMMA SomeLeft ==
  ASSUME NEW S, IsFiniteSet(S), NEW T
  PROVE  Cardinality(S \ T) \in Nat
<1>1. IsFiniteSet(S \ T)
  BY FS_Subset
<1> QED BY <1>1, FS_CardinalityType

LEMMA UnitsFinite ==
  ASSUME GraphTypeOK
  PROVE  IsFiniteSet(DOMAIN units)
<1>1. DOMAIN units = 1 .. Len(units) /\ Len(units) \in Nat
  BY LenProperties DEF GraphTypeOK
<1>2. 1 \in Int /\ Len(units) \in Int
  BY <1>1
<1>3. IsFiniteSet(1 .. Len(units))
  BY <1>2, FS_Interval, Zenon
<1> QED BY <1>1, <1>3

\* The turns left are a number, before a step and after it.
LEMMA TurnsNow ==
  ASSUME GraphTypeOK, GraphShape
  PROVE  Len(frames) \in Nat /\ ImportsLeft \in Nat /\ DepsLeft \in Nat
<1>1. Len(frames) \in Nat
  BY Domains
<1>2. CASE frames = << >>
  BY <1>1, <1>2 DEF ImportsLeft, DepsLeft
<1>3. CASE frames # << >>
  <2>1. Frame \in Call /\ Unit \in DOMAIN units
    BY <1>3, AdvanceFacts
  <2>2. Import \in Seq(Paths) /\ deps[Unit] \in Seq(Nat) /\ Frame.next \in Nat
    BY <2>1, Domains DEF Import, Call, GraphTypeOK, Tree
  <2>3. TurnsLeft(Frame.next, Import) \in Nat /\ TurnsLeft(Frame.next, deps[Unit]) \in Nat
    BY <2>2, TurnsLeftNat
  <2> QED BY <1>1, <1>3, <2>3 DEF ImportsLeft, DepsLeft
<1> QED BY <1>2, <1>3

LEMMA TurnsNext ==
  ASSUME GraphTypeOK', GraphShape'
  PROVE  Len(frames') \in Nat /\ ImportsLeft' \in Nat /\ DepsLeft' \in Nat
<1>1. /\ frames' \in Seq(Call) /\ units' \in Seq(Files) /\ deps' \in Seq(Seq(Nat))
      /\ tree' \in Tree /\ Len(deps') = Len(units')
  BY DEF GraphTypeOK, GraphShape, Call
<1>2. Len(frames') \in Nat /\ DOMAIN frames' = 1 .. Len(frames')
  BY <1>1, LenProperties
<1>3. CASE frames' = << >>
  BY <1>2, <1>3 DEF ImportsLeft, DepsLeft
<1>4. CASE frames' # << >>
  <2>1. Len(frames') \in DOMAIN frames'
    BY <1>1, <1>2, <1>4, EmptySeq
  <2>2. Frame' \in Call /\ Unit' \in DOMAIN units'
    BY <1>1, <1>2, <2>1, ElementOfSeq DEF Frame, Unit, GraphShape
  <2>3. units'[Unit'] \in Files /\ deps'[Unit'] \in Seq(Nat)
    BY <1>1, <2>2, ElementOfSeq, LenProperties
  <2>4. Import' \in Seq(Paths) /\ Frame'.next \in Nat
    BY <1>1, <2>2, <2>3 DEF Import, Call, Tree
  <2>5. TurnsLeft(Frame'.next, Import') \in Nat /\ TurnsLeft(Frame'.next, deps'[Unit']) \in Nat
    BY <2>3, <2>4, TurnsLeftNat
  <2> QED BY <1>2, <1>4, <2>5 DEF ImportsLeft, DepsLeft
<1> QED BY <1>3, <1>4

LEMMA AdvancedCall ==
  ASSUME GraphTypeOK, GraphShape, frames # << >>, frames' = Advance
  PROVE  /\ Len(frames') = Len(frames) /\ frames' # << >>
         /\ Frame'.next = Frame.next + 1 /\ Unit' = Unit /\ Active' = Active
<1>1. /\ Len(frames) \in DOMAIN frames /\ Advance \in Seq(Call) /\ DOMAIN Advance = DOMAIN frames
      /\ Len(frames) \in Nat /\ DOMAIN frames = 1 .. Len(frames)
  BY AdvanceFacts, Domains
<1>2. Len(Advance) = Len(frames)
  BY <1>1, LenProperties
<1>3. Advance # << >>
  BY <1>1
<1>4. \A k \in DOMAIN frames : Advance[k].unit = frames[k].unit
  BY AdvanceFacts
<1>5. /\ Advance[Len(frames)].unit = frames[Len(frames)].unit
      /\ Advance[Len(frames)].next = frames[Len(frames)].next + 1
  BY <1>1, AdvanceIs
<1>6. Active' = Active
  BY <1>1, <1>4 DEF Active
<1> QED BY <1>2, <1>3, <1>5, <1>6 DEF Frame, Unit

-----------------------------------------------------------------------------
\* Loading and sorting

LEMMA LoadStepFalls ==
  ASSUME IsFiniteSet(Files), GraphInv, StackApart, LoadStep
  PROVE  <<LoadRank', LoadRank>> \in Below
<1>1. GraphTypeOK /\ GraphShape /\ GraphTypeOK' /\ GraphShape'
  BY LoadStepKeeps DEF GraphInv
<1>2. PICK a, b, c, e, g, h :
        /\ a = Cardinality(Files \ ToSet(units)') /\ e = Cardinality(Files \ ToSet(units))
        /\ b = Len(frames') /\ g = Len(frames) /\ c = ImportsLeft' /\ h = ImportsLeft
  OBVIOUS
<1>3. a \in Nat /\ b \in Nat /\ c \in Nat /\ e \in Nat /\ g \in Nat /\ h \in Nat
  BY <1>1, <1>2, TurnsNow, TurnsNext, SomeLeft
<1>4. LoadRank = << <<4, e>>, <<g, h>> >> /\ LoadRank' = << <<4, a>>, <<b, c>> >>
  BY <1>2 DEF LoadRank
<1>5. SUFFICES a < e \/ (a = e /\ b < g) \/ (a = e /\ b = g /\ c < h)
  <2>1. << << <<4, a>>, <<b, c>> >>, << <<4, e>>, <<g, h>> >> >> \in Below
    BY <1>3, 4 \in Nat, WithinStage, Zenon
  <2> QED BY <1>4, <2>1, Zenon
<1>6. ASSUME NEW p \in Paths, AtImport(p), frames' = Advance, UNCHANGED <<tree, units>>
      PROVE  a = e /\ b = g /\ c < h
  <2>1. /\ frames # << >> /\ Frame.next <= Len(Import) /\ Frame \in Call /\ Unit \in DOMAIN units
    BY <1>1, <1>6, AdvanceFacts DEF AtImport
  <2>2. /\ Len(frames') = Len(frames) /\ frames' # << >>
        /\ Frame'.next = Frame.next + 1 /\ Unit' = Unit
    BY <1>1, <1>6, <2>1, AdvancedCall
  <2>3. Import \in Seq(Paths) /\ Frame.next \in Nat /\ Import' = Import
    BY <1>1, <1>6, <2>1, <2>2, Domains DEF Import, Call, GraphTypeOK, Tree
  <2>4. TurnsLeft(Frame.next + 1, Import) < TurnsLeft(Frame.next, Import)
    BY <2>1, <2>3, TurnsLeftNat
  <2> QED BY <1>2, <1>6, <2>1, <2>2, <2>3, <2>4 DEF ImportsLeft
<1>7. ASSUME NEW p \in Paths, NEW f \in Located(p), ImportNew(p, f)
      PROVE  a < e
  <2>1. f \in Files \ ToSet(units)
    BY <1>7 DEF ImportNew, Located
  <2>2. units \in Seq(Files) /\ units' = Append(units, f)
    BY <1>1, <1>7 DEF ImportNew, EnterUnit, GraphTypeOK
  <2>3. ToSet(units)' = ToSet(units) \cup {f}
    BY <2>1, <2>2, AppendFacts
  <2> QED BY <1>2, <2>1, <2>3, OneLess
<1>8. ASSUME LoadReturn
      PROVE  a = e /\ b < g
  <2>1. frames # << >> /\ units' = units /\ frames \in Seq(Call)
    BY <1>1, <1>8 DEF LoadReturn, GraphTypeOK, Call
  <2>2. Len(Front(frames)) = Len(frames) - 1 /\ Front(frames) \in Seq(Call)
    BY <2>1, FrontFacts
  <2>3. Len(frames') = Len(frames) - 1
    <3>1. CASE Len(frames) = 1
      BY <1>8, <3>1 DEF LoadReturn
    <3>2. CASE Len(frames) # 1
      <4> DEFINE n == Len(frames)
      <4>1. frames' = [Front(frames) EXCEPT ![n - 1].next = @ + 1]
        BY <1>8, <3>2 DEF LoadReturn
      <4>2. DOMAIN frames' = DOMAIN Front(frames) /\ DOMAIN Front(frames) = 1 .. n - 1
        BY <2>1, <4>1, FrontFacts
      <4>3. frames' \in Seq(Call) /\ n - 1 \in Nat
        BY <1>1, <2>1, FrontFacts DEF GraphTypeOK, Call
      <4> QED BY <4>2, <4>3, LenProperties
    <3> QED BY <3>1, <3>2
  <2> QED BY <1>2, <1>3, <2>1, <2>3
<1>9. QED
  BY <1>6, <1>7, <1>8 DEF LoadStep, ImportMissing, ImportCyclic, ImportVisited, ImportUnreadable

LEMMA SortStepFalls ==
  ASSUME GraphInv, SortInv, SortStep
  PROVE  <<SortRank', SortRank>> \in Below
<1>1. GraphTypeOK /\ GraphShape /\ GraphTypeOK' /\ GraphShape' /\ UNCHANGED <<units, deps>>
  BY SortStepKeeps DEF GraphInv, SortStep, VisitRoot, Visit, VisitReturn
<1>2. PICK a, b, c, e, g, h :
        /\ a = Cardinality(DOMAIN units \ ToSet(order)') /\ e = Cardinality(DOMAIN units \ ToSet(order))
        /\ b = Cardinality(DOMAIN units \ Active') /\ g = Cardinality(DOMAIN units \ Active)
        /\ c = DepsLeft' /\ h = DepsLeft
  OBVIOUS
<1>3. a \in Nat /\ b \in Nat /\ c \in Nat /\ e \in Nat /\ g \in Nat /\ h \in Nat
  BY <1>1, <1>2, TurnsNow, TurnsNext, SomeLeft, UnitsFinite
<1>4. SortRank = << <<3, e>>, <<g, h>> >> /\ SortRank' = << <<3, a>>, <<b, c>> >>
  BY <1>1, <1>2 DEF SortRank
<1>5. SUFFICES a < e \/ (a = e /\ b < g) \/ (a = e /\ b = g /\ c < h)
  <2>1. << << <<3, a>>, <<b, c>> >>, << <<3, e>>, <<g, h>> >> >> \in Below
    BY <1>3, 3 \in Nat, WithinStage, Zenon
  <2> QED BY <1>4, <2>1, Zenon
<1>6. ASSUME NEW d \in DOMAIN units \ Active, Active' = Active \cup {d}, order' = order
      PROVE  a = e /\ b < g
  BY <1>1, <1>2, <1>6, UnitsFinite, OneLess
<1>7. CASE VisitRoot
  <2>1. PICK d \in DOMAIN units \ Seen : frames' = << [unit |-> d, next |-> 1] >>
    BY <1>7 DEF VisitRoot
  <2>2. frames = << >> /\ order' = order
    BY <1>7 DEF VisitRoot
  <2>3. Active = {} /\ Active' = {d}
    BY <2>1, <2>2 DEF Active
  <2> QED BY <1>6, <2>1, <2>2, <2>3
<1>8. CASE Visit
  <2>1. PICK d : d = deps[Unit][Frame.next]
    OBVIOUS
  <2>2. /\ frames # << >> /\ order' = order /\ Frame.next <= Len(deps[Unit])
        /\ frames' = IF d \in Seen THEN Advance ELSE Append(Advance, [unit |-> d, next |-> 1])
    BY <1>8, <2>1 DEF Visit
  <2>3. /\ Frame \in Call /\ Unit \in DOMAIN units /\ Frame.next >= 1 /\ Frame.next \in Nat
        /\ deps[Unit] \in Seq(Nat) /\ Unit \in DOMAIN deps
    BY <1>1, <2>2, AdvanceFacts, Domains DEF Call
  <2>4. CASE d \in Seen
    <3>1. /\ frames' # << >> /\ Frame'.next = Frame.next + 1 /\ Unit' = Unit /\ Active' = Active
      BY <1>1, <2>2, <2>4, AdvancedCall
    <3>2. TurnsLeft(Frame.next + 1, deps[Unit]) < TurnsLeft(Frame.next, deps[Unit])
      BY <2>2, <2>3, TurnsLeftNat
    <3> QED BY <1>1, <1>2, <2>2, <3>1, <3>2 DEF DepsLeft
  <2>5. CASE d \notin Seen
    <3>1. d \in DOMAIN units /\ d \in Nat
      <4>1. d \in ToSet(deps[Unit])
        BY <2>1, <2>2, <2>3, LenProperties DEF ToSet
      <4> QED BY <1>1, <2>3, <4>1, Domains DEF GraphShape
    <3>2. /\ Advance \in Seq(Call) /\ DOMAIN Advance = DOMAIN frames
          /\ \A k \in DOMAIN frames : Advance[k].unit = frames[k].unit
      BY <1>1, <2>2, AdvanceFacts
    <3>3. PICK n : n = Len(Advance)
      OBVIOUS
    <3>4. /\ n \in Nat /\ DOMAIN frames = 1 .. n /\ DOMAIN frames' = 1 .. n + 1
          /\ \A k \in 1 .. n : frames'[k] = Advance[k]
          /\ frames'[n + 1].unit = d
      BY <2>2, <2>5, <3>1, <3>2, <3>3, CallFacts
    <3>5. Active' = Active \cup {d}
      <4>1. DOMAIN frames' = DOMAIN frames \cup {n + 1}
        BY <3>4
      <4>2. \A k \in DOMAIN frames : frames'[k].unit = frames[k].unit
        BY <3>2, <3>4
      <4> QED BY <3>4, <4>1, <4>2 DEF Active
    <3> QED BY <1>6, <2>2, <2>5, <3>1, <3>5 DEF Seen
  <2> QED BY <2>4, <2>5
<1>9. CASE VisitReturn
  <2>1. frames # << >> /\ order' = Append(order, Unit) /\ order \in Seq(Nat)
    BY <1>1, <1>9 DEF VisitReturn, GraphTypeOK
  <2>2. Unit \in DOMAIN units /\ Unit \in Active /\ Unit \in Nat
    BY <1>1, <2>1, AdvanceFacts, Domains
  <2>3. Unit \in DOMAIN units \ ToSet(order)
    BY <2>2 DEF SortInv, VisitedOnce
  <2>4. ToSet(order)' = ToSet(order) \cup {Unit}
    BY <2>1, <2>2, AppendFacts
  <2> QED BY <1>1, <1>2, <2>3, <2>4, UnitsFinite, OneLess
<1>10. QED
  BY <1>7, <1>8, <1>9 DEF SortStep

-----------------------------------------------------------------------------
\* The command

\* What the rank of a stage consists of is a number.
LEMMA NumbersNow ==
  ASSUME IsFiniteSet(Files), IInv
  PROVE  /\ Cardinality(Files \ ToSet(units)) \in Nat /\ Len(frames) \in Nat /\ ImportsLeft \in Nat
         /\ Cardinality(DOMAIN units \ ToSet(order)) \in Nat
         /\ Cardinality(DOMAIN units \ Active) \in Nat /\ DepsLeft \in Nat
         /\ TurnsLeft(todo, order) \in Nat
<1>1. GraphTypeOK /\ GraphShape /\ todo \in Nat /\ order \in Seq(Nat)
  BY DEF IInv, GraphInv, GraphTypeOK, TypeOK
<1>2. IsFiniteSet(DOMAIN units)
  BY <1>1, UnitsFinite
<1> QED BY <1>1, <1>2, SomeLeft, TurnsNow, TurnsLeftNat

LEMMA WorkFalls ==
  ASSUME IsFiniteSet(Files), IInv, VerdictInv, Work
  PROVE  <<Rank', Rank>> \in Below
<1>1. /\ GraphInv /\ GraphTypeOK /\ todo \in Nat \ {0} /\ order \in Seq(Nat)
      /\ phase = "load" => StackApart
      /\ phase = "sort" => SortInv
  BY DEF IInv, GraphInv, GraphTypeOK, TypeOK, VerdictInv
<1>2. PICK a, b, c, e, g, h, l :
        /\ a = Cardinality(Files \ ToSet(units)) /\ b = Len(frames) /\ c = ImportsLeft
        /\ e = Cardinality(DOMAIN units \ ToSet(order)) /\ g = Cardinality(DOMAIN units \ Active)
        /\ h = DepsLeft /\ l = TurnsLeft(todo, order)
  OBVIOUS
<1>3. /\ a \in Nat /\ b \in Nat /\ c \in Nat /\ e \in Nat /\ g \in Nat /\ h \in Nat /\ l \in Nat
      /\ 0 \in Nat /\ 1 \in Nat /\ 2 \in Nat /\ 3 \in Nat /\ 4 \in Nat
  BY <1>2, NumbersNow
<1>4. /\ phase = "load" => Rank = << <<4, a>>, <<b, c>> >>
      /\ phase = "sort" => Rank = << <<3, e>>, <<g, h>> >>
      /\ phase = "check" => Rank = << <<2, l>>, <<1, 0>> >>
      /\ phase = "emit" => Rank = << <<2, l>>, <<0, 0>> >>
      /\ phase = "done" => Rank = << <<1, 0>>, <<0, 0>> >>
  BY <1>2 DEF Rank, LoadRank, SortRank, UnitsRank
<1>5. /\ phase' = "check" => Rank' = << <<2, TurnsLeft(todo', order')>>, <<1, 0>> >>
      /\ phase' = "emit" => Rank' = << <<2, TurnsLeft(todo', order')>>, <<0, 0>> >>
      /\ phase' = "done" => Rank' = << <<1, 0>>, <<0, 0>> >>
      /\ phase' = "idle" => Rank' = << <<0, 0>>, <<0, 0>> >>
  BY DEF Rank, UnitsRank
<1>6. 0 < 1 /\ 1 < 2 /\ 1 < 3 /\ 1 < 4 /\ 2 < 3 /\ 3 < 4
  OBVIOUS
<1>7. ASSUME phase \in {"load", "sort", "check"}, phase' = "done"
      PROVE  <<Rank', Rank>> \in Below
  <2>1. PICK k, x, y, z \in Nat : 1 < k /\ Rank = << <<k, x>>, <<y, z>> >>
    BY <1>3, <1>4, <1>7
  <2>2. << << <<1, 0>>, <<0, 0>> >>, << <<k, x>>, <<y, z>> >> >> \in Below
    BY <1>3, <2>1, StageOver, Zenon
  <2> QED BY <1>5, <1>7, <2>1, <2>2, Zenon
<1>8. CASE Loading
  <2>1. phase = "load" /\ phase' = "load" /\ LoadStep
    BY <1>8 DEF Loading
  <2>2. Rank = LoadRank /\ Rank' = LoadRank'
    BY <2>1 DEF Rank
  <2> QED BY <1>1, <2>1, <2>2, LoadStepFalls
<1>9. CASE Lower
  <2>1. phase = "load" /\ phase' \in {"sort", "done"} /\ UNCHANGED graphVars
    BY <1>9 DEF Lower
  <2>2. CASE phase' = "sort"
    <3>1. Rank' = << <<3, e>>, <<g, h>> >>
      BY <1>2, <2>1, <2>2 DEF Rank, SortRank, graphVars, Active, DepsLeft, Frame, Unit, ToSet
    <3>2. << << <<3, e>>, <<g, h>> >>, << <<4, a>>, <<b, c>> >> >> \in Below
      BY <1>3, <1>6, StageOver, Zenon
    <3> QED BY <1>4, <2>1, <3>1, <3>2, Zenon
  <2> QED BY <1>7, <2>1, <2>2
<1>10. CASE Sorting
  <2>1. CASE Sorted
    <3>1. phase = "sort" /\ phase' = "check" /\ todo' = todo /\ order' = order
      BY <1>10, <2>1 DEF Sorting, graphVars
    <3>2. << << <<2, l>>, <<1, 0>> >>, << <<3, e>>, <<g, h>> >> >> \in Below
      BY <1>3, <1>6, StageOver, Zenon
    <3>3. Rank' = << <<2, l>>, <<1, 0>> >> /\ Rank = << <<3, e>>, <<g, h>> >>
      BY <1>2, <1>4, <1>5, <3>1
    <3> QED BY <3>2, <3>3, Zenon
  <2>2. CASE ~Sorted
    <3>1. phase = "sort" /\ phase' = "sort" /\ SortStep
      BY <1>10, <2>2 DEF Sorting
    <3>2. Rank = SortRank /\ Rank' = SortRank'
      BY <3>1 DEF Rank
    <3> QED BY <1>1, <3>1, <3>2, SortStepFalls
  <2> QED BY <2>1, <2>2
<1>11. ASSUME phase = "check", phase' = "emit", todo' = todo, order' = order
       PROVE  <<Rank', Rank>> \in Below
  <2>1. << << <<2, l>>, <<0, 0>> >>, << <<2, l>>, <<1, 0>> >> >> \in Below
    BY <1>3, <1>6, WithinStage, Zenon
  <2>2. Rank' = << <<2, l>>, <<0, 0>> >> /\ Rank = << <<2, l>>, <<1, 0>> >>
    BY <1>2, <1>4, <1>5, <1>11
  <2> QED BY <2>1, <2>2, Zenon
<1>12. CASE CheckUnit
  <2>1. phase = "check" /\ phase' \in {"emit", "done"} /\ todo' = todo /\ order' = order
    BY <1>12 DEF CheckUnit
  <2> QED BY <1>7, <1>11, <2>1
<1>13. CASE SkipCheck
  <2>1. phase = "check" /\ phase' = "emit" /\ todo' = todo /\ order' = order
    BY <1>13 DEF SkipCheck, graphVars
  <2> QED BY <1>11, <2>1
<1>14. CASE EmitUnit
  <2>1. /\ phase = "emit" /\ phase' = "check" /\ todo' = todo + 1 /\ order' = order
        /\ todo <= Len(order)
    BY <1>14 DEF EmitUnit, graphVars, IInv
  <2>2. PICK r : r = TurnsLeft(todo + 1, order)
    OBVIOUS
  <2>3. r \in Nat /\ r < l
    BY <1>1, <1>2, <2>1, <2>2, TurnsLeftNat
  <2>4. << << <<2, r>>, <<1, 0>> >>, << <<2, l>>, <<0, 0>> >> >> \in Below
    BY <1>3, <2>3, WithinStage, Zenon
  <2>5. Rank' = << <<2, r>>, <<1, 0>> >> /\ Rank = << <<2, l>>, <<0, 0>> >>
    BY <1>4, <1>5, <2>1, <2>2
  <2> QED BY <2>4, <2>5, Zenon
<1>15. ASSUME NEW writable \in BOOLEAN, Finish(writable) PROVE <<Rank', Rank>> \in Below
  BY <1>7, <1>15 DEF Finish
<1>16. CASE Exit
  <2>1. << << <<0, 0>>, <<0, 0>> >>, << <<1, 0>>, <<0, 0>> >> >> \in Below
    BY <1>3, <1>6, StageOver, Zenon
  <2>2. Rank' = << <<0, 0>>, <<0, 0>> >> /\ Rank = << <<1, 0>>, <<0, 0>> >>
    BY <1>4, <1>5, <1>16 DEF Exit
  <2> QED BY <2>1, <2>2, Zenon
<1> QED BY <1>8, <1>9, <1>10, <1>12, <1>13, <1>14, <1>15, <1>16 DEF Work

\* No command goes on for ever: each of its steps (every turn of the loops of
\* load and visit, every return, every unit checked or written) takes the rank
\* down, and no sequence of ranks goes down for ever.  This is the part of
\* CommandsEnd that does not speak of fairness, for any program with finitely many
\* files.
THEOREM CommandsDescend ==
  ASSUME IsFiniteSet(Files)
  PROVE  IsWellFoundedOn(Below, Ranks) /\ (Spec => [][Work => <<Rank', Rank>> \in Below]_vars)
<1>1. IInv /\ VerdictInv => [Work => <<Rank', Rank>> \in Below]_vars
  BY WorkFalls
<1>2. Spec => [][Work => <<Rank', Rank>> \in Below]_vars
  BY <1>1, Invariance, VerdictInvariance, PTL
<1> QED BY <1>2, BelowWellFounded

=============================================================================
