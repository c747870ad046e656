--------------------------- MODULE MatchLowering ---------------------------
(***************************************************************************)
(* match: what the resolver reports about its arms, and the C++ it becomes *)
(* (cpp_emitter_match.cpp, and cpp_emitter_errors.cpp for a match that is   *)
(* hoisted because an arm can propagate an error).  A pattern is a record   *)
(* whose k is Wild, Bind, Lit, Range, Or, Tuple or Enum; an arm has a       *)
(* pattern (Missing for `default`), and a guard: "none", "plain", or        *)
(* "binding" when it reads a name its own pattern binds.                    *)
(***************************************************************************)
EXTENDS Integers, Sequences, FiniteSets, SequencesExt, FiniteSetsExt

CONSTANTS
  Payload,   \* enum type -> [case -> types of its payload fields]
  Parts,     \* tuple type -> types of its elements
  Values,    \* type -> its values; an enum's are records [case, fields]
  Patterns,  \* patterns, with all the patterns inside them
  Height     \* pattern -> how deep it nests

Missing == [k |-> "Missing"]
Types == DOMAIN Values
IsEnum(t) == t \in DOMAIN Payload

\* The patterns a pattern is made of.
Within(p) == CASE p.k = "Or" -> Range(p.alts)
               [] p.k \in {"Tuple", "Enum"} -> Range(p.sub)
               [] OTHER -> {}

ASSUME PatternsAssumption ==
  /\ Missing \in Patterns /\ Height \in [Patterns -> Nat]
  /\ \A p \in Patterns :
       /\ p.k \in {"Missing", "Wild", "Bind", "Lit", "Range", "Or", "Tuple", "Enum"}
       /\ p.k = "Range" => p.lo \in Int /\ p.hi \in Int /\ p.inclusive \in BOOLEAN
       /\ p.k = "Or" => p.alts \in Seq(Patterns)
       /\ p.k \in {"Tuple", "Enum"} => p.sub \in Seq(Patterns)
       /\ \A q \in Within(p) : Height[q] < Height[p]

ASSUME ValuesAssumption ==
  /\ "Int" \in Types => Values["Int"] \subseteq Int
  /\ \A t \in DOMAIN Parts :
       /\ t \in Types /\ Parts[t] \in Seq(Types)
       /\ \A v \in Values[t], i \in DOMAIN Parts[t] : v[i] \in Values[Parts[t][i]]
  /\ \A t \in DOMAIN Payload :
       /\ t \in Types /\ \A c \in DOMAIN Payload[t] : Payload[t][c] \in Seq(Types)
       /\ \A v \in Values[t] :
            /\ v.case \in DOMAIN Payload[t]
            /\ \A i \in DOMAIN Payload[t][v.case] : v.fields[i] \in Values[Payload[t][v.case][i]]

Arm == [pattern: Patterns, guard: {"none", "plain", "binding"}]
Match == [is: {"match"}, type: Types, hoisted: BOOLEAN, arms: Seq(Arm)]

VARIABLES
  unit,    \* the match
  phase,   \* "source" | "resolved" | "lowered" | "done" | "refused"
  code,    \* its C++
  wanted,  \* the arm the source means to run
  got      \* the arm the C++ runs

matchVars == <<unit, phase, code, wanted, got>>

None == [k |-> "None"]

CatchAll(arm) == arm.pattern.k \in {"Missing", "Wild"}
Guarded(m, i) == m.arms[i].guard # "none"
Tested(m)    == {i \in DOMAIN m.arms : ~CatchAll(m.arms[i])}
CatchAlls(m) == {i \in DOMAIN m.arms : CatchAll(m.arms[i])}

----------------------------------------------------------------------------
(* What a pattern means: the language's own reading, used by no lowering.   *)

\* The values of each type that pattern p matches.
Matched[p \in Patterns] == [t \in Types |-> {v \in Values[t] :
  CASE p.k = "Lit"   -> v = p.n
    [] p.k = "Range" -> p.lo <= v /\ (v < p.hi \/ (p.inclusive /\ v = p.hi))
    [] p.k = "Or"    -> \E i \in DOMAIN p.alts : v \in Matched[p.alts[i]][t]
    [] p.k = "Tuple" -> \A i \in DOMAIN p.sub : v[i] \in Matched[p.sub[i]][Parts[t][i]]
    [] p.k = "Enum"  -> /\ v.case = p.case
                        /\ \A i \in DOMAIN p.sub :
                             v.fields[i] \in Matched[p.sub[i]][Payload[t][p.case][i]]
    [] OTHER         -> TRUE}]

\* The first arm that matches and whose guard holds; 0 when there is none.
FirstMatch(m, v, true) ==
  LET fits == {i \in DOMAIN m.arms : /\ v \in Matched[m.arms[i].pattern][m.type]
                                     /\ Guarded(m, i) => i \in true}
  IN  IF fits = {} THEN 0 ELSE Min(fits)

----------------------------------------------------------------------------
(* The resolver.                                                           *)

\* The types of scrutinee for which the resolver accepts pattern p.
Accepting[p \in Patterns] == {t \in Types :
  CASE p.k \in {"Lit", "Range"} -> t = "Int"
    [] p.k = "Or"    -> \A i \in DOMAIN p.alts : t \in Accepting[p.alts[i]]
    [] p.k = "Tuple" -> /\ t \in DOMAIN Parts /\ Len(p.sub) = Len(Parts[t])
                        /\ \A i \in DOMAIN p.sub : p.sub[i].k # "Enum" /\ Parts[t][i] \in Accepting[p.sub[i]]
    [] p.k = "Enum"  -> /\ IsEnum(t) /\ p.case \in DOMAIN Payload[t]
                        /\ Len(p.sub) = Len(Payload[t][p.case])
                        /\ \A i \in DOMAIN p.sub : Payload[t][p.case][i] \in Accepting[p.sub[i]]
    [] OTHER -> TRUE}

\* The case names an enum pattern or an alternation of them names.
NamedCases[p \in Patterns] ==
  CASE p.k = "Enum" -> {p.case}
    [] p.k = "Or"   -> UNION {NamedCases[p.alts[i]] : i \in DOMAIN p.alts}
    [] OTHER        -> {}

HasWild[p \in Patterns] == p.k = "Wild" \/ (p.k = "Or" /\ \E i \in DOMAIN p.alts : HasWild[p.alts[i]])

\* Coverage asks neither for the guard nor for the payload's patterns.
Covered(m) ==
  IF \E i \in DOMAIN m.arms : HasWild[m.arms[i].pattern] THEN DOMAIN Payload[m.type]
  ELSE UNION {NamedCases[m.arms[i].pattern] : i \in DOMAIN m.arms}

Exhaustive(m) ==
  \/ ~IsEnum(m.type)
  \/ \E i \in DOMAIN m.arms : m.arms[i].pattern.k = "Missing"
  \/ DOMAIN Payload[m.type] \subseteq Covered(m)

Accepted(m) == Exhaustive(m) /\ \A i \in DOMAIN m.arms : m.type \in Accepting[m.arms[i].pattern]

\* Slip: guarded arms close their case as well.
ClosedByAny(m, i) == UNION {NamedCases[m.arms[j].pattern] : j \in 1..(i - 1)}

\* The arms reported dead because an earlier unguarded arm closed their case.
ClosedBefore(m, i) ==
  UNION {NamedCases[m.arms[j].pattern] : j \in {x \in 1..(i - 1) : ~Guarded(m, x)}}
WarnedCase(m) ==
  {i \in DOMAIN m.arms :
     /\ m.arms[i].pattern.k = "Enum" /\ m.arms[i].pattern.case \in ClosedBefore(m, i)
     /\ \A j \in 1..(i - 1) : ~CatchAll(m.arms[j])}

----------------------------------------------------------------------------
(* The emitter.  Its output has a branch for each arm that is tested, tried *)
(* in order; the arm run when none is taken (0: std::unreachable, or the    *)
(* end of a switch); and whether it refused, or wrote C++ no compiler       *)
(* takes.  A branch is the values its test holds for, and whether it asks   *)
(* the guard as well.                                                       *)

Branch(vs, guarded) == [takes |-> vs, guarded |-> guarded]
Code(bs, last, bad) == [branches |-> bs, last |-> last, bad |-> bad]
OfCases(m, cs) == {v \in Values[m.type] : v.case \in cs}

\* A later default replaces an earlier one.
DefaultArm(m) == IF CatchAlls(m) = {} THEN 0 ELSE Max(CatchAlls(m))

Bare(t) == \A c \in DOMAIN Payload[t] : Payload[t][c] = <<>>
\* Slip: an alternation is expanded to its first alternative only.
OnlyFirst(p) == IF p.k = "Or" THEN <<Head(p.alts)>> ELSE <<p>>

Alternatives(p) == IF p.k = "Or" THEN p.alts ELSE <<p>>
AllEnum(p) == \A a \in Range(Alternatives(p)) : a.k = "Enum"
\* The cases among the alternatives; what else stands there tests as false.
FlatCases(p) == {a.case : a \in {b \in Range(Alternatives(p)) : b.k = "Enum"}}

\* A pattern with all the patterns inside it.
AllWithin[p \in Patterns] == {p} \cup UNION {AllWithin[q] : q \in Within(p)}

\* The values for which the predicate written for a pattern holds: a pattern
\* it does not know tests nothing.
Predicate[p \in Patterns] == [t \in Types |-> {v \in Values[t] :
  CASE p.k = "Lit"   -> v = p.n
    [] p.k = "Range" -> p.lo <= v /\ IF p.inclusive THEN v <= p.hi ELSE v < p.hi
    [] p.k = "Or"    -> \E i \in DOMAIN p.alts : v \in Predicate[p.alts[i]][t]
    [] p.k = "Tuple" -> \A i \in DOMAIN p.sub : v[i] \in Predicate[p.sub[i]][Parts[t][i]]
    [] OTHER         -> TRUE}]

\* The chain over values declares the names after the test that may read them.
ValueChain(m) ==
  Code([i \in Tested(m) |-> Branch(Predicate[m.arms[i].pattern][m.type], Guarded(m, i))],
       DefaultArm(m), \E i \in Tested(m) : m.arms[i].guard = "binding")

EnumChain(m) ==
  Code([i \in Tested(m) |-> Branch(OfCases(m, FlatCases(m.arms[i].pattern)), Guarded(m, i))],
       DefaultArm(m), \E i \in Tested(m) : m.arms[i].pattern.k \notin {"Enum", "Or"})

\* Two labels of one switch may not be equal.
Twice(m) == \E i, j \in Tested(m) :
  i # j /\ NamedCases[m.arms[i].pattern] \cap NamedCases[m.arms[j].pattern] # {}
SelfTwice(p) == \E q \in AllWithin[p] : q.k = "Or" /\ \E i, j \in DOMAIN q.alts :
  i # j /\ NamedCases[q.alts[i]] \cap NamedCases[q.alts[j]] # {}

\* The labels of an alternation are those of its alternatives, nested ones too.
Switch(m) ==
  Code([i \in Tested(m) |-> Branch(OfCases(m, NamedCases[m.arms[i].pattern]), FALSE)],
       DefaultArm(m),
       \/ \E i \in Tested(m) : \/ \E q \in AllWithin[m.arms[i].pattern] : q.k \notin {"Enum", "Or"}
                              \/ SelfTwice(m.arms[i].pattern)
       \/ Twice(m) \/ Cardinality(CatchAlls(m)) > 1)

\* One visitor branch per case holding its arms in order; the payload's own
\* patterns bind and test nothing.
Visit(m) ==
  Code([i \in Tested(m) |-> Branch(OfCases(m, FlatCases(m.arms[i].pattern)), Guarded(m, i))],
       DefaultArm(m), \E i \in Tested(m) : ~AllEnum(m.arms[i].pattern))

\* Guards are not asked.
HoistedEnum(m) ==
  Code([i \in Tested(m) |-> Branch(OfCases(m, FlatCases(m.arms[i].pattern)), FALSE)],
       DefaultArm(m),
       (\E i \in Tested(m) : m.arms[i].pattern.k # "Enum") \/ (Bare(m.type) /\ Twice(m)))

\* A duplicate is looked for among the plain enum patterns only.
Duplicate(m) == \E i, j \in DOMAIN m.arms :
  /\ i # j /\ m.arms[i].pattern.k = "Enum" /\ m.arms[j].pattern.k = "Enum"
  /\ m.arms[i].pattern.case = m.arms[j].pattern.case
Chained(m) == Duplicate(m) \/ \E i \in DOMAIN m.arms : Guarded(m, i)

EmitMatch(m) ==
  IF ~IsEnum(m.type) THEN ValueChain(m)
  ELSE IF m.hoisted THEN HoistedEnum(m)
  ELSE IF ~Bare(m.type) THEN Visit(m)
  ELSE IF Chained(m) THEN EnumChain(m)
  ELSE Switch(m)

\* The branch code c takes for value v when the guards in true hold: an arm,
\* or 0 where the emitted program promises never to be.
Taken(c, v, true) ==
  LET holds == {i \in DOMAIN c.branches : /\ v \in c.branches[i].takes
                                          /\ c.branches[i].guarded => i \in true}
  IN  IF holds = {} THEN c.last ELSE Min(holds)

----------------------------------------------------------------------------
(* The steps.                                                              *)

\* The resolver accepts the match, or reports it and nothing is emitted.
ResolveMatch ==
  /\ phase = "source" /\ unit.is = "match"
  /\ phase' = IF Accepted(unit) THEN "resolved" ELSE "refused"
  /\ UNCHANGED <<unit, code, wanted, got>>

LowerMatch ==
  /\ phase = "resolved" /\ unit.is = "match"
  /\ code' = EmitMatch(unit)
  /\ phase' = IF code'.bad THEN "refused" ELSE "lowered"
  /\ UNCHANGED <<unit, wanted, got>>

\* The program runs on a value, with some of the guards true.
RunMatch ==
  /\ phase = "lowered" /\ unit.is = "match"
  /\ \E v \in Values[unit.type], true \in SUBSET {i \in DOMAIN unit.arms : Guarded(unit, i)} :
       wanted' = FirstMatch(unit, v, true) /\ got' = Taken(code, v, true)
  /\ phase' = "done"
  /\ UNCHANGED <<unit, code>>

Ran(is) == phase = "done" /\ unit.is = is

\* Matches by themselves: any match.
MatchInit == unit \in Match /\ phase = "source" /\ code = None /\ wanted = None /\ got = None
MatchNext == ResolveMatch \/ LowerMatch \/ RunMatch
MatchSpec == MatchInit /\ [][MatchNext]_matchVars

----------------------------------------------------------------------------
(* The matches whose lowering keeps the order of the source, and what       *)
(* their C++ does.                                                          *)

\* Where the emitter tests cases one after another, alternations are flat.
FlatChain(m) == Chained(m) => \A i \in Tested(m) : AllEnum(m.arms[i].pattern)

\* A default or wildcard comes last and has no guard, cases are named at the
\* top only, their payload is only bound, and guards stand where the lowering
\* asks them.
Ordinary(m) ==
  /\ \A i \in DOMAIN m.arms :
       /\ CatchAll(m.arms[i]) => i = Len(m.arms) /\ ~Guarded(m, i)
       /\ IsEnum(m.type) => \A c \in Range(Alternatives(m.arms[i].pattern)) :
            c.k = "Enum" => \A n \in DOMAIN c.sub : c.sub[n].k \in {"Bind", "Wild"}
       /\ ~IsEnum(m.type) => \A q \in AllWithin[m.arms[i].pattern] : q.k # "Enum"
       /\ Guarded(m, i) => ~(m.hoisted /\ IsEnum(m.type))
  /\ IsEnum(m.type) => FlatChain(m)

\* An ordinary match that covers its value runs the first arm that fits it
\* and whose guard holds, whichever of the five lowerings it got.
TakesFirstMatch ==
  Ran("match") /\ Ordinary(unit) /\ wanted # 0 => got = wanted

\* An arm the resolver reports as dominated by an earlier arm of its case is
\* never run, however the emitter groups, reorders or drops arms (of matches
\* whose chains are flat).
WarnedNeverTaken == Ran("match") /\ FlatChain(unit) => got \notin WarnedCase(unit)

\* A match over an enum that is accepted as exhaustive and has no guard never
\* reaches std::unreachable() (of matches whose chains are flat).
CoveredNeverUnreachable ==
  Ran("match") /\ IsEnum(unit.type) /\ FlatChain(unit)
    /\ (\A i \in DOMAIN unit.arms : ~Guarded(unit, i)) => got # 0
=============================================================================
