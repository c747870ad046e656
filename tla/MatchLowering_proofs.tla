----------------------- MODULE MatchLowering_proofs -----------------------
(***************************************************************************)
(* What a match becomes runs the arm the source means, for every match over *)
(* every enum, tuple and value type.  Patterns nest, so what a pattern      *)
(* matches, names and tests is defined by recursion; what is shown of them  *)
(* by induction on how deep a pattern nests.                               *)
(***************************************************************************)
EXTENDS MatchLowering, SequenceTheorems, NaturalsInduction, WellFoundedInduction, TLAPS

-----------------------------------------------------------------------------
\* Numbers, and recursion over patterns

\* A set of naturals that has an element has a least one.
LEMMA Least ==
  ASSUME NEW S \in SUBSET Nat, S # {}
  PROVE  \E m \in S : \A k \in S : m <= k
<1> DEFINE below == {ss \in Nat \X Nat : ss[1] < ss[2]}
<1>1. IsWellFoundedOn(below, Nat)
  BY NatLessThanWellFounded DEF OpToRel
<1>2. PICK m \in S : \A k \in S : <<k, m>> \notin below
  BY <1>1, WFMin
<1>3. \A k \in S : ~(k < m)
  <2> SUFFICES ASSUME NEW k \in S, k < m PROVE FALSE
    OBVIOUS
  <2>1. <<k, m>> \in below
    OBVIOUS
  <2> QED BY <2>1, <1>2
<1> QED BY <1>3

\* Min of a set of naturals that is not empty is its least member.
LEMMA MinIs ==
  ASSUME NEW S \in SUBSET Nat, S # {}
  PROVE  Min(S) \in S /\ \A k \in S : Min(S) <= k
BY Least DEF Min

\* A member no greater than any other is Min.
LEMMA MinUnique ==
  ASSUME NEW S \in SUBSET Nat, NEW m \in S, \A k \in S : m <= k
  PROVE  Min(S) = m
<1>1. Min(S) \in S /\ \A k \in S : Min(S) <= k
  BY MinIs
<1>2. Min(S) <= m /\ m <= Min(S) /\ Min(S) \in Nat /\ m \in Nat
  BY <1>1
<1> QED BY <1>2

\* What the assumption on patterns says of one: the patterns in it are less deep.
LEMMA PatternsAre ==
  ASSUME NEW p \in Patterns
  PROVE  /\ Height[p] \in Nat
         /\ p.k = "Or" => p.alts \in Seq(Patterns) /\ Within(p) = Range(p.alts)
                          /\ \A i \in DOMAIN p.alts : p.alts[i] \in Within(p)
         /\ p.k \in {"Tuple", "Enum"} => p.sub \in Seq(Patterns) /\ Within(p) = Range(p.sub)
                                         /\ \A i \in DOMAIN p.sub : p.sub[i] \in Within(p)
         /\ p.k \notin {"Or", "Tuple", "Enum"} => Within(p) = {}
         /\ \A q \in Within(p) : q \in Patterns /\ Height[q] < Height[p]
<1>1. /\ Height[p] \in Nat
      /\ p.k = "Or" => p.alts \in Seq(Patterns)
      /\ p.k \in {"Tuple", "Enum"} => p.sub \in Seq(Patterns)
      /\ \A q \in Within(p) : Height[q] < Height[p]
  BY PatternsAssumption
<1>2. p.k = "Or" => Within(p) = Range(p.alts) /\ p.k \notin {"Tuple", "Enum"}
  BY DEF Within
<1>3. p.k \in {"Tuple", "Enum"} => Within(p) = Range(p.sub)
  BY DEF Within
<1>4. p.k \notin {"Or", "Tuple", "Enum"} => Within(p) = {}
  BY DEF Within
<1>5. ASSUME NEW s \in Seq(Patterns)
      PROVE  Range(s) \subseteq Patterns /\ \A i \in DOMAIN s : s[i] \in Range(s)
  BY DEF Range
<1>6. Within(p) \subseteq Patterns
  BY <1>1, <1>2, <1>3, <1>4, <1>5
<1> QED BY <1>1, <1>2, <1>3, <1>4, <1>5, <1>6

\* Of a claim that fails of a pattern, one that holds of all inside it fails
\* somewhere: induction on the height, for a set of patterns.
LEMMA Shallowest ==
  ASSUME NEW bad \in SUBSET Patterns, bad # {}
  PROVE  \E p \in bad : \A q \in Within(p) : q \notin bad
<1> DEFINE S == {Height[p] : p \in bad}
<1>1. S \in SUBSET Nat /\ S # {}
  <2>1. \A p \in bad : Height[p] \in Nat
    BY PatternsAre
  <2> QED BY <2>1
<1>2. PICK n \in S : \A k \in S : n <= k
  BY <1>1, Least
<1>3. PICK p \in bad : Height[p] = n
  BY <1>2
<1>4. \A q \in Within(p) : Height[q] \in Nat /\ Height[q] < n
  BY <1>3, PatternsAre
<1>5. ASSUME NEW q \in Within(p), q \in bad PROVE FALSE
  <2>1. Height[q] \in S
    BY <1>5
  <2>2. n <= Height[q] /\ n \in Nat
    BY <2>1, <1>1, <1>2
  <2> QED BY <2>2, <1>4
<1> QED BY <1>3, <1>5

\* One level of a recursion over patterns, as a function: what it makes of a
\* pattern and of the results so far, of which it asks those inside the pattern.
Recursive(R, G) ==
  /\ R # {} /\ G \in [Patterns \X [Patterns -> R] -> R]
  /\ \A p \in Patterns : \A f \in [Patterns -> R] : \A g \in [Patterns -> R] :
       (\A q \in Within(p) : f[q] = g[q]) => G[<<p, f>>] = G[<<p, g>>]

Solution(R, G, h) == h \in [Patterns -> R] /\ \A p \in Patterns : h[p] = G[<<p, h>>]

\* Such a recursion has a solution.
LEMMA Recursion ==
  ASSUME NEW R, NEW G, Recursive(R, G)
  PROVE  \E h : Solution(R, G, h)
<1>10. PICK r : r \in R
  BY DEF Recursive
<1>11. G \in [Patterns \X [Patterns -> R] -> R]
  BY DEF Recursive
<1>12. \A p \in Patterns : \A f \in [Patterns -> R] : \A g \in [Patterns -> R] :
        (\A q \in Within(p) : f[q] = g[q]) => G[<<p, f>>] = G[<<p, g>>]
  BY Zenon DEF Recursive
<1> DEFINE Solves(n, f) == \A p \in Patterns : Height[p] < n => f[p] = G[<<p, f>>]
           unsolved == {n \in Nat : ~ \E f \in [Patterns -> R] : Solves(n, f)}
<1>1. unsolved = {}
  <2> SUFFICES ASSUME unsolved # {} PROVE FALSE
    OBVIOUS
  <2>1. PICK m \in unsolved : \A k \in unsolved : m <= k
    BY Least
  <2>2. m # 0
    <3>1. [p \in Patterns |-> r] \in [Patterns -> R] /\ Solves(0, [p \in Patterns |-> r])
      BY PatternsAre, <1>10
    <3> QED BY <3>1, <2>1
  <2>3. m - 1 \in Nat /\ ~(m <= m - 1)
    BY <2>1, <2>2
  <2>4. PICK f \in [Patterns -> R] : Solves(m - 1, f)
    BY <2>1, <2>3
  <2> DEFINE g == [p \in Patterns |-> IF Height[p] < m - 1 THEN f[p] ELSE G[<<p, f>>]]
  <2>5. g \in [Patterns -> R]
    BY <1>11
  <2>6. Solves(m, g)
    <3> SUFFICES ASSUME NEW p \in Patterns, Height[p] < m PROVE g[p] = G[<<p, g>>]
      OBVIOUS
    <3>1. \A q \in Within(p) : f[q] = g[q]
      <4> SUFFICES ASSUME NEW q \in Within(p) PROVE Height[q] < m - 1 /\ q \in Patterns
        OBVIOUS
      <4> QED BY PatternsAre, <2>1
    <3>2. G[<<p, f>>] = G[<<p, g>>]
      BY <3>1, <2>5, <1>12
    <3>3. g[p] = G[<<p, f>>]
      BY <2>4
    <3> QED BY <3>2, <3>3
  <2> QED BY <2>1, <2>5, <2>6
<1>2. ASSUME NEW n \in Nat, NEW m \in Nat, NEW f \in [Patterns -> R], NEW g \in [Patterns -> R],
             Solves(n, f), Solves(m, g)
      PROVE  \A p \in Patterns : Height[p] < n /\ Height[p] < m => f[p] = g[p]
  <2> DEFINE bad == {p \in Patterns : Height[p] < n /\ Height[p] < m /\ f[p] # g[p]}
  <2> SUFFICES ASSUME bad # {} PROVE FALSE
    OBVIOUS
  <2>1. PICK p \in bad : \A q \in Within(p) : q \notin bad
    BY Shallowest
  <2>2. \A q \in Within(p) : f[q] = g[q]
    <3> SUFFICES ASSUME NEW q \in Within(p) PROVE q \in Patterns /\ Height[q] < n /\ Height[q] < m
      BY <2>1
    <3> QED BY PatternsAre
  <2>3. G[<<p, f>>] = G[<<p, g>>]
    BY <2>2, <1>12
  <2> QED BY <2>1, <2>3, <1>2
<1> DEFINE part(p) == CHOOSE f \in [Patterns -> R] : Solves(Height[p] + 1, f)
           h == [p \in Patterns |-> part(p)[p]]
<1> HIDE DEF Solves
<1>3. \A p \in Patterns : part(p) \in [Patterns -> R] /\ Solves(Height[p] + 1, part(p))
  <2> SUFFICES ASSUME NEW p \in Patterns PROVE \E f \in [Patterns -> R] : Solves(Height[p] + 1, f)
    OBVIOUS
  <2>1. Height[p] + 1 \in Nat
    BY PatternsAre
  <2> QED BY <2>1, <1>1
<1> HIDE DEF part
<1>4. h \in [Patterns -> R]
  BY <1>3
<1>5. ASSUME NEW p \in Patterns PROVE h[p] = G[<<p, h>>]
  <2>1. \A q \in Within(p) : h[q] = part(p)[q]
    <3> SUFFICES ASSUME NEW q \in Within(p) PROVE part(q)[q] = part(p)[q] /\ q \in Patterns
      OBVIOUS
    <3>1. /\ q \in Patterns /\ Height[q] \in Nat /\ Height[p] \in Nat /\ Height[q] < Height[p]
      BY PatternsAre
    <3>2. Height[q] < Height[q] + 1 /\ Height[q] < Height[p] + 1
          /\ Height[q] + 1 \in Nat /\ Height[p] + 1 \in Nat
      BY <3>1
    <3>3. part(q) \in [Patterns -> R] /\ Solves(Height[q] + 1, part(q))
          /\ part(p) \in [Patterns -> R] /\ Solves(Height[p] + 1, part(p))
      BY <3>1, <1>3
    <3>4. Height[q] < Height[q] + 1 /\ Height[q] < Height[p] + 1 => part(q)[q] = part(p)[q]
      BY <3>1, <3>2, <3>3, <1>2
    <3> QED BY <3>1, <3>2, <3>4
  <2>2. G[<<p, h>>] = G[<<p, part(p)>>]
    BY <2>1, <1>3, <1>4, <1>12
  <2>3. part(p)[p] = G[<<p, part(p)>>]
    <3>1. Height[p] \in Nat
      BY PatternsAre
    <3>2. Height[p] < Height[p] + 1
      BY <3>1
    <3>3. Solves(Height[p] + 1, part(p))
      BY <1>3
    <3> QED BY <3>2, <3>3 DEF Solves
  <2> QED BY <2>2, <2>3
<1> HIDE DEF h
<1> QED BY <1>4, <1>5 DEF Solution

-----------------------------------------------------------------------------
\* The recursions of the model

\* What a pattern matches, from what the patterns inside it match.
LEMMA MatchedIs ==
  ASSUME NEW p \in Patterns, NEW t \in Types
  PROVE  Matched[p][t] = {v \in Values[t] :
    CASE p.k = "Lit"   -> v = p.n
      [] p.k = "Range" -> p.lo <= v /\ (v < p.hi \/ (p.inclusive /\ v = p.hi))
      [] p.k = "Or"    -> \E i \in DOMAIN p.alts : v \in Matched[p.alts[i]][t]
      [] p.k = "Tuple" -> \A i \in DOMAIN p.sub : v[i] \in Matched[p.sub[i]][Parts[t][i]]
      [] p.k = "Enum"  -> /\ v.case = p.case
                          /\ \A i \in DOMAIN p.sub :
                               v.fields[i] \in Matched[p.sub[i]][Payload[t][p.case][i]]
      [] OTHER         -> TRUE}
<1> DEFINE V == UNION {Values[u] : u \in Types}
           R == [Types -> SUBSET V]
           body(x, f) == [u \in Types |-> {v \in Values[u] :
             CASE x.k = "Lit"   -> v = x.n
               [] x.k = "Range" -> x.lo <= v /\ (v < x.hi \/ (x.inclusive /\ v = x.hi))
               [] x.k = "Or"    -> \E i \in DOMAIN x.alts : v \in f[x.alts[i]][u]
               [] x.k = "Tuple" -> \A i \in DOMAIN x.sub : v[i] \in f[x.sub[i]][Parts[u][i]]
               [] x.k = "Enum"  -> /\ v.case = x.case
                                   /\ \A i \in DOMAIN x.sub :
                                        v.fields[i] \in f[x.sub[i]][Payload[u][x.case][i]]
               [] OTHER         -> TRUE}]
           G == [z \in Patterns \X [Patterns -> R] |-> body(z[1], z[2])]
<1>1. \A x, f : body(x, f) \in R
  OBVIOUS
<1>2. ASSUME NEW x \in Patterns, NEW f, NEW g, \A q \in Within(x) : f[q] = g[q]
      PROVE  body(x, f) = body(x, g)
  <2>1. CASE x.k = "Or"
    <3>1. \A i \in DOMAIN x.alts : f[x.alts[i]] = g[x.alts[i]]
      BY <1>2, <2>1, PatternsAre
    <3> QED BY <2>1, <3>1
  <2>2. CASE x.k \in {"Tuple", "Enum"}
    <3>1. \A i \in DOMAIN x.sub : f[x.sub[i]] = g[x.sub[i]]
      BY <1>2, <2>2, PatternsAre
    <3> QED BY <2>2, <3>1
  <2>3. CASE x.k \notin {"Or", "Tuple", "Enum"}
    BY <2>3
  <2> QED BY <2>1, <2>2, <2>3
<1> HIDE DEF body, R
<1>3. \A x \in Patterns, f \in [Patterns -> R] : G[<<x, f>>] = body(x, f)
  OBVIOUS
<1>4. Recursive(R, G)
  <2>1. [u \in Types |-> {}] \in R
    BY DEF R
  <2>2. G \in [Patterns \X [Patterns -> R] -> R]
    BY <1>1
  <2>3. \A x \in Patterns : \A f \in [Patterns -> R] : \A g \in [Patterns -> R] :
          (\A q \in Within(x) : f[q] = g[q]) => G[<<x, f>>] = G[<<x, g>>]
    BY <1>2, <1>3
  <2> HIDE DEF G
  <2> QED BY <2>1, <2>2, <2>3 DEF Recursive
<1> HIDE DEF G
<1>5. PICK h : Solution(R, G, h)
  BY <1>4, Recursion
<1>6. h = [x \in Patterns |-> body(x, h)]
  <2>1. \A x \in Patterns : h[x] = body(x, h)
    BY <1>3, <1>5 DEF Solution
  <2> QED BY <2>1, <1>5 DEF Solution
<1>7. Matched = [x \in Patterns |-> body(x, Matched)]
  BY <1>6 DEF Matched, body
<1>8. Matched[p] = body(p, Matched)
  BY <1>7
<1> QED BY <1>8 DEF body

\* What the test written for a pattern holds for, from the tests inside it.
LEMMA PredicateIs ==
  ASSUME NEW p \in Patterns, NEW t \in Types
  PROVE  Predicate[p][t] = {v \in Values[t] :
    CASE p.k = "Lit"   -> v = p.n
      [] p.k = "Range" -> p.lo <= v /\ IF p.inclusive THEN v <= p.hi ELSE v < p.hi
      [] p.k = "Or"    -> \E i \in DOMAIN p.alts : v \in Predicate[p.alts[i]][t]
      [] p.k = "Tuple" -> \A i \in DOMAIN p.sub : v[i] \in Predicate[p.sub[i]][Parts[t][i]]
      [] OTHER         -> TRUE}
<1> DEFINE V == UNION {Values[u] : u \in Types}
           R == [Types -> SUBSET V]
           body(x, f) == [u \in Types |-> {v \in Values[u] :
             CASE x.k = "Lit"   -> v = x.n
               [] x.k = "Range" -> x.lo <= v /\ IF x.inclusive THEN v <= x.hi ELSE v < x.hi
               [] x.k = "Or"    -> \E i \in DOMAIN x.alts : v \in f[x.alts[i]][u]
               [] x.k = "Tuple" -> \A i \in DOMAIN x.sub : v[i] \in f[x.sub[i]][Parts[u][i]]
               [] OTHER         -> TRUE}]
           G == [z \in Patterns \X [Patterns -> R] |-> body(z[1], z[2])]
<1>1. \A x, f : body(x, f) \in R
  OBVIOUS
<1>2. ASSUME NEW x \in Patterns, NEW f, NEW g, \A q \in Within(x) : f[q] = g[q]
      PROVE  body(x, f) = body(x, g)
  <2>1. CASE x.k = "Or"
    <3>1. \A i \in DOMAIN x.alts : f[x.alts[i]] = g[x.alts[i]]
      BY <1>2, <2>1, PatternsAre
    <3> QED BY <2>1, <3>1
  <2>2. CASE x.k = "Tuple"
    <3>1. \A i \in DOMAIN x.sub : f[x.sub[i]] = g[x.sub[i]]
      BY <1>2, <2>2, PatternsAre
    <3> QED BY <2>2, <3>1
  <2>3. CASE x.k \notin {"Or", "Tuple"}
    BY <2>3
  <2> QED BY <2>1, <2>2, <2>3
<1> HIDE DEF body, R
<1>3. \A x \in Patterns, f \in [Patterns -> R] : G[<<x, f>>] = body(x, f)
  OBVIOUS
<1>4. Recursive(R, G)
  <2>1. [u \in Types |-> {}] \in R
    BY DEF R
  <2>2. G \in [Patterns \X [Patterns -> R] -> R]
    BY <1>1
  <2>3. \A x \in Patterns : \A f \in [Patterns -> R] : \A g \in [Patterns -> R] :
          (\A q \in Within(x) : f[q] = g[q]) => G[<<x, f>>] = G[<<x, g>>]
    BY <1>2, <1>3
  <2> HIDE DEF G
  <2> QED BY <2>1, <2>2, <2>3 DEF Recursive
<1> HIDE DEF G
<1>5. PICK h : Solution(R, G, h)
  BY <1>4, Recursion
<1>6. h = [x \in Patterns |-> body(x, h)]
  <2>1. \A x \in Patterns : h[x] = body(x, h)
    BY <1>3, <1>5 DEF Solution
  <2> QED BY <2>1, <1>5 DEF Solution
<1>7. Predicate = [x \in Patterns |-> body(x, Predicate)]
  BY <1>6 DEF Predicate, body
<1>8. Predicate[p] = body(p, Predicate)
  BY <1>7
<1> QED BY <1>8 DEF body

\* The types the resolver accepts a pattern for, from those inside it.
LEMMA AcceptingIs ==
  ASSUME NEW p \in Patterns
  PROVE  Accepting[p] = {t \in Types :
    CASE p.k \in {"Lit", "Range"} -> t = "Int"
      [] p.k = "Or"    -> \A i \in DOMAIN p.alts : t \in Accepting[p.alts[i]]
      [] p.k = "Tuple" -> /\ t \in DOMAIN Parts /\ Len(p.sub) = Len(Parts[t])
                          /\ \A i \in DOMAIN p.sub : p.sub[i].k # "Enum" /\ Parts[t][i] \in Accepting[p.sub[i]]
      [] p.k = "Enum"  -> /\ IsEnum(t) /\ p.case \in DOMAIN Payload[t]
                          /\ Len(p.sub) = Len(Payload[t][p.case])
                          /\ \A i \in DOMAIN p.sub : Payload[t][p.case][i] \in Accepting[p.sub[i]]
      [] OTHER -> TRUE}
<1> DEFINE R == SUBSET Types
           body(x, f) == {t \in Types :
             CASE x.k \in {"Lit", "Range"} -> t = "Int"
               [] x.k = "Or"    -> \A i \in DOMAIN x.alts : t \in f[x.alts[i]]
               [] x.k = "Tuple" -> /\ t \in DOMAIN Parts /\ Len(x.sub) = Len(Parts[t])
                                   /\ \A i \in DOMAIN x.sub : x.sub[i].k # "Enum" /\ Parts[t][i] \in f[x.sub[i]]
               [] x.k = "Enum"  -> /\ IsEnum(t) /\ x.case \in DOMAIN Payload[t]
                                   /\ Len(x.sub) = Len(Payload[t][x.case])
                                   /\ \A i \in DOMAIN x.sub : Payload[t][x.case][i] \in f[x.sub[i]]
               [] OTHER -> TRUE}
           G == [z \in Patterns \X [Patterns -> R] |-> body(z[1], z[2])]
<1>1. \A x, f : body(x, f) \in R
  OBVIOUS
<1>2. ASSUME NEW x \in Patterns, NEW f, NEW g, \A q \in Within(x) : f[q] = g[q]
      PROVE  body(x, f) = body(x, g)
  <2>1. CASE x.k = "Or"
    <3>1. \A i \in DOMAIN x.alts : f[x.alts[i]] = g[x.alts[i]]
      BY <1>2, <2>1, PatternsAre
    <3> QED BY <2>1, <3>1
  <2>2. CASE x.k \in {"Tuple", "Enum"}
    <3>1. \A i \in DOMAIN x.sub : f[x.sub[i]] = g[x.sub[i]]
      BY <1>2, <2>2, PatternsAre
    <3> QED BY <2>2, <3>1
  <2>3. CASE x.k \notin {"Or", "Tuple", "Enum"}
    BY <2>3
  <2> QED BY <2>1, <2>2, <2>3
<1> HIDE DEF body, R
<1>3. \A x \in Patterns, f \in [Patterns -> R] : G[<<x, f>>] = body(x, f)
  OBVIOUS
<1>4. Recursive(R, G)
  <2>3. R # {}
    BY DEF R
  <2>1. G \in [Patterns \X [Patterns -> R] -> R]
    BY <1>1
  <2>2. \A x \in Patterns : \A f \in [Patterns -> R] : \A g \in [Patterns -> R] :
          (\A q \in Within(x) : f[q] = g[q]) => G[<<x, f>>] = G[<<x, g>>]
    BY <1>2, <1>3
  <2> HIDE DEF G
  <2> QED BY <2>1, <2>2, <2>3 DEF Recursive
<1> HIDE DEF G
<1>5. PICK h : Solution(R, G, h)
  BY <1>4, Recursion
<1>6. h = [x \in Patterns |-> body(x, h)]
  <2>1. \A x \in Patterns : h[x] = body(x, h)
    BY <1>3, <1>5 DEF Solution
  <2> QED BY <2>1, <1>5 DEF Solution
<1>7. Accepting = [x \in Patterns |-> body(x, Accepting)]
  BY <1>6 DEF Accepting, body
<1>8. Accepting[p] = body(p, Accepting)
  BY <1>7
<1> QED BY <1>8 DEF body

\* The cases a pattern names, from those its alternatives name.
LEMMA NamedCasesIs ==
  ASSUME NEW p \in Patterns
  PROVE  NamedCases[p] = CASE p.k = "Enum" -> {p.case}
                           [] p.k = "Or"   -> UNION {NamedCases[p.alts[i]] : i \in DOMAIN p.alts}
                           [] OTHER        -> {}
<1> DEFINE R == SUBSET {q.case : q \in Patterns}
           body(x, f) ==
             CASE x.k = "Enum" -> {x.case}
               [] x.k = "Or"   -> UNION {f[x.alts[i]] : i \in DOMAIN x.alts}
               [] OTHER        -> {}
           G == [z \in Patterns \X [Patterns -> R] |-> body(z[1], z[2])]
<1>1. ASSUME NEW x \in Patterns, NEW f \in [Patterns -> R] PROVE body(x, f) \in R
  <2>1. CASE x.k = "Or"
    <3>1. \A i \in DOMAIN x.alts : f[x.alts[i]] \in R
      BY <2>1, PatternsAre
    <3> QED BY <2>1, <3>1
  <2>2. CASE x.k # "Or"
    BY <2>2
  <2> QED BY <2>1, <2>2
<1>2. ASSUME NEW x \in Patterns, NEW f, NEW g, \A q \in Within(x) : f[q] = g[q]
      PROVE  body(x, f) = body(x, g)
  <2>1. CASE x.k = "Or"
    <3>1. \A i \in DOMAIN x.alts : f[x.alts[i]] = g[x.alts[i]]
      BY <1>2, <2>1, PatternsAre
    <3> QED BY <2>1, <3>1
  <2>2. CASE x.k # "Or"
    BY <2>2
  <2> QED BY <2>1, <2>2
<1> HIDE DEF body, R
<1>3. \A x \in Patterns, f \in [Patterns -> R] : G[<<x, f>>] = body(x, f)
  OBVIOUS
<1>4. Recursive(R, G)
  <2>1. R # {}
    BY DEF R
  <2>2. G \in [Patterns \X [Patterns -> R] -> R]
    BY <1>1
  <2>3. \A x \in Patterns : \A f \in [Patterns -> R] : \A g \in [Patterns -> R] :
          (\A q \in Within(x) : f[q] = g[q]) => G[<<x, f>>] = G[<<x, g>>]
    BY <1>2, <1>3
  <2> HIDE DEF G
  <2> QED BY <2>1, <2>2, <2>3 DEF Recursive
<1> HIDE DEF G
<1>5. PICK h : Solution(R, G, h)
  BY <1>4, Recursion
<1>6. h = [x \in Patterns |-> body(x, h)]
  <2>1. \A x \in Patterns : h[x] = body(x, h)
    BY <1>3, <1>5 DEF Solution
  <2> QED BY <2>1, <1>5 DEF Solution
<1>7. NamedCases = [x \in Patterns |-> body(x, NamedCases)]
  BY <1>6 DEF NamedCases, body
<1>8. NamedCases[p] = body(p, NamedCases)
  BY <1>7
<1> QED BY <1>8 DEF body

\* A pattern and all the patterns inside the patterns it is made of.
LEMMA AllWithinIs ==
  ASSUME NEW p \in Patterns
  PROVE  AllWithin[p] = {p} \cup UNION {AllWithin[q] : q \in Within(p)}
<1> DEFINE R == SUBSET Patterns
           body(x, f) == {x} \cup UNION {f[q] : q \in Within(x)}
           G == [z \in Patterns \X [Patterns -> R] |-> body(z[1], z[2])]
<1>1. ASSUME NEW x \in Patterns, NEW f \in [Patterns -> R] PROVE body(x, f) \in R
  BY PatternsAre
<1>2. ASSUME NEW x \in Patterns, NEW f, NEW g, \A q \in Within(x) : f[q] = g[q]
      PROVE  body(x, f) = body(x, g)
  BY <1>2
<1> HIDE DEF body, R
<1>3. \A x \in Patterns, f \in [Patterns -> R] : G[<<x, f>>] = body(x, f)
  OBVIOUS
<1>4. Recursive(R, G)
  <2>1. R # {}
    BY DEF R
  <2>2. G \in [Patterns \X [Patterns -> R] -> R]
    BY <1>1
  <2>3. \A x \in Patterns : \A f \in [Patterns -> R] : \A g \in [Patterns -> R] :
          (\A q \in Within(x) : f[q] = g[q]) => G[<<x, f>>] = G[<<x, g>>]
    BY <1>2, <1>3
  <2> HIDE DEF G
  <2> QED BY <2>1, <2>2, <2>3 DEF Recursive
<1> HIDE DEF G
<1>5. PICK h : Solution(R, G, h)
  BY <1>4, Recursion
<1>6. h = [x \in Patterns |-> body(x, h)]
  <2>1. \A x \in Patterns : h[x] = body(x, h)
    BY <1>3, <1>5 DEF Solution
  <2> QED BY <2>1, <1>5 DEF Solution
<1>7. AllWithin = [x \in Patterns |-> body(x, AllWithin)]
  BY <1>6 DEF AllWithin, body
<1>8. AllWithin[p] = body(p, AllWithin)
  BY <1>7
<1> QED BY <1>8 DEF body

\* Whether an alternation holds a wildcard, from its alternatives.
LEMMA HasWildIs ==
  ASSUME NEW p \in Patterns
  PROVE  HasWild[p] = (p.k = "Wild" \/ (p.k = "Or" /\ \E i \in DOMAIN p.alts : HasWild[p.alts[i]]))
<1> DEFINE R == BOOLEAN
           body(x, f) == x.k = "Wild" \/ (x.k = "Or" /\ \E i \in DOMAIN x.alts : f[x.alts[i]])
           G == [z \in Patterns \X [Patterns -> R] |-> body(z[1], z[2])]
<1>1. ASSUME NEW x \in Patterns, NEW f \in [Patterns -> R] PROVE body(x, f) \in R
  OBVIOUS
<1>2. ASSUME NEW x \in Patterns, NEW f, NEW g, \A q \in Within(x) : f[q] = g[q]
      PROVE  body(x, f) = body(x, g)
  <2>1. CASE x.k = "Or"
    <3>1. \A i \in DOMAIN x.alts : f[x.alts[i]] = g[x.alts[i]]
      BY <1>2, <2>1, PatternsAre
    <3> QED BY <2>1, <3>1
  <2>2. CASE x.k # "Or"
    BY <2>2
  <2> QED BY <2>1, <2>2
<1> HIDE DEF body, R
<1>3. \A x \in Patterns, f \in [Patterns -> R] : G[<<x, f>>] = body(x, f)
  OBVIOUS
<1>4. Recursive(R, G)
  <2>1. R # {}
    BY DEF R
  <2>2. G \in [Patterns \X [Patterns -> R] -> R]
    BY <1>1
  <2>3. \A x \in Patterns : \A f \in [Patterns -> R] : \A g \in [Patterns -> R] :
          (\A q \in Within(x) : f[q] = g[q]) => G[<<x, f>>] = G[<<x, g>>]
    BY <1>2, <1>3
  <2> HIDE DEF G
  <2> QED BY <2>1, <2>2, <2>3 DEF Recursive
<1> HIDE DEF G
<1>5. PICK h : Solution(R, G, h)
  BY <1>4, Recursion
<1>6. h = [x \in Patterns |-> body(x, h)]
  <2>1. \A x \in Patterns : h[x] = body(x, h)
    BY <1>3, <1>5 DEF Solution
  <2> QED BY <2>1, <1>5 DEF Solution
<1>7. HasWild = [x \in Patterns |-> body(x, HasWild)]
  BY <1>6 DEF HasWild, body
<1>8. HasWild[p] = body(p, HasWild)
  BY <1>7
<1> QED BY <1>8 DEF body

-----------------------------------------------------------------------------
\* What the tests of the C++ hold for

NoEnumIn(p)   == \A q \in AllWithin[p] : q.k # "Enum"
OnlyCasesIn(p) == \A q \in AllWithin[p] : q.k \in {"Enum", "Or"}
OnlyBinds(p)  == \A n \in DOMAIN p.sub : p.sub[n].k \in {"Bind", "Wild"}

\* What holds of all patterns inside one holds of those it is made of.
LEMMA WithinToo ==
  ASSUME NEW p \in Patterns
  PROVE  /\ p \in AllWithin[p]
         /\ \A q \in Within(p) : /\ q \in Patterns
                                 /\ NoEnumIn(p) => NoEnumIn(q)
                                 /\ OnlyCasesIn(p) => OnlyCasesIn(q)
<1>1. AllWithin[p] = {p} \cup UNION {AllWithin[q] : q \in Within(p)}
  BY AllWithinIs
<1> QED BY <1>1, PatternsAre DEF NoEnumIn, OnlyCasesIn

\* The types of the parts of what a pattern is accepted for.
LEMMA PartsAccepted ==
  ASSUME NEW p \in Patterns, NEW t \in Accepting[p]
  PROVE  /\ t \in Types
         /\ p.k \in {"Lit", "Range"} => t = "Int"
         /\ p.k = "Or" => \A i \in DOMAIN p.alts : t \in Accepting[p.alts[i]]
         /\ p.k = "Tuple" => \A i \in DOMAIN p.sub :
              Parts[t][i] \in Types /\ Parts[t][i] \in Accepting[p.sub[i]]
         /\ p.k = "Enum" =>
              /\ t \in DOMAIN Payload /\ p.case \in DOMAIN Payload[t]
              /\ DOMAIN p.sub = DOMAIN Payload[t][p.case]
              /\ \A i \in DOMAIN p.sub :
                   Payload[t][p.case][i] \in Types /\ Payload[t][p.case][i] \in Accepting[p.sub[i]]
<1>1. t \in {u \in Types :
    CASE p.k \in {"Lit", "Range"} -> u = "Int"
      [] p.k = "Or"    -> \A i \in DOMAIN p.alts : u \in Accepting[p.alts[i]]
      [] p.k = "Tuple" -> /\ u \in DOMAIN Parts /\ Len(p.sub) = Len(Parts[u])
                          /\ \A i \in DOMAIN p.sub : p.sub[i].k # "Enum" /\ Parts[u][i] \in Accepting[p.sub[i]]
      [] p.k = "Enum"  -> /\ IsEnum(u) /\ p.case \in DOMAIN Payload[u]
                          /\ Len(p.sub) = Len(Payload[u][p.case])
                          /\ \A i \in DOMAIN p.sub : Payload[u][p.case][i] \in Accepting[p.sub[i]]
      [] OTHER -> TRUE}
  BY AcceptingIs
<1>2. \A q \in Patterns : Accepting[q] \subseteq Types
  BY AcceptingIs
<1>3. p.k \in {"Tuple", "Enum"} => \A i \in DOMAIN p.sub : p.sub[i] \in Patterns
  BY PatternsAre
<1>4. CASE p.k = "Tuple"
  BY <1>1, <1>2, <1>3, <1>4
<1>5. CASE p.k = "Enum"
  <2>1. /\ t \in DOMAIN Payload /\ p.case \in DOMAIN Payload[t] /\ Len(p.sub) = Len(Payload[t][p.case])
        /\ \A i \in DOMAIN p.sub : Payload[t][p.case][i] \in Accepting[p.sub[i]]
    BY <1>1, <1>5 DEF IsEnum
  <2>2. p.sub \in Seq(Patterns) /\ Payload[t][p.case] \in Seq(Types)
    BY <1>5, <2>1, PatternsAssumption, ValuesAssumption
  <2>3. DOMAIN p.sub = DOMAIN Payload[t][p.case]
    BY <2>1, <2>2
  <2> QED BY <1>1, <1>2, <1>3, <1>5, <2>1, <2>3
<1>6. CASE p.k \notin {"Tuple", "Enum"}
  BY <1>1, <1>6
<1> QED BY <1>4, <1>5, <1>6

\* A pattern that asks nothing matches every value.
LEMMA AlwaysMatches ==
  ASSUME NEW p \in Patterns, NEW t \in Types, p.k \in {"Missing", "Wild", "Bind"}
  PROVE  Matched[p][t] = Values[t]
<1>1. Matched[p][t] = {v \in Values[t] : TRUE}
  BY MatchedIs
<1> QED BY <1>1

\* Of values other than enums: the predicate holds for what the pattern matches.
LEMMA PredicateTests ==
  ASSUME NEW p \in Patterns, NEW t \in Accepting[p], NoEnumIn(p)
  PROVE  Predicate[p][t] = Matched[p][t]
<1> DEFINE bad == {q \in Patterns : NoEnumIn(q) /\ \E u \in Accepting[q] : Predicate[q][u] # Matched[q][u]}
<1> SUFFICES ASSUME bad # {} PROVE FALSE
  OBVIOUS
<1>1. PICK q \in bad : \A r \in Within(q) : r \notin bad
  BY Shallowest
<1>2. PICK u \in Accepting[q] : Predicate[q][u] # Matched[q][u]
  OBVIOUS
<1>3. q \in Patterns /\ NoEnumIn(q) /\ u \in Types
  BY PartsAccepted
<1>4. \A r \in Within(q) : r \in Patterns /\ \A w \in Accepting[r] : Predicate[r][w] = Matched[r][w]
  BY <1>1, <1>3, WithinToo
<1>5. q.k # "Enum"
  BY <1>3, WithinToo DEF NoEnumIn
<1>6. CASE q.k = "Or"
  <2>1. \A i \in DOMAIN q.alts : Predicate[q.alts[i]][u] = Matched[q.alts[i]][u]
    BY <1>3, <1>4, <1>6, PartsAccepted, PatternsAre
  <2>2. Predicate[q][u] = {v \in Values[u] : \E i \in DOMAIN q.alts : v \in Predicate[q.alts[i]][u]}
    BY <1>3, <1>6, PredicateIs
  <2>3. Matched[q][u] = {v \in Values[u] : \E i \in DOMAIN q.alts : v \in Matched[q.alts[i]][u]}
    BY <1>3, <1>6, MatchedIs
  <2> QED BY <1>2, <2>1, <2>2, <2>3
<1>7. CASE q.k = "Tuple"
  <2>1. \A i \in DOMAIN q.sub : Predicate[q.sub[i]][Parts[u][i]] = Matched[q.sub[i]][Parts[u][i]]
    BY <1>3, <1>4, <1>7, PartsAccepted, PatternsAre
  <2>2. Predicate[q][u] = {v \in Values[u] : \A i \in DOMAIN q.sub : v[i] \in Predicate[q.sub[i]][Parts[u][i]]}
    BY <1>3, <1>7, PredicateIs
  <2>3. Matched[q][u] = {v \in Values[u] : \A i \in DOMAIN q.sub : v[i] \in Matched[q.sub[i]][Parts[u][i]]}
    BY <1>3, <1>7, MatchedIs
  <2> QED BY <1>2, <2>1, <2>2, <2>3
<1>8. CASE q.k = "Lit"
  <2>1. Predicate[q][u] = {v \in Values[u] : v = q.n}
    BY <1>3, <1>8, PredicateIs
  <2>2. Matched[q][u] = {v \in Values[u] : v = q.n}
    BY <1>3, <1>8, MatchedIs
  <2> QED BY <1>2, <2>1, <2>2
<1>9. CASE q.k = "Range"
  <2>1. u = "Int" /\ Values[u] \subseteq Int /\ q.lo \in Int /\ q.hi \in Int /\ q.inclusive \in BOOLEAN
    BY <1>3, <1>9, PartsAccepted, PatternsAssumption, ValuesAssumption
  <2>2. Predicate[q][u] = {v \in Values[u] : q.lo <= v /\ IF q.inclusive THEN v <= q.hi ELSE v < q.hi}
    BY <1>3, <1>9, PredicateIs
  <2>3. Matched[q][u] = {v \in Values[u] : q.lo <= v /\ (v < q.hi \/ (q.inclusive /\ v = q.hi))}
    BY <1>3, <1>9, MatchedIs
  <2>4. \A v \in Values[u] : (q.lo <= v /\ IF q.inclusive THEN v <= q.hi ELSE v < q.hi)
                             <=> (q.lo <= v /\ (v < q.hi \/ (q.inclusive /\ v = q.hi)))
    BY <2>1
  <2> QED BY <1>2, <2>2, <2>3, <2>4
<1>10. CASE q.k \notin {"Or", "Tuple", "Lit", "Range"}
  <2>1. Predicate[q][u] = {v \in Values[u] : TRUE}
    BY <1>3, <1>10, PredicateIs
  <2>2. Matched[q][u] = {v \in Values[u] : TRUE}
    BY <1>3, <1>5, <1>10, MatchedIs
  <2> QED BY <1>2, <2>1, <2>2
<1> QED BY <1>6, <1>7, <1>8, <1>9, <1>10

\* A case whose payload is only bound matches all values of the case.
LEMMA CaseMatches ==
  ASSUME NEW p \in Patterns, NEW t \in Accepting[p], p.k = "Enum", OnlyBinds(p)
  PROVE  Matched[p][t] = {v \in Values[t] : v.case = p.case}
<1>1. /\ t \in Types /\ t \in DOMAIN Payload /\ p.case \in DOMAIN Payload[t]
      /\ DOMAIN p.sub = DOMAIN Payload[t][p.case]
      /\ \A i \in DOMAIN p.sub : Payload[t][p.case][i] \in Types /\ p.sub[i] \in Patterns
  BY PartsAccepted, PatternsAre
<1>2. Matched[p][t] = {v \in Values[t] : /\ v.case = p.case
                                         /\ \A i \in DOMAIN p.sub :
                                              v.fields[i] \in Matched[p.sub[i]][Payload[t][p.case][i]]}
  BY <1>1, MatchedIs
<1>3. ASSUME NEW v \in Values[t], v.case = p.case, NEW i \in DOMAIN p.sub
      PROVE  v.fields[i] \in Matched[p.sub[i]][Payload[t][p.case][i]]
  <2>1. v.fields[i] \in Values[Payload[t][p.case][i]]
    BY <1>1, <1>3, ValuesAssumption
  <2>2. p.sub[i].k \in {"Bind", "Wild"} /\ p.sub[i] \in Patterns /\ Payload[t][p.case][i] \in Types
    BY <1>1 DEF OnlyBinds
  <2>3. Matched[p.sub[i]][Payload[t][p.case][i]] = Values[Payload[t][p.case][i]]
    BY <2>2, AlwaysMatches
  <2> QED BY <2>1, <2>3
<1> QED BY <1>2, <1>3

\* A flat alternation, or a single case, names the cases that stand in it.
LEMMA FlatNames ==
  ASSUME NEW p \in Patterns, AllEnum(p)
  PROVE  NamedCases[p] = FlatCases(p)
<1>1. CASE p.k = "Or"
  <2>1. /\ Range(Alternatives(p)) = {p.alts[i] : i \in DOMAIN p.alts}
        /\ \A i \in DOMAIN p.alts : p.alts[i] \in Patterns
    BY <1>1, PatternsAre DEF Alternatives, Range
  <2>2. \A i \in DOMAIN p.alts : p.alts[i].k = "Enum"
    BY <2>1 DEF AllEnum
  <2>3. \A i \in DOMAIN p.alts : NamedCases[p.alts[i]] = {p.alts[i].case}
    BY <2>1, <2>2, NamedCasesIs
  <2>4. NamedCases[p] = UNION {NamedCases[p.alts[i]] : i \in DOMAIN p.alts}
    BY <1>1, NamedCasesIs
  <2>5. FlatCases(p) = {p.alts[i].case : i \in DOMAIN p.alts}
    BY <2>1, <2>2 DEF FlatCases
  <2> QED BY <2>3, <2>4, <2>5
<1>2. CASE p.k # "Or"
  <2>1. Range(Alternatives(p)) = {p}
    BY <1>2 DEF Alternatives, Range
  <2>2. p.k = "Enum"
    BY <2>1 DEF AllEnum
  <2>3. NamedCases[p] = {p.case}
    BY <2>2, NamedCasesIs
  <2> QED BY <2>1, <2>2, <2>3 DEF FlatCases
<1> QED BY <1>1, <1>2

\* A flat pattern whose cases bind all their payload is tested by its cases.
LEMMA FlatTests ==
  ASSUME NEW p \in Patterns, NEW t \in Accepting[p], AllEnum(p),
         \A c \in Range(Alternatives(p)) : OnlyBinds(c)
  PROVE  Matched[p][t] = {v \in Values[t] : v.case \in NamedCases[p]}
<1>0. t \in Types
  BY PartsAccepted
<1>1. CASE p.k = "Or"
  <2>1. /\ Range(Alternatives(p)) = {p.alts[i] : i \in DOMAIN p.alts}
        /\ \A i \in DOMAIN p.alts : p.alts[i] \in Patterns /\ t \in Accepting[p.alts[i]]
    BY <1>1, PatternsAre, PartsAccepted DEF Alternatives, Range
  <2>2. \A i \in DOMAIN p.alts : p.alts[i].k = "Enum" /\ OnlyBinds(p.alts[i])
    BY <2>1 DEF AllEnum
  <2>3. ASSUME NEW i \in DOMAIN p.alts
        PROVE  /\ NamedCases[p.alts[i]] = {p.alts[i].case}
               /\ \A v \in Values[t] : v \in Matched[p.alts[i]][t] <=> v.case = p.alts[i].case
    <3>1. p.alts[i] \in Patterns /\ t \in Accepting[p.alts[i]] /\ p.alts[i].k = "Enum" /\ OnlyBinds(p.alts[i])
      BY <2>1, <2>2
    <3>2. Matched[p.alts[i]][t] = {v \in Values[t] : v.case = p.alts[i].case}
      BY <3>1, CaseMatches
    <3>3. NamedCases[p.alts[i]] = {p.alts[i].case}
      BY <3>1, NamedCasesIs
    <3> QED BY <3>2, <3>3
  <2>4. NamedCases[p] = UNION {NamedCases[p.alts[i]] : i \in DOMAIN p.alts}
    BY <1>1, NamedCasesIs
  <2>5. Matched[p][t] = {v \in Values[t] : \E i \in DOMAIN p.alts : v \in Matched[p.alts[i]][t]}
    BY <1>0, <1>1, MatchedIs
  <2>6. \A c : c \in NamedCases[p] <=> \E i \in DOMAIN p.alts : c = p.alts[i].case
    <3>1. \A c : c \in NamedCases[p] <=> \E i \in DOMAIN p.alts : c \in NamedCases[p.alts[i]]
      BY <2>4
    <3>2. \A c : \A i \in DOMAIN p.alts : c \in NamedCases[p.alts[i]] <=> c = p.alts[i].case
      BY <2>3
    <3> QED BY <3>1, <3>2
  <2> QED BY <2>3, <2>5, <2>6
<1>2. CASE p.k # "Or"
  <2>1. Range(Alternatives(p)) = {p}
    BY <1>2 DEF Alternatives, Range
  <2>2. p.k = "Enum" /\ OnlyBinds(p)
    BY <2>1 DEF AllEnum
  <2>3. NamedCases[p] = {p.case}
    BY <2>2, NamedCasesIs
  <2> QED BY <2>2, <2>3, CaseMatches
<1> QED BY <1>1, <1>2

\* Cases without payload are tested by their names, however alternations nest.
LEMMA BareTests ==
  ASSUME NEW p \in Patterns, NEW t \in Accepting[p], Bare(t), OnlyCasesIn(p)
  PROVE  Matched[p][t] = {v \in Values[t] : v.case \in NamedCases[p]}
<1> DEFINE named(q) == {v \in Values[t] : v.case \in NamedCases[q]}
           bad == {q \in Patterns : OnlyCasesIn(q) /\ t \in Accepting[q] /\ Matched[q][t] # named(q)}
<1> SUFFICES ASSUME bad # {} PROVE FALSE
  OBVIOUS
<1>1. PICK q \in bad : \A r \in Within(q) : r \notin bad
  BY Shallowest
<1>2. q \in Patterns /\ OnlyCasesIn(q) /\ t \in Accepting[q] /\ t \in Types /\ Matched[q][t] # named(q)
  BY PartsAccepted
<1>3. q.k \in {"Enum", "Or"}
  BY <1>2, WithinToo DEF OnlyCasesIn
<1>4. CASE q.k = "Enum"
  <2>1. q.case \in DOMAIN Payload[t] /\ DOMAIN q.sub = DOMAIN Payload[t][q.case]
    BY <1>2, <1>4, PartsAccepted
  <2>2. Payload[t][q.case] = <<>>
    BY <2>1 DEF Bare
  <2>3. OnlyBinds(q)
    BY <2>1, <2>2 DEF OnlyBinds
  <2>4. NamedCases[q] = {q.case}
    BY <1>2, <1>4, NamedCasesIs
  <2> QED BY <1>2, <1>4, <2>3, <2>4, CaseMatches
<1>5. CASE q.k = "Or"
  <2>1. \A i \in DOMAIN q.alts : /\ q.alts[i] \in Patterns /\ OnlyCasesIn(q.alts[i])
                                 /\ t \in Accepting[q.alts[i]] /\ q.alts[i] \in Within(q)
    BY <1>2, <1>5, PatternsAre, PartsAccepted, WithinToo
  <2>2. \A i \in DOMAIN q.alts : Matched[q.alts[i]][t] = named(q.alts[i])
    BY <1>1, <2>1
  <2>3. NamedCases[q] = UNION {NamedCases[q.alts[i]] : i \in DOMAIN q.alts}
    BY <1>2, <1>5, NamedCasesIs
  <2>4. Matched[q][t] = {v \in Values[t] : \E i \in DOMAIN q.alts : v \in Matched[q.alts[i]][t]}
    BY <1>2, <1>5, MatchedIs
  <2> QED BY <1>2, <2>2, <2>3, <2>4
<1> QED BY <1>3, <1>4, <1>5

-----------------------------------------------------------------------------
\* The code of a match

\* A match has a type, and finitely many arms with patterns.
LEMMA MatchIs ==
  ASSUME NEW m \in Match
  PROVE  /\ m.type \in Types /\ Len(m.arms) \in Nat /\ DOMAIN m.arms = 1..Len(m.arms)
         /\ \A i \in DOMAIN m.arms : m.arms[i].pattern \in Patterns
<1>1. m.type \in Types /\ m.arms \in Seq(Arm)
  BY DEF Match
<1>2. Len(m.arms) \in Nat /\ DOMAIN m.arms = 1..Len(m.arms) /\ \A i \in DOMAIN m.arms : m.arms[i] \in Arm
  BY <1>1
<1>3. \A a \in Arm : a.pattern \in Patterns
  BY DEF Arm
<1> QED BY <1>1, <1>2, <1>3

\* What the five lowerings have in common, for a match whose chains are flat:
\* a branch for each arm but the default, the default last, and tests that
\* hold for the values of the cases the arm names.
LEMMA Lowered ==
  ASSUME NEW m \in Match, Accepted(m), ~EmitMatch(m).bad
  PROVE  /\ EmitMatch(m).last = DefaultArm(m) /\ DOMAIN EmitMatch(m).branches = Tested(m)
         /\ \A i \in Tested(m) :
              LET p == m.arms[i].pattern
                  b == EmitMatch(m).branches[i]
              IN  /\ b.guarded => Guarded(m, i)
                  /\ ~(IsEnum(m.type) /\ m.hoisted) => (Guarded(m, i) => b.guarded)
                  /\ ~IsEnum(m.type) => b.takes = Predicate[p][m.type]
                  /\ IsEnum(m.type) /\ FlatChain(m) =>
                       /\ b.takes = OfCases(m, NamedCases[p])
                       /\ AllEnum(p) \/ (Bare(m.type) /\ OnlyCasesIn(p))
<1>1. \A i \in DOMAIN m.arms : m.arms[i].pattern \in Patterns
  BY MatchIs
<1>2. \A i \in Tested(m) : /\ m.arms[i].pattern \in Patterns
                           /\ AllEnum(m.arms[i].pattern) =>
                                NamedCases[m.arms[i].pattern] = FlatCases(m.arms[i].pattern)
  BY <1>1, FlatNames DEF Tested
<1>3. CASE ~IsEnum(m.type)
  <2>1. EmitMatch(m) = ValueChain(m)
    BY <1>3 DEF EmitMatch
  <2> QED BY <1>3, <2>1 DEF ValueChain, Code, Branch
<1>4. CASE IsEnum(m.type) /\ m.hoisted
  <2>1. EmitMatch(m) = HoistedEnum(m)
    BY <1>4 DEF EmitMatch
  <2>2. \A i \in Tested(m) : m.arms[i].pattern.k = "Enum"
    <3>1. EmitMatch(m).bad =
            ((\E i \in Tested(m) : m.arms[i].pattern.k # "Enum") \/ (Bare(m.type) /\ Twice(m)))
      BY <2>1 DEF HoistedEnum, Code
    <3> QED BY <3>1
  <2>3. \A i \in Tested(m) : AllEnum(m.arms[i].pattern)
    BY <2>2 DEF AllEnum, Alternatives, Range
  <2> QED BY <1>2, <1>4, <2>1, <2>3 DEF HoistedEnum, Code, Branch
<1>5. CASE IsEnum(m.type) /\ ~m.hoisted /\ ~Bare(m.type)
  <2>1. EmitMatch(m) = Visit(m)
    BY <1>5 DEF EmitMatch
  <2>2. \A i \in Tested(m) : AllEnum(m.arms[i].pattern)
    BY <2>1 DEF Visit, Code
  <2> QED BY <1>2, <1>5, <2>1, <2>2 DEF Visit, Code, Branch
<1>6. CASE IsEnum(m.type) /\ ~m.hoisted /\ Bare(m.type) /\ Chained(m)
  <2>1. EmitMatch(m) = EnumChain(m)
    BY <1>6 DEF EmitMatch
  <2>2. FlatChain(m) => \A i \in Tested(m) : AllEnum(m.arms[i].pattern)
    BY <1>6 DEF FlatChain
  <2> QED BY <1>2, <1>6, <2>1, <2>2 DEF EnumChain, Code, Branch
<1>7. CASE IsEnum(m.type) /\ ~m.hoisted /\ Bare(m.type) /\ ~Chained(m)
  <2>1. EmitMatch(m) = Switch(m)
    BY <1>7 DEF EmitMatch
  <2>2. \A i \in Tested(m) : OnlyCasesIn(m.arms[i].pattern)
    BY <2>1 DEF Switch, Code, OnlyCasesIn
  <2>3. \A i \in Tested(m) : ~Guarded(m, i)
    BY <1>7 DEF Chained, Tested
  <2> QED BY <1>7, <2>1, <2>2, <2>3 DEF Switch, Code, Branch
<1> QED BY <1>3, <1>4, <1>5, <1>6, <1>7

\* In an ordinary match each branch tests what its arm's pattern matches, and
\* asks the guard exactly of the arms that have one.
LEMMA TestsFit ==
  ASSUME NEW m \in Match, Accepted(m), ~EmitMatch(m).bad, Ordinary(m), NEW i \in Tested(m)
  PROVE  /\ EmitMatch(m).branches[i].takes = Matched[m.arms[i].pattern][m.type]
         /\ EmitMatch(m).branches[i].guarded <=> Guarded(m, i)
<1> DEFINE p == m.arms[i].pattern
           b == EmitMatch(m).branches[i]
<1>1. /\ i \in DOMAIN m.arms /\ p \in Patterns /\ m.type \in Accepting[p]
  BY MatchIs DEF Tested, Accepted
<1>2. /\ b.guarded => Guarded(m, i)
      /\ ~(IsEnum(m.type) /\ m.hoisted) => (Guarded(m, i) => b.guarded)
      /\ ~IsEnum(m.type) => b.takes = Predicate[p][m.type]
      /\ IsEnum(m.type) /\ FlatChain(m) =>
           /\ b.takes = OfCases(m, NamedCases[p])
           /\ AllEnum(p) \/ (Bare(m.type) /\ OnlyCasesIn(p))
  BY Lowered
<1>3. /\ IsEnum(m.type) => FlatChain(m)
      /\ IsEnum(m.type) => \A c \in Range(Alternatives(p)) :
            c.k = "Enum" => \A n \in DOMAIN c.sub : c.sub[n].k \in {"Bind", "Wild"}
      /\ ~IsEnum(m.type) => NoEnumIn(p)
      /\ Guarded(m, i) => ~(m.hoisted /\ IsEnum(m.type))
  BY <1>1 DEF Ordinary, NoEnumIn
<1> HIDE DEF p, b
<1>4. CASE ~IsEnum(m.type)
  BY <1>1, <1>2, <1>3, <1>4, PredicateTests DEF b, p
<1>5. CASE IsEnum(m.type) /\ AllEnum(p)
  <2>1. \A c \in Range(Alternatives(p)) : OnlyBinds(c)
    BY <1>3, <1>5 DEF AllEnum, OnlyBinds
  <2>2. Matched[p][m.type] = {v \in Values[m.type] : v.case \in NamedCases[p]}
    BY <1>1, <1>5, <2>1, FlatTests
  <2> QED BY <1>2, <1>3, <1>5, <2>2 DEF OfCases, b, p
<1>6. CASE IsEnum(m.type) /\ Bare(m.type) /\ OnlyCasesIn(p)
  <2>1. Matched[p][m.type] = {v \in Values[m.type] : v.case \in NamedCases[p]}
    BY <1>1, <1>6, BareTests
  <2> QED BY <1>2, <1>3, <1>6, <2>1 DEF OfCases, b, p
<1> QED BY <1>2, <1>3, <1>4, <1>5, <1>6

\* The default arm is one that needs no test, the greatest; 0 if there is none.
LEMMA DefaultIs ==
  ASSUME NEW m \in Match
  PROVE  /\ CatchAlls(m) = {} => DefaultArm(m) = 0
         /\ CatchAlls(m) # {} => DefaultArm(m) \in CatchAlls(m)
<1>1. DOMAIN m.arms = 1..Len(m.arms) /\ Len(m.arms) \in Nat
  BY MatchIs
<1>2. ASSUME CatchAlls(m) # {} PROVE Max(CatchAlls(m)) \in CatchAlls(m)
  <2> DEFINE S == {Len(m.arms) - i : i \in CatchAlls(m)}
  <2>1. \A i \in CatchAlls(m) : Len(m.arms) - i \in Nat
    BY <1>1 DEF CatchAlls
  <2>6. S \in SUBSET Nat /\ S # {}
    BY <1>2, <2>1
  <2>2. PICK n \in S : \A k \in S : n <= k
    BY <2>6, Least
  <2>3. PICK j \in CatchAlls(m) : n = Len(m.arms) - j
    BY <2>2
  <2>4. \A i \in CatchAlls(m) : i \in Int /\ Len(m.arms) - j <= Len(m.arms) - i
    BY <1>1, <2>2, <2>3 DEF CatchAlls
  <2>5. \A i \in CatchAlls(m) : i <= j
    BY <1>1, <2>4, <2>3
  <2> QED BY <2>5 DEF Max
<1> QED BY <1>2 DEF DefaultArm

\* The code of an ordinary match runs the first arm that fits, where one fits.
LEMMA SameOrder ==
  ASSUME NEW m \in Match, Accepted(m), ~EmitMatch(m).bad, Ordinary(m),
         NEW v \in Values[m.type], NEW true, FirstMatch(m, v, true) # 0
  PROVE  Taken(EmitMatch(m), v, true) = FirstMatch(m, v, true)
<1> DEFINE fits == {i \in DOMAIN m.arms : /\ v \in Matched[m.arms[i].pattern][m.type]
                                          /\ Guarded(m, i) => i \in true}
           bs == EmitMatch(m).branches
           holds == {i \in DOMAIN bs : /\ v \in bs[i].takes
                                       /\ bs[i].guarded => i \in true}
<1>1. DOMAIN m.arms = 1..Len(m.arms) /\ Len(m.arms) \in Nat /\ m.type \in Types
  BY MatchIs
<1>2. EmitMatch(m).last = DefaultArm(m) /\ DOMAIN bs = Tested(m)
  BY Lowered
<1>3. FirstMatch(m, v, true) = (IF fits = {} THEN 0 ELSE Min(fits))
  BY DEF FirstMatch
<1>4. Taken(EmitMatch(m), v, true) = (IF holds = {} THEN DefaultArm(m) ELSE Min(holds))
  BY <1>2 DEF Taken
<1>5. \A i \in Tested(m) : i \in holds <=> i \in fits
  <2> SUFFICES ASSUME NEW i \in Tested(m) PROVE i \in holds <=> i \in fits
    OBVIOUS
  <2>1. bs[i].takes = Matched[m.arms[i].pattern][m.type] /\ (bs[i].guarded <=> Guarded(m, i))
    BY TestsFit
  <2>2. i \in DOMAIN m.arms /\ i \in DOMAIN bs
    BY <1>2 DEF Tested
  <2> HIDE DEF bs
  <2> QED BY <2>1, <2>2
<1>6. ASSUME NEW i \in CatchAlls(m) PROVE i \in fits /\ i = Len(m.arms)
  <2>1. /\ i \in DOMAIN m.arms /\ m.arms[i].pattern.k \in {"Missing", "Wild"}
        /\ m.arms[i].pattern \in Patterns
    BY MatchIs DEF CatchAlls, CatchAll
  <2>2. i = Len(m.arms) /\ ~Guarded(m, i)
    BY <2>1 DEF Ordinary, CatchAll
  <2>3. v \in Matched[m.arms[i].pattern][m.type]
    BY <1>1, <2>1, AlwaysMatches
  <2> QED BY <2>1, <2>2, <2>3
<1>7. Tested(m) \cup CatchAlls(m) = DOMAIN m.arms
  BY DEF Tested, CatchAlls
<1>8. fits \subseteq DOMAIN m.arms /\ holds \subseteq Tested(m) /\ Tested(m) \subseteq DOMAIN m.arms
  BY <1>2 DEF Tested
<1> HIDE DEF fits, holds, bs
<1>9. fits # {}
  BY <1>3
<1>10. CASE holds = {}
  <2>1. fits \subseteq CatchAlls(m)
    BY <1>5, <1>7, <1>8, <1>10
  <2>2. CatchAlls(m) # {}
    BY <1>9, <2>1
  <2>3. DefaultArm(m) = Len(m.arms) /\ fits = {Len(m.arms)}
    BY <1>6, <2>1, <2>2, DefaultIs
  <2>4. Min(fits) = Len(m.arms)
    <3>1. {Len(m.arms)} \in SUBSET Nat /\ \A k \in {Len(m.arms)} : Len(m.arms) <= k
      BY <1>1
    <3>2. Min({Len(m.arms)}) = Len(m.arms)
      BY <3>1, MinUnique
    <3> QED BY <2>3, <3>2
  <2> QED BY <1>3, <1>4, <1>9, <1>10, <2>3, <2>4
<1>11. CASE holds # {}
  <2>1. holds \in SUBSET Nat /\ fits \in SUBSET Nat
    BY <1>1, <1>8
  <2>2. Min(holds) \in holds /\ \A i \in holds : Min(holds) <= i
    BY <1>11, <2>1, MinIs
  <2>3. Min(holds) \in fits /\ Min(holds) \in 1..Len(m.arms)
    BY <1>1, <1>5, <1>8, <2>2
  <2>4. \A i \in fits : Min(holds) <= i
    BY <1>1, <1>5, <1>6, <1>7, <1>8, <2>2, <2>3
  <2>5. Min(fits) = Min(holds)
    BY <2>1, <2>3, <2>4, MinUnique
  <2> QED BY <1>3, <1>4, <1>9, <1>11, <2>5
<1> QED BY <1>10, <1>11

\* The branch the code takes: one whose test holds for the value, with none
\* before it that holds and has no guard; the default when no such branch holds.
LEMMA TakenIs ==
  ASSUME NEW m \in Match, Accepted(m), ~EmitMatch(m).bad, IsEnum(m.type), FlatChain(m),
         NEW v \in Values[m.type], NEW true
  PROVE  LET i == Taken(EmitMatch(m), v, true)
             named(j) == v.case \in NamedCases[m.arms[j].pattern]
         IN  \/ /\ i = DefaultArm(m)
                /\ \A j \in Tested(m) : named(j) => Guarded(m, j)
             \/ /\ i \in Tested(m) /\ named(i)
                /\ \A j \in Tested(m) : named(j) /\ j < i => Guarded(m, j)
<1> DEFINE bs == EmitMatch(m).branches
           holds == {j \in DOMAIN bs : /\ v \in bs[j].takes
                                       /\ bs[j].guarded => j \in true}
           named(j) == v.case \in NamedCases[m.arms[j].pattern]
<1>1. EmitMatch(m).last = DefaultArm(m) /\ DOMAIN bs = Tested(m)
  BY Lowered
<1>2. Taken(EmitMatch(m), v, true) = (IF holds = {} THEN DefaultArm(m) ELSE Min(holds))
  BY <1>1 DEF Taken
<1>3. \A j \in Tested(m) : /\ v \in bs[j].takes <=> named(j)
                           /\ bs[j].guarded => Guarded(m, j)
  <2> SUFFICES ASSUME NEW j \in Tested(m)
               PROVE  /\ v \in bs[j].takes <=> named(j)
                      /\ bs[j].guarded => Guarded(m, j)
    OBVIOUS
  <2>1. /\ bs[j].guarded => Guarded(m, j)
        /\ bs[j].takes = OfCases(m, NamedCases[m.arms[j].pattern])
    BY Lowered
  <2> QED BY <2>1 DEF OfCases
<1> HIDE DEF bs
<1>4. /\ \A j \in holds : j \in Tested(m) /\ named(j)
      /\ \A j \in Tested(m) : named(j) /\ ~Guarded(m, j) => j \in holds
  BY <1>1, <1>3
<1> HIDE DEF holds, named
<1>5. CASE holds = {}
  BY <1>2, <1>4, <1>5 DEF named
<1>6. CASE holds # {}
  <2>1. holds \in SUBSET Nat /\ Tested(m) \in SUBSET Nat
    BY <1>4, MatchIs DEF Tested
  <2>2. Min(holds) \in holds /\ \A j \in holds : Min(holds) <= j
    BY <1>6, <2>1, MinIs
  <2>3. \A j \in Tested(m) : named(j) /\ j < Min(holds) => Guarded(m, j)
    <3> SUFFICES ASSUME NEW j \in Tested(m), named(j), j < Min(holds), ~Guarded(m, j) PROVE FALSE
      OBVIOUS
    <3>1. j \in holds
      BY <1>4
    <3>2. Min(holds) <= j /\ j \in Nat /\ Min(holds) \in Nat
      BY <2>1, <2>2, <3>1
    <3> QED BY <3>2
  <2> QED BY <1>2, <1>4, <1>6, <2>2, <2>3 DEF named
<1> QED BY <1>5, <1>6

\* An arm whose case an earlier arm without guard names is not taken.
LEMMA WarnedNotTaken ==
  ASSUME NEW m \in Match, Accepted(m), ~EmitMatch(m).bad, FlatChain(m),
         NEW v \in Values[m.type], NEW true
  PROVE  Taken(EmitMatch(m), v, true) \notin WarnedCase(m)
<1> DEFINE i == Taken(EmitMatch(m), v, true)
<1> SUFFICES ASSUME i \in WarnedCase(m) PROVE FALSE
  OBVIOUS
<1>1. /\ i \in DOMAIN m.arms /\ m.arms[i].pattern.k = "Enum"
      /\ m.arms[i].pattern.case \in ClosedBefore(m, i)
      /\ \A j \in 1..(i - 1) : ~CatchAll(m.arms[j])
  BY DEF WarnedCase
<1>2. PICK j \in 1..(i - 1) : /\ ~Guarded(m, j)
                              /\ m.arms[i].pattern.case \in NamedCases[m.arms[j].pattern]
  BY <1>1 DEF ClosedBefore
<1>3. i \in Nat /\ j \in DOMAIN m.arms /\ j < i /\ m.arms[i].pattern \in Patterns
  BY <1>1, <1>2, MatchIs
<1>4. j \in Tested(m) /\ i \in Tested(m)
  BY <1>1, <1>2, <1>3 DEF Tested, CatchAll
<1>5. IsEnum(m.type)
  <2>1. m.type \in Accepting[m.arms[i].pattern]
    BY <1>1 DEF Accepted
  <2> QED BY <1>1, <1>3, <2>1, PartsAccepted DEF IsEnum
<1>6. NamedCases[m.arms[i].pattern] = {m.arms[i].pattern.case}
  BY <1>1, <1>3, NamedCasesIs
<1>7. i # DefaultArm(m)
  <2>1. 0 \notin DOMAIN m.arms
    BY MatchIs
  <2> QED BY <1>1, <1>4, <2>1, DefaultIs DEF Tested, CatchAlls
<1>8. /\ v.case \in NamedCases[m.arms[i].pattern]
      /\ \A k \in Tested(m) : v.case \in NamedCases[m.arms[k].pattern] /\ k < i => Guarded(m, k)
  <2> HIDE DEF i
  <2>1. \/ /\ i = DefaultArm(m)
           /\ \A k \in Tested(m) : v.case \in NamedCases[m.arms[k].pattern] => Guarded(m, k)
        \/ /\ i \in Tested(m) /\ v.case \in NamedCases[m.arms[i].pattern]
           /\ \A k \in Tested(m) : v.case \in NamedCases[m.arms[k].pattern] /\ k < i => Guarded(m, k)
    BY <1>5, TakenIs DEF i
  <2> QED BY <1>7, <2>1
<1> QED BY <1>2, <1>3, <1>4, <1>6, <1>8

\* An alternation of cases only holds no wildcard.
LEMMA CasesNotWild ==
  ASSUME NEW p \in Patterns, AllEnum(p) \/ OnlyCasesIn(p)
  PROVE  ~HasWild[p]
<1>1. ASSUME NEW q \in Patterns, OnlyCasesIn(q) PROVE ~HasWild[q]
  <2> DEFINE bad == {r \in Patterns : OnlyCasesIn(r) /\ HasWild[r]}
  <2> SUFFICES ASSUME bad # {} PROVE FALSE
    BY <1>1
  <2>1. PICK r \in bad : \A s \in Within(r) : s \notin bad
    BY Shallowest
  <2>2. r.k \in {"Enum", "Or"} /\ HasWild[r] = (r.k = "Wild" \/ (r.k = "Or" /\ \E i \in DOMAIN r.alts : HasWild[r.alts[i]]))
    BY HasWildIs, WithinToo DEF OnlyCasesIn
  <2>3. r.k = "Or" => \A i \in DOMAIN r.alts : ~HasWild[r.alts[i]]
    BY <2>1, PatternsAre, WithinToo
  <2> QED BY <2>2, <2>3
<1>2. CASE AllEnum(p)
  <2>1. CASE p.k = "Or"
    <3>1. \A i \in DOMAIN p.alts : p.alts[i] \in Patterns /\ p.alts[i] \in Range(Alternatives(p))
      BY <2>1, PatternsAre DEF Alternatives, Range
    <3>2. \A i \in DOMAIN p.alts : p.alts[i].k = "Enum"
      BY <1>2, <3>1 DEF AllEnum
    <3>3. \A i \in DOMAIN p.alts : ~HasWild[p.alts[i]]
      BY <3>1, <3>2, HasWildIs
    <3> QED BY <2>1, <3>3, HasWildIs
  <2>2. CASE p.k # "Or"
    <3>1. p \in Range(Alternatives(p))
      BY <2>2 DEF Alternatives, Range
    <3>2. p.k = "Enum"
      BY <1>2, <3>1 DEF AllEnum
    <3> QED BY <3>2, HasWildIs
  <2> QED BY <2>1, <2>2
<1> QED BY <1>1, <1>2

\* A match over an enum that is accepted and asks no guard takes an arm.
LEMMA CoveredTaken ==
  ASSUME NEW m \in Match, Accepted(m), ~EmitMatch(m).bad, IsEnum(m.type), FlatChain(m),
         \A i \in DOMAIN m.arms : ~Guarded(m, i), NEW v \in Values[m.type], NEW true
  PROVE  Taken(EmitMatch(m), v, true) # 0
<1> DEFINE i == Taken(EmitMatch(m), v, true)
<1> SUFFICES ASSUME i = 0 PROVE FALSE
  OBVIOUS
<1>1. 0 \notin DOMAIN m.arms
  BY MatchIs
<1>2. 0 \notin Tested(m) /\ 0 \notin CatchAlls(m)
  BY <1>1 DEF Tested, CatchAlls
<1>3. CatchAlls(m) = {} /\ \A j \in Tested(m) : v.case \notin NamedCases[m.arms[j].pattern]
  <2> HIDE DEF i
  <2>1. \/ /\ i = DefaultArm(m)
           /\ \A j \in Tested(m) : v.case \in NamedCases[m.arms[j].pattern] => Guarded(m, j)
        \/ i \in Tested(m)
    BY TakenIs DEF i
  <2>2. i = DefaultArm(m)
    BY <1>2, <2>1
  <2>3. CatchAlls(m) = {}
    BY <1>2, <2>2, DefaultIs
  <2>4. \A j \in Tested(m) : ~Guarded(m, j)
    BY DEF Tested
  <2> QED BY <1>2, <2>1, <2>3, <2>4
<1>4. DOMAIN m.arms = Tested(m)
  BY <1>3 DEF Tested, CatchAlls
<1>5. \A j \in DOMAIN m.arms : m.arms[j].pattern.k # "Missing" /\ ~HasWild[m.arms[j].pattern]
  <2> SUFFICES ASSUME NEW j \in Tested(m)
               PROVE  m.arms[j].pattern.k # "Missing" /\ ~HasWild[m.arms[j].pattern]
    BY <1>4
  <2>1. m.arms[j].pattern \in Patterns /\ m.arms[j].pattern.k # "Missing"
    BY <1>4, MatchIs DEF Tested, CatchAll
  <2>2. AllEnum(m.arms[j].pattern) \/ OnlyCasesIn(m.arms[j].pattern)
    BY Lowered
  <2> QED BY <2>1, <2>2, CasesNotWild
<1>6. DOMAIN Payload[m.type] \subseteq UNION {NamedCases[m.arms[j].pattern] : j \in DOMAIN m.arms}
  BY <1>5 DEF Accepted, Exhaustive, Covered
<1>7. v.case \in DOMAIN Payload[m.type]
  BY ValuesAssumption DEF IsEnum
<1> QED BY <1>3, <1>4, <1>6, <1>7

-----------------------------------------------------------------------------
\* The steps

\* What each phase has behind it: a match past the resolver was accepted, its
\* code is what the emitter writes for it, and the arms compared at the end are
\* those of one run on one value.
MatchInv ==
  /\ unit \in Match
  /\ phase \in {"resolved", "lowered", "done"} => Accepted(unit)
  /\ phase \in {"lowered", "done"} => code = EmitMatch(unit) /\ ~code.bad
  /\ phase = "done" => \E v \in Values[unit.type], true \in SUBSET (DOMAIN unit.arms) :
       wanted = FirstMatch(unit, v, true) /\ got = Taken(code, v, true)

\* The invariant holds along the life of every match.
LEMMA MatchInvHolds == MatchSpec => []MatchInv
<1>1. MatchInit => MatchInv
  BY DEF MatchInit, MatchInv
<1>2. MatchInv /\ [MatchNext]_matchVars => MatchInv'
  <2> SUFFICES ASSUME MatchInv, [MatchNext]_matchVars PROVE MatchInv'
    OBVIOUS
  <2>1. CASE ResolveMatch
    <3>1. unit' = unit /\ phase' \in {"resolved", "refused"} /\ (phase' = "resolved" => Accepted(unit))
      BY <2>1 DEF ResolveMatch
    <3> QED BY <3>1 DEF MatchInv
  <2>2. CASE LowerMatch
    <3>1. /\ unit' = unit /\ phase = "resolved" /\ code' = EmitMatch(unit)
          /\ phase' = IF code'.bad THEN "refused" ELSE "lowered"
      BY <2>2 DEF LowerMatch
    <3> QED BY <3>1 DEF MatchInv
  <2>3. CASE RunMatch
    <3>1. /\ unit' = unit /\ phase = "lowered" /\ code' = code /\ phase' = "done"
          /\ \E v \in Values[unit.type], true \in SUBSET {i \in DOMAIN unit.arms : Guarded(unit, i)} :
               wanted' = FirstMatch(unit, v, true) /\ got' = Taken(code, v, true)
      BY <2>3 DEF RunMatch
    <3>2. \E v \in Values[unit.type], true \in SUBSET (DOMAIN unit.arms) :
               wanted' = FirstMatch(unit, v, true) /\ got' = Taken(code, v, true)
      BY <3>1
    <3> QED BY <3>1, <3>2 DEF MatchInv
  <2>4. CASE UNCHANGED matchVars
    BY <2>4 DEF MatchInv, matchVars
  <2> QED BY <2>1, <2>2, <2>3, <2>4 DEF MatchNext
<1> QED BY <1>1, <1>2, PTL DEF MatchSpec

\* At the end of a run: the match, the value and the guards it ran on.
LEMMA RanOn ==
  ASSUME MatchInv, Ran("match")
  PROVE  /\ unit \in Match /\ Accepted(unit) /\ ~EmitMatch(unit).bad
         /\ \E v \in Values[unit.type], true \in SUBSET (DOMAIN unit.arms) :
              wanted = FirstMatch(unit, v, true) /\ got = Taken(EmitMatch(unit), v, true)
BY DEF MatchInv, Ran

\* Whichever of the five lowerings a match gets (emit_match: if-chain over values
\* or over cases, switch, visitor, hoisted chain), an ordinary match runs the
\* first arm that fits its value and whose guard holds.
THEOREM MatchTakesFirst == MatchSpec => []TakesFirstMatch
<1>1. ASSUME MatchInv, Ran("match"), Ordinary(unit), wanted # 0 PROVE got = wanted
  BY <1>1, RanOn, SameOrder
<1>2. MatchInv => TakesFirstMatch
  BY <1>1 DEF TakesFirstMatch
<1> QED BY <1>2, MatchInvHolds, PTL

\* The resolver's warning that an arm is dominated (check_match) is true, where
\* chains over cases hold flat alternations: the emitted program never runs it.
THEOREM WarnedArmsAreDead == MatchSpec => []WarnedNeverTaken
<1>1. ASSUME MatchInv, Ran("match"), FlatChain(unit) PROVE got \notin WarnedCase(unit)
  BY <1>1, RanOn, WarnedNotTaken
<1>2. MatchInv => WarnedNeverTaken
  BY <1>1 DEF WarnedNeverTaken
<1> QED BY <1>2, MatchInvHolds, PTL

\* The resolver's exhaustiveness check (check_match) is enough, with the same
\* proviso: a match over an enum that it accepts and that asks no guard never
\* reaches std::unreachable().
THEOREM ExhaustiveIsCovered == MatchSpec => []CoveredNeverUnreachable
<1>1. ASSUME MatchInv, Ran("match"), IsEnum(unit.type), FlatChain(unit),
             \A i \in DOMAIN unit.arms : ~Guarded(unit, i)
      PROVE  got # 0
  BY <1>1, RanOn, CoveredTaken
<1>2. MatchInv => CoveredNeverUnreachable
  BY <1>1 DEF CoveredNeverUnreachable
<1> QED BY <1>2, MatchInvHolds, PTL
=============================================================================
