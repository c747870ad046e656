--------------------------- MODULE Lexing_proofs ---------------------------
(***************************************************************************)
(* The lexer keeps nesting, for every source and every limit on errors: a  *)
(* source whose brackets and strings nest becomes tokens that nest.  The   *)
(* lexer counts depths, the reference keeps a stack; what relates them is   *)
(* where in that stack the splices are.                                    *)
(***************************************************************************)
EXTENDS Nesting, SequenceTheorems, NaturalsInduction, WellFoundedInduction, TLAPS

-----------------------------------------------------------------------------
\* Numbers and stacks

\* A set of naturals that has an element has a least one.
LEMMA Least ==
  ASSUME NEW S \in SUBSET Nat, S # {}
  PROVE  \E m \in S : \A k \in S : m <= k
<1> DEFINE below == {ss \in Nat \X Nat : ss[1] < ss[2]}
<1>1. IsWellFoundedOn(below, Nat)
  BY NatLessThanWellFounded DEF OpToRel
<1>2. PICK m \in S : \A k \in S : <<k, m>> \notin below
  BY <1>1, WFMin
<1>3. \A k \in S : ~(k < m)
  <2> SUFFICES ASSUME NEW k \in S, k < m PROVE FALSE
    OBVIOUS
  <2>1. <<k, m>> \in below
    OBVIOUS
  <2> QED BY <2>1, <1>2
<1> QED BY <1>3

\* The recursion of the reference has a solution, so its equations hold.
LEMMA SourceStacksAre ==
  ASSUME NEW ps \in Seq(Pieces)
  PROVE  LET st == SourceStacks(ps)
         IN  st[0] = <<>> /\ \A n \in 1 .. Len(ps) : st[n] = After(st[n - 1], ps[n])
<1> DEFINE Solves(f, n) == f = [k \in 0 .. n |-> IF k = 0 THEN <<>> ELSE After(f[k - 1], ps[k])]
           S == {n \in Nat : ~ \E f : Solves(f, n)}
<1>1. S = {}
  <2> SUFFICES ASSUME S # {} PROVE FALSE
    OBVIOUS
  <2>1. PICK m \in S : \A k \in S : m <= k
    BY Least
  <2>2. m # 0
    <3> DEFINE f == [k \in 0 .. 0 |-> <<>>]
    <3>1. Solves(f, 0)
      OBVIOUS
    <3> QED BY <3>1, <2>1
  <2>3. PICK f : Solves(f, m - 1)
    <3>1. m - 1 \in Nat /\ ~(m <= m - 1)
      BY <2>1, <2>2
    <3> QED BY <3>1, <2>1
  <2> DEFINE g == [k \in 0 .. m |-> IF k = m THEN After(f[m - 1], ps[m]) ELSE f[k]]
  <2>4. Solves(g, m)
    <3>1. m \in Nat \ {0}
      BY <2>1, <2>2
    <3>2. g[m] = After(g[m - 1], ps[m])
      BY <3>1
    <3>3. \A k \in 0 .. m - 1 : g[k] = IF k = 0 THEN <<>> ELSE After(g[k - 1], ps[k])
      BY <3>1, <2>3
    <3>4. g = [k \in 0 .. m |-> g[k]]
      OBVIOUS
    <3> HIDE DEF g
    <3>5. \A k \in 0 .. m : k = m \/ k \in 0 .. m - 1
      BY <3>1
    <3> QED BY <3>1, <3>2, <3>3, <3>4, <3>5
  <2> QED BY <2>1, <2>4
<1>2. PICK f : Solves(f, Len(ps))
  BY <1>1, LenProperties
<1>3. Solves(SourceStacks(ps), Len(ps))
  BY <1>2 DEF SourceStacks
<1> HIDE DEF S
<1> QED BY <1>3, LenProperties

LEMMA TokenStacksAre ==
  ASSUME NEW S, NEW ts \in Seq(S)
  PROVE  LET st == TokenStacks(ts)
         IN  st[0] = <<>> /\ \A n \in 1 .. Len(ts) : st[n] = TokenAfter(st[n - 1], ts[n])
<1> DEFINE Solves(f, n) == f = [k \in 0 .. n |-> IF k = 0 THEN <<>> ELSE TokenAfter(f[k - 1], ts[k])]
           bad == {n \in Nat : ~ \E f : Solves(f, n)}
<1>1. bad = {}
  <2> SUFFICES ASSUME bad # {} PROVE FALSE
    OBVIOUS
  <2>1. PICK m \in bad : \A k \in bad : m <= k
    BY Least
  <2>2. m # 0
    <3> DEFINE f == [k \in 0 .. 0 |-> <<>>]
    <3>1. Solves(f, 0)
      OBVIOUS
    <3> QED BY <3>1, <2>1
  <2>3. PICK f : Solves(f, m - 1)
    <3>1. m - 1 \in Nat /\ ~(m <= m - 1)
      BY <2>1, <2>2
    <3> QED BY <3>1, <2>1
  <2> DEFINE g == [k \in 0 .. m |-> IF k = m THEN TokenAfter(f[m - 1], ts[m]) ELSE f[k]]
  <2>4. Solves(g, m)
    <3>1. m \in Nat \ {0}
      BY <2>1, <2>2
    <3>2. g[m] = TokenAfter(g[m - 1], ts[m])
      BY <3>1
    <3>3. \A k \in 0 .. m - 1 : g[k] = IF k = 0 THEN <<>> ELSE TokenAfter(g[k - 1], ts[k])
      BY <3>1, <2>3
    <3>4. g = [k \in 0 .. m |-> g[k]]
      OBVIOUS
    <3> HIDE DEF g
    <3>5. \A k \in 0 .. m : k = m \/ k \in 0 .. m - 1
      BY <3>1
    <3> QED BY <3>1, <3>2, <3>3, <3>4, <3>5
  <2> QED BY <2>1, <2>4
<1>2. PICK f : Solves(f, Len(ts))
  BY <1>1, LenProperties
<1>3. Solves(TokenStacks(ts), Len(ts))
  BY <1>2 DEF TokenStacks
<1> HIDE DEF bad
<1> QED BY <1>3, LenProperties

\* A token more leaves what was open before it as it was.
LEMMA OneTokenMore ==
  ASSUME NEW S, NEW ts \in Seq(S), NEW k \in S
  PROVE  LET one == Append(ts, k)
         IN  /\ \A n \in 0 .. Len(ts) : TokenStacks(one)[n] = TokenStacks(ts)[n]
             /\ TokenStacks(one)[Len(ts) + 1] = TokenAfter(TokenStacks(ts)[Len(ts)], k)
<1> DEFINE one == Append(ts, k)
           st == TokenStacks(ts)
           tt == TokenStacks(one)
           bad == {n \in 0 .. Len(ts) : tt[n] # st[n]}
<1>1. /\ one \in Seq(S) /\ Len(one) = Len(ts) + 1 /\ one[Len(ts) + 1] = k
      /\ \A i \in 1 .. Len(ts) : one[i] = ts[i]
      /\ Len(ts) \in Nat
  BY AppendProperties, LenProperties
<1>2. st[0] = <<>> /\ \A n \in 1 .. Len(ts) : st[n] = TokenAfter(st[n - 1], ts[n])
  BY TokenStacksAre
<1>3. tt[0] = <<>> /\ \A n \in 1 .. Len(ts) + 1 : tt[n] = TokenAfter(tt[n - 1], one[n])
  BY <1>1, TokenStacksAre
<1> HIDE DEF one, st, tt
<1>4. bad = {}
  <2> SUFFICES ASSUME bad # {} PROVE FALSE
    OBVIOUS
  <2>1. PICK m \in bad : \A n \in bad : m <= n
    <3>1. bad \in SUBSET Nat
      BY <1>1
    <3> QED BY <3>1, Least
  <2>2. m \in 1 .. Len(ts)
    BY <2>1, <1>1, <1>2, <1>3
  <2>3. tt[m - 1] = st[m - 1]
    BY <2>1, <2>2, <1>1
  <2> QED BY <2>1, <2>2, <2>3, <1>1, <1>2, <1>3
<1>5. tt[Len(ts) + 1] = TokenAfter(tt[Len(ts)], k)
  BY <1>1, <1>3
<1>6. \A n \in 0 .. Len(ts) : tt[n] = st[n]
  BY <1>4
<1>7. tt[Len(ts)] = st[Len(ts)]
  BY <1>6, <1>1
<1> QED BY <1>5, <1>6, <1>7 DEF one, st, tt

\* The tokens so far nest, with `open` open.
Reads(ts, open) ==
  /\ TokenStacks(ts)[Len(ts)] = open
  /\ \A i \in DOMAIN ts : TokenFits(TokenStacks(ts)[i - 1], ts[i])

LEMMA ReadsOne ==
  ASSUME NEW S, NEW ts \in Seq(S), NEW k \in S, NEW open, Reads(ts, open), TokenFits(open, k)
  PROVE  Append(ts, k) \in Seq(S) /\ Reads(Append(ts, k), TokenAfter(open, k))
<1> DEFINE one == Append(ts, k)
<1>1. /\ one \in Seq(S) /\ Len(one) = Len(ts) + 1 /\ one[Len(ts) + 1] = k
      /\ \A i \in 1 .. Len(ts) : one[i] = ts[i]
      /\ Len(ts) \in Nat /\ DOMAIN one = 1 .. Len(ts) + 1 /\ DOMAIN ts = 1 .. Len(ts)
  BY AppendProperties, LenProperties
<1>2. /\ \A n \in 0 .. Len(ts) : TokenStacks(one)[n] = TokenStacks(ts)[n]
      /\ TokenStacks(one)[Len(ts) + 1] = TokenAfter(open, k)
  BY OneTokenMore DEF Reads
<1> HIDE DEF one
<1>3. ASSUME NEW i \in DOMAIN one PROVE TokenFits(TokenStacks(one)[i - 1], one[i])
  <2>1. CASE i = Len(ts) + 1
    <3>1. TokenStacks(one)[i - 1] = open /\ one[i] = k
      BY <2>1, <1>1, <1>2 DEF Reads
    <3> QED BY <3>1
  <2>2. CASE i \in 1 .. Len(ts)
    <3>1. i - 1 \in 0 .. Len(ts)
      BY <2>2, <1>1
    <3> QED BY <3>1, <2>2, <1>1, <1>2 DEF Reads
  <2> QED BY <2>1, <2>2, <1>1
<1> QED BY <1>1, <1>2, <1>3 DEF Reads, one

-----------------------------------------------------------------------------
\* The lexer moves on

Words == Pieces \cup Openers \cup Closers \cup Made \cup {"STR"}

\* What the proofs need to know of the words, with the words left aside.
LEMMA Brackets ==
  /\ "(" \in Openers /\ "(" \notin Closers /\ ")" \in Closers /\ ")" \notin Openers
  /\ Openers \cap Closers = {}
  /\ {"quote", "\\(", "nl", "text", "//", "/**/"} \cap (Openers \cup Closers) = {}
  /\ (Made \cup {"STR"}) \cap (Openers \cup Closers) = {}
BY Zenon DEF Openers, Closers, Made

LEMMA PairsAre ==
  /\ \A a, b : <<a, b>> \in Pairs => a \in Openers /\ b \in Closers /\ (a = "(" <=> b = ")")
  /\ <<"(", ")">> \in Pairs
BY Zenon DEF Openers, Closers, Pairs

LEMMA MadeWords ==
  /\ "IBEG" \in Words /\ "PART" \in Words /\ "IEND" \in Words
  /\ "NL" \in Words /\ "ERR" \in Words /\ "STR" \in Words
  /\ "(" \in Words /\ ")" \in Words
  /\ Openers \subseteq Words /\ Closers \subseteq Words /\ Pieces \subseteq Words
<1>1. Openers \subseteq Words /\ Closers \subseteq Words /\ Made \subseteq Words /\ Pieces \subseteq Words
      /\ "STR" \in Words
  BY DEF Words
<1> QED BY <1>1, Brackets DEF Made

Lexers ==
  [i : Nat \ {0}, depth : Int, operator : BOOLEAN, splices : Seq(Int), out : Seq(Words), errs : Nat]

LexOK ==
  /\ src \in Seq(Pieces)
  /\ lex \in Lexers
  /\ lex.i <= Len(src) + 1

\* One field changed at a time.
LEMMA WithOut ==
  ASSUME NEW s \in Lexers, NEW x \in Seq(Words)
  PROVE  LET t == [s EXCEPT !.out = x]
         IN  /\ t \in Lexers
             /\ t.i = s.i /\ t.depth = s.depth /\ t.splices = s.splices /\ t.errs = s.errs
             /\ t.out = x
<1>1. [s EXCEPT !.out = x] \in Lexers
  BY DEF Lexers
<1> QED BY <1>1 DEF Lexers

LEMMA WithOperator ==
  ASSUME NEW s \in Lexers, NEW x \in BOOLEAN
  PROVE  LET t == [s EXCEPT !.operator = x]
         IN  /\ t \in Lexers
             /\ t.i = s.i /\ t.depth = s.depth /\ t.splices = s.splices /\ t.errs = s.errs
             /\ t.out = s.out
<1>1. [s EXCEPT !.operator = x] \in Lexers
  BY DEF Lexers
<1> QED BY <1>1 DEF Lexers

LEMMA WithErrs ==
  ASSUME NEW s \in Lexers, NEW x \in Nat
  PROVE  [s EXCEPT !.errs = x] \in Lexers /\ [s EXCEPT !.errs = x].i = s.i
<1>1. [s EXCEPT !.errs = x] \in Lexers
  BY DEF Lexers
<1> QED BY <1>1 DEF Lexers

LEMMA WithPlace ==
  ASSUME NEW s \in Lexers, NEW x \in Nat \ {0}
  PROVE  LET t == [s EXCEPT !.i = x]
         IN  /\ t \in Lexers
             /\ t.i = x /\ t.depth = s.depth /\ t.splices = s.splices /\ t.errs = s.errs
             /\ t.out = s.out
<1>1. [s EXCEPT !.i = x] \in Lexers
  BY DEF Lexers
<1> QED BY <1>1 DEF Lexers

LEMMA WithDepth ==
  ASSUME NEW s \in Lexers, NEW x \in Int
  PROVE  LET t == [s EXCEPT !.depth = x]
         IN  /\ t \in Lexers
             /\ t.i = s.i /\ t.depth = x /\ t.splices = s.splices /\ t.errs = s.errs
             /\ t.out = s.out
<1>1. [s EXCEPT !.depth = x] \in Lexers
  BY DEF Lexers
<1> QED BY <1>1 DEF Lexers

LEMMA WithSplices ==
  ASSUME NEW s \in Lexers, NEW x \in Seq(Int)
  PROVE  LET t == [s EXCEPT !.splices = x]
         IN  /\ t \in Lexers
             /\ t.i = s.i /\ t.depth = s.depth /\ t.splices = x /\ t.errs = s.errs
             /\ t.out = s.out
<1>1. [s EXCEPT !.splices = x] \in Lexers
  BY DEF Lexers
<1> QED BY <1>1 DEF Lexers

LEMMA EmitIs ==
  ASSUME NEW s \in Lexers, NEW k \in Words
  PROVE  LET e == Emit(s, k)
         IN  /\ e \in Lexers
             /\ e.i = s.i /\ e.depth = s.depth /\ e.splices = s.splices /\ e.errs = s.errs
             /\ e.out = Append(s.out, k)
<1> DEFINE t == [s EXCEPT !.out = Append(s.out, k)]
           operator == IF k = "NL" THEN t.operator ELSE k \in ContinuesLine
<1>1. Append(s.out, k) \in Seq(Words)
  BY AppendProperties DEF Lexers
<1>2. t \in Lexers /\ t.i = s.i /\ t.depth = s.depth /\ t.splices = s.splices /\ t.errs = s.errs
      /\ t.out = Append(s.out, k)
  BY <1>1, WithOut
<1>3. operator \in BOOLEAN
  <2>1. t.operator \in BOOLEAN
    <3> HIDE DEF t
    <3> QED BY <1>2 DEF Lexers
  <2>2. (k \in ContinuesLine) \in BOOLEAN
    OBVIOUS
  <2>3. CASE k = "NL"
    BY <2>1, <2>3
  <2>4. CASE k # "NL"
    BY <2>2, <2>4
  <2> QED BY <2>3, <2>4
<1>4. Emit(s, k) = [t EXCEPT !.operator = operator]
  BY DEF Emit
<1> HIDE DEF t, operator
<1> QED BY <1>2, <1>3, <1>4, WithOperator

LEMMA FailIs ==
  ASSUME NEW s \in Lexers
  PROVE  Fail(s) \in Lexers /\ Fail(s).i = s.i
<1> DEFINE t == Emit(s, "ERR")
<1>1. t \in Lexers /\ t.i = s.i
  BY EmitIs, MadeWords
<1>2. t.errs + 1 \in Nat
  BY <1>1 DEF Lexers
<1>3. Fail(s) = [t EXCEPT !.errs = t.errs + 1]
  BY DEF Fail
<1> HIDE DEF t
<1> QED BY <1>1, <1>2, <1>3, WithErrs

\* The scan of a string stops at its quote, its line, a splice or the end.
LEMMA StringStopsIs ==
  ASSUME src \in Seq(Pieces), NEW i \in Nat \ {0}, i <= Len(src) + 1
  PROVE  LET stop == StringStops(i)
         IN  /\ stop \in Nat /\ i <= stop /\ stop <= Len(src) + 1
             /\ \A j \in i .. stop - 1 : src[j] \notin {"quote", "nl", "\\("}
             /\ stop <= Len(src) => src[stop] \in {"quote", "nl", "\\("} /\ Piece(stop) = src[stop]
             /\ stop = Len(src) + 1 => Piece(stop) = "end"
<1> DEFINE ends == {j \in i .. Len(src) : src[j] \in {"quote", "nl", "\\("}}
           stop == StringStops(i)
<1>0. Len(src) \in Nat /\ DOMAIN src = 1 .. Len(src)
  BY LenProperties
<1>1. CASE ends = {}
  <2>1. stop = Len(src) + 1
    BY <1>1 DEF StringStops
  <2> QED BY <2>1, <1>0, <1>1 DEF Piece
<1>2. CASE ends # {}
  <2>1. ends \in SUBSET Nat
    BY <1>0
  <2>2. stop = CHOOSE j \in ends : \A h \in ends : j <= h
    BY <1>2 DEF StringStops
  <2>3. stop \in ends /\ \A h \in ends : stop <= h
    BY <2>1, <2>2, <1>2, Least
  <2>4. \A j \in i .. stop - 1 : j \notin ends
    BY <2>1, <2>3
  <2> QED BY <2>1, <2>3, <2>4, <1>0 DEF Piece
<1> QED BY <1>1, <1>2

LEMMA TwoEmitted ==
  ASSUME NEW s \in Lexers, NEW k \in Words, NEW l \in Words
  PROVE  LET e == Emit(Emit(s, k), l)
         IN  /\ e \in Lexers
             /\ e.i = s.i /\ e.depth = s.depth /\ e.splices = s.splices /\ e.errs = s.errs
             /\ e.out = Append(Append(s.out, k), l)
<1> DEFINE d == Emit(s, k)
           e == Emit(d, l)
<1>1. /\ d \in Lexers
      /\ d.i = s.i /\ d.depth = s.depth /\ d.splices = s.splices /\ d.errs = s.errs
      /\ d.out = Append(s.out, k)
  BY EmitIs
<1> HIDE DEF d
<1>2. /\ e \in Lexers
      /\ e.i = d.i /\ e.depth = d.depth /\ e.splices = d.splices /\ e.errs = d.errs
      /\ e.out = Append(d.out, l)
  BY <1>1, EmitIs
<1> HIDE DEF e
<1>3. /\ e \in Lexers
      /\ e.i = s.i /\ e.depth = s.depth /\ e.splices = s.splices /\ e.errs = s.errs
      /\ e.out = Append(Append(s.out, k), l)
  BY <1>1, <1>2
<1> QED BY <1>3 DEF d, e

\* A fragment before a quote ends the string,
LEMMA FragmentEnds ==
  ASSUME NEW s \in Lexers, NEW i, StringStops(i) \in Nat \ {0}, Piece(StringStops(i)) = "quote"
  PROVE  LET f == Fragment(s, i)
         IN  /\ f \in Lexers
             /\ f.i = StringStops(i) + 1
             /\ f.depth = s.depth /\ f.splices = s.splices /\ f.errs = s.errs
             /\ f.out = Append(Append(s.out, "PART"), "IEND")
<1> DEFINE stop == StringStops(i)
           t == [s EXCEPT !.i = stop + 1]
           f == Fragment(s, i)
<1>1. /\ t \in Lexers
      /\ t.i = stop + 1 /\ t.depth = s.depth /\ t.splices = s.splices /\ t.errs = s.errs
      /\ t.out = s.out
  BY WithPlace
<1>2. f = Emit(Emit(t, "PART"), "IEND")
  BY DEF Fragment
<1> HIDE DEF t, f, stop
<1>3. /\ f \in Lexers
      /\ f.i = t.i /\ f.depth = t.depth /\ f.splices = t.splices /\ f.errs = t.errs
      /\ f.out = Append(Append(t.out, "PART"), "IEND")
  <2>1. "PART" \in Words /\ "IEND" \in Words /\ t \in Lexers
    BY <1>1, MadeWords
  <2> QED BY <2>1, <1>2, TwoEmitted
<1>4. /\ f \in Lexers
      /\ f.i = stop + 1
      /\ f.depth = s.depth /\ f.splices = s.splices /\ f.errs = s.errs
      /\ f.out = Append(Append(s.out, "PART"), "IEND")
  BY <1>1, <1>3
<1> QED BY <1>4 DEF f, stop

\* and one before a splice opens it, one bracket deeper.
LEMMA FragmentSplices ==
  ASSUME NEW s \in Lexers, NEW i, StringStops(i) \in Nat \ {0}, Piece(StringStops(i)) = "\\("
  PROVE  LET f == Fragment(s, i)
         IN  /\ f \in Lexers
             /\ f.i = StringStops(i) + 1
             /\ f.depth = s.depth + 1 /\ f.splices = Append(s.splices, s.depth + 1) /\ f.errs = s.errs
             /\ f.out = Append(Append(s.out, "PART"), "(")
<1> DEFINE stop == StringStops(i)
           t1 == [s EXCEPT !.i = stop + 1]
           t2 == [t1 EXCEPT !.depth = s.depth + 1]
           t == [t2 EXCEPT !.splices = Append(s.splices, s.depth + 1)]
           f == Fragment(s, i)
<1>1. s.depth + 1 \in Int /\ Append(s.splices, s.depth + 1) \in Seq(Int)
  BY AppendProperties DEF Lexers
<1>2. /\ t1 \in Lexers
      /\ t1.i = stop + 1 /\ t1.errs = s.errs /\ t1.out = s.out
      /\ t1.depth = s.depth /\ t1.splices = s.splices
  BY WithPlace
<1>3. f = Emit(Emit(t, "PART"), "(")
  BY <1>2 DEF Fragment
<1> HIDE DEF t1, f, stop
<1>4. /\ t2 \in Lexers
      /\ t2.i = stop + 1 /\ t2.errs = s.errs /\ t2.out = s.out /\ t2.depth = s.depth + 1
  BY <1>1, <1>2, WithDepth
<1> HIDE DEF t2
<1>5. /\ t \in Lexers
      /\ t.i = stop + 1 /\ t.errs = s.errs /\ t.out = s.out /\ t.depth = s.depth + 1
      /\ t.splices = Append(s.splices, s.depth + 1)
  BY <1>1, <1>4, WithSplices
<1> HIDE DEF t
<1>6. /\ f \in Lexers
      /\ f.i = t.i /\ f.depth = t.depth /\ f.splices = t.splices /\ f.errs = t.errs
      /\ f.out = Append(Append(t.out, "PART"), "(")
  <2>1. "PART" \in Words /\ "(" \in Words /\ t \in Lexers
    BY <1>5, MadeWords
  <2> QED BY <2>1, <1>3, TwoEmitted
<1>7. /\ f \in Lexers
      /\ f.i = stop + 1
      /\ f.depth = s.depth + 1 /\ f.splices = Append(s.splices, s.depth + 1) /\ f.errs = s.errs
      /\ f.out = Append(Append(s.out, "PART"), "(")
  BY <1>5, <1>6
<1> QED BY <1>7 DEF f, stop

LEMMA FragmentMoves ==
  ASSUME src \in Seq(Pieces), NEW s \in Lexers, NEW i \in Nat \ {0}, i <= Len(src) + 1
  PROVE  Fragment(s, i) \in Lexers /\ i <= Fragment(s, i).i /\ Fragment(s, i).i <= Len(src) + 1
<1> DEFINE stop == StringStops(i)
<1>1. /\ stop \in Nat \ {0} /\ i <= stop /\ stop <= Len(src) + 1
      /\ stop = Len(src) + 1 => Piece(stop) = "end"
      /\ Len(src) \in Nat
  BY StringStopsIs, LenProperties
<1> HIDE DEF stop
<1>2. CASE Piece(stop) = "quote"
  <2>1. Fragment(s, i) \in Lexers /\ Fragment(s, i).i = stop + 1
    BY <1>1, <1>2, FragmentEnds DEF stop
  <2> QED BY <2>1, <1>1, <1>2
<1>3. CASE Piece(stop) = "\\("
  <2>1. Fragment(s, i) \in Lexers /\ Fragment(s, i).i = stop + 1
    BY <1>1, <1>3, FragmentSplices DEF stop
  <2> QED BY <2>1, <1>1, <1>3
<1>4. CASE Piece(stop) \notin {"quote", "\\("}
  <2> DEFINE t == [s EXCEPT !.i = stop]
  <2>1. t \in Lexers /\ t.i = stop
    BY <1>1, WithPlace
  <2>2. Fragment(s, i) = Fail(t)
    BY <1>4 DEF Fragment, stop
  <2> QED BY <2>1, <2>2, <1>1, FailIs
<1> QED BY <1>2, <1>3, <1>4

-----------------------------------------------------------------------------
\* Depths and stacks

Opening == Openers \cup {"quote", "\\("}

\* What a depth d and the splices' depths sp say of what is open: the k-th
\* splice is where its depth, and the k strings below it, put it.
Places(open, d, sp) ==
  /\ open \in Seq(Opening) /\ sp \in Seq(Nat \ {0})
  /\ d = Len(open) - Len(sp)
  /\ \A k \in 1 .. Len(sp) : sp[k] + k <= Len(open) /\ open[sp[k] + k] = "\\("
  /\ \A k, l \in 1 .. Len(sp) : k < l => sp[k] + k < sp[l] + l
  /\ \A p \in 1 .. Len(open) : open[p] = "\\(" =>
       p > 1 /\ open[p - 1] = "quote" /\ \E k \in 1 .. Len(sp) : p = sp[k] + k
  /\ \A p \in 1 .. Len(open) : open[p] = "quote" => p < Len(open) /\ open[p + 1] = "\\("

LEMMA FrontIs ==
  ASSUME NEW S, NEW s \in Seq(S), s # <<>>
  PROVE  /\ Front(s) \in Seq(S) /\ Len(Front(s)) = Len(s) - 1 /\ Len(s) \in Nat \ {0}
         /\ \A p \in 1 .. Len(s) - 1 : Front(s)[p] = s[p]
         /\ Last(s) = s[Len(s)] /\ Last(s) \in S
         /\ s = Append(Front(s), Last(s))
<1>1. Len(s) \in Nat \ {0} /\ s \in [1 .. Len(s) -> S]
  BY LenProperties, EmptySeq
<1>2. /\ SubSeq(s, 1, Len(s) - 1) \in Seq(S) /\ Len(SubSeq(s, 1, Len(s) - 1)) = Len(s) - 1
      /\ \A p \in 1 .. Len(s) - 1 : SubSeq(s, 1, Len(s) - 1)[p] = s[p]
  BY <1>1, SubSeqProperties
<1>3. s = Append(SubSeq(s, 1, Len(s) - 1), s[Len(s)])
  BY <1>1, <1>2
<1> QED BY <1>1, <1>2, <1>3 DEF Front, Last

LEMMA AppendIs ==
  ASSUME NEW S, NEW s \in Seq(S), NEW x \in S
  PROVE  /\ Append(s, x) \in Seq(S) /\ Len(Append(s, x)) = Len(s) + 1 /\ Len(s) \in Nat
         /\ \A p \in 1 .. Len(s) : Append(s, x)[p] = s[p]
         /\ Append(s, x)[Len(s) + 1] = x
         /\ Append(s, x) # <<>> /\ Front(Append(s, x)) = s /\ Last(Append(s, x)) = x
<1>1. /\ Append(s, x) \in Seq(S) /\ Len(Append(s, x)) = Len(s) + 1 /\ Len(s) \in Nat
      /\ \A p \in 1 .. Len(s) : Append(s, x)[p] = s[p]
      /\ Append(s, x)[Len(s) + 1] = x /\ Append(s, x) # <<>>
  BY AppendProperties, LenProperties
<1>2. SubSeq(Append(s, x), 1, Len(s)) = s
  BY <1>1
<1> QED BY <1>1, <1>2 DEF Front, Last

LEMMA NothingOpen == Places(<<>>, 0, <<>>)
BY DEF Places

\* At depth 0 nothing is open.
LEMMA DepthCounts ==
  ASSUME NEW open, NEW d, NEW sp, Places(open, d, sp)
  PROVE  d \in Nat /\ (d = 0 => open = <<>>)
<1>1. Len(open) \in Nat /\ Len(sp) \in Nat
  BY LenProperties DEF Places
<1>2. CASE Len(sp) = 0
  BY <1>1, <1>2, EmptySeq DEF Places
<1>3. CASE Len(sp) > 0
  <2>1. sp[Len(sp)] \in Nat \ {0} /\ sp[Len(sp)] + Len(sp) <= Len(open)
    BY <1>1, <1>3 DEF Places
  <2> QED BY <2>1, <1>1 DEF Places
<1> QED BY <1>1, <1>2, <1>3

LEMMA OpenBracket ==
  ASSUME NEW open, NEW d, NEW sp, Places(open, d, sp), NEW c \in Openers
  PROVE  Places(Append(open, c), d + 1, sp)
<1> DEFINE more == Append(open, c)
<1>1. /\ more \in Seq(Opening) /\ Len(more) = Len(open) + 1 /\ Len(open) \in Nat
      /\ \A p \in 1 .. Len(open) : more[p] = open[p]
      /\ more[Len(open) + 1] = c
  BY AppendIs DEF Places, Opening
<1>2. c # "quote" /\ c # "\\("
  BY Brackets
<1>3. Len(sp) \in Nat /\ \A k \in 1 .. Len(sp) : sp[k] \in Nat \ {0}
  BY LenProperties DEF Places
<1> HIDE DEF more
<1> QED BY <1>1, <1>2, <1>3 DEF Places

\* A bracket that closes is not taken for the end of a splice,
LEMMA CloseBracket ==
  ASSUME NEW open, NEW d, NEW sp, Places(open, d, sp), open # <<>>, Last(open) \in Openers
  PROVE  Places(Front(open), d - 1, sp) /\ ~(sp # <<>> /\ d - 1 < sp[Len(sp)])
<1> DEFINE less == Front(open)
<1>1. /\ less \in Seq(Opening) /\ Len(less) = Len(open) - 1 /\ Len(open) \in Nat \ {0}
      /\ \A p \in 1 .. Len(open) - 1 : less[p] = open[p]
      /\ Last(open) = open[Len(open)]
  BY FrontIs DEF Places
<1>2. open[Len(open)] # "quote" /\ open[Len(open)] # "\\("
  BY <1>1, Brackets
<1>3. Len(sp) \in Nat /\ \A k \in 1 .. Len(sp) : sp[k] \in Nat \ {0}
  BY LenProperties DEF Places
<1> HIDE DEF less
<1>4. Places(less, d - 1, sp)
  <2>1. sp \in Seq(Nat \ {0}) /\ d - 1 = Len(less) - Len(sp)
    BY <1>1, <1>3 DEF Places
  <2>2. ASSUME NEW k \in 1 .. Len(sp)
        PROVE  sp[k] + k <= Len(less) /\ less[sp[k] + k] = "\\("
    <3>1. sp[k] \in Nat \ {0} /\ sp[k] + k <= Len(open) /\ open[sp[k] + k] = "\\("
      BY <1>3 DEF Places
    <3>2. sp[k] + k # Len(open)
      BY <3>1, <1>2
    <3>3. sp[k] + k \in 1 .. Len(open) - 1
      BY <3>1, <3>2, <1>1, <1>3
    <3> QED BY <3>1, <3>3, <1>1
  <2>3. \A k, l \in 1 .. Len(sp) : k < l => sp[k] + k < sp[l] + l
    BY DEF Places
  <2>4. ASSUME NEW p \in 1 .. Len(less), less[p] = "\\("
        PROVE  p > 1 /\ less[p - 1] = "quote" /\ \E k \in 1 .. Len(sp) : p = sp[k] + k
    <3>1. p \in 1 .. Len(open) /\ open[p] = "\\("
      BY <2>4, <1>1
    <3>2. p > 1 /\ open[p - 1] = "quote" /\ \E k \in 1 .. Len(sp) : p = sp[k] + k
      BY <3>1 DEF Places
    <3>3. less[p - 1] = open[p - 1]
      BY <3>1, <3>2, <1>1
    <3> QED BY <3>2, <3>3
  <2>5. ASSUME NEW p \in 1 .. Len(less), less[p] = "quote"
        PROVE  p < Len(less) /\ less[p + 1] = "\\("
    <3>1. p \in 1 .. Len(open) /\ open[p] = "quote"
      BY <2>5, <1>1
    <3>2. p < Len(open) /\ open[p + 1] = "\\("
      BY <3>1 DEF Places
    <3>3. p + 1 # Len(open)
      BY <3>2, <1>2
    <3> QED BY <3>1, <3>2, <3>3, <1>1
  <2> QED BY <1>1, <2>1, <2>2, <2>3, <2>4, <2>5 DEF Places
<1>5. sp # <<>> => Len(sp) \in 1 .. Len(sp)
  BY <1>3, EmptySeq DEF Places
<1>6. sp # <<>> => sp[Len(sp)] + Len(sp) <= Len(open) - 1
  BY <1>1, <1>2, <1>3, <1>5 DEF Places
<1> QED BY <1>1, <1>3, <1>4, <1>5, <1>6 DEF Places, less

\* while the one that ends a splice is: below the splice is its string.
LEMMA CloseSplice ==
  ASSUME NEW open, NEW d, NEW sp, Places(open, d, sp), open # <<>>, Last(open) = "\\("
  PROVE  /\ sp # <<>> /\ d - 1 < sp[Len(sp)]
         /\ \E q : /\ Front(open) = Append(q, "quote") /\ q \in Seq(Opening)
                 /\ Places(q, d - 1, Front(sp))
<1> DEFINE n == Len(open)
           m == Len(sp)
           q == Front(Front(open))
           rest == Front(sp)
<1>1. /\ n \in Nat \ {0} /\ m \in Nat /\ d = n - m /\ open[n] = "\\("
      /\ Front(open) \in Seq(Opening) /\ Len(Front(open)) = n - 1
      /\ \A p \in 1 .. n - 1 : Front(open)[p] = open[p]
  <2>1. open \in Seq(Opening) /\ sp \in Seq(Nat \ {0}) /\ d = Len(open) - Len(sp)
    BY DEF Places
  <2>2. Len(sp) \in Nat
    BY <2>1, LenProperties
  <2> QED BY <2>1, <2>2, FrontIs
<1>2. /\ \A k \in 1 .. m : sp[k] \in Nat \ {0} /\ sp[k] + k <= n /\ open[sp[k] + k] = "\\("
      /\ \A k, l \in 1 .. m : k < l => sp[k] + k < sp[l] + l
      /\ \A p \in 1 .. n : open[p] = "\\(" =>
           p > 1 /\ open[p - 1] = "quote" /\ \E k \in 1 .. m : p = sp[k] + k
      /\ \A p \in 1 .. n : open[p] = "quote" => p < n /\ open[p + 1] = "\\("
      /\ open \in Seq(Opening) /\ sp \in Seq(Nat \ {0})
  <2>1. sp \in [1 .. m -> Nat \ {0}]
    BY LenProperties DEF Places
  <2> QED BY <2>1 DEF Places
<1> HIDE DEF n, m, q, rest
<1>3. /\ n > 1 /\ open[n - 1] = "quote"
      /\ \E k \in 1 .. m : n = sp[k] + k
  BY <1>2, <1>1
<1>4. m > 0 /\ n = sp[m] + m
  <2>1. PICK k \in 1 .. m : n = sp[k] + k
    BY <1>3
  <2>2. m \in 1 .. m /\ (k < m => sp[k] + k < sp[m] + m)
    BY <2>1, <1>1, <1>2
  <2>3. sp[m] \in Nat /\ sp[m] + m <= n
    BY <2>2, <1>2
  <2>4. sp[k] \in Nat
    BY <2>1, <1>2
  <2>5. ~(k < m)
    <3> SUFFICES ASSUME k < m PROVE FALSE
      OBVIOUS
    <3>1. sp[k] + k < sp[m] + m
      BY <2>2
    <3>2. n < sp[m] + m
      BY <3>1, <2>1
    <3> QED BY <3>2, <2>3, <1>1
  <2>6. k \in 1 .. m
    OBVIOUS
  <2>7. k = m
    BY <2>5, <2>6, <1>1
  <2> QED BY <2>1, <2>6, <2>7, <1>1
<1>5. /\ sp # <<>> /\ rest \in Seq(Nat \ {0}) /\ Len(rest) = m - 1
      /\ \A k \in 1 .. m - 1 : rest[k] = sp[k]
  <2>1. sp # <<>> /\ sp \in Seq(Nat \ {0})
    BY <1>4, <1>2 DEF m
  <2> QED BY <2>1, FrontIs DEF rest, m
<1>6. Front(open) # <<>>
  BY <1>1, <1>3, EmptySeq
<1>7. /\ q \in Seq(Opening) /\ Len(q) = n - 2
      /\ \A p \in 1 .. n - 2 : q[p] = open[p]
      /\ Front(open) = Append(q, "quote")
  <2> DEFINE f == Front(open)
  <2>1. f \in Seq(Opening) /\ f # <<>> /\ Len(f) = n - 1 /\ f[n - 1] = "quote"
    BY <1>1, <1>3, <1>6
  <2> HIDE DEF f
  <2>2. /\ Front(f) \in Seq(Opening) /\ Len(Front(f)) = Len(f) - 1
        /\ \A p \in 1 .. Len(f) - 1 : Front(f)[p] = f[p]
        /\ f = Append(Front(f), f[Len(f)])
    BY <2>1, FrontIs
  <2>3. \A p \in 1 .. n - 2 : Front(f)[p] = open[p]
    BY <2>1, <2>2, <1>1 DEF f
  <2> QED BY <1>1, <2>1, <2>2, <2>3 DEF f, q
<1>8. Places(q, d - 1, rest)
  <2>1. d - 1 = Len(q) - Len(rest)
    BY <1>1, <1>5, <1>7
  <2>2. ASSUME NEW k \in 1 .. Len(rest)
        PROVE  rest[k] + k <= Len(q) /\ q[rest[k] + k] = "\\("
    <3>1. k \in 1 .. m /\ k < m /\ rest[k] = sp[k] /\ m \in 1 .. m
      BY <1>1, <1>4, <1>5
    <3>2. sp[k] \in Nat \ {0} /\ open[sp[k] + k] = "\\("
      BY <3>1, <1>2
    <3>3. sp[k] + k < n
      BY <3>1, <1>2, <1>4
    <3>4. sp[k] + k # n - 1
      BY <3>2, <1>3
    <3>5. sp[k] + k \in 1 .. n - 2
      <4>1. k \in Nat \ {0} /\ sp[k] \in Nat /\ n \in Nat
        BY <3>1, <3>2, <1>1
      <4> QED BY <4>1, <3>3, <3>4
    <3> QED BY <3>1, <3>2, <3>5, <1>7
  <2>3. ASSUME NEW k \in 1 .. Len(rest), NEW l \in 1 .. Len(rest), k < l
        PROVE  rest[k] + k < rest[l] + l
    <3>1. k \in 1 .. m /\ l \in 1 .. m /\ rest[k] = sp[k] /\ rest[l] = sp[l]
      BY <1>1, <1>5
    <3> QED BY <3>1, <2>3, <1>2
  <2>4. ASSUME NEW p \in 1 .. Len(q), q[p] = "\\("
        PROVE  p > 1 /\ q[p - 1] = "quote" /\ \E k \in 1 .. Len(rest) : p = rest[k] + k
    <3>1. p \in 1 .. n /\ p < n /\ open[p] = "\\("
      BY <2>4, <1>1, <1>7
    <3>2. p > 1 /\ open[p - 1] = "quote"
      BY <3>1, <1>2
    <3>3. PICK k \in 1 .. m : p = sp[k] + k
      BY <3>1, <1>2
    <3>4. k # m
      BY <3>1, <3>3, <1>4
    <3>5. k \in 1 .. Len(rest) /\ rest[k] = sp[k]
      BY <3>3, <3>4, <1>1, <1>5
    <3>6. q[p - 1] = open[p - 1]
      BY <3>2, <1>1, <1>7
    <3> QED BY <3>2, <3>3, <3>5, <3>6
  <2>5. ASSUME NEW p \in 1 .. Len(q), q[p] = "quote"
        PROVE  p < Len(q) /\ q[p + 1] = "\\("
    <3>1. p \in 1 .. n /\ p <= n - 2 /\ open[p] = "quote"
      BY <2>5, <1>1, <1>7
    <3>2. open[p + 1] = "\\("
      BY <3>1, <1>2
    <3>3. p + 1 # n - 1
      BY <3>2, <1>3
    <3> QED BY <3>1, <3>2, <3>3, <1>1, <1>7
  <2> QED BY <1>5, <1>7, <2>1, <2>2, <2>3, <2>4, <2>5 DEF Places
<1>9. d - 1 < sp[m]
  BY <1>2, <1>1, <1>4
<1> QED BY <1>5, <1>7, <1>8, <1>9 DEF m, rest

LEMMA OpenSplice ==
  ASSUME NEW q, NEW d, NEW sp, Places(q, d, sp)
  PROVE  Places(Append(Append(q, "quote"), "\\("), d + 1, Append(sp, d + 1))
<1> DEFINE n == Len(q)
           m == Len(sp)
           open == Append(Append(q, "quote"), "\\(")
           more == Append(sp, d + 1)
<1>1. /\ Append(q, "quote") \in Seq(Opening) /\ Len(Append(q, "quote")) = n + 1 /\ n \in Nat
      /\ \A p \in 1 .. n : Append(q, "quote")[p] = q[p]
      /\ Append(q, "quote")[n + 1] = "quote"
  BY AppendIs DEF Places, Opening
<1>2. /\ open \in Seq(Opening) /\ Len(open) = n + 2
      /\ \A p \in 1 .. n : open[p] = q[p]
      /\ open[n + 1] = "quote" /\ open[n + 2] = "\\("
  <2>1. "\\(" \in Opening
    BY DEF Opening
  <2> DEFINE string == Append(q, "quote")
  <2> HIDE DEF string
  <2>2. /\ Append(string, "\\(") \in Seq(Opening) /\ Len(Append(string, "\\(")) = Len(string) + 1
        /\ \A p \in 1 .. Len(string) : Append(string, "\\(")[p] = string[p]
        /\ Append(string, "\\(")[Len(string) + 1] = "\\("
    BY <1>1, <2>1, AppendIs DEF string
  <2> QED BY <1>1, <2>2 DEF string
<1>3. d \in Nat /\ d = n - m /\ d + 1 \in Nat \ {0}
  BY DepthCounts DEF Places
<1>4. /\ more \in Seq(Nat \ {0}) /\ Len(more) = m + 1 /\ m \in Nat
      /\ \A k \in 1 .. m : more[k] = sp[k] /\ sp[k] \in Nat \ {0}
      /\ more[m + 1] = d + 1
  BY <1>3, AppendIs, LenProperties DEF Places
<1> HIDE DEF open, more
<1>5. d + 1 = Len(open) - Len(more) /\ more[m + 1] + (m + 1) = n + 2
  BY <1>1, <1>2, <1>3, <1>4
<1>6. ASSUME NEW k \in 1 .. Len(more)
      PROVE  more[k] + k <= Len(open) /\ open[more[k] + k] = "\\("
  <2>1. CASE k = m + 1
    BY <2>1, <1>2, <1>5
  <2>2. CASE k \in 1 .. m
    <3>1. more[k] = sp[k] /\ sp[k] + k <= n /\ q[sp[k] + k] = "\\(" /\ sp[k] + k \in 1 .. n
      BY <2>2, <1>1, <1>4 DEF Places
    <3> QED BY <3>1, <1>1, <1>2
  <2> QED BY <2>1, <2>2, <1>4
<1>7. ASSUME NEW k \in 1 .. Len(more), NEW l \in 1 .. Len(more), k < l
      PROVE  more[k] + k < more[l] + l
  <2>1. k \in 1 .. m /\ more[k] = sp[k]
    BY <1>4, <1>7
  <2>2. CASE l = m + 1
    <3>1. sp[k] + k <= n
      BY <2>1 DEF Places
    <3> QED BY <3>1, <2>1, <2>2, <1>1, <1>4, <1>5
  <2>3. CASE l \in 1 .. m
    BY <2>1, <2>3, <1>4, <1>7 DEF Places
  <2> QED BY <2>2, <2>3, <1>4
<1>8. ASSUME NEW p \in 1 .. Len(open), open[p] = "\\("
      PROVE  p > 1 /\ open[p - 1] = "quote" /\ \E k \in 1 .. Len(more) : p = more[k] + k
  <2>1. CASE p = n + 2
    BY <2>1, <1>1, <1>2, <1>4, <1>5
  <2>2. CASE p \in 1 .. n
    <3>1. q[p] = "\\("
      BY <2>2, <1>2, <1>8
    <3>2. p > 1 /\ q[p - 1] = "quote"
      BY <2>2, <3>1 DEF Places
    <3>3. PICK k \in 1 .. m : p = sp[k] + k
      BY <2>2, <3>1 DEF Places
    <3>4. k \in 1 .. Len(more) /\ p = more[k] + k
      BY <3>3, <1>4
    <3>5. open[p - 1] = q[p - 1]
      BY <2>2, <3>2, <1>1, <1>2
    <3> QED BY <3>2, <3>4, <3>5
  <2> QED BY <2>1, <2>2, <1>1, <1>2, <1>8
<1>9. ASSUME NEW p \in 1 .. Len(open), open[p] = "quote"
      PROVE  p < Len(open) /\ open[p + 1] = "\\("
  <2>1. CASE p = n + 1
    BY <2>1, <1>1, <1>2
  <2>2. CASE p \in 1 .. n
    <3>1. q[p] = "quote"
      BY <2>2, <1>2, <1>9
    <3>2. p < n /\ q[p + 1] = "\\("
      BY <2>2, <3>1 DEF Places
    <3> QED BY <2>2, <3>2, <1>1, <1>2
  <2> QED BY <2>1, <2>2, <1>1, <1>2, <1>9
<1> QED BY <1>2, <1>4, <1>5, <1>6, <1>7, <1>8, <1>9 DEF Places, open, more

-----------------------------------------------------------------------------
\* The stack of the source, piece by piece

OpenAt(i) == SourceStacks(src)[i - 1]

LEMMA OpenMoves ==
  ASSUME src \in Seq(Pieces), SourceNests(src)
  PROVE  /\ OpenAt(1) = <<>> /\ OpenAt(Len(src) + 1) = <<>>
         /\ \A i \in 1 .. Len(src) :
              Fits(OpenAt(i), src[i]) /\ OpenAt(i + 1) = After(OpenAt(i), src[i])
<1> DEFINE st == SourceStacks(src)
<1>1. Len(src) \in Nat /\ DOMAIN src = 1 .. Len(src)
  BY LenProperties
<1>2. st[0] = <<>> /\ \A n \in 1 .. Len(src) : st[n] = After(st[n - 1], src[n])
  BY SourceStacksAre
<1>3. st[Len(src)] = <<>> /\ \A i \in 1 .. Len(src) : Fits(st[i - 1], src[i])
  BY <1>1 DEF SourceNests
<1> HIDE DEF st
<1>4. \A i \in Nat : (i + 1) - 1 = i
  OBVIOUS
<1>5. \A i \in 1 .. Len(src) + 1 : OpenAt(i) = st[i - 1]
  BY DEF OpenAt, st
<1>6. OpenAt(1) = <<>> /\ OpenAt(Len(src) + 1) = <<>>
  BY <1>1, <1>2, <1>3, <1>4, <1>5
<1>7. ASSUME NEW i \in 1 .. Len(src)
      PROVE  Fits(OpenAt(i), src[i]) /\ OpenAt(i + 1) = After(OpenAt(i), src[i])
  <2>1. OpenAt(i) = st[i - 1] /\ OpenAt(i + 1) = st[i]
    BY <1>1, <1>4, <1>5
  <2> QED BY <2>1, <1>2, <1>3
<1> QED BY <1>6, <1>7

\* The text of a string leaves open what is open.
LEMMA StaysInString ==
  ASSUME src \in Seq(Pieces), SourceNests(src),
         NEW i \in Nat \ {0}, NEW stop \in Nat, i <= stop, stop <= Len(src) + 1,
         InString(OpenAt(i)), \A j \in i .. stop - 1 : src[j] \notin {"quote", "nl", "\\("}
  PROVE  OpenAt(stop) = OpenAt(i)
<1> DEFINE bad == {j \in i .. stop : OpenAt(j) # OpenAt(i)}
<1>1. Len(src) \in Nat
  BY LenProperties
<1>2. bad = {}
  <2> SUFFICES ASSUME bad # {} PROVE FALSE
    OBVIOUS
  <2>1. PICK m \in bad : \A n \in bad : m <= n
    <3>1. bad \in SUBSET Nat
      OBVIOUS
    <3> QED BY <3>1, Least
  <2>2. m \in i + 1 .. stop
    BY <2>1
  <2>3. m - 1 \notin bad /\ m - 1 \in i .. stop - 1 /\ m - 1 \in 1 .. Len(src) /\ (m - 1) + 1 = m
    BY <2>1, <2>2, <1>1
  <2>4. OpenAt(m - 1) = OpenAt(i)
    BY <2>3
  <2>5. OpenAt(m) = After(OpenAt(m - 1), src[m - 1])
    BY <2>3, OpenMoves
  <2>6. src[m - 1] # "quote" /\ src[m - 1] # "\\("
    BY <2>3
  <2>7. After(OpenAt(m - 1), src[m - 1]) = OpenAt(m - 1)
    BY <2>4, <2>6 DEF After, Opens, Shuts
  <2> QED BY <2>1, <2>4, <2>5, <2>7
<1>3. stop \in i .. stop
  OBVIOUS
<1> QED BY <1>2, <1>3

-----------------------------------------------------------------------------
\* What is open, as the tokens spell it

Word(c) == IF c = "quote" THEN "IBEG" ELSE IF c = "\\(" THEN "(" ELSE c
Spelled(open) == [p \in 1 .. Len(open) |-> Word(open[p])]

Spelling == Openers \cup {"IBEG"}

LEMMA WordIs ==
  /\ \A c \in Openers : Word(c) = c
  /\ Word("quote") = "IBEG" /\ Word("\\(") = "("
  /\ \A c \in Opening : Word(c) \in Spelling
<1>1. \A c \in Openers : c # "quote" /\ c # "\\("
  BY Brackets
<1>2. "(" \in Spelling /\ "IBEG" \in Spelling
  BY Brackets DEF Spelling
<1> QED BY <1>1, <1>2 DEF Word, Opening, Spelling

LEMMA SpelledIs ==
  ASSUME NEW open \in Seq(Opening)
  PROVE  Spelled(open) \in Seq(Spelling) /\ Len(Spelled(open)) = Len(open)
<1>1. Len(open) \in Nat /\ \A p \in 1 .. Len(open) : open[p] \in Opening
  BY LenProperties
<1>2. Spelled(open) \in [1 .. Len(open) -> Spelling]
  BY <1>1, WordIs DEF Spelled
<1> QED BY <1>1, <1>2, LenProperties

LEMMA SpelledNothing == Spelled(<<>>) = <<>>
<1>1. <<>> \in Seq(Opening) /\ Len(<<>>) = 0
  OBVIOUS
<1>2. Spelled(<<>>) \in Seq(Spelling) /\ Len(Spelled(<<>>)) = 0
  BY <1>1, SpelledIs, Zenon
<1> QED BY <1>2, EmptySeq

LEMMA SpelledMore ==
  ASSUME NEW open \in Seq(Opening), NEW c \in Opening
  PROVE  Spelled(Append(open, c)) = Append(Spelled(open), Word(c))
<1> DEFINE more == Append(open, c)
           a == Spelled(more)
           b == Append(Spelled(open), Word(c))
<1>1. /\ more \in Seq(Opening) /\ Len(more) = Len(open) + 1 /\ Len(open) \in Nat
      /\ \A p \in 1 .. Len(open) : more[p] = open[p]
      /\ more[Len(open) + 1] = c
  BY AppendIs
<1>2. Spelled(open) \in Seq(Spelling) /\ Len(Spelled(open)) = Len(open) /\ Word(c) \in Spelling
  BY SpelledIs, WordIs
<1> DEFINE old == Spelled(open)
           w == Word(c)
<1>3. /\ b \in Seq(Spelling) /\ Len(b) = Len(open) + 1
      /\ \A p \in 1 .. Len(open) : b[p] = Spelled(open)[p]
      /\ b[Len(open) + 1] = Word(c)
  <2> HIDE DEF old, w
  <2>1. old \in Seq(Spelling) /\ w \in Spelling /\ Len(old) = Len(open)
    BY <1>2 DEF old, w
  <2>2. /\ Append(old, w) \in Seq(Spelling) /\ Len(Append(old, w)) = Len(old) + 1
        /\ \A p \in 1 .. Len(old) : Append(old, w)[p] = old[p]
        /\ Append(old, w)[Len(old) + 1] = w
    BY <2>1, AppendIs
  <2> QED BY <2>1, <2>2 DEF old, w
<1> HIDE DEF more
<1>4. a \in Seq(Spelling) /\ Len(a) = Len(open) + 1
  BY <1>1, SpelledIs
<1>5. ASSUME NEW p \in 1 .. Len(open) + 1 PROVE a[p] = b[p]
  <2>1. a[p] = Word(more[p])
    BY <1>1 DEF Spelled
  <2>2. CASE p = Len(open) + 1
    BY <2>1, <2>2, <1>1, <1>3
  <2>3. CASE p \in 1 .. Len(open)
    <3>1. old[p] = Word(open[p])
      BY <2>3 DEF Spelled
    <3>2. b[p] = Word(open[p])
      BY <3>1, <2>3, <1>3
    <3> QED BY <3>2, <2>1, <2>3, <1>1
  <2>4. p = Len(open) + 1 \/ p \in 1 .. Len(open)
    BY <1>1
  <2> QED BY <2>2, <2>3, <2>4, Zenon
<1> HIDE DEF a, b
<1>6. a = b
  BY <1>1, <1>3, <1>4, <1>5, SeqEqual
<1> QED BY <1>6 DEF a, b, more

-----------------------------------------------------------------------------
\* What one piece, or one token, does to what is open

LEMMA InAString ==
  ASSUME NEW q \in Seq(Opening)
  PROVE  LET open == Append(q, "quote")
         IN  /\ open \in Seq(Opening) /\ open # <<>> /\ InString(open)
             /\ After(open, "quote") = q
             /\ After(open, "\\(") = Append(open, "\\(")
             /\ ~Fits(open, "nl")
<1> DEFINE open == Append(q, "quote")
<1>1. open \in Seq(Opening) /\ open # <<>> /\ Front(open) = q /\ Last(open) = "quote"
  BY AppendIs DEF Opening
<1> HIDE DEF open
<1>2. InString(open)
  BY <1>1 DEF InString
<1>3. /\ open \in Seq(Opening) /\ open # <<>> /\ InString(open)
      /\ After(open, "quote") = q
      /\ After(open, "\\(") = Append(open, "\\(")
      /\ ~Fits(open, "nl")
  BY <1>1, <1>2 DEF After, Opens, Shuts, Fits
<1> QED BY <1>3 DEF open

\* Between two tokens no string is open but those whose splice is.
LEMMA OutsideStrings ==
  ASSUME NEW open, NEW d, NEW sp, Places(open, d, sp)
  PROVE  /\ open \in Seq(Opening) /\ ~InString(open)
         /\ After(open, "quote") = Append(open, "quote")
         /\ \A c \in Openers : After(open, c) = Append(open, c)
         /\ \A c \in Closers : After(open, c) = Front(open)
         /\ \A c : c \notin Openers \cup Closers \cup {"quote"} => After(open, c) = open
<1>1. open \in Seq(Opening)
  BY DEF Places
<1>2. ~InString(open)
  <2> SUFFICES ASSUME InString(open) PROVE FALSE
    OBVIOUS
  <2>1. open # <<>> /\ Last(open) = "quote"
    BY DEF InString
  <2>2. Len(open) \in Nat \ {0} /\ open[Len(open)] = "quote"
    BY <1>1, <2>1, FrontIs
  <2>3. Len(open) \in 1 .. Len(open)
    BY <2>2
  <2> QED BY <2>2, <2>3 DEF Places
<1>3. "quote" \notin Openers \cup Closers /\ Openers \cap Closers = {}
  BY Brackets
<1> QED BY <1>1, <1>2, <1>3 DEF After, Opens, Shuts

LEMMA PlainToken ==
  ASSUME NEW stack, NEW k, k \notin Openers \cup Closers \cup Made
  PROVE  TokenAfter(stack, k) = stack /\ TokenFits(stack, k)
BY DEF TokenAfter, TokenFits, Made

LEMMA LineToken == TokenAfter(<<>>, "NL") = <<>> /\ TokenFits(<<>>, "NL")
<1>1. "NL" \notin Openers \cup Closers \cup {"IBEG", "IEND", "PART", "ERR"}
  BY Brackets DEF Made
<1> QED BY <1>1 DEF TokenAfter, TokenFits

LEMMA OpeningToken ==
  ASSUME NEW stack, NEW k \in Spelling
  PROVE  TokenAfter(stack, k) = Append(stack, k) /\ TokenFits(stack, k)
<1>1. k \notin Closers \cup {"IEND", "PART", "NL", "ERR"}
  BY Brackets DEF Spelling, Made
<1> QED BY <1>1 DEF TokenAfter, TokenFits, Spelling

LEMMA ClosingToken ==
  ASSUME NEW stack, stack # <<>>, NEW k,
         <<Last(stack), k>> \in Pairs \cup {<<"IBEG", "IEND">>}
  PROVE  TokenAfter(stack, k) = Front(stack) /\ TokenFits(stack, k)
<1>1. k \in Closers \cup {"IEND"}
  BY PairsAre
<1>2. k \notin Openers \cup {"IBEG", "PART", "NL", "ERR"}
  BY <1>1, Brackets DEF Made
<1> QED BY <1>1, <1>2 DEF TokenAfter, TokenFits

LEMMA PartToken ==
  ASSUME NEW stack, stack # <<>>, Last(stack) = "IBEG"
  PROVE  TokenAfter(stack, "PART") = stack /\ TokenFits(stack, "PART")
<1>1. "PART" \notin Openers \cup Closers \cup {"IBEG", "IEND", "NL", "ERR"}
  BY Brackets DEF Made
<1> QED BY <1>1 DEF TokenAfter, TokenFits

LEMMA EmitReads ==
  ASSUME NEW s \in Lexers, NEW k \in Words, NEW open, Reads(s.out, open), TokenFits(open, k)
  PROVE  Reads(Append(s.out, k), TokenAfter(open, k)) /\ Append(s.out, k) \in Seq(Words)
<1>1. s.out \in Seq(Words)
  BY DEF Lexers
<1> QED BY <1>1, ReadsOne

-----------------------------------------------------------------------------
\* What is kept between two tokens, and how each piece keeps it

NestInv(s) ==
  /\ s.errs = 0
  /\ Places(OpenAt(s.i), s.depth, s.splices)
  /\ Reads(s.out, Spelled(OpenAt(s.i)))

\* A fragment, from inside the string, ends outside of it.
LEMMA FragmentKeeps ==
  ASSUME src \in Seq(Pieces), SourceNests(src),
         NEW g \in Lexers, NEW i \in Nat \ {0}, i <= Len(src) + 1,
         NEW q \in Seq(Opening), OpenAt(i) = Append(q, "quote"),
         Places(q, g.depth, g.splices), Reads(g.out, Append(Spelled(q), "IBEG")), g.errs = 0
  PROVE  NestInv(Fragment(g, i))
<1> DEFINE stop == StringStops(i)
           f == Fragment(g, i)
           open == Append(q, "quote")
           part == Append(Spelled(q), "IBEG")
<1>1. /\ stop \in Nat \ {0} /\ i <= stop /\ stop <= Len(src) + 1 /\ Len(src) \in Nat
      /\ \A j \in i .. stop - 1 : src[j] \notin {"quote", "nl", "\\("}
      /\ stop <= Len(src) => src[stop] \in {"quote", "nl", "\\("} /\ Piece(stop) = src[stop]
  BY StringStopsIs, LenProperties
<1>2. /\ open \in Seq(Opening) /\ open # <<>> /\ InString(open)
      /\ After(open, "quote") = q
      /\ After(open, "\\(") = Append(open, "\\(")
      /\ ~Fits(open, "nl")
  BY InAString
<1>3. /\ part # <<>> /\ Front(part) = Spelled(q) /\ Last(part) = "IBEG"
      /\ Spelled(open) = part
      /\ Spelled(Append(open, "\\(")) = Append(part, "(")
  <2>1. Spelled(q) \in Seq(Spelling) /\ "IBEG" \in Spelling /\ "quote" \in Opening /\ "\\(" \in Opening
    BY SpelledIs DEF Spelling, Opening
  <2>2. part # <<>> /\ Front(part) = Spelled(q) /\ Last(part) = "IBEG"
    BY <2>1, AppendIs
  <2>3. Spelled(open) = part
    BY <2>1, SpelledMore, WordIs
  <2> HIDE DEF open, part
  <2>4. Spelled(Append(open, "\\(")) = Append(Spelled(open), "(")
    BY <2>1, <1>2, SpelledMore, WordIs
  <2> QED BY <2>2, <2>3, <2>4
<1>4. OpenAt(i) = open /\ Reads(g.out, part)
  OBVIOUS
<1> HIDE DEF stop, open, part
<1>5. OpenAt(stop) = open
  BY <1>1, <1>2, <1>4, StaysInString
<1>6. stop \in 1 .. Len(src)
  BY <1>1, <1>2, <1>5, OpenMoves
<1>7. Fits(open, src[stop]) /\ OpenAt(stop + 1) = After(open, src[stop])
  BY <1>5, <1>6, OpenMoves
<1>8. src[stop] \in {"quote", "\\("} /\ Piece(stop) = src[stop]
  BY <1>1, <1>2, <1>6, <1>7
<1>9. Reads(Append(g.out, "PART"), part) /\ Append(g.out, "PART") \in Seq(Words)
  BY <1>3, <1>4, EmitReads, PartToken, MadeWords
<1>10. CASE Piece(stop) = "quote"
  <2>1. /\ f.i = stop + 1
        /\ f.depth = g.depth /\ f.splices = g.splices /\ f.errs = g.errs
        /\ f.out = Append(Append(g.out, "PART"), "IEND")
    BY <1>1, <1>10, FragmentEnds DEF stop
  <2>2. OpenAt(stop + 1) = q
    BY <1>2, <1>7, <1>8, <1>10
  <2>3. TokenAfter(part, "IEND") = Spelled(q) /\ TokenFits(part, "IEND")
    BY <1>3, ClosingToken
  <2>4. Reads(Append(Append(g.out, "PART"), "IEND"), Spelled(q))
    BY <1>9, <2>3, ReadsOne, MadeWords
  <2> HIDE DEF f
  <2>5. NestInv(f)
    BY <2>1, <2>2, <2>4 DEF NestInv
  <2> QED BY <2>5 DEF f
<1>11. CASE Piece(stop) = "\\("
  <2>1. /\ f.i = stop + 1
        /\ f.depth = g.depth + 1 /\ f.splices = Append(g.splices, g.depth + 1) /\ f.errs = g.errs
        /\ f.out = Append(Append(g.out, "PART"), "(")
    BY <1>1, <1>11, FragmentSplices DEF stop
  <2>2. OpenAt(stop + 1) = Append(open, "\\(")
    BY <1>2, <1>7, <1>8, <1>11
  <2>3. TokenAfter(part, "(") = Append(part, "(") /\ TokenFits(part, "(")
    BY OpeningToken, Brackets DEF Spelling
  <2>4. Reads(Append(Append(g.out, "PART"), "("), Append(part, "("))
    BY <1>9, <2>3, ReadsOne, MadeWords
  <2>5. Places(Append(open, "\\("), g.depth + 1, Append(g.splices, g.depth + 1))
    BY OpenSplice DEF open
  <2> HIDE DEF f
  <2>6. NestInv(f)
    BY <2>1, <2>2, <2>4, <2>5, <1>3 DEF NestInv
  <2> QED BY <2>6 DEF f
<1> QED BY <1>8, <1>10, <1>11

-----------------------------------------------------------------------------
\* One piece

Past(s) == [s EXCEPT !.i = @ + 1]
Deeper(s) == [Past(s) EXCEPT !.depth = @ + 1]
Higher(s) == [Past(s) EXCEPT !.depth = @ - 1]
Closed(s) == Emit(Higher(s), ")")
Resumed(s) == [Closed(s) EXCEPT !.splices = Front(@)]

\* Scan, case by case.
LEMMA ScanIs ==
  ASSUME NEW s
  PROVE  LET c == src[s.i]
         IN  /\ c = "nl" => Scan(s) = IF EndsLine(s) THEN Emit(Past(s), "NL") ELSE Past(s)
             /\ c \in {"//", "/**/"} => Scan(s) = Past(s)
             /\ c \in Openers => Scan(s) = Emit(Deeper(s), c)
             /\ c = ")" => Scan(s) = IF ResumesString(Closed(s)) THEN Fragment(Resumed(s), Closed(s).i)
                                     ELSE Closed(s)
             /\ c \in Closers \ {")"} => Scan(s) = Emit(Higher(s), c)
             /\ c = "quote" => Scan(s) = String(s)
             /\ c = "text" => Scan(s) = Fail(Past(s))
             /\ c \notin Openers \cup Closers \cup {"nl", "//", "/**/", "quote", "text"} =>
                  Scan(s) = Emit(Past(s), c)
<1> DEFINE c == src[s.i]
<1>1. c \in Openers => c \notin Closers \cup {"nl", "//", "/**/", "quote", "text"}
  BY Brackets
<1>2. c \in Closers => c \notin Openers \cup {"nl", "//", "/**/", "quote", "text"}
  BY Brackets
<1> HIDE DEF c
<1>3. Scan(s) =
        CASE c = "nl" -> IF EndsLine(s) THEN Emit(Past(s), "NL") ELSE Past(s)
          [] c \in {"//", "/**/"} -> Past(s)
          [] c \in Openers -> Emit(Deeper(s), c)
          [] c = ")" -> IF ResumesString(Closed(s)) THEN Fragment(Resumed(s), Closed(s).i) ELSE Closed(s)
          [] c \in Closers \ {")"} -> Emit(Higher(s), c)
          [] c = "quote" -> String(s)
          [] c = "text" -> Fail(Past(s))
          [] OTHER -> Emit(Past(s), c)
  <2>1. c = ")" => Emit(Higher(s), c) = Closed(s)
    BY DEF Closed
  <2> QED BY <1>1, <1>2 DEF Scan, c, Past, Deeper, Higher, Closed, Resumed
<1>4. c = ")" => c \in Closers
  BY Brackets
<1> DEFINE f == Scan(s)
<1> HIDE DEF f
<1>5. f =
        CASE c = "nl" -> IF EndsLine(s) THEN Emit(Past(s), "NL") ELSE Past(s)
          [] c \in {"//", "/**/"} -> Past(s)
          [] c \in Openers -> Emit(Deeper(s), c)
          [] c = ")" -> IF ResumesString(Closed(s)) THEN Fragment(Resumed(s), Closed(s).i) ELSE Closed(s)
          [] c \in Closers \ {")"} -> Emit(Higher(s), c)
          [] c = "quote" -> String(s)
          [] c = "text" -> Fail(Past(s))
          [] OTHER -> Emit(Past(s), c)
  BY <1>3 DEF f
<1>6. c \in Openers => f = Emit(Deeper(s), c)
  BY <1>1, <1>4, <1>5
<1>7. c = ")" => f = IF ResumesString(Closed(s)) THEN Fragment(Resumed(s), Closed(s).i) ELSE Closed(s)
  BY <1>2, <1>4, <1>5
<1>8. c \in Closers \ {")"} => f = Emit(Higher(s), c)
  BY <1>2, <1>5
<1>9. \A w \in {"nl", "//", "/**/", "quote", "text"} : w \notin Openers \cup Closers
  BY Brackets
<1>10. /\ c = "nl" => f = IF EndsLine(s) THEN Emit(Past(s), "NL") ELSE Past(s)
       /\ c \in {"//", "/**/"} => f = Past(s)
       /\ c = "quote" => f = String(s)
       /\ c = "text" => f = Fail(Past(s))
  BY <1>9, <1>5
<1>11. c \notin Openers \cup Closers \cup {"nl", "//", "/**/", "quote", "text"} => f = Emit(Past(s), c)
  BY <1>4, <1>5
<1> QED BY <1>6, <1>7, <1>8, <1>10, <1>11 DEF c, f

\* The states in between.
LEMMA PastIs ==
  ASSUME NEW s \in Lexers
  PROVE  /\ Past(s) \in Lexers /\ Past(s).i = s.i + 1 /\ Past(s).depth = s.depth
         /\ Past(s).splices = s.splices /\ Past(s).errs = s.errs /\ Past(s).out = s.out
<1>1. s.i + 1 \in Nat \ {0}
  BY DEF Lexers
<1> QED BY <1>1, WithPlace DEF Past

LEMMA DeeperIs ==
  ASSUME NEW s \in Lexers
  PROVE  /\ Deeper(s) \in Lexers /\ Deeper(s).i = s.i + 1 /\ Deeper(s).depth = s.depth + 1
         /\ Deeper(s).splices = s.splices /\ Deeper(s).errs = s.errs /\ Deeper(s).out = s.out
<1>1. Past(s).depth = s.depth /\ s.depth + 1 \in Int
  BY PastIs DEF Lexers
<1>2. Deeper(s) = [Past(s) EXCEPT !.depth = s.depth + 1]
  BY <1>1 DEF Deeper
<1> QED BY <1>1, <1>2, PastIs, WithDepth

LEMMA HigherIs ==
  ASSUME NEW s \in Lexers
  PROVE  /\ Higher(s) \in Lexers /\ Higher(s).i = s.i + 1 /\ Higher(s).depth = s.depth - 1
         /\ Higher(s).splices = s.splices /\ Higher(s).errs = s.errs /\ Higher(s).out = s.out
<1>1. Past(s).depth = s.depth /\ s.depth - 1 \in Int
  BY PastIs DEF Lexers
<1>2. Higher(s) = [Past(s) EXCEPT !.depth = s.depth - 1]
  BY <1>1 DEF Higher
<1> QED BY <1>1, <1>2, PastIs, WithDepth

LEMMA ClosedIs ==
  ASSUME NEW s \in Lexers
  PROVE  /\ Closed(s) \in Lexers /\ Closed(s).i = s.i + 1 /\ Closed(s).depth = s.depth - 1
         /\ Closed(s).splices = s.splices /\ Closed(s).errs = s.errs
         /\ Closed(s).out = Append(s.out, ")")
<1> DEFINE h == Higher(s)
<1>1. /\ h \in Lexers /\ h.i = s.i + 1 /\ h.depth = s.depth - 1
      /\ h.splices = s.splices /\ h.errs = s.errs /\ h.out = s.out
  BY HigherIs
<1> HIDE DEF h
<1>2. ")" \in Words
  BY MadeWords
<1>3. /\ Emit(h, ")") \in Lexers
      /\ Emit(h, ")").i = h.i /\ Emit(h, ")").depth = h.depth
      /\ Emit(h, ")").splices = h.splices /\ Emit(h, ")").errs = h.errs
      /\ Emit(h, ")").out = Append(h.out, ")")
  BY <1>1, <1>2, EmitIs
<1> QED BY <1>1, <1>3 DEF Closed, h

LEMMA ResumedIs ==
  ASSUME NEW s \in Lexers, s.splices # <<>>
  PROVE  /\ Resumed(s) \in Lexers /\ Resumed(s).i = s.i + 1 /\ Resumed(s).depth = s.depth - 1
         /\ Resumed(s).splices = Front(s.splices) /\ Resumed(s).errs = s.errs
         /\ Resumed(s).out = Append(s.out, ")")
<1>1. s.splices \in Seq(Int)
  BY DEF Lexers
<1>2. Front(s.splices) \in Seq(Int)
  <2> DEFINE sp == s.splices
  <2> HIDE DEF sp
  <2>1. sp \in Seq(Int) /\ sp # <<>>
    BY <1>1 DEF sp
  <2>2. Front(sp) \in Seq(Int)
    BY <2>1, FrontIs
  <2> QED BY <2>2 DEF sp
<1>3. Resumed(s) = [Closed(s) EXCEPT !.splices = Front(s.splices)]
  BY ClosedIs DEF Resumed
<1> QED BY <1>2, <1>3, ClosedIs, WithSplices

\* A string without splices is one token; one with splices starts here.
LEMMA StringIs ==
  ASSUME NEW s \in Lexers, StringStops(s.i + 1) \in Nat \ {0}
  PROVE  LET stop == StringStops(s.i + 1)
             g == Emit(s, "IBEG")
         IN  /\ Piece(stop) = "quote" =>
                  /\ String(s) \in Lexers /\ String(s).i = stop + 1 /\ String(s).depth = s.depth
                  /\ String(s).splices = s.splices /\ String(s).errs = s.errs
                  /\ String(s).out = Append(s.out, "STR")
             /\ Piece(stop) = "\\(" => String(s) = Fragment(g, s.i + 1)
             /\ Piece(stop) \notin {"quote", "\\("} => String(s) \in Lexers /\ String(s).i = stop
<1> DEFINE stop == StringStops(s.i + 1)
           after == [s EXCEPT !.i = stop + 1]
           at == [s EXCEPT !.i = stop]
<1>1. /\ Piece(stop) = "quote" => String(s) = Emit(after, "STR")
      /\ Piece(stop) = "\\(" => String(s) = Fragment(Emit(s, "IBEG"), s.i + 1)
      /\ Piece(stop) \notin {"quote", "\\("} => String(s) = Fail(at)
  BY DEF String
<1>2. stop + 1 \in Nat \ {0}
  OBVIOUS
<1>3. /\ after \in Lexers /\ after.i = stop + 1 /\ after.depth = s.depth
      /\ after.splices = s.splices /\ after.errs = s.errs /\ after.out = s.out
  BY <1>2, WithPlace
<1>4. at \in Lexers /\ at.i = stop
  BY WithPlace
<1> HIDE DEF after, at, stop
<1>5. /\ Emit(after, "STR") \in Lexers /\ Emit(after, "STR").i = stop + 1
      /\ Emit(after, "STR").depth = s.depth /\ Emit(after, "STR").splices = s.splices
      /\ Emit(after, "STR").errs = s.errs /\ Emit(after, "STR").out = Append(s.out, "STR")
  <2>1. "STR" \in Words
    BY MadeWords
  <2>2. /\ Emit(after, "STR") \in Lexers
        /\ Emit(after, "STR").i = after.i /\ Emit(after, "STR").depth = after.depth
        /\ Emit(after, "STR").splices = after.splices /\ Emit(after, "STR").errs = after.errs
        /\ Emit(after, "STR").out = Append(after.out, "STR")
    BY <1>3, <2>1, EmitIs
  <2> QED BY <1>3, <2>2
<1>6. Fail(at) \in Lexers /\ Fail(at).i = stop
  BY <1>4, FailIs
<1> QED BY <1>1, <1>5, <1>6 DEF stop

\* Whatever the piece, the lexer moves on and stays within the file.
LEMMA ScanMoves ==
  ASSUME src \in Seq(Pieces), NEW s \in Lexers, s.i <= Len(src)
  PROVE  Scan(s) \in Lexers /\ s.i < Scan(s).i /\ Scan(s).i <= Len(src) + 1
<1> DEFINE c == src[s.i]
           Good(t) == t \in Lexers /\ s.i < t.i /\ t.i <= Len(src) + 1
<1>1. Len(src) \in Nat /\ s.i \in 1 .. Len(src) /\ s.i + 1 \in Nat \ {0} /\ s.i + 1 <= Len(src) + 1
  BY LenProperties DEF Lexers
<1>2. c \in Pieces
  BY <1>1
<1>3. Good(Past(s))
  BY <1>1, PastIs
<1>4. \A k \in Words : Good(Emit(Past(s), k))
  BY <1>1, PastIs, EmitIs
<1>5. \A k \in Words : Good(Emit(Deeper(s), k))
  BY <1>1, DeeperIs, EmitIs
<1>6. \A k \in Words : Good(Emit(Higher(s), k))
  BY <1>1, HigherIs, EmitIs
<1>7. Good(Fail(Past(s)))
  BY <1>1, PastIs, FailIs
<1>8. Good(Closed(s))
  BY <1>1, ClosedIs
<1>9. ResumesString(Closed(s)) => Good(Fragment(Resumed(s), Closed(s).i))
  <2> SUFFICES ASSUME ResumesString(Closed(s)) PROVE Good(Fragment(Resumed(s), Closed(s).i))
    OBVIOUS
  <2>1. s.splices # <<>>
    BY ClosedIs DEF ResumesString
  <2>2. Resumed(s) \in Lexers /\ Closed(s).i = s.i + 1
    BY <2>1, ResumedIs, ClosedIs
  <2> DEFINE f == Fragment(Resumed(s), s.i + 1)
  <2>3. f \in Lexers /\ s.i + 1 <= f.i /\ f.i <= Len(src) + 1
    BY <2>2, <1>1, FragmentMoves
  <2> HIDE DEF f
  <2>4. Good(f)
    BY <2>3, <1>1 DEF Lexers
  <2> QED BY <2>2, <2>4 DEF f
<1>10. Good(String(s))
  <2> DEFINE stop == StringStops(s.i + 1)
  <2>1. stop \in Nat \ {0} /\ s.i + 1 <= stop /\ stop <= Len(src) + 1
        /\ (stop = Len(src) + 1 => Piece(stop) = "end")
    BY <1>1, StringStopsIs
  <2>2. CASE Piece(stop) = "quote"
    <3>1. String(s) \in Lexers /\ String(s).i = stop + 1
      BY <2>1, <2>2, StringIs
    <3> HIDE DEF stop
    <3>2. stop <= Len(src)
      BY <2>1, <2>2, <1>1
    <3> QED BY <3>1, <3>2, <2>1, <1>1
  <2>3. CASE Piece(stop) = "\\("
    <3>1. String(s) = Fragment(Emit(s, "IBEG"), s.i + 1) /\ Emit(s, "IBEG") \in Lexers
      BY <2>1, <2>3, StringIs, EmitIs, MadeWords
    <3> DEFINE f == Fragment(Emit(s, "IBEG"), s.i + 1)
    <3>2. f \in Lexers /\ s.i + 1 <= f.i /\ f.i <= Len(src) + 1
      BY <3>1, <1>1, FragmentMoves
    <3> HIDE DEF f
    <3>3. Good(f)
      BY <3>2, <1>1 DEF Lexers
    <3> QED BY <3>1, <3>3 DEF f
  <2>4. CASE Piece(stop) \notin {"quote", "\\("}
    <3>1. String(s) \in Lexers /\ String(s).i = stop
      BY <2>1, <2>4, StringIs
    <3> HIDE DEF stop
    <3> QED BY <3>1, <2>1, <1>1
  <2> QED BY <2>2, <2>3, <2>4
<1>11. c \in Words /\ "NL" \in Words
  BY <1>2, MadeWords
<1> SUFFICES Good(Scan(s))
  OBVIOUS
<1> HIDE DEF Good, c
<1>12. CASE c \in Closers
  <2>1. CASE c = ")"
    BY <2>1, <1>8, <1>9, ScanIs DEF c
  <2>2. CASE c # ")"
    BY <2>2, <1>12, <1>6, <1>11, ScanIs DEF c
  <2> QED BY <2>1, <2>2
<1>13. CASE c \in Openers
  BY <1>13, <1>5, <1>11, ScanIs DEF c
<1>14. CASE c \in {"nl", "//", "/**/", "quote", "text"}
  BY <1>14, <1>3, <1>4, <1>7, <1>10, <1>11, ScanIs DEF c
<1>15. CASE c \notin Openers \cup Closers \cup {"nl", "//", "/**/", "quote", "text"}
  BY <1>15, <1>4, <1>11, ScanIs DEF c
<1> QED BY <1>12, <1>13, <1>14, <1>15

\* and, of a source that nests, keeps what is open.
LEMMA ScanKeeps ==
  ASSUME src \in Seq(Pieces), SourceNests(src), NEW s \in Lexers, s.i <= Len(src), NestInv(s)
  PROVE  NestInv(Scan(s))
<1> DEFINE c == src[s.i]
           open == OpenAt(s.i)
           said == Spelled(open)
<1>1. Len(src) \in Nat /\ s.i \in 1 .. Len(src) /\ s.i + 1 \in Nat \ {0} /\ s.i + 1 <= Len(src) + 1
  BY LenProperties DEF Lexers
<1>2. c \in Pieces /\ c \in Words
  BY <1>1, MadeWords
<1>3. Fits(open, c) /\ OpenAt(s.i + 1) = After(open, c)
  BY <1>1, OpenMoves
<1>4. Places(open, s.depth, s.splices) /\ Reads(s.out, said) /\ s.errs = 0
  BY DEF NestInv
<1>5. /\ open \in Seq(Opening) /\ ~InString(open)
      /\ After(open, "quote") = Append(open, "quote")
      /\ \A k \in Openers : After(open, k) = Append(open, k)
      /\ \A k \in Closers : After(open, k) = Front(open)
      /\ \A k : k \notin Openers \cup Closers \cup {"quote"} => After(open, k) = open
  BY <1>4, OutsideStrings
<1>6. s.out \in Seq(Words)
  BY DEF Lexers
<1>7. c # "text"
  BY <1>3, <1>5 DEF Fits
<1>8. Openers \cap Closers = {} /\ \A w \in {"nl", "//", "/**/", "quote", "text"} : w \notin Openers \cup Closers
  BY Brackets
<1> HIDE DEF c, open, said
\* A piece that leaves no token,
<1>9. (c \notin Openers \cup Closers \cup {"quote"}) => NestInv(Past(s))
  <2> SUFFICES ASSUME c \notin Openers \cup Closers \cup {"quote"} PROVE NestInv(Past(s))
    OBVIOUS
  <2>1. OpenAt(s.i + 1) = open
    BY <1>3, <1>5
  <2> QED BY <2>1, <1>4, PastIs DEF NestInv, said
\* or a token of its own.
<1>10. ASSUME NEW k \in Words, c \notin Openers \cup Closers \cup {"quote"},
              TokenAfter(said, k) = said, TokenFits(said, k)
       PROVE  NestInv(Emit(Past(s), k))
  <2>1. OpenAt(s.i + 1) = open
    BY <1>3, <1>5, <1>10
  <2>2. Reads(Append(s.out, k), said)
    BY <1>4, <1>6, <1>10, ReadsOne
  <2> DEFINE e == Emit(Past(s), k)
  <2>3. e.i = s.i + 1 /\ e.depth = s.depth /\ e.splices = s.splices /\ e.errs = s.errs
        /\ e.out = Append(s.out, k)
    BY PastIs, EmitIs
  <2> HIDE DEF e
  <2>4. NestInv(e)
    BY <2>1, <2>2, <2>3, <1>4 DEF NestInv, said
  <2> QED BY <2>4 DEF e
<1>11. CASE c = "nl"
  <2>1. CASE EndsLine(s)
    <3>1. s.depth = 0
      BY <2>1, <1>4, DepthCounts DEF EndsLine
    <3>2. said = <<>>
      BY <3>1, <1>4, DepthCounts, SpelledNothing DEF said
    <3>3. NestInv(Emit(Past(s), "NL"))
      BY <3>2, <1>8, <1>10, <1>11, LineToken, MadeWords
    <3> QED BY <3>3, <2>1, <1>11, ScanIs DEF c
  <2>2. CASE ~EndsLine(s)
    BY <2>2, <1>8, <1>9, <1>11, ScanIs DEF c
  <2> QED BY <2>1, <2>2
<1>12. CASE c \in {"//", "/**/"}
  BY <1>8, <1>9, <1>12, ScanIs DEF c
<1>13. CASE c \notin Openers \cup Closers \cup {"nl", "//", "/**/", "quote", "text"}
  <2>1. c \notin Made
    BY <1>2, PiecesAssumption
  <2>2. NestInv(Emit(Past(s), c))
    BY <2>1, <1>2, <1>10, <1>13, PlainToken
  <2> QED BY <2>2, <1>13, ScanIs DEF c
<1>14. CASE c \in Openers
  <2>1. OpenAt(s.i + 1) = Append(open, c) /\ Places(Append(open, c), s.depth + 1, s.splices)
    BY <1>3, <1>4, <1>5, <1>14, OpenBracket
  <2>2. Spelled(Append(open, c)) = Append(said, c)
    <3>1. c \in Opening /\ Word(c) = c
      BY <1>14, WordIs DEF Opening
    <3> QED BY <3>1, <1>5, SpelledMore DEF said
  <2>3. Reads(Append(s.out, c), Append(said, c))
    BY <1>2, <1>4, <1>6, <1>14, OpeningToken, ReadsOne DEF Spelling
  <2> DEFINE e == Emit(Deeper(s), c)
  <2>4. e.i = s.i + 1 /\ e.depth = s.depth + 1 /\ e.splices = s.splices /\ e.errs = s.errs
        /\ e.out = Append(s.out, c)
    <3> DEFINE d == Deeper(s)
    <3>1. /\ d \in Lexers /\ d.i = s.i + 1 /\ d.depth = s.depth + 1
          /\ d.splices = s.splices /\ d.errs = s.errs /\ d.out = s.out
      BY DeeperIs
    <3> HIDE DEF d
    <3>2. /\ Emit(d, c).i = d.i /\ Emit(d, c).depth = d.depth /\ Emit(d, c).splices = d.splices
          /\ Emit(d, c).errs = d.errs /\ Emit(d, c).out = Append(d.out, c)
      BY <3>1, <1>2, EmitIs
    <3> QED BY <3>1, <3>2 DEF d
  <2> HIDE DEF e
  <2>5. NestInv(e)
    BY <2>1, <2>2, <2>3, <2>4, <1>4 DEF NestInv
  <2> QED BY <2>5, <1>14, ScanIs DEF c, e
\* A closing piece closes the last one open.
<1>15. CASE c \in Closers
  <2>1. open # <<>> /\ <<Last(open), c>> \in Pairs \cup {<<"\\(", ")">>, <<"quote", "quote">>}
    BY <1>3, <1>5, <1>15 DEF Fits, Shuts
  <2>2. c # "quote"
    BY <1>8, <1>15
  <2>3. open = Append(Front(open), Last(open)) /\ Front(open) \in Seq(Opening)
        /\ Last(open) \in Opening
    BY <2>1, <1>5, FrontIs
  <2>4. OpenAt(s.i + 1) = Front(open)
    BY <1>3, <1>5, <1>15
  <2>5. said = Append(Spelled(Front(open)), Word(Last(open))) /\ said # <<>>
        /\ Front(said) = Spelled(Front(open)) /\ Last(said) = Word(Last(open))
    <3>1. said = Append(Spelled(Front(open)), Word(Last(open)))
      BY <2>3, SpelledMore DEF said
    <3>2. Spelled(Front(open)) \in Seq(Spelling) /\ Word(Last(open)) \in Spelling
      BY <2>3, SpelledIs, WordIs
    <3> QED BY <3>1, <3>2, AppendIs
  <2>6. <<Last(said), c>> \in Pairs
    <3>1. CASE Last(open) = "\\("
      <4>1. c = ")"
        BY <2>1, <3>1, PairsAre, Brackets
      <4> QED BY <4>1, <2>5, <3>1, WordIs, PairsAre
    <3>2. CASE Last(open) # "\\("
      <4>1. <<Last(open), c>> \in Pairs
        BY <2>1, <2>2, <3>2
      <4> QED BY <4>1, <2>5, PairsAre, WordIs
    <3> QED BY <3>1, <3>2
  <2>7. Reads(Append(s.out, c), Spelled(Front(open)))
    BY <1>2, <1>4, <1>6, <2>5, <2>6, ClosingToken, ReadsOne
  <2>8. CASE Last(open) \in Openers
    <3>1. Places(Front(open), s.depth - 1, s.splices)
          /\ ~(s.splices # <<>> /\ s.depth - 1 < s.splices[Len(s.splices)])
      BY <1>4, <2>1, <2>8, CloseBracket
    <3> DEFINE e == Emit(Higher(s), c)
    <3>2. e.i = s.i + 1 /\ e.depth = s.depth - 1 /\ e.splices = s.splices /\ e.errs = s.errs
          /\ e.out = Append(s.out, c)
      <4> DEFINE d == Higher(s)
      <4>1. /\ d \in Lexers /\ d.i = s.i + 1 /\ d.depth = s.depth - 1
            /\ d.splices = s.splices /\ d.errs = s.errs /\ d.out = s.out
        BY HigherIs
      <4> HIDE DEF d
      <4>2. /\ Emit(d, c).i = d.i /\ Emit(d, c).depth = d.depth /\ Emit(d, c).splices = d.splices
            /\ Emit(d, c).errs = d.errs /\ Emit(d, c).out = Append(d.out, c)
        BY <4>1, <1>2, EmitIs
      <4> QED BY <4>1, <4>2 DEF d
    <3>3. e = Scan(s)
      <4>1. CASE c # ")"
        BY <4>1, <1>15, ScanIs DEF c
      <4>2. CASE c = ")"
        <5>1. ~ResumesString(Closed(s))
          BY <3>1, ClosedIs DEF ResumesString
        <5>2. Scan(s) = Closed(s)
          BY <5>1, <4>2, ScanIs DEF c
        <5> QED BY <5>2, <4>2 DEF Closed
      <4> QED BY <4>1, <4>2
    <3> HIDE DEF e
    <3>4. NestInv(e)
      BY <2>4, <2>7, <3>1, <3>2, <1>4 DEF NestInv
    <3> QED BY <3>3, <3>4
  <2>9. CASE Last(open) = "\\("
    <3>1. c = ")"
      BY <2>1, <2>9, PairsAre, Brackets
    <3>2. s.splices # <<>> /\ s.depth - 1 < s.splices[Len(s.splices)]
      BY <1>4, <2>1, <2>9, CloseSplice
    <3>3. PICK q : /\ Front(open) = Append(q, "quote") /\ q \in Seq(Opening)
                   /\ Places(q, s.depth - 1, Front(s.splices))
      BY <1>4, <2>1, <2>9, CloseSplice
    <3>4. Scan(s) = Fragment(Resumed(s), s.i + 1)
      <4>1. ResumesString(Closed(s)) /\ Closed(s).i = s.i + 1
        BY <3>2, ClosedIs DEF ResumesString
      <4> QED BY <4>1, <3>1, ScanIs DEF c
    <3>5. Spelled(Front(open)) = Append(Spelled(q), "IBEG")
      BY <3>3, SpelledMore, WordIs DEF Opening
    <3> DEFINE g == Resumed(s)
    <3>6. /\ g \in Lexers /\ g.i = s.i + 1 /\ g.depth = s.depth - 1
          /\ g.splices = Front(s.splices) /\ g.errs = s.errs /\ g.out = Append(s.out, c)
      BY <3>1, <3>2, ResumedIs
    <3> HIDE DEF g
    <3>7. /\ OpenAt(s.i + 1) = Append(q, "quote") /\ Places(q, g.depth, g.splices)
          /\ Reads(g.out, Append(Spelled(q), "IBEG")) /\ g.errs = 0
      BY <2>4, <2>7, <3>3, <3>5, <3>6, <1>4
    <3>8. NestInv(Fragment(g, s.i + 1))
      BY <3>3, <3>6, <3>7, <1>1, FragmentKeeps
    <3> QED BY <3>4, <3>8 DEF g
  <2> QED BY <2>1, <2>2, <2>8, <2>9, PairsAre
<1>16. CASE c = "quote"
  <2> DEFINE stop == StringStops(s.i + 1)
             string == Append(open, "quote")
             g == Emit(s, "IBEG")
  <2>1. /\ stop \in Nat \ {0} /\ s.i + 1 <= stop /\ stop <= Len(src) + 1
        /\ \A j \in s.i + 1 .. stop - 1 : src[j] \notin {"quote", "nl", "\\("}
        /\ stop <= Len(src) => src[stop] \in {"quote", "nl", "\\("} /\ Piece(stop) = src[stop]
    BY <1>1, StringStopsIs
  <2>2. /\ string # <<>> /\ InString(string) /\ After(string, "quote") = open /\ ~Fits(string, "nl")
    BY <1>5, InAString
  <2>3. OpenAt(s.i + 1) = string
    BY <1>3, <1>5, <1>16
  <2>4. Scan(s) = String(s)
    BY <1>16, ScanIs DEF c
  <2>5. /\ g \in Lexers /\ g.depth = s.depth /\ g.splices = s.splices /\ g.errs = s.errs
        /\ g.out = Append(s.out, "IBEG")
    BY EmitIs, MadeWords
  <2>6. /\ Piece(stop) = "quote" =>
             /\ String(s).i = stop + 1 /\ String(s).depth = s.depth
             /\ String(s).splices = s.splices /\ String(s).errs = s.errs
             /\ String(s).out = Append(s.out, "STR")
        /\ Piece(stop) = "\\(" => String(s) = Fragment(g, s.i + 1)
    BY <2>1, StringIs
  <2> HIDE DEF stop, string, g
  <2>7. OpenAt(stop) = string
    BY <1>1, <2>1, <2>2, <2>3, StaysInString
  <2>8. stop \in 1 .. Len(src)
    BY <1>1, <2>1, <2>2, <2>7, OpenMoves
  <2>9. Fits(string, src[stop]) /\ OpenAt(stop + 1) = After(string, src[stop])
    BY <2>7, <2>8, OpenMoves
  <2>10. src[stop] \in {"quote", "\\("} /\ Piece(stop) = src[stop]
    BY <2>1, <2>2, <2>8, <2>9
  <2>11. CASE Piece(stop) = "quote"
    <3>1. OpenAt(stop + 1) = open
      BY <2>2, <2>9, <2>10, <2>11
    <3>2. Reads(Append(s.out, "STR"), said)
      <4>1. "STR" \notin Openers \cup Closers \cup Made
        BY Brackets DEF Made
      <4> QED BY <4>1, <1>4, <1>6, PlainToken, ReadsOne, MadeWords
    <3>3. NestInv(String(s))
      BY <2>6, <2>11, <3>1, <3>2, <1>4 DEF NestInv, said
    <3> QED BY <3>3, <2>4
  <2>12. CASE Piece(stop) = "\\("
    <3>1. Reads(Append(s.out, "IBEG"), Append(said, "IBEG"))
      BY <1>4, <1>6, OpeningToken, ReadsOne, MadeWords DEF Spelling
    <3>2. OpenAt(s.i + 1) = Append(open, "quote") /\ Places(open, g.depth, g.splices)
          /\ Reads(g.out, Append(Spelled(open), "IBEG")) /\ g.errs = 0
      BY <3>1, <2>3, <2>5, <1>4 DEF said, string
    <3>3. NestInv(Fragment(g, s.i + 1))
      BY <3>2, <2>5, <1>1, <1>5, FragmentKeeps
    <3> QED BY <3>3, <2>4, <2>6, <2>12
  <2> QED BY <2>10, <2>11, <2>12
<1> QED BY <1>7, <1>11, <1>12, <1>13, <1>14, <1>15, <1>16

-----------------------------------------------------------------------------
\* The lexer keeps its types, and its place is in the file or at its end.
THEOREM LexerTypeCorrect == LexerSpec => []LexOK
<1>1. ASSUME NEW s \in Seq(Pieces) PROVE Start \in Lexers /\ Start.i <= Len(s) + 1
  BY LenProperties DEF Start, Lexers
<1>2. LexerInit => LexOK
  BY <1>1 DEF LexerInit, LexOK
<1>3. LexOK /\ [LexerNext]_<<src, lex>> => LexOK'
  <2> SUFFICES ASSUME LexOK, [LexerNext]_<<src, lex>> PROVE LexOK'
    OBVIOUS
  <2>1. CASE ScanPiece
    <3>1. lex.i <= Len(src)
      BY <2>1, LenProperties DEF ScanPiece, Scanned, LexOK, Lexers
    <3> QED BY <2>1, <3>1, ScanMoves DEF ScanPiece, LexOK
  <2>2. CASE OpenFile
    BY <2>2, <1>1 DEF OpenFile, LexOK
  <2>3. CASE UNCHANGED <<src, lex>>
    BY <2>3 DEF LexOK
  <2> QED BY <2>1, <2>2, <2>3 DEF LexerNext
<1> QED BY <1>2, <1>3, PTL DEF LexerSpec

\* Every step takes a piece at least, so a file of n pieces is in tokens after
\* n steps at most, whatever it holds: no error makes the lexer stand still.
THEOREM LexerMovesOn == LexerSpec => [][ScanPiece => lex.i < lex'.i]_<<src, lex>>
<1>1. LexOK /\ [LexerNext]_<<src, lex>> => [ScanPiece => lex.i < lex'.i]_<<src, lex>>
  <2> SUFFICES ASSUME LexOK, ScanPiece PROVE lex.i < lex'.i
    OBVIOUS
  <2>1. lex.i <= Len(src)
    BY LenProperties DEF ScanPiece, Scanned, LexOK, Lexers
  <2> QED BY <2>1, ScanMoves DEF ScanPiece, LexOK
<1> QED BY <1>1, LexerTypeCorrect, PTL DEF LexerSpec

\* What is kept while a source that nests is read.
NestsSoFar == SourceNests(src) => NestInv(lex)

\* For every source, of whatever pieces and length, and every limit on errors:
\* one whose brackets and strings nest is read without an error into tokens
\* that nest, each ) of a splice back in the string that opened it
\* (Lexer::tokenize, scan_interp_continue).
THEOREM NestingIsKept == LexerSpec => []StringsNest
<1>1. ASSUME NEW s \in Seq(Pieces) PROVE Start \in Lexers /\ Start.i <= Len(s) + 1
  BY LenProperties DEF Start, Lexers
<1>2. src \in Seq(Pieces) /\ lex = Start => NestsSoFar
  <2> SUFFICES ASSUME src \in Seq(Pieces), lex = Start, SourceNests(src) PROVE NestInv(lex)
    BY DEF NestsSoFar
  <2>1. OpenAt(lex.i) = <<>>
    BY OpenMoves DEF Start
  <2>2. Reads(<<>>, <<>>)
    <3>1. <<>> \in Seq(Words) /\ Len(<<>>) = 0 /\ DOMAIN <<>> = {}
      OBVIOUS
    <3>2. TokenStacks(<<>>)[0] = <<>>
      BY <3>1, TokenStacksAre
    <3> QED BY <3>1, <3>2 DEF Reads
  <2> QED BY <2>1, <2>2, NothingOpen, SpelledNothing DEF NestInv, Start
<1>3. (src \in Seq(Pieces) /\ lex = Start)' => NestsSoFar'
  BY <1>2, PTL
<1>4. LexerInit => NestsSoFar
  BY <1>2 DEF LexerInit
<1>5. LexOK /\ NestsSoFar /\ [LexerNext]_<<src, lex>> => NestsSoFar'
  <2> SUFFICES ASSUME LexOK, NestsSoFar, [LexerNext]_<<src, lex>> PROVE NestsSoFar'
    OBVIOUS
  <2>1. CASE ScanPiece
    <3>1. lex.i <= Len(src)
      BY <2>1, LenProperties DEF ScanPiece, Scanned, LexOK, Lexers
    <3>2. SourceNests(src) => NestInv(Scan(lex))
      BY <3>1, ScanKeeps DEF NestsSoFar, LexOK
    <3> QED BY <2>1, <3>2 DEF ScanPiece, NestsSoFar, NestInv, OpenAt
  <2>2. CASE OpenFile
    <3>1. (src \in Seq(Pieces))' /\ (lex = Start)'
      BY <2>2 DEF OpenFile, Start
    <3> QED BY <3>1, <1>3
  <2>3. CASE UNCHANGED <<src, lex>>
    BY <2>3 DEF NestsSoFar, NestInv, OpenAt
  <2> QED BY <2>1, <2>2, <2>3 DEF LexerNext
<1>6. LexOK /\ NestsSoFar => StringsNest
  <2> SUFFICES ASSUME LexOK, NestsSoFar, Scanned, SourceNests(src)
               PROVE  lex.errs = 0 /\ TokensNest(lex.out)
    BY DEF StringsNest
  <2>1. NestInv(lex)
    BY DEF NestsSoFar
  <2>2. lex.errs = 0
    BY <2>1 DEF NestInv
  <2>3. lex.i = Len(src) + 1
    BY <2>2, MaxErrorsAssumption, LenProperties DEF Scanned, LexOK, Lexers
  <2>4. OpenAt(lex.i) = <<>>
    BY <2>3, OpenMoves DEF LexOK
  <2>5. Reads(lex.out, <<>>)
    BY <2>1, <2>4, SpelledNothing DEF NestInv
  <2> QED BY <2>2, <2>5 DEF Reads, TokensNest
<1> QED BY <1>4, <1>5, <1>6, LexerTypeCorrect, PTL DEF LexerSpec
=============================================================================
