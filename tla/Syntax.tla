------------------------------- MODULE Syntax -------------------------------
(***************************************************************************)
(* vestra fmt on one source: tokenize, parse, print, and read what was      *)
(* printed again.  The parser's loops over declarations and over the        *)
(* members of an open body are steps, so that a loop that consumes nothing  *)
(* is a step that changes nothing.                                          *)
(***************************************************************************)
EXTENDS Printing

CONSTANT Sources  \* the files

ASSUME SourcesAssumption == Sources \subseteq Seq(Pieces)

VARIABLES
  phase,  \* "source" | "head" | "body" | "read" | "done" | "crashed"
  toks, cur,  \* the tokens, and the parser's [p, errs]
  open,   \* the bodies being parsed, the unit outermost: [head, items]
  first   \* <<the declarations of the first reading>>, or empty

vars == <<src, lex, phase, toks, cur, open, first>>

----------------------------------------------------------------------------
(* Productions of a declaration.  Each answers a cursor with a tree; one    *)
(* with a body answers its head only, and the machine opens it.             *)

Bodies == {"struct", "enum", "protocol", "extension"}
DeclStarts == {"func", "opaque", "const", "static", "import", "module", "derive", "@", "public"} \cup Bodies

RECURSIVE Sync(_, _), Attributes(_, _), Path(_, _), TypeList(_, _, _, _), Params(_, _, _)

\* Drop tokens up to a newline or to what may start a declaration.
Sync(ts, s) ==
  CASE At(ts, s) = "NL" -> Next1(ts, s)
    [] At(ts, s) \in DeclStarts \cup {"EOF"} -> s
    [] OTHER -> Sync(ts, Next1(ts, s))

Attributes(ts, s) ==
  LET name == Next1(ts, s)
      Rest(one) == Map(Attributes(ts, SkipLines(ts, [p |-> one.p, errs |-> one.errs])),
                       LAMBDA t : <<At(ts, name)>> \o t)
  IN  CASE At(ts, s) # "@" -> With(s, <<>>)
        [] At(ts, s) = "@" /\ At(ts, name) \notin Names -> With(Wrong(name), <<>>)
        [] OTHER -> Rest(IF Ahead(ts, name) = "(" THEN ExprList(ts, Next1(ts, Next1(ts, name)), ")", <<>>, Binding)
                         ELSE Next1(ts, name))

Path(ts, s) ==
  IF At(ts, s) = "." THEN (IF Ahead(ts, s) \in Names THEN Path(ts, Next1(ts, Next1(ts, s))) ELSE Wrong(Next1(ts, s)))
  ELSE s
Name(ts, s) == IF At(ts, s) \in Names THEN Next1(ts, s) ELSE Wrong(s)

TypeList(ts, s, sep, sofar) ==
  LET More(one, all) == IF At(ts, one) = sep THEN TypeList(ts, Next1(ts, one), sep, all) ELSE With(one, all)
      Rest(one) == More(one, Append(sofar, one.t))
  IN  Rest(Type(ts, s))
Refined(ts, s) == IF At(ts, s) = ":" THEN TypeList(ts, Next1(ts, s), ",", <<>>) ELSE With(s, <<>>)

\* A production reads the clauses of a declaration one after another, each
\* putting its part in the tree of the cursor it is given.
Clause(ts, s, opener) == At(ts, s) = opener

\* One bound per parameter: [T] or [T: P].
Generics(ts, s) ==
  LET Bounded(bound) == With(Expect(ts, bound, "]"), <<bound.t>>)
      For(name) == Bounded(IF At(ts, name) = ":" THEN TypeList(ts, Next1(ts, name), "&", <<>>) ELSE With(name, <<>>))
  IN  IF Clause(ts, s, "[") THEN For(Name(ts, Next1(ts, s))) ELSE With(s, <<>>)
GenericClause(ts, s) == Put(s, "generics", Generics(ts, s))

DefaultClause(ts, s) == Put(s, "value", IF Clause(ts, s, "=") THEN Expr(ts, Next1(ts, s)) ELSE With(s, None))
\* A parameter: its labels, its mode, its type, its default value.
Param(ts, s) ==
  LET label == Skip(ts, s, "_")
      labelled == At(ts, label) \in Names
      name == CASE labelled /\ Ahead(ts, label) \in Names /\ label.p = s.p -> Next1(ts, Next1(ts, label))
                [] labelled -> Next1(ts, label)
                [] OTHER -> label
      TypeOf(p) == Put(p, "type", Type(ts, IF At(ts, p) \in {"inout", "sink", "read"} THEN Next1(ts, p) ELSE p))
      Moded(p) == With(p, [label |-> SubSeq(ts, s.p, name.p - 1),
                           mode |-> IF At(ts, p) \in {"inout", "sink"} THEN At(ts, p) ELSE "read"])
  IN  DefaultClause(ts, TypeOf(Moded(Expect(ts, name, ":"))))

Params(ts, s, sofar) ==
  LET More(one, all) == IF At(ts, one) = "," THEN Params(ts, Next1(ts, one), all) ELSE With(Expect(ts, one, ")"), all)
      Rest(one) == More(one, Append(sofar, one.t))
  IN  Rest(Param(ts, s))

ParamClause(ts, s) ==
  LET in == Expect(ts, s, "(")
  IN  Put(s, "params", IF Clause(ts, in, ")") THEN With(Next1(ts, in), <<>>) ELSE Params(ts, in, <<>>))

UsingClause(ts, s) ==
  Put(s, "using", IF Clause(ts, s, "using") THEN TypeList(ts, Next1(ts, s), ",", <<>>) ELSE With(s, <<>>))
ThrowsClause(ts, s) ==
  LET Thrown(type) == With(Expect(ts, type, ")"), type.t)
  IN  Put(s, "throws", IF Clause(ts, s, "throws") THEN Thrown(Type(ts, Expect(ts, Next1(ts, s), "("))) ELSE With(s, None))
ResultClause(ts, s) == Put(s, "result", IF Clause(ts, s, "->") THEN Type(ts, Next1(ts, s)) ELSE With(s, None))
BodyClause(ts, s) == Put(s, "body", IF Clause(ts, s, "{") THEN Block(ts, s, Binding) ELSE With(s, None))

\* s stands on func, or on what parse_func takes for it.
Func(ts, s, attrs, mods) ==
  LET head == With(Name(ts, Next1(ts, s)), [k |-> "func", attrs |-> attrs, mods |-> mods])
  IN  BodyClause(ts, ResultClause(ts, ThrowsClause(ts, UsingClause(ts, ParamClause(ts, GenericClause(ts, head))))))

Header(ts, s, attrs, mods) ==
  LET k == At(ts, s)
      head == [k |-> k, attrs |-> attrs, mods |-> mods, target |-> None]
      Targeted(type) == With(type, [head EXCEPT !.target = type.t] @@ [generics |-> <<>>])
      Refines(h) == Put(h, "refines", IF k \in {"protocol", "extension"} THEN Refined(ts, h) ELSE With(h, <<>>))
      Opened(h) == With(SkipLines(ts, Expect(ts, h, "{")), h.t)
  IN  Opened(Refines(IF k = "extension" THEN Targeted(Type(ts, Next1(ts, s)))
                     ELSE GenericClause(ts, With(Name(ts, Next1(ts, s)), head))))

\* noinit: storage with no value.
ValueClause(ts, noinit, s) == Put(s, "e", IF noinit THEN With(s, None) ELSE Expr(ts, Expect(ts, s, "=")))
Const(ts, s, attrs, mods) ==
  LET k == At(ts, s)
      From(name) == Put(name, "type", CASE k = "static" -> Type(ts, Expect(ts, name, ":"))
                                        [] k # "static" /\ Clause(ts, name, ":") -> Type(ts, Next1(ts, name))
                                        [] OTHER -> With(name, None))
  IN  ValueClause(ts, k = "static" /\ "noinit" \in Range(attrs), From(With(Name(ts, Next1(ts, s)), [k |-> k, mods |-> mods])))

Opaque(ts, s, mods) ==
  Map(Type(ts, Expect(ts, Name(ts, Expect(ts, Next1(ts, s), "type")), "=")),
      LAMBDA t : [k |-> "opaque", mods |-> mods, type |-> t])

Derive(ts, s) ==
  LET From(in) == IF At(ts, in) = ")" THEN With(in, <<>>) ELSE TypeList(ts, in, ",", <<>>)
      For(protocols) == Map(Type(ts, Expect(ts, Expect(ts, protocols, ")"), "for")),
                            LAMBDA t : [k |-> "derive", protocols |-> protocols.t, type |-> t])
  IN  For(From(Expect(ts, Next1(ts, s), "(")))

DeclAt(ts, at, attrs, mods) ==
  LET k == At(ts, at)
      linear == k = "linear" /\ Ahead(ts, at) = "struct"
  IN  CASE k = "func" -> Func(ts, at, attrs, mods)
        [] k \in Bodies \/ linear ->
             Header(ts, IF linear THEN Next1(ts, at) ELSE at, attrs, IF linear THEN mods \o <<"linear">> ELSE mods)
        [] k = "linear" /\ ~linear -> With(Wrong(Next1(ts, at)), None)
        [] k = "opaque" -> Opaque(ts, at, mods)
        [] k \in {"const", "static"} -> Const(ts, at, attrs, mods)
        [] k = "derive" -> Derive(ts, at)
        [] OTHER -> With(Wrong(at), None)

\* What may come before a declaration's own word.
Decl(ts, s, attrs) ==
  LET vis == Skip(ts, s, "public")
      folded == IF At(ts, vis) = "comptime" /\ Ahead(ts, vis) \in {"func", "async", "inout", "sink"}
                THEN Next1(ts, vis) ELSE vis
      async == Skip(ts, folded, "async")
      at == IF At(ts, async) \in {"inout", "sink"} /\ Ahead(ts, async) = "func" THEN Next1(ts, async) ELSE async
  IN  DeclAt(ts, at, attrs, SubSeq(ts, s.p, at.p - 1))

----------------------------------------------------------------------------
(* The printer's declarations: no attributes, no linear, and generics only  *)
(* of a func.  The members of a body come sorted, as the tree keeps them.   *)

Shown(mods) == SelectSeq(mods, LAMBDA m : m # "linear")
PrintTypes(ts, sep) == Separated([i \in DOMAIN ts |-> PrintType(ts[i])], <<sep>>)

PrintFunc(d) ==
  LET param(p) == p.label \o <<":">> \o (IF p.mode \in {"inout", "sink"} THEN <<p.mode>> ELSE <<>>) \o PrintType(p.type)
      bound(b) == <<"[", "T">> \o (IF b = <<>> THEN <<>> ELSE <<":">> \o PrintTypes(b, "&")) \o <<"]">>
  IN  Shown(d.mods) \o <<"func", "f">> \o (IF d.generics = <<>> THEN <<>> ELSE bound(d.generics[1]))
      \o <<"(">> \o Separated([i \in DOMAIN d.params |-> param(d.params[i])], <<",">>) \o <<")">>
      \o (IF d.using = <<>> THEN <<>> ELSE <<"using">> \o PrintTypes(d.using, ","))
      \o (IF d.throws = None THEN <<>> ELSE <<"throws", "(">> \o PrintType(d.throws) \o <<")">>)
      \o (IF d.result = None THEN <<>> ELSE <<"->">> \o PrintType(d.result))
      \o (IF d.body = None THEN <<>> ELSE PrintBlock(d.body)) \o <<"nl">>

RECURSIVE PrintDecl(_)
PrintBody(d) ==
  Shown(d.mods) \o <<d.k>> \o (IF d.k = "extension" THEN PrintType(d.target) ELSE <<"a">>)
  \o (IF d.refines = <<>> THEN <<>> ELSE <<":">> \o PrintTypes(d.refines, ","))
  \o <<"{", "nl">> \o FlattenSeq([i \in DOMAIN d.items |-> PrintDecl(d.items[i])]) \o <<"}", "nl">>

PrintDecl(d) ==
  CASE d.k = "func"    -> PrintFunc(d)
    [] d.k \in Bodies  -> PrintBody(d)
    [] d.k \in {"const", "static"} ->
         Shown(d.mods) \o <<d.k, "a">> \o (IF d.type = None THEN <<>> ELSE <<":">> \o PrintType(d.type))
         \o <<"=">> \o PrintExpr(d.e) \o <<"nl">>
    [] d.k = "opaque"  -> Shown(d.mods) \o <<"opaque", "type", "a", "=">> \o PrintType(d.type) \o <<"nl">>
    [] d.k = "derive"  -> <<"derive", "(">> \o PrintTypes(d.protocols, ",") \o <<")", "for">> \o PrintType(d.type) \o <<"nl">>
    [] d.k \in {"let", "var", "embed"} -> <<d.k, "a", ":">> \o PrintType(d.type) \o <<"nl">>
    [] d.k = "case"    -> <<"case", "a">> \o (IF d.payload = <<>> THEN <<>> ELSE <<"(">> \o PrintTypes(d.payload, ",") \o <<")">>)
                          \o <<"nl">>
    [] d.k = "type"    -> <<"type", "a", "nl">>
    [] d.k = "deinit"  -> <<"deinit">> \o PrintBlock(d.body) \o <<"nl">>

\* The printer follows the null value of a static without one.
RECURSIVE Crashes(_)
Crashes(d) == \/ d.k = "static" /\ d.e = None
              \/ d.k \in Bodies /\ \E i \in DOMAIN d.items : Crashes(d.items[i])

----------------------------------------------------------------------------
(* The machine.                                                            *)

Init ==
  /\ src \in Sources /\ lex = Start
  /\ phase = "source"
  /\ toks = <<"EOF">> /\ cur = [p |-> 1, errs |-> 0]
  /\ open = <<>> /\ first = <<>>

UnitHead == [k |-> "unit"]

Lex ==
  /\ phase = "source"
  /\ ScanPiece
  /\ UNCHANGED <<phase, toks, cur, open, first>>

\* The file is in tokens, with the errors of its strings.
Tokenize ==
  /\ phase = "source" /\ Scanned
  /\ toks' = Tokens /\ cur' = [p |-> 1, errs |-> lex.errs]
  /\ lex' = Start
  /\ open' = <<[head |-> UnitHead, items |-> <<>>]>>
  /\ phase' = "head"
  /\ UNCHANGED <<src, first>>

RECURSIVE Imports(_, _)
Imports(ts, s) ==
  IF At(ts, s) # "import" THEN s
  ELSE LET name == Next1(ts, s)
       IN  Imports(ts, SkipLines(ts, IF At(ts, name) \in Names THEN Path(ts, Next1(ts, name)) ELSE Wrong(name)))

\* module and import are read here and nowhere else.
ReadHead ==
  /\ phase = "head"
  /\ LET start == SkipLines(toks, cur)
         name == Next1(toks, start)
         module == IF At(toks, start) # "module" THEN start
                   ELSE SkipLines(toks, IF At(toks, name) \in Names THEN Path(toks, Next1(toks, name)) ELSE Wrong(name))
     IN  cur' = Imports(toks, module)
  /\ phase' = "body"
  /\ UNCHANGED <<src, lex, toks, open, first>>

Top == open[Len(open)]
AtEnd == At(toks, cur) = "EOF"
Cursor(s) == [p |-> s.p, errs |-> s.errs]
Add(stack, item) == [stack EXCEPT ![Len(stack)].items = Append(@, item)]

\* An item is kept, or opened if it has a body; then newlines are skipped.
Keep(r) ==
  /\ cur' = Cursor(SkipLines(toks, r))
  /\ open' = IF r.t.k \in Bodies THEN Append(open, [head |-> r.t, items |-> <<>>]) ELSE Add(open, r.t)

ReadDecl ==
  /\ phase = "body" /\ Top.head.k = "unit" /\ ~AtEnd /\ cur.errs < MaxErrors
  /\ \E attrs \in {Attributes(toks, cur)} :
       \/ At(toks, attrs) = "EOF" /\ cur' = Cursor(attrs) /\ UNCHANGED open
       \/ /\ At(toks, attrs) # "EOF"
          /\ \E d \in {Decl(toks, attrs, attrs.t)} :
               IF d.t # None THEN Keep(d)
               ELSE cur' = Cursor(SkipLines(toks, Sync(toks, d))) /\ UNCHANGED open
  /\ UNCHANGED <<src, lex, phase, toks, first>>

\* The tree keeps fields before methods, and one deinit.
Sorted(items) ==
  LET funcs == SelectSeq(items, LAMBDA i : i.k = "func")
      ends == SelectSeq(items, LAMBDA i : i.k = "deinit")
  IN  SelectSeq(items, LAMBDA i : i.k \notin {"func", "deinit"}) \o funcs
      \o (IF ends = <<>> THEN <<>> ELSE <<ends[Len(ends)]>>)
Closed(b) == b.head @@ [items |-> IF b.head.k = "extension" THEN b.items ELSE Sorted(b.items)]

\* The loop over a body ends at its }, or at what it could not get past.
Close(s) ==
  /\ cur' = Cursor(SkipLines(toks, Expect(toks, s, "}")))
  /\ open' = Add(Front(open), Closed(Top))

NeverStalled(before, after) == FALSE
\* The forward-progress guard: a recovery that stalls leaves the body.
Stalled(before, after) == after.p = before.p
RecoverMember(s) ==
  \E after \in {Sync(toks, s)} :
    IF Stalled(s, after) THEN Close(after)
    ELSE \* a struct goes round again before it skips newlines
         /\ cur' = Cursor(IF Top.head.k = "struct" THEN after ELSE SkipLines(toks, after))
         /\ UNCHANGED open

InBody(k) == phase = "body" /\ Top.head.k = k /\ At(toks, cur) \notin {"}", "EOF"}

\* async, inout and sink before a method; func itself is taken on trust.
Modes(s) == LET a == Skip(toks, s, "async") IN Skip(toks, Skip(toks, a, "inout"), "sink")

StructMember(s) ==
  LET k == At(toks, s)
      at == Modes(s)
      next == Next1(toks, s)
      Typed(type) == With(type, [k |-> k, type |-> type.t])
      Ending(body) == With(body, [k |-> k, body |-> body.t])
  IN  CASE k \in {"func", "async", "inout", "sink"} -> Func(toks, at, s.t, SubSeq(toks, s.p, at.p - 1))
        [] k = "deinit" -> Ending(Block(toks, next, Binding))
        [] k \in {"let", "var", "embed"} -> Typed(Type(toks, Expect(toks, Name(toks, next), ":")))
        [] OTHER -> With(Wrong(s), None)

EnumMethod(s) == IF At(toks, s) = "func" THEN Func(toks, s, s.t, <<>>) ELSE With(Wrong(s), None)
EnumMember(s) ==
  LET Case(payload) == With(payload, [k |-> "case", payload |-> payload.t])
      Labelled(name) == Case(IF At(toks, name) = "(" THEN Types(toks, Next1(toks, name), ")", <<>>) ELSE With(name, <<>>))
  IN  IF At(toks, s) = "case" THEN Labelled(Name(toks, Next1(toks, s))) ELSE EnumMethod(Attributes(toks, s))

ProtocolMember(s) ==
  LET Bounded(bound) == With(bound, [k |-> "type", bound |-> bound.t])
      Labelled(name) == Bounded(IF At(toks, name) = ":" THEN TypeList(toks, Next1(toks, name), "&", <<>>)
                              ELSE With(name, <<>>))
      at == Modes(s)
  IN  CASE At(toks, s) = "type" -> Labelled(Name(toks, Next1(toks, s)))
        [] At(toks, s) # "type" /\ At(toks, at) \in {"func", "comptime"} ->
             Func(toks, Skip(toks, at, "comptime"), <<>>, SubSeq(toks, s.p, at.p - 1))
        [] OTHER -> With(Wrong(at), None)

ExtensionMember(attrs) == Decl(toks, attrs, attrs.t)

\* A round of the loop over a body's members.
Round(k, member) ==
  /\ InBody(k)
  /\ \E m \in {member} : IF m.t # None THEN Keep(m) ELSE RecoverMember(m)
  /\ UNCHANGED <<src, lex, phase, toks, first>>

ReadStructMember == Round("struct", StructMember(Attributes(toks, cur)))
ReadEnumMember == Round("enum", EnumMember(cur))
ReadProtocolMember == Round("protocol", ProtocolMember(cur))
ReadExtensionMember == Round("extension", ExtensionMember(Attributes(toks, cur)))

CloseBody ==
  /\ phase = "body" /\ Top.head.k \in Bodies /\ At(toks, cur) \in {"}", "EOF"}
  /\ Close(cur)
  /\ UNCHANGED <<src, lex, phase, toks, first>>

\* The unit ends at the end of the file or at the limit on errors.
EndUnit ==
  /\ phase = "body" /\ Top.head.k = "unit" /\ (AtEnd \/ cur.errs >= MaxErrors)
  /\ phase' = "read"
  /\ UNCHANGED <<src, lex, toks, cur, open, first>>

\* fmt prints what it read without an error; here it is then read again.
Printed ==
  /\ phase = "read" /\ first = <<>> /\ cur.errs = 0
  /\ LET ds == Top.items
     IN  IF \E i \in DOMAIN ds : Crashes(ds[i])
         THEN phase' = "crashed" /\ UNCHANGED <<src, first>>
         ELSE /\ src' = FlattenSeq([i \in DOMAIN ds |-> PrintDecl(ds[i]) \o <<"nl">>])
              /\ first' = <<Top.items>>
              /\ phase' = "source"
  /\ UNCHANGED <<lex, toks, cur, open>>

Finish ==
  /\ phase = "read" /\ (first # <<>> \/ cur.errs > 0)
  /\ phase' = "done"
  /\ UNCHANGED <<src, lex, toks, cur, open, first>>

Next ==
  \/ Lex \/ Tokenize \/ ReadHead \/ ReadDecl \/ CloseBody \/ EndUnit \/ Printed \/ Finish
  \/ ReadStructMember \/ ReadEnumMember \/ ReadProtocolMember \/ ReadExtensionMember

Spec == Init /\ [][Next]_vars
=============================================================================
