--------------------------- MODULE MCBuildDriver ---------------------------
(***************************************************************************)
(* Instances of BuildDriver for TLC: an entry `main` and two more files,   *)
(* import paths that name them through one or two search roots, and the    *)
(* ways such a program goes wrong.                                         *)
(***************************************************************************)
EXTENDS BuildDriver, TLC

CONSTANTS main, u, v, w, pMain, pU, pV, pW, m, n, here, there, logo, none, red, blue

Lists(S, len) == UNION {[1 .. k -> S] : k \in 0 .. len}

\* main imports up to two paths, the others one.
ImportMaps ==
  {i \in [Files -> Lists(Paths, 2)] : \A f \in Files \ {main} : Len(i[f]) <= 1}
SmallMaps == {i \in ImportMaps : i[w] = << >> /\ \A f \in Files : pW \notin ToSet(i[f])}

At(atU, atV) ==
  [p \in Paths |-> CASE p = pMain -> <<main, none>> [] p = pU -> atU
                     [] p = pV -> atV [] p = pW -> <<w, none>>]

Layout(i, a, blind, bad) ==
  [import |-> i, at |-> a, unreadable |-> blind, broken |-> bad]

\* Every import graph of four files; and of three, one of them in the second
\* root, hidden by another, missing, unreadable or broken.
Plainly == {Layout(i, At(<<u, none>>, <<v, none>>), {}, {}) : i \in ImportMaps}
Flawed ==
  {Layout(i, At(<<u, none>>, <<v, none>>), f[1], f[2]) :
     i \in SmallMaps, f \in {<<{v}, {}>>, <<{}, {u}>>}}
  \cup {Layout(i, a, {}, {}) :
     i \in SmallMaps, a \in {At(<<none, u>>, <<v, u>>), At(<<u, v>>, <<none, none>>)}}
Graphs == Plainly \cup Flawed

Says(mod, uses, wrong, dir, embeds) ==
  [module |-> mod, uses |-> uses, wrong |-> wrong, dir |-> dir, embeds |-> embeds]

ModuleOf == [f \in Files |-> CASE f \in {main, w} -> none [] f = u -> m [] f = v -> n]
Nameless == [f \in Files |-> none]
Plain == [f \in Files |-> {}]
InHere == [f \in Files |-> here]
Apart == [f \in Files |-> IF f = u THEN there ELSE here]

Build(mode, checked) == [write |-> TRUE, mode |-> mode, checked |-> checked]
Check == [write |-> FALSE, mode |-> "Off", checked |-> TRUE]

\* A main that refers to module m, declared by u or by nobody, or by all; an
\* error in v.
Sane == {Says(ModuleOf, [Plain EXCEPT ![main] = {m}], {}, InHere, Plain),
         Says(Nameless, [Plain EXCEPT ![main] = {m}], {}, InHere, Plain),
         Says([f \in Files |-> m], Plain, {}, InHere, Plain),
         Says(ModuleOf, Plain, {v}, InHere, Plain)}

Diamond ==
  {Layout([f \in Files |-> CASE f = main -> <<pU, pV>> [] f = u -> <<pV>> [] OTHER -> << >>],
          At(<<u, none>>, <<v, none>>), {}, {})}

\* One file under two import paths, by a second search root.
Aliased ==
  {Layout([f \in Files |-> CASE f = main -> <<pU, pV>> [] OTHER -> << >>],
          At(<<u, none>>, <<none, u>>), {}, {})}
AliasedReadings == [tr \in Aliased |-> Sane]
AliasedPlans == [tr \in Aliased |-> {<<Build("Off", TRUE)>>}]

\* Programs whose files embed something.
Embedding ==
  {Says(ModuleOf, Plain, {}, d, [Plain EXCEPT ![u] = e, ![v] = x, ![main] = y]) :
     d \in {InHere, Apart}, e, x, y \in SUBSET Embeds}

Readings == [tr \in Graphs |-> IF tr \in Diamond THEN Embedding ELSE Sane]

\* Each graph is checked and built; each embedding goes through three commands.
Plans == [tr \in Graphs |->
  IF tr \in Diamond THEN [1 .. 3 -> {Build("Emit", TRUE), Build("Enforce", TRUE), Check}]
  ELSE {<<Check>>, <<Build("Off", TRUE)>>, <<Build("Off", FALSE)>>}]
=============================================================================
