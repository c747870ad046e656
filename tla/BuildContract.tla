--------------------------- MODULE BuildContract ---------------------------
(***************************************************************************)
(* What `vestra build` and `vestra check` promise of what they leave       *)
(* behind, in terms of the sources alone: no module graph, no order, no    *)
(* units, no stores.  A command accepts the program or refuses it, writes  *)
(* the headers of approved files only, each after those it includes, and   *)
(* leaves a manifest only if it accepts.                                   *)
(***************************************************************************)
EXTENDS Sources

VARIABLES
  stage,     \* "idle" | "running" | "over"
  cmd,       \* the command being run, or the last
  manifest,  \* the manifest file, or None
  wrote,     \* the output paths this command wrote
  exit,      \* its exit code
  past       \* the commands since the last edit, with their exit codes

vars == <<tree, program, disk, stage, cmd, manifest, wrote, exit, past>>

-----------------------------------------------------------------------------
\* What a command makes of the sources

\* The entry can be read, and so can the manifest to enforce.
Starts(c) == Entry \notin tree.unreadable /\ (c.mode = "Enforce" => manifest # None)

\* File f passes the checks, unless they are skipped.
Approved(f) ==
  cmd.checked => Apt(f) /\ (cmd.mode = "Enforce" => Pins(manifest, f))

Accepted == ~Blame(Reach) /\ \A f \in Reach : Approved(f)

\* There is a header of f.
Written(f) == \E p \in wrote : f \in Located(p)

AllWritten == cmd.write => \A f \in Reach : Written(f)

\* The entry's own path, or one that some file imports.
PathIn(p) == p = Stem \/ \E f \in Reach : p \in ToSet(tree.import[f])

\* The bytes of the files the program embeds as e.
Bytes(e) == {disk[<<program.dir[f], e>>] : f \in {g \in Reach : e \in program.embeds[g]}}

\* A manifest of all that was embedded; nothing is if nothing was checked.
Recorded(mf) ==
  /\ mf \in [Embeds -> Contents \cup {None}]
  /\ \A e \in Embeds : IF cmd.checked /\ Bytes(e) # {} THEN mf[e] \in Bytes(e) ELSE mf[e] = None

-----------------------------------------------------------------------------
\* Commands

Init ==
  /\ tree \in Trees /\ program \in Programs[tree] /\ disk \in [Embedded -> Contents]
  /\ stage = "idle" /\ cmd \in Command
  /\ manifest = None /\ wrote = {} /\ exit = 0 /\ past = << >>

Ask(c) ==
  /\ stage = "idle"
  /\ cmd' = c /\ wrote' = {}
  /\ IF Starts(c) THEN stage' = "running" /\ exit' = 0 ELSE stage' = "over" /\ exit' = 1
  /\ UNCHANGED <<tree, program, disk, manifest, past>>

\* A header is written once, for a file that is approved, when those of the
\* files it imports are.
Write(f, p) ==
  /\ stage = "running" /\ cmd.write
  /\ wrote' = wrote \cup {p}
  /\ ~Written(f) /\ f \in Located(p)
  /\ ~Blame(Reach) /\ f \in Reach /\ Approved(f)
  /\ PathIn(p) /\ \A g \in Needs(f) : Written(g)
  /\ UNCHANGED <<tree, program, disk, stage, cmd, manifest, exit, past>>

EndWith(code) ==
  /\ stage = "running" /\ stage' = "over"
  /\ exit' = code
  /\ UNCHANGED <<tree, program, disk, cmd, wrote, past>>

\* The program is accepted: all of it is written, and recorded if asked.
Succeed ==
  /\ EndWith(0)
  /\ Accepted /\ AllWritten
  /\ IF cmd.mode = "Emit" THEN Recorded(manifest') ELSE manifest' = manifest

\* It is refused, whatever was written before.
Refuse ==
  /\ EndWith(1)
  /\ ~Accepted
  /\ manifest' = manifest

\* It is accepted, but the manifest cannot be written.
SaveFails ==
  /\ EndWith(1)
  /\ cmd.mode = "Emit" /\ Accepted /\ AllWritten
  /\ manifest' = manifest

Leave ==
  /\ stage = "over"
  /\ stage' = "idle"
  /\ past' = Append(past, [cmd |-> cmd, exit |-> exit])
  /\ UNCHANGED <<tree, program, disk, cmd, manifest, wrote, exit>>

\* The user changes embedded files between two commands.
Change ==
  /\ stage = "idle"
  /\ disk' \in [Embedded -> Contents \cup {None}]
  /\ past' = << >>
  /\ UNCHANGED <<tree, program, stage, cmd, manifest, wrote, exit>>

Next ==
  \/ \E c \in Command : Ask(c)
  \/ \E f \in Files, p \in Paths : Write(f, p)
  \/ Succeed \/ Refuse \/ SaveFails \/ Leave \/ Change

Spec == Init /\ [][Next]_vars
=============================================================================
