------------------------------ MODULE Drydock ------------------------------
(***************************************************************************)
(* Drydock: Wine and Proton barrels (gest/tui/drydock/cli.py over           *)
(* gest/core/drydock).  A barrel is a config file with programs; a program  *)
(* has a launcher, an icon and a window identity outside the barrel.  A     *)
(* recipe seeds a barrel and compiles to a plan of operations.              *)
(***************************************************************************)
EXTENDS Customs

CONSTANT Recipes      \* [id, flaw, programs, steps]

ASSUME RecipesAssumption ==
    \A r \in Recipes : r.programs \subseteq Programs /\ r.steps \in Seq(STRING)

drydockVars == customsVars

-----------------------------------------------------------------------------
(* Recipes *)

Flaws == {"none", "unreadable", "lint", "invalid"}
\* lint: a missing name, id or exe, an unknown runner or arch ("invalid"), an
\* unknown action; a manual step is only a warning.
LintErrors(r) == r.flaw \in {"lint", "invalid"} \/ "unknown" \in ToSet(r.steps)
IsValid(r) == r.flaw # "invalid"
BarrelFromRecipe(r) == [saved |-> TRUE, programs |-> r.programs, verbs |-> FALSE]
\* Every action has an operation but the ones no one knows.
PlanStep(action) == IF action \in {"manual", "unknown"} THEN "manual" ELSE action
Plan(r) == [i \in 1..Len(r.steps) |-> PlanStep(r.steps[i])]

\* lutris_import: a Lutris installer becomes a recipe.  Directives and tasks
\* without a Drydock action stay as manual steps; a dosexec task is dropped.
ConvertDirective(d) ==
    CASE d = "native" -> <<"auto">> [] d = "dosexec" -> <<>> [] OTHER -> <<"manual">>
Convert(id, ps, script) ==
    [id |-> id, flaw |-> "none", programs |-> ps,
     steps |-> FlattenSeq([i \in 1..Len(script) |-> ConvertDirective(script[i])])]

\* ExecReport.ok
ReportOk(out) == \A i \in 1..Len(out) : out[i] \notin {"failed", "skipped"}
Skipped(n) == [i \in 1..n |-> "skipped"]

-----------------------------------------------------------------------------
(* The commands *)

Wire(b, p) == LET id == DrydockId(b, p)
              IN  <<Step("icon", id, p), Step("load_identity", id, p), Step("register", id, p)>>
\* Mutant: wired, but not written.
Launcher_wireOnly(b, p) == Wire(b, p)
Launcher(b, p) == <<Step("write_entry", DrydockId(b, p), p)>> \o Wire(b, p)
Unwire(b, p) == LET id == DrydockId(b, p)
                IN  <<Step("remove_entry", id, p), Step("load_identity", id, p),
                      Step("unregister", id, p), Step("remove_icon", id, p)>>
Save(cfg) == <<[do |-> "save", id |-> Nothing, key |-> Nothing, cfg |-> cfg]>>
Only(do) == <<Step(do, Nothing, Nothing)>>
ForEach(Steps(_, _), b, ps) ==
    LET order == SetToSeq(ps) IN FlattenSeq([i \in 1..Len(order) |-> Steps(b, order[i])])
\* Mutant: a batch of launchers needs no refresh.
RefreshIf_never(ps) == <<>>
RefreshIf(ps) == IF ps = {} THEN <<>> ELSE Only("refresh")
Upsert(cfg, ps) == [cfg EXCEPT !.programs = @ \cup ps]

\* Nothing asks whether the barrel exists.
Create(s, b) == Start(s, "create", b, Save([NoBarrel EXCEPT !.saved = TRUE]), 0)

\* Mutant: the launcher first.
Register_launcherFirst(s, b, p) ==
    IF store[b].saved
      THEN Start(s, "register", b, Launcher(b, p) \o Save(Upsert(store[b], {p})) \o Only("refresh"), 0)
      ELSE Start(s, "register", b, <<>>, 1)
Register(s, b, p) ==
    IF store[b].saved
      THEN Start(s, "register", b, Save(Upsert(store[b], {p})) \o Launcher(b, p) \o Only("refresh"), 0)
      ELSE Start(s, "register", b, <<>>, 1)

Scan(s, b, ps) ==
    IF store[b].saved
      THEN Start(s, "scan", b, ForEach(Launcher, b, ps) \o Save(Upsert(store[b], ps))
                                 \o RefreshIf(ps), 0)
      ELSE Start(s, "scan", b, <<>>, 1)

RemoveBarrel(s, b) ==
    LET ps == store[b].programs
    IN  IF b \in dirs \/ store[b].saved
          THEN Start(s, "rm", b, ForEach(Unwire, b, ps) \o RefreshIf(ps)
                                   \o Only("delete"), 0)
          ELSE Start(s, "rm", b, <<>>, 1)

Winetricks(s, b) ==
    IF store[b].saved
      THEN Start(s, "winetricks", b, Only("spawn")
                   \o Save([store[b] EXCEPT !.verbs = TRUE]), 0)
      ELSE Start(s, "winetricks", b, <<>>, 1)

\* Commands that look at a barrel, and may start a process that leaves these
\* files alone.
Missing(b) == IF store[b].saved THEN 0 ELSE 1
Show(s, b) == Start(s, "look", b, <<>>, Missing(b))
Maintain(s, b) == Start(s, "look", b, <<>>, Missing(b))
ExportRecipe(s, b) == Start(s, "look", b, <<>>, Missing(b))
Run(s, b, p) == Start(s, "look", b, <<>>, IF p \in store[b].programs THEN 0 ELSE 1)
Open(s) ==
    LET ids == {b \in Barrels : store[b].saved}
    IN  IF Cardinality(ids) = 1
          THEN \E b \in ids : Start(s, "look", b, <<>>, 0)
          ELSE Start(s, "look", Nothing, <<>>, 2)

\* materialize and install-recipe refuse what the linter or is_valid rejects,
\* and a barrel that exists, unless told otherwise.
Refusal(r, noLint, force) ==
    CASE r.flaw = "unreadable" -> 1
      [] ~noLint /\ LintErrors(r) -> 1
      [] ~IsValid(r) -> 2
      [] store[r.id].saved /\ ~force -> 1
      [] OTHER -> 0
Materialized(r) ==
    Save(BarrelFromRecipe(r)) \o ForEach(Launcher, r.id, r.programs) \o RefreshIf(r.programs)
Materialize(s, r, noLint, force) ==
    LET rc == Refusal(r, noLint, force)
    IN  Start(s, "materialize", r.id, IF rc = 0 THEN Materialized(r) ELSE <<>>, rc)
Ops(plan) == [i \in 1..Len(plan) |-> Step("op", Nothing, plan[i])]
\* A dry run (no --run) reports the plan and performs none of it.
InstallRecipe(s, r, noLint, force, dry) ==
    LET rc == Refusal(r, noLint, force)
        plan == IF dry THEN <<>> ELSE Plan(r)
    IN  StartPlan(s, "install-recipe", r.id,
                  IF rc = 0 THEN Materialized(r) \o Ops(plan) ELSE <<>>, rc, plan)
\* install runs the plan alone, in the prefix of the app's own id.
Install(s, r, noLint, dry) ==
    LET refused == r.flaw = "unreadable" \/ (~noLint /\ LintErrors(r))
        plan == IF dry THEN <<>> ELSE Plan(r)
    IN  StartPlan(s, "install", r.id, IF refused THEN <<>> ELSE Ops(plan),
                  IF refused THEN 1 ELSE 0, plan)

\* lint and plan only report.
LintRecipe(s, r) ==
    Start(s, "look", r.id, <<>>, IF r.flaw = "unreadable" \/ LintErrors(r) THEN 1 ELSE 0)
ShowPlan(s, r) == Start(s, "look", r.id, <<>>, IF r.flaw = "unreadable" THEN 1 ELSE 0)

-----------------------------------------------------------------------------
(* Their steps *)

IdsOf(b, ps) == {DrydockId(b, p) : p \in ps}
Overwrites(s) == shells[s].cmd \in {"create", "materialize", "install-recipe"}
\* Mutant: no mkdir before the write.
SaveBarrel_noDir(s) ==
    /\ At(s, "save") /\ store' = [store EXCEPT ![shells[s].on] = Head(shells[s].todo).cfg]
    /\ shells' = Goes(s)
    /\ UNCHANGED <<launchers, icons, identity, database, dirs, profiles, commands, dryFaults, excused>>
\* What is written is the copy read at the start, with the command's change.
SaveBarrel(s) ==
    LET b == shells[s].on
        cfg == Head(shells[s].todo).cfg
        lost == IdsOf(b, store[b].programs \ cfg.programs)
    IN  /\ At(s, "save")
        /\ store' = [store EXCEPT ![b] = cfg]
        /\ dirs' = dirs \cup {b}
        /\ shells' = Goes(s)
        /\ excused' = (excused \ IdsOf(b, cfg.programs))
                          \cup IF Overwrites(s) \/ shells[s].raced THEN lost ELSE {}
        /\ UNCHANGED <<launchers, icons, identity, database, profiles, commands, dryFaults>>
DeleteBarrel(s) ==
    LET b == shells[s].on
    IN  /\ At(s, "delete")
        /\ store' = [store EXCEPT ![b] = NoBarrel]
        /\ dirs' = dirs \ {b}
        /\ shells' = Goes(s)
        /\ excused' = excused \cup IF shells[s].raced THEN IdsOf(b, Programs) ELSE {}
        /\ UNCHANGED <<launchers, icons, identity, database, profiles, commands, dryFaults>>
Spawn(s) ==
    /\ At(s, "spawn")
    /\ \/ shells' = Goes(s) /\ UNCHANGED dryFaults
       \/ Fault /\ shells' = [shells EXCEPT ![s].todo = <<>>, ![s].rc = 1]
    /\ UNCHANGED <<launchers, icons, identity, database, store, dirs, profiles, commands, excused>>

\* executor.execute: one operation.  A manual step and a failure halt the run,
\* what is left is skipped, and the exit code is the report's.
\* Mutant: the run goes on.
Halts_never(status) == FALSE
Halts(status) == status \in {"manual", "failed"}
ExecuteOp(s, status) ==
    LET me == shells[s]
        rest == IF Halts(status) THEN <<>> ELSE Tail(me.todo)
        skipped == IF Halts(status) THEN Len(me.todo) - 1 ELSE 0
        out == Append(me.out, status) \o Skipped(skipped)
    IN  /\ At(s, "op")
        /\ status = "manual" <=> Key(s) = "manual"
        /\ IF status = "failed" THEN Fault ELSE UNCHANGED dryFaults
        /\ dirs' = IF status = "ok" THEN dirs \cup {me.on} ELSE dirs
        /\ shells' = [shells EXCEPT ![s] =
              [me EXCEPT !.todo = rest, !.out = out,
                         !.did = IF status = "ok" THEN Append(@, Len(me.out) + 1) ELSE @,
                         !.rc = IF rest = <<>> /\ ~ReportOk(out) THEN 1 ELSE @]]
        /\ UNCHANGED <<launchers, icons, identity, database, store, profiles, commands, excused>>

DrydockNext ==
    \E s \in Shells :
        \/ \E b \in Barrels :
              \/ Create(s, b) \/ RemoveBarrel(s, b) \/ Winetricks(s, b)
              \/ Show(s, b) \/ Maintain(s, b) \/ ExportRecipe(s, b)
              \/ \E p \in Programs : Register(s, b, p) \/ Run(s, b, p)
              \/ \E ps \in SUBSET Programs : Scan(s, b, ps)
        \/ Open(s)
        \/ \E r \in Recipes : LintRecipe(s, r) \/ ShowPlan(s, r)
        \/ \E r \in Recipes, noLint, force \in BOOLEAN :
              \/ Materialize(s, r, noLint, force)
              \/ \E dry \in BOOLEAN :
                    InstallRecipe(s, r, noLint, force, dry) \/ Install(s, r, noLint, dry)
        \/ SaveBarrel(s) \/ DeleteBarrel(s) \/ Spawn(s)
        \/ \E status \in {"ok", "failed", "manual"} : ExecuteOp(s, status)
        \/ CustomsSteps(s)
-----------------------------------------------------------------------------
(* Properties *)

Quiescent == \A s \in Shells : shells[s].todo = <<>>
Stored == UNION {IdsOf(b, store[b].programs) : b \in Barrels}
Twins == {d \in Dids :
             Cardinality({x \in Barrels \X Programs : DrydockId(x[1], x[2]) = d}) > 1}

DryTypeOK ==
    /\ \A s \in Shells : shells[s].rc \in {0, 1, 2, 130}
    /\ launchers \cup icons \cup database \cup excused \subseteq Dids
    /\ identity \in [Keys -> Dids \cup {Nothing}]
    /\ \A b \in Barrels : store[b].saved => b \in dirs
    /\ profiles \subseteq Profiles

\* A launcher starts `drydock-run <barrel> <program>`: at every moment, a kill
\* between any two steps of a command included, each launcher, icon and window
\* identity belongs to a program some config.json names.  Save comes first in
\* register and delete last in rm, so that an interrupted command can be run
\* again.  Excused: what an overwritten barrel leaves, a scan not yet saved,
\* and commands that overlap on one barrel or on identity.json.
NothingDangles ==
    (launchers \cup icons \cup {identity[k] : k \in Keys})
        \cap {DrydockId(b, p) : b \in Barrels, p \in Programs}
    \subseteq Stored \cup excused

\* With every command ended and no fault, each program of a barrel has its
\* launcher, unless another program has the same desktop id or commands raced.
ProgramsReachable ==
    Quiescent /\ dryFaults = 0 /\ excused = {} => Stored \subseteq launchers \cup Twins

\* With every command ended and no fault, the desktop database lists exactly
\* the launchers on disk that handle MIME types, however commands interleaved.
DatabaseFresh == Quiescent /\ dryFaults = 0 => database = Handles(launchers)

\* Exit status 0 of an install means that every operation of its plan was
\* performed, in the plan's order and none after a halt, but for a last one
\* that is the user's: the report counts what failed and what was skipped, and
\* a manual step that nothing follows is neither (ExecReport.ok).
ExitZeroComplete ==
    \A s \in Shells :
        LET did == shells[s].did
            plan == shells[s].plan
            n == Len(plan)
        IN  /\ \A i \in 1..Len(did) : \A j \in 1..did[i] - 1 :
                  plan[j] # "manual" /\ \E k \in 1..i - 1 : did[k] = j
            /\ shells[s].todo = <<>> /\ shells[s].rc = 0 =>
                  \/ ToSet(did) = 1..n
                  \/ n > 0 /\ plan[n] = "manual" /\ ToSet(did) = 1..n - 1

\* Exit status 0 leaves nothing to do: "a manual halt or a failure both make
\* the run incomplete" (ExecReport.ok's text, of which the code keeps a part).
NothingLeft ==
    \A s \in Shells : shells[s].todo = <<>> /\ shells[s].rc = 0 =>
        ToSet(shells[s].did) = 1..Len(shells[s].plan)
=============================================================================
