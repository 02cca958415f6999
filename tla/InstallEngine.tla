---------------------------- MODULE InstallEngine ----------------------------
(***************************************************************************)
(* The installer's run loop: run_install (gest/core/install/engine.py), the *)
(* two-phase StateStore (gest/core/install/context.py), the pseudo-         *)
(* filesystem teardown (gest/core/chroot/prepare.py) and the screen that    *)
(* drives them (gest/tui/screens/installer.py).                             *)
(*                                                                         *)
(* The ordered list of steps is the CONSTANT Steps; InstallRegistry gives   *)
(* it the value build_registry returns.  A step is a record                 *)
(*   key     the StateStore key (the class's `key`, else its label)         *)
(*   gate    "off": is_satisfied is TRUE whatever the state (not requested) *)
(*           "never": is_satisfied is the base class's FALSE                *)
(*           "probe": satisfied iff marks, facts and mnts all hold          *)
(*   marks   the StateStore keys the probe asks for                         *)
(*   facts   the facts of the target tree the probe reads                   *)
(*   mnts    the mount points the probe reads (os.path.ismount)             *)
(*   chroot  the commands run inside the target                             *)
(*   opens   opens_chroot                                                   *)
(*   saves   run itself marks the step at its end, before the engine does   *)
(*   ops     the effects of run, in the order the code performs them        *)
(* and an effect is a record [kind, obj, needs]: see Perform.               *)
(*                                                                         *)
(* The target root is a directory of the live system until a disk is        *)
(* mounted over it, so a write made "under the root" lands on the volume    *)
(* Where, and is invisible once another volume is mounted there.            *)
(***************************************************************************)
EXTENDS Integers, Sequences, FiniteSets

CONSTANTS
    Steps,       \* the ordered install steps (build_registry's result)
    Disks,       \* the disks a plan may select
    Live,        \* the live medium's own tree under the target root
    Fallible,    \* keys of the steps whose commands may fail or be killed;
                 \* "teardown" when the teardown itself may be killed
    Skippable,   \* keys of the steps the user is willing to skip
    MaxFaults,   \* bound on failing commands and failing state saves
    MaxKills,    \* bound on kills of the installer process
    MaxReboots,  \* bound on reboots of the live medium
    MaxUnmounts, \* bound on the user's unmounting of the target by hand
    MaxTroubles, \* bound on the four of them together
    Admin        \* what lets an administrator in: account, group and rule

Keys == {Steps[i].key : i \in DOMAIN Steps}
Kinds == {"zap", "blk", "root", "mount", "write", "create", "noop"}
\* The pseudo-filesystems prepare_chroot mounts, in Handbook order.
Pseudo == {"proc", "sys", "dev", "run"}
\* teardown_chroot's order: the exact reverse.
TeardownOrder == <<"run", "dev", "sys", "proc">>

OpRecord == [kind : Kinds, obj : STRING, needs : SUBSET STRING]
StepRecord == [key : STRING, gate : {"off", "never", "probe"},
               marks : SUBSET STRING, facts : SUBSET STRING,
               mnts : SUBSET STRING, chroot : BOOLEAN, opens : BOOLEAN,
               saves : BOOLEAN, ops : Seq(OpRecord)]

ASSUME DisksAssumption == Live \notin Disks /\ Disks # {}
ASSUME BoundsAssumption ==
    /\ MaxFaults \in Nat /\ MaxKills \in Nat
    /\ MaxReboots \in Nat /\ MaxTroubles \in Nat /\ MaxUnmounts \in Nat
ASSUME StepsAssumption == Steps \in Seq(StepRecord)
\* Only a step whose is_satisfied is its completion marker wipes a disk
\* (Partition.is_satisfied).
ASSUME ZapAssumption ==
    \A i \in DOMAIN Steps :
        (\E j \in DOMAIN Steps[i].ops : Steps[i].ops[j].kind = "zap")
            => Steps[i].gate = "probe" /\ Steps[i].facts = {} /\ Steps[i].mnts = {}

\* The effects of a step.
OpsOf(s) == {s.ops[j] : j \in DOMAIN s.ops}

\* Step z wipes the disk and step r mounts its root: nothing else touches the
\* disk itself or the mount of the root, nothing is written under the target
\* root before it is mounted, and each is passed over only when its mark, or
\* the mount, is there (Partition, MountTarget).
DiskFirst(z, r) ==
    /\ z < r
    /\ \A i \in DOMAIN Steps : \A o \in OpsOf(Steps[i]) :
        /\ o.kind = "zap" => i = z
        /\ o.kind = "blk" => i = z /\ o.obj # "etc"
        /\ o.kind = "root" => i = r /\ o.obj = "root"
        /\ o.kind = "mount" => o.obj # "root"
        /\ o.kind \in {"write", "create"} => i > r
    /\ Len(Steps[z].ops) > 0 /\ Steps[z].ops[1].kind = "zap"
    /\ Steps[z].gate = "probe" /\ Steps[z].marks = {Steps[z].key} /\ ~Steps[z].saves
    /\ \A i \in DOMAIN Steps : Steps[i].key = Steps[z].key => i = z
    /\ \E o \in OpsOf(Steps[r]) : o.kind = "root"
    /\ Steps[r].gate = "probe" /\ Steps[r].mnts = {"root"}

ASSUME OrderAssumption == \E z, r \in DOMAIN Steps : DiskFirst(z, r)

\* Step f creates <root>/etc before the file it is passed over by, and step c,
\* behind it, mounts the four pseudo-filesystems first thing, none of which
\* can be refused; it is passed over when "proc" is mounted.  Nothing else
\* mounts them, and what runs in the target comes later (WriteFstab,
\* PrepareChroot).
ChrootReady(f, c) ==
    /\ f < c
    /\ Steps[f].gate = "probe" /\ "fstab" \in Steps[f].facts
    /\ Len(Steps[f].ops) > 0
    /\ Steps[f].ops[1].kind = "write" /\ Steps[f].ops[1].obj = "etc"
    /\ Steps[c].gate = "probe" /\ "proc" \in Steps[c].mnts
    /\ Steps[c].opens /\ ~Steps[c].saves
    /\ Len(Steps[c].ops) >= 4
    /\ {Steps[c].ops[k].obj : k \in 1..4} = Pseudo
    /\ \A k \in DOMAIN Steps[c].ops :
         IF k <= 4 THEN Steps[c].ops[k].kind = "mount" /\ Steps[c].ops[k].needs = {}
         ELSE Steps[c].ops[k].kind = "write" /\ Steps[c].ops[k].needs \subseteq {"etc"}
    /\ \A i \in DOMAIN Steps :
         /\ Steps[i].chroot => i > c
         /\ \A o \in OpsOf(Steps[i]) :
              /\ o.obj = "fstab" => i = f
              /\ o.kind = "mount" /\ o.obj \in Pseudo => i = c

ASSUME ChrootAssumption == \E f, c \in DOMAIN Steps : ChrootReady(f, c)

\* The object is produced by the k-th effect of step i and by nothing else.
OnlyBy(x, i, k) ==
    \A j \in DOMAIN Steps : \A m \in DOMAIN Steps[j].ops :
        Steps[j].ops[m].obj = x => j = i /\ m = k

\* A step that is passed over by its own mark.
ByOwnMark(i) ==
    /\ Steps[i].gate = "probe" /\ Steps[i].key \in Steps[i].marks
    /\ \A j \in DOMAIN Steps : Steps[j].key = Steps[i].key => j = i
    /\ \A o \in OpsOf(Steps[i]) : o.kind \notin {"root", "mount"}

\* A step that is passed over by a file x which is written, by whichever step,
\* only behind all the files of this one.
ByLastFile(i, x) ==
    /\ Steps[i].gate = "probe" /\ x \in Steps[i].facts
    /\ \A o \in OpsOf(Steps[i]) : o.kind = "write"
    /\ \A j \in DOMAIN Steps : \A k \in DOMAIN Steps[j].ops :
         Steps[j].ops[k].obj = x =>
             \A o \in OpsOf(Steps[i]) : \E m \in 1..k :
                 Steps[j].ops[m].obj = o.obj /\ Steps[j].ops[m].kind = "write"

\* A step that is passed over by files of which none is its last effect: what
\* it leaves behind when it is interrupted passes for all of it, or is refused
\* when it is made again (SetTimezoneLocale, CreateUser).
AllAtOnce(i) ==
    /\ Steps[i].gate = "probe" /\ Steps[i].marks = {} /\ Steps[i].mnts = {}
    /\ Len(Steps[i].ops) > 0 /\ Steps[i].ops[1].obj \in Steps[i].facts
    /\ OnlyBy(Steps[i].ops[1].obj, i, 1)
    /\ \A x \in Steps[i].facts : ~ByLastFile(i, x) /\ \E o \in OpsOf(Steps[i]) : o.obj = x
    /\ \A k \in DOMAIN Steps[i].ops :
         /\ Steps[i].ops[k].kind \in {"write", "create"}
         /\ Steps[i].ops[k].kind = "create" => OnlyBy(Steps[i].ops[k].obj, i, k)

\* Step z is the first and wipes before anything else, step r mounts the root
\* before anything else and only mounts, and every step is passed over by its
\* own mark, by what it does last, or by what it does all at once.
GatesSound(z, r, c) ==
    /\ z = 1
    /\ \A k \in DOMAIN Steps[z].ops : Steps[z].ops[k].kind = "zap" => k = 1
    /\ \E o \in OpsOf(Steps[z]) : o.kind = "blk" /\ o.obj = "filesystems"
    /\ Steps[r].marks = {} /\ Steps[r].facts = {}
    /\ \A k \in DOMAIN Steps[r].ops : Steps[r].ops[k].kind = IF k = 1 THEN "root" ELSE "mount"
    /\ \A i \in 1..r : \A k \in DOMAIN Steps[i].ops :
         i < r \/ k = 1 => Steps[i].ops[k].needs = {}
    /\ \A i \in DOMAIN Steps :
         /\ \A o \in OpsOf(Steps[i]) :
              /\ o.kind = "mount" => i \in {r, c}
              /\ o.kind = "create" => AllAtOnce(i)
         /\ \/ Steps[i].gate \in {"off", "never"} \/ OpsOf(Steps[i]) = {} \/ i \in {r, c}
            \/ ByOwnMark(i) \/ AllAtOnce(i)
            \/ \E x \in Steps[i].facts : ByLastFile(i, x)

\* Step u creates <root>/etc on the disk between the mount and step f, and is
\* passed over by its own mark, which is the first that the target's own state
\* file records (UnpackStage3).
Unpacks(r, u, f) ==
    /\ r < u /\ u < f /\ ByOwnMark(u) /\ ~Steps[u].saves
    /\ \E o \in OpsOf(Steps[u]) : o.kind = "write" /\ o.obj = "etc"

ASSUME GatesAssumption ==
    \E z, r \in DOMAIN Steps :
        /\ DiskFirst(z, r)
        /\ \E f, c \in DOMAIN Steps :
            /\ ChrootReady(f, c) /\ GatesSound(z, r, c)
            /\ \E u \in DOMAIN Steps : Unpacks(r, u, f)

VARIABLES
    pc,         \* "idle" | "loop" | "run" | "ask" | "teardown"
    result,     \* what the last run reported: "none" | "ok" | "failed"
    disk,       \* the disk of the reviewed plan
    idx,        \* run_install's index
    op,         \* next effect of the step that is running
    tear,       \* next unmount of the teardown
    opened,     \* run_install's opened_chroot
    done,       \* StateStore._done
    runFile,    \* /run/gest/install-state.json
    stateFile,  \* <volume>/etc/portage/gest/install-state.json, per volume
    fs,         \* the facts that hold on each volume
    mounted,    \* the mount points under the target root that are mounted
    rootdev,    \* the disk mounted at the target root, when "root" is mounted
    snap,       \* ctx.mounts: the plan's disk was mounted when the run began
    skipped,    \* history: the keys the user skipped
    faults, kills, reboots, unmounts   \* what has been used of each bound

vars == <<pc, result, disk, idx, op, tear, opened, done, runFile, stateFile,
          fs, mounted, rootdev, snap, skipped, faults, kills, reboots,
          unmounts>>
world == <<fs, stateFile, mounted, rootdev>>   \* what outlives the process
budget == <<faults, kills, reboots, unmounts>>

\* The mount points of the steps, and those of the target's filesystems.
MountPoints ==
    UNION {{o.obj : o \in {e \in OpsOf(Steps[i]) : e.kind \in {"root", "mount"}}}
           : i \in DOMAIN Steps}
TargetMounts == MountPoints \ Pseudo

Volumes == Disks \cup {Live}
Step == Steps[idx]

\* The volume a path under the target root resolves to.
Where == IF "root" \in mounted THEN rootdev ELSE Live

\* One more of them may happen.
MoreTrouble == faults + kills + reboots + unmounts < MaxTroubles

-----------------------------------------------------------------------------
(* StateStore *)

\* _target_available: <root>/etc is a directory.
TargetAvailable == "etc" \in fs[Where]

\* Mutant: only the active phase's file is read.
Load_oneFile == IF TargetAvailable THEN stateFile[Where] ELSE runFile

\* Mutant: the live session's file is not read.
Load_targetOnly == IF TargetAvailable THEN stateFile[Where] ELSE {}

\* Mutant: a store built after stage3 reads the run file only.
Load_runFileOnly == runFile

\* _load: the union of the run file and, once available, the target's file.
Load == runFile \cup IF TargetAvailable THEN stateFile[Where] ELSE {}

\* Mutant: the location is fixed when the store is built, before stage3.
Mark_runFileOnly(k) ==
    /\ done' = done \cup {k}
    /\ runFile' = done \cup {k}
    /\ UNCHANGED stateFile

\* What mark and _save make of _done in memory: the key joins it, and the run
\* file's marks do once the target exists.
Marked(k) == done \cup {k} \cup IF TargetAvailable THEN runFile ELSE {}

\* mark and _save: the whole set replaces the active file.
Mark(k) ==
    /\ done' = Marked(k)
    /\ IF TargetAvailable
       THEN /\ stateFile' = [stateFile EXCEPT ![Where] = Marked(k)]
            /\ UNCHANGED runFile
       ELSE /\ runFile' = Marked(k)
            /\ UNCHANGED stateFile

-----------------------------------------------------------------------------
(* Steps and their effects *)

IsSatisfied(s) ==
    \/ s.gate = "off"
    \/ /\ s.gate = "probe"
       /\ s.marks \subseteq done
       /\ s.facts \subseteq fs[Where]
       /\ s.mnts \subseteq mounted

\* What the command demands of the state; a command whose demand is not met
\* exits non-zero.  validate_plan reads the mounts as they were when the run
\* began; useradd refuses an existing account; mount needs a filesystem; a
\* command in the target needs the unpacked stage3.
CanPerform(o) ==
    /\ o.needs \subseteq fs[Where] \cup mounted
    /\ o.kind = "zap" => ~snap
    /\ o.kind = "root" => "filesystems" \in fs[disk]
    /\ o.kind = "create" => o.obj \notin fs[Where]

\* "zap" destroys the disk; "blk" acts on the disk itself; "root" mounts its
\* root filesystem at the target root and "mount" any other mount point;
\* "write" and "create" change the tree under the target root.
Perform(o) ==
    /\ fs' = CASE o.kind = "zap" -> [fs EXCEPT ![disk] = {}]
               [] o.kind = "blk" -> [fs EXCEPT ![disk] = @ \cup {o.obj}]
               [] o.kind \in {"write", "create"} ->
                    [fs EXCEPT ![Where] = @ \cup {o.obj}]
               [] OTHER -> fs
    /\ stateFile' = IF o.kind = "zap" THEN [stateFile EXCEPT ![disk] = {}]
                                      ELSE stateFile
    /\ mounted' = IF o.kind \in {"root", "mount"} THEN mounted \cup {o.obj}
                                                  ELSE mounted
    /\ rootdev' = IF o.kind = "root" THEN disk ELSE rootdev

-----------------------------------------------------------------------------
Init ==
    /\ pc = "idle" /\ result = "none"
    /\ disk \in Disks
    /\ idx = 1 /\ op = 1 /\ tear = 1 /\ opened = FALSE
    /\ done = {} /\ runFile = {}
    /\ stateFile = [v \in Volumes |-> {}]
    /\ fs = [v \in Volumes |-> {}]
    /\ mounted = {} /\ rootdev \in Disks /\ snap = FALSE
    /\ skipped = {} /\ faults = 0 /\ kills = 0 /\ reboots = 0 /\ unmounts = 0

\* InstallerRun._run: a fresh StateStore and a fresh context for the plan.
StartRun(d) ==
    /\ pc = "idle"
    /\ pc' = "loop" /\ result' = "none"
    /\ disk' = d
    /\ idx' = 1 /\ op' = 1 /\ tear' = 1 /\ opened' = FALSE
    /\ done' = Load
    /\ snap' = ("root" \in mounted /\ rootdev = d)
    /\ UNCHANGED <<runFile, world, skipped, budget>>

\* An already satisfied step is passed over: neither run nor marked.
PassOver ==
    /\ pc = "loop" /\ idx <= Len(Steps)
    /\ IsSatisfied(Step)
    /\ idx' = idx + 1
    /\ UNCHANGED <<pc, result, disk, op, tear, opened, done, runFile, world,
                   snap, skipped, budget>>

BeginStep ==
    /\ pc = "loop" /\ idx <= Len(Steps)
    /\ ~IsSatisfied(Step)
    /\ pc' = "run" /\ op' = 1
    /\ UNCHANGED <<result, disk, idx, tear, opened, done, runFile, world,
                   snap, skipped, budget>>

RunOp ==
    /\ pc = "run" /\ op <= Len(Step.ops)
    /\ CanPerform(Step.ops[op])
    /\ Perform(Step.ops[op])
    /\ op' = op + 1
    /\ UNCHANGED <<pc, result, disk, idx, tear, opened, done, runFile, snap,
                   skipped, budget>>

\* A command exits non-zero: because it must, or by a fault.  Nothing of the
\* step is undone, and on_failure asks the user.
FailOp ==
    /\ pc = "run" /\ op <= Len(Step.ops)
    /\ \/ ~CanPerform(Step.ops[op]) /\ UNCHANGED faults
       \/ /\ Step.key \in Fallible /\ faults < MaxFaults /\ MoreTrouble
          /\ faults' = faults + 1
    /\ pc' = "ask"
    /\ UNCHANGED <<result, disk, idx, op, tear, opened, done, runFile, world,
                   snap, skipped, kills, reboots, unmounts>>

\* Mutant: the step returned, and the open chroot is not noted.
FinishStep_unnoted ==
    /\ pc = "run" /\ op > Len(Step.ops)
    /\ Mark(Step.key)
    /\ pc' = "loop" /\ idx' = idx + 1
    /\ UNCHANGED <<result, disk, op, tear, opened, fs, mounted, rootdev, snap,
                   skipped, budget>>

\* The step returned: note the open chroot, mark, advance.
FinishStep ==
    /\ pc = "run" /\ op > Len(Step.ops)
    /\ opened' = (opened \/ Step.opens)
    /\ Mark(Step.key)
    /\ pc' = "loop" /\ idx' = idx + 1
    /\ UNCHANGED <<result, disk, op, tear, fs, mounted, rootdev, snap,
                   skipped, budget>>

\* The engine's own save raises (after a step, or after the user chose skip):
\* not a step failure, it leaves the loop.  The key is in memory only, unless
\* the step's run had already saved it.
SaveFails ==
    /\ \/ /\ pc = "run" /\ op > Len(Step.ops)
          /\ opened' = (opened \/ Step.opens)
          /\ IF Step.saves THEN Mark(Step.key)
             ELSE done' = Marked(Step.key) /\ UNCHANGED <<runFile, stateFile>>
       \/ /\ pc = "ask" /\ Step.key \in Skippable
          /\ done' = Marked(Step.key)
          /\ UNCHANGED <<opened, runFile, stateFile>>
    /\ faults < MaxFaults /\ MoreTrouble /\ faults' = faults + 1
    /\ pc' = "teardown" /\ result' = "failed"
    /\ UNCHANGED <<disk, idx, op, tear, fs, mounted, rootdev, snap, skipped,
                   kills, reboots, unmounts>>

\* The save at the end of a run that marks itself raises: a failure of the
\* step, on which the user is asked, with the key in memory already.
OwnSaveFails ==
    /\ pc = "run" /\ op > Len(Step.ops) /\ Step.saves
    /\ faults < MaxFaults /\ MoreTrouble /\ faults' = faults + 1
    /\ pc' = "ask"
    /\ done' = Marked(Step.key)
    /\ UNCHANGED <<result, disk, idx, op, tear, opened, runFile, world, snap,
                   skipped, kills, reboots, unmounts>>

Retry ==
    /\ pc = "ask"
    /\ pc' = "loop"
    /\ UNCHANGED <<result, disk, idx, op, tear, opened, done, runFile, world,
                   snap, skipped, budget>>

Skip ==
    /\ pc = "ask" /\ Step.key \in Skippable
    /\ Mark(Step.key)
    /\ skipped' = skipped \cup {Step.key}
    /\ pc' = "loop" /\ idx' = idx + 1
    /\ UNCHANGED <<result, disk, op, tear, opened, fs, mounted, rootdev, snap,
                   budget>>

Abort ==
    /\ pc = "ask"
    /\ pc' = "teardown" /\ result' = "failed"
    /\ UNCHANGED <<disk, idx, op, tear, opened, done, runFile, world, snap,
                   skipped, budget>>

Complete ==
    /\ pc = "loop" /\ idx > Len(Steps)
    /\ pc' = "teardown" /\ result' = "ok"
    /\ UNCHANGED <<disk, idx, op, tear, opened, done, runFile, world, snap,
                   skipped, budget>>

\* The finally clause: one lazy unmount at a time when the chroot was opened
\* by this run, nothing otherwise; then the screen reports the outcome.
Teardown ==
    /\ pc = "teardown"
    /\ IF opened /\ tear <= Len(TeardownOrder)
       THEN /\ mounted' = mounted \ {TeardownOrder[tear]}
            /\ tear' = tear + 1
            /\ UNCHANGED pc
       ELSE /\ pc' = "idle"
            /\ UNCHANGED <<mounted, tear>>
    /\ UNCHANGED <<result, disk, idx, op, opened, done, runFile, stateFile,
                   fs, rootdev, snap, skipped, budget>>

-----------------------------------------------------------------------------
(* The environment *)

\* The process dies: memory is lost, mounts and files stay.
Kill ==
    /\ pc # "idle"
    /\ pc = "run" => Step.key \in Fallible
    /\ pc = "teardown" => "teardown" \in Fallible
    /\ kills < MaxKills /\ MoreTrouble /\ kills' = kills + 1
    /\ pc' = "idle" /\ result' = "none" /\ done' = {}
    /\ UNCHANGED <<disk, idx, op, tear, opened, runFile, world, snap, skipped,
                   faults, reboots, unmounts>>

\* The live medium restarts: its own tree, /run and every mount are lost.
Reboot ==
    /\ pc = "run" => Step.key \in Fallible
    /\ reboots < MaxReboots /\ MoreTrouble /\ reboots' = reboots + 1
    /\ pc' = "idle" /\ result' = "none" /\ done' = {} /\ runFile' = {}
    /\ fs' = [fs EXCEPT ![Live] = {}]
    /\ stateFile' = [stateFile EXCEPT ![Live] = {}]
    /\ mounted' = {}
    /\ UNCHANGED <<disk, idx, op, tear, opened, rootdev, snap, skipped,
                   faults, kills, unmounts>>

\* The user mounts the target again by hand before starting a new run.
Remount(d) ==
    /\ pc = "idle" /\ "root" \notin mounted /\ "filesystems" \in fs[d]
    /\ mounted' = mounted \cup TargetMounts
    /\ rootdev' = d
    /\ UNCHANGED <<pc, result, disk, idx, op, tear, opened, done, runFile,
                   stateFile, fs, snap, skipped, budget>>

\* The user unmounts the target by hand after a run.
Unmount ==
    /\ pc = "idle" /\ "root" \in mounted
    /\ unmounts < MaxUnmounts /\ MoreTrouble /\ unmounts' = unmounts + 1
    /\ mounted' = {}
    /\ UNCHANGED <<pc, result, disk, idx, op, tear, opened, done, runFile,
                   stateFile, fs, rootdev, snap, skipped, faults, kills,
                   reboots>>

Next ==
    \/ \E d \in Disks : StartRun(d) \/ Remount(d)
    \/ PassOver \/ BeginStep \/ RunOp \/ FailOp \/ FinishStep \/ SaveFails
    \/ OwnSaveFails
    \/ Retry \/ Skip \/ Abort \/ Complete \/ Teardown
    \/ Kill \/ Reboot \/ Unmount

Spec == Init /\ [][Next]_vars

-----------------------------------------------------------------------------
(* Properties *)

\* Every variable keeps its type: the index never leaves the step list, the
\* facts and the marks stay attached to known volumes.
TypeOK ==
    /\ pc \in {"idle", "loop", "run", "ask", "teardown"}
    /\ result \in {"none", "ok", "failed"}
    /\ disk \in Disks /\ rootdev \in Disks
    /\ idx \in 1..(Len(Steps) + 1)
    /\ pc \in {"run", "ask"} => idx \in 1..Len(Steps)
    /\ op \in Nat \ {0} /\ tear \in 1..(Len(TeardownOrder) + 1)
    /\ opened \in BOOLEAN /\ snap \in BOOLEAN
    /\ done \subseteq STRING /\ runFile \subseteq STRING
    /\ stateFile \in [Volumes -> SUBSET STRING]
    /\ fs \in [Volumes -> SUBSET STRING]
    /\ mounted \subseteq STRING /\ skipped \subseteq STRING
    /\ faults \in Nat /\ kills \in Nat /\ reboots \in Nat /\ unmounts \in Nat

\* The marks a state file that is visible now records.
Visible ==
    runFile \cup IF "etc" \in fs[Where] THEN stateFile[Where] ELSE {}

\* What a run knows beyond its files: the steps no later than the current one
\* that mark themselves, one of whose saves has failed.
Unsaved ==
    {Steps[i].key : i \in {j \in DOMAIN Steps : j <= idx /\ Steps[j].saves /\ faults > 0}}

\* As long as the loop runs, the StateStore holds every mark a store built now
\* would load, and beyond them only those of steps that mark themselves and
\* whose save failed: a kill loses no completed step but these, and no
\* recorded step is forgotten (StateStore; the retry of such a step is passed
\* over by the mark in memory).
StoreMatchesFiles ==
    pc \in {"loop", "run", "ask"} =>
        /\ Visible \subseteq done
        /\ done \subseteq Visible \cup Unsaved

\* No save ever drops a mark a volume's state file records: the marks of a
\* volume only grow, until the volume itself is wiped (StateStore._save).
MarksNeverLost ==
    [][\A v \in Volumes : stateFile[v] \subseteq stateFile'[v] \/ fs'[v] = {}]_vars

\* A destructive wipe happens only while the live session's state file does
\* not record the wiping step: partitioning is never repeated in a session
\* that completed it, whatever fails, is retried or is killed in between.
SessionNeverRepartitions ==
    [][pc = "run" /\ op' = op + 1 /\ Step.ops[op].kind = "zap"
          => ~(Step.marks \subseteq runFile)]_vars

\* An effect of a step is in place on the disk the plan names.
InPlace(o) ==
    CASE o.kind \in {"blk", "write", "create"} -> o.obj \in fs[disk]
      [] o.kind \in {"root", "mount"} -> o.obj \in mounted
      [] OTHER -> TRUE

\* When the run reports success, every effect of every requested step that
\* the user did not skip is in place on the selected disk, however many
\* failures, retries, kills and resumes lie behind it.
CompleteMeansInstalled ==
    pc = "teardown" /\ result = "ok" /\ tear = 1 =>
        \A i \in DOMAIN Steps :
            Steps[i].gate # "off" /\ Steps[i].key \notin skipped
                => \A o \in OpsOf(Steps[i]) : InPlace(o)

\* Whenever the root account of a volume is locked, an account of the wheel
\* group and the rule that lets it escalate are on that volume
\* (_admin_model_steps: never ship a system you can't administer).
AdminReachable == \A v \in Volumes : "root.locked" \in fs[v] => Admin \subseteq fs[v]

\* With no fault, no step of the list ever fails, in a first run or in one
\* resumed at any point after a kill or a reboot: the order of the steps
\* provides what each command needs.  The one refusal is to partition a disk
\* the user mounted again before the target held any resumable state.
NoFaultNoFailure ==
    pc = "ask" /\ faults = 0 =>
        Step.ops[op].kind = "zap" /\ "fstab" \notin fs[disk]

\* After a run has returned, no pseudo-filesystem is left mounted under the
\* target: the finally clause undid whatever the run had mounted.
TeardownClean == pc = "idle" /\ result # "none" => mounted \cap Pseudo = {}

\* A command runs inside the target only with all four pseudo-filesystems
\* mounted there.
ChrootHasPseudo == pc = "run" /\ Step.chroot => Pseudo \subseteq mounted

\* The types, and what holds of the chroot during a run and after it.
ChrootInv == TypeOK /\ ChrootHasPseudo /\ TeardownClean
=============================================================================
