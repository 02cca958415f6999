------------------------ MODULE InstallEngine_proofs -------------------------
(* Proofs about the install engine for every list of steps, every set of    *)
(* disks and every bound.                                                   *)
EXTENDS InstallEngine, TLAPS

\* A step of the list has the type the engine expects.
LEMMA StepType ==
    ASSUME NEW i \in 1..Len(Steps)
    PROVE  /\ Steps[i].key \in STRING
           /\ Steps[i].gate \in {"off", "never", "probe"}
           /\ Steps[i].marks \subseteq STRING
           /\ Steps[i].opens \in BOOLEAN /\ Steps[i].saves \in BOOLEAN
           /\ Steps[i].ops \in Seq(OpRecord)
           /\ i \in DOMAIN Steps
<1>1. Steps[i] \in StepRecord /\ i \in DOMAIN Steps
  BY StepsAssumption
<1> QED BY <1>1 DEF StepRecord

\* An effect of a step has the type the engine expects.
LEMMA OpType ==
    ASSUME NEW i \in 1..Len(Steps), NEW j \in 1..Len(Steps[i].ops)
    PROVE  /\ Steps[i].ops[j].kind \in Kinds
           /\ Steps[i].ops[j].obj \in STRING
           /\ j \in DOMAIN Steps[i].ops
<1>1. Steps[i].ops \in Seq(OpRecord)
  BY StepType
<1>2. Steps[i].ops[j] \in OpRecord /\ j \in DOMAIN Steps[i].ops
  BY <1>1
<1> QED BY <1>2 DEF OpRecord

\* Where is always a known volume.
LEMMA WhereType == TypeOK => Where \in Volumes
  BY DEF TypeOK, Where, Volumes

\* Recording a key keeps the store and the two files well typed.
LEMMA MarkType ==
    ASSUME TypeOK, NEW k \in STRING, Mark(k)
    PROVE  /\ done' \subseteq STRING /\ runFile' \subseteq STRING
           /\ stateFile' \in [Volumes -> SUBSET STRING]
           /\ runFile' \subseteq done'
  BY WhereType DEF TypeOK, Mark, Marked

\* Performing an effect keeps the volumes and the mounts well typed.
LEMMA PerformType ==
    ASSUME TypeOK, NEW o \in OpRecord, Perform(o)
    PROVE  /\ fs' \in [Volumes -> SUBSET STRING]
           /\ stateFile' \in [Volumes -> SUBSET STRING]
           /\ mounted' \subseteq STRING /\ rootdev' \in Disks
<1>1. fs' \in [Volumes -> SUBSET STRING]
  <2>1. CASE o.kind = "zap"
    BY <2>1 DEF TypeOK, Perform
  <2>2. CASE o.kind = "blk"
    BY <2>2 DEF TypeOK, Perform, OpRecord
  <2>3. CASE o.kind \in {"write", "create"}
    BY <2>3, WhereType DEF TypeOK, Perform, OpRecord
  <2>4. CASE o.kind \notin {"zap", "blk", "write", "create"}
    BY <2>4 DEF TypeOK, Perform
  <2> QED BY <2>1, <2>2, <2>3, <2>4
<1>2. stateFile' \in [Volumes -> SUBSET STRING]
  BY DEF TypeOK, Perform
<1>3. mounted' \subseteq STRING /\ rootdev' \in Disks
  BY DEF TypeOK, Perform, OpRecord
<1> QED BY <1>1, <1>2, <1>3

-----------------------------------------------------------------------------
\* The two lists the engine walks have a length.
LEMMA Lengths == Len(Steps) \in Nat /\ Len(TeardownOrder) = 4
  BY StepsAssumption DEF TeardownOrder

\* The initial state is well typed.
LEMMA TypeInit == Init => TypeOK
<1> SUFFICES ASSUME Init PROVE TypeOK
  OBVIOUS
<1>1. stateFile \in [Volumes -> SUBSET STRING] /\ fs \in [Volumes -> SUBSET STRING]
  BY DEF Init
<1>2. idx \in 1..(Len(Steps) + 1) /\ tear \in 1..(Len(TeardownOrder) + 1)
  BY Lengths DEF Init
<1>3. opened \in BOOLEAN /\ snap \in BOOLEAN
  BY DEF Init
<1>4. op \in Nat \ {0} /\ pc = "idle" /\ result = "none"
  BY DEF Init
<1>5. disk \in Disks /\ rootdev \in Disks
  BY DEF Init
<1>6. /\ done \subseteq STRING /\ runFile \subseteq STRING
      /\ mounted \subseteq STRING /\ skipped \subseteq STRING
  BY DEF Init
<1>7. faults \in Nat /\ kills \in Nat /\ reboots \in Nat /\ unmounts \in Nat
  BY DEF Init
<1> QED BY <1>1, <1>2, <1>3, <1>4, <1>5, <1>6, <1>7 DEF TypeOK

\* Every action preserves the type invariant.
LEMMA TypeNext == TypeOK /\ [Next]_vars => TypeOK'
<1> SUFFICES ASSUME TypeOK, [Next]_vars PROVE TypeOK'
  OBVIOUS
<1> Len(Steps) \in Nat /\ Len(TeardownOrder) = 4
  BY Lengths
<1>1. ASSUME NEW d \in Disks, StartRun(d) PROVE TypeOK'
  <2>1. Load \subseteq STRING
    BY WhereType DEF TypeOK, Load
  <2>2. opened' \in BOOLEAN /\ snap' \in BOOLEAN
    BY <1>1, Zenon DEF StartRun
  <2>3. idx' \in 1..(Len(Steps) + 1) /\ op' \in Nat \ {0} /\ tear' \in 1..5
    BY <1>1 DEF StartRun
  <2> QED BY <1>1, <2>1, <2>2, <2>3 DEF TypeOK, StartRun, world, budget
<1>2. ASSUME NEW d \in Disks, Remount(d) PROVE TypeOK'
  <2>1. TargetMounts \subseteq STRING
    <3> SUFFICES ASSUME NEW m \in TargetMounts PROVE m \in STRING
      OBVIOUS
    <3>1. PICK i \in DOMAIN Steps : \E j \in DOMAIN Steps[i].ops :
                m = Steps[i].ops[j].obj
      BY DEF TargetMounts, MountPoints, OpsOf
    <3>2. i \in 1..Len(Steps)
      BY StepsAssumption
    <3>3. DOMAIN Steps[i].ops = 1..Len(Steps[i].ops)
      BY <3>2, StepType
    <3> QED BY <3>1, <3>2, <3>3, OpType
  <2> QED BY <1>2, <2>1 DEF TypeOK, Remount, budget
<1>3. CASE PassOver
  BY <1>3 DEF TypeOK, PassOver, world, budget
<1>4. CASE BeginStep
  BY <1>4 DEF TypeOK, BeginStep, world, budget
<1>5. CASE RunOp
  <2>1. idx \in 1..Len(Steps)
    BY <1>5 DEF RunOp, TypeOK
  <2>2. Step.ops[op] \in OpRecord
    BY <1>5, <2>1, StepType DEF RunOp, TypeOK, Step
  <2>3. /\ fs' \in [Volumes -> SUBSET STRING]
        /\ stateFile' \in [Volumes -> SUBSET STRING]
        /\ mounted' \subseteq STRING /\ rootdev' \in Disks
    BY <1>5, <2>2, PerformType DEF RunOp
  <2> QED BY <1>5, <2>3 DEF TypeOK, RunOp, budget
<1>6. CASE FailOp
  BY <1>6 DEF TypeOK, FailOp, world
<1>7. CASE FinishStep
  <2>1. idx \in 1..Len(Steps)
    BY <1>7 DEF FinishStep, TypeOK
  <2>2. Step.key \in STRING /\ Step.opens \in BOOLEAN
    BY <2>1, StepType DEF Step
  <2>3. /\ done' \subseteq STRING /\ runFile' \subseteq STRING
        /\ stateFile' \in [Volumes -> SUBSET STRING]
    BY <1>7, <2>2, MarkType DEF FinishStep
  <2> QED BY <1>7, <2>1, <2>2, <2>3 DEF TypeOK, FinishStep, budget
<1>8. CASE SaveFails
  <2>1. idx \in 1..Len(Steps)
    BY <1>8 DEF SaveFails, TypeOK
  <2>2. Step.opens \in BOOLEAN /\ Step.key \in STRING
    BY <2>1, StepType DEF Step
  <2>3. /\ done' \subseteq STRING /\ runFile' \subseteq STRING
        /\ stateFile' \in [Volumes -> SUBSET STRING]
    <3>1. CASE Mark(Step.key)
      BY <2>2, <3>1, MarkType
    <3>2. CASE done' = Marked(Step.key) /\ UNCHANGED <<runFile, stateFile>>
      BY <2>2, <3>2 DEF Marked, TypeOK
    <3> QED BY <1>8, <3>1, <3>2 DEF SaveFails
  <2> QED BY <1>8, <2>2, <2>3 DEF TypeOK, SaveFails
<1>18. CASE OwnSaveFails
  <2>1. idx \in 1..Len(Steps)
    BY <1>18 DEF OwnSaveFails, TypeOK
  <2>2. Step.key \in STRING
    BY <2>1, StepType DEF Step
  <2>3. done' \subseteq STRING
    BY <1>18, <2>2 DEF OwnSaveFails, Marked, TypeOK
  <2> QED BY <1>18, <2>1, <2>3 DEF TypeOK, OwnSaveFails, world
<1>9. CASE Retry
  BY <1>9 DEF TypeOK, Retry, world, budget
<1>10. CASE Skip
  <2>1. idx \in 1..Len(Steps) /\ Step.key \in STRING
    BY <1>10, StepType DEF Skip, TypeOK, Step
  <2>2. /\ done' \subseteq STRING /\ runFile' \subseteq STRING
        /\ stateFile' \in [Volumes -> SUBSET STRING]
    BY <1>10, <2>1, MarkType DEF Skip
  <2>3. skipped' \subseteq STRING
    BY <1>10, <2>1 DEF Skip, TypeOK
  <2>4. idx' \in 1..(Len(Steps) + 1)
    <3>1. idx' = idx + 1
      BY <1>10 DEF Skip
    <3> QED BY <3>1, <2>1
  <2> QED BY <1>10, <2>2, <2>3, <2>4 DEF TypeOK, Skip, budget
<1>11. CASE Abort
  BY <1>11 DEF TypeOK, Abort, world, budget
<1>12. CASE Complete
  BY <1>12 DEF TypeOK, Complete, world, budget
<1>13. CASE Teardown
  <2>1. CASE opened /\ tear <= Len(TeardownOrder)
    <3>1. mounted' \subseteq mounted /\ tear' = tear + 1 /\ pc' = pc
      BY <1>13, <2>1 DEF Teardown
    <3>2. tear' \in 1..(Len(TeardownOrder) + 1)
      BY <2>1, <3>1 DEF TypeOK
    <3> QED BY <1>13, <3>1, <3>2 DEF TypeOK, Teardown, budget
  <2>2. CASE ~(opened /\ tear <= Len(TeardownOrder))
    <3>1. mounted' = mounted /\ tear' = tear /\ pc' = "idle"
      BY <1>13, <2>2 DEF Teardown
    <3> QED BY <1>13, <3>1 DEF TypeOK, Teardown, budget
  <2> QED BY <2>1, <2>2
<1>14. CASE Kill
  BY <1>14 DEF TypeOK, Kill, world
<1>15. CASE Reboot
  BY <1>15 DEF TypeOK, Reboot, Volumes
<1>16. CASE Unmount
  BY <1>16 DEF TypeOK, Unmount
<1>17. CASE UNCHANGED vars
  BY <1>17 DEF TypeOK, vars
<1> QED
  BY <1>1, <1>2, <1>3, <1>4, <1>5, <1>6, <1>7, <1>8, <1>9, <1>10, <1>11,
     <1>12, <1>13, <1>14, <1>15, <1>16, <1>17, <1>18 DEF Next

\* The engine's variables keep their types in every behaviour.
THEOREM TypeCorrect == Spec => []TypeOK
  BY TypeInit, TypeNext, PTL DEF Spec

-----------------------------------------------------------------------------
(* A disk is never wiped twice in one live session. *)

\* A step gated by its marker alone (Partition).
MarkerOnly(s) == s.gate = "probe" /\ s.facts = {} /\ s.mnts = {}

\* The strengthening: the store has read the live session's file, and a step
\* gated by its marker alone is running only without its marker.
SessionInv ==
    /\ TypeOK
    /\ pc # "idle" => runFile \subseteq done
    /\ pc = "run" /\ MarkerOnly(Step) => ~(Step.marks \subseteq done)

\* The initial state satisfies the strengthening.
LEMMA SessionInit == Init => SessionInv
  BY TypeInit DEF Init, SessionInv

\* Every action preserves the strengthening.
LEMMA SessionNext == SessionInv /\ [Next]_vars => SessionInv'
<1> SUFFICES ASSUME SessionInv, [Next]_vars PROVE SessionInv'
  OBVIOUS
<1> TypeOK /\ TypeOK'
  BY TypeNext DEF SessionInv
<1>1. ASSUME NEW d \in Disks, StartRun(d) PROVE SessionInv'
  BY <1>1 DEF SessionInv, StartRun, Load
<1>2. ASSUME NEW d \in Disks, Remount(d) PROVE SessionInv'
  BY <1>2 DEF SessionInv, Remount
<1>3. CASE PassOver
  BY <1>3 DEF SessionInv, PassOver
<1>4. CASE BeginStep
  BY <1>4 DEF SessionInv, BeginStep, IsSatisfied, MarkerOnly, Step
<1>5. CASE RunOp
  BY <1>5 DEF SessionInv, RunOp, Step
<1>6. CASE FailOp
  BY <1>6 DEF SessionInv, FailOp
<1>7. CASE FinishStep
  <2>1. Step.key \in STRING
    BY <1>7, StepType DEF FinishStep, TypeOK, Step
  <2>2. runFile' \subseteq done'
    BY <1>7, <2>1, MarkType DEF FinishStep
  <2> QED BY <1>7, <2>2 DEF SessionInv, FinishStep
<1>8. CASE SaveFails
  <2>1. Step.key \in STRING
    BY <1>8, StepType DEF SaveFails, TypeOK, Step
  <2>2. CASE Mark(Step.key)
    BY <1>8, <2>1, <2>2, MarkType DEF SessionInv, SaveFails
  <2>3. CASE done' = Marked(Step.key) /\ UNCHANGED <<runFile, stateFile>>
    BY <1>8, <2>3 DEF SessionInv, SaveFails, Marked
  <2> QED BY <1>8, <2>2, <2>3 DEF SaveFails
<1>18. CASE OwnSaveFails
  BY <1>18 DEF SessionInv, OwnSaveFails, Marked
<1>9. CASE Retry
  BY <1>9 DEF SessionInv, Retry
<1>10. CASE Skip
  <2>1. Step.key \in STRING
    BY <1>10, StepType DEF Skip, TypeOK, Step
  <2>2. runFile' \subseteq done'
    BY <1>10, <2>1, MarkType DEF Skip
  <2> QED BY <1>10, <2>2 DEF SessionInv, Skip
<1>11. CASE Abort
  BY <1>11 DEF SessionInv, Abort
<1>12. CASE Complete
  BY <1>12 DEF SessionInv, Complete
<1>13. CASE Teardown
  BY <1>13 DEF SessionInv, Teardown
<1>14. CASE Kill
  BY <1>14 DEF SessionInv, Kill
<1>15. CASE Reboot
  BY <1>15 DEF SessionInv, Reboot
<1>16. CASE Unmount
  BY <1>16 DEF SessionInv, Unmount
<1>17. CASE UNCHANGED vars
  BY <1>17 DEF SessionInv, Step, vars
<1> QED
  BY <1>1, <1>2, <1>3, <1>4, <1>5, <1>6, <1>7, <1>8, <1>9, <1>10, <1>11,
     <1>12, <1>13, <1>14, <1>15, <1>16, <1>17, <1>18 DEF Next

\* A wipe that a step performs finds the step's marker missing from the live
\* session's file.
LEMMA ZapStep ==
    ASSUME SessionInv, [Next]_vars
    PROVE  [pc = "run" /\ op' = op + 1 /\ Step.ops[op].kind = "zap"
              => ~(Step.marks \subseteq runFile)]_vars
<1> SUFFICES ASSUME pc = "run", op' = op + 1, Step.ops[op].kind = "zap",
                    ~UNCHANGED vars
             PROVE  ~(Step.marks \subseteq runFile)
  OBVIOUS
<1>1. RunOp
  <2>1. op' # op /\ op' # 1
    BY DEF SessionInv, TypeOK
  <2> QED BY <2>1 DEF Next, StartRun, Remount, PassOver, BeginStep, FailOp,
          FinishStep, SaveFails, OwnSaveFails, Retry, Skip, Abort, Complete, Teardown, Kill,
          Reboot, Unmount
<1>2. idx \in 1..Len(Steps) /\ op \in 1..Len(Steps[idx].ops)
  <2>1. idx \in 1..Len(Steps)
    BY DEF SessionInv, TypeOK
  <2>2. Len(Steps[idx].ops) \in Nat
    BY <2>1, StepType
  <2> QED BY <1>1, <2>1, <2>2 DEF RunOp, SessionInv, TypeOK, Step
<1>3. MarkerOnly(Step)
  BY <1>2, StepType, OpType, ZapAssumption DEF MarkerOnly, Step
<1> QED BY <1>3 DEF SessionInv

\* Within one live session a disk is wiped only as long as the session's
\* state file does not record the wiping step as completed (Partition).
THEOREM NeverRepartitions == Spec => SessionNeverRepartitions
<1>1. SessionInv /\ [Next]_vars =>
        [pc = "run" /\ op' = op + 1 /\ Step.ops[op].kind = "zap"
           => ~(Step.marks \subseteq runFile)]_vars
  BY ZapStep
<1> QED BY <1>1, SessionInit, SessionNext, PTL DEF Spec, SessionNeverRepartitions

-----------------------------------------------------------------------------
(* The store in memory and the state files agree. *)

\* The target stays where it is: one disk, never unmounted by hand, and the
\* user skips neither the wipe nor the mount of the root.  (A store reads the
\* target's file when it is built and not when the target is mounted later.)
Undisturbed ==
    /\ MaxUnmounts = 0
    /\ \E d : Disks = {d}
    /\ \A z, r \in DOMAIN Steps :
         DiskFirst(z, r) => {Steps[z].key, Steps[r].key} \cap Skippable = {}

\* The live medium's own tree never becomes a target.
LiveBare == "etc" \notin fs[Live] /\ stateFile[Live] = {}

\* A volume without /etc has no state file; the disk that step z has wiped,
\* as the run file records, has none until it is mounted.
DiskFresh(z) ==
    \A d \in Disks :
        /\ "etc" \notin fs[d] => stateFile[d] = {}
        /\ "root" \notin mounted /\ Steps[z].key \in runFile => "etc" \notin fs[d]
        /\ pc = "run" /\ idx = z /\ op > 1 /\ "root" \notin mounted => "etc" \notin fs[d]

\* Where a run is in the list says what is marked and what is mounted.
Position(z, r) ==
    /\ pc \in {"loop", "run", "ask"} =>
        /\ idx > z => Steps[z].key \in done
        /\ idx > r => "root" \in mounted
        /\ idx < r => (snap <=> "root" \in mounted)
    /\ pc = "run" /\ idx = r =>
        \A j \in DOMAIN Steps[r].ops :
            j < op /\ Steps[r].ops[j].kind = "root" => "root" \in mounted

StoreInv(z, r) ==
    TypeOK /\ LiveBare /\ DiskFresh(z) /\ Position(z, r) /\ StoreMatchesFiles

\* The wipe and the mount of the root are steps of the list.
LEMMA Order ==
    ASSUME NEW z \in DOMAIN Steps, NEW r \in DOMAIN Steps, DiskFirst(z, r)
    PROVE  /\ z \in 1..Len(Steps) /\ r \in 1..Len(Steps) /\ z < r
           /\ Len(Steps) \in Nat
           /\ Len(Steps[z].ops) > 0
BY StepsAssumption DEF DiskFirst

\* Recording a key makes memory and the visible files the same.
LEMMA MarkMatches ==
    ASSUME TypeOK, Visible \subseteq done, NEW k \in STRING, Mark(k), UNCHANGED <<fs, mounted, rootdev>>
    PROVE  /\ done' = Visible' /\ done \subseteq done' /\ k \in done'
           /\ \A v \in Volumes : stateFile[v] \subseteq stateFile'[v]
           /\ \A v \in Volumes : (v = Where /\ "etc" \in fs[v]) \/ stateFile'[v] = stateFile[v]
           /\ runFile' = runFile \/ ("etc" \notin fs[Where] /\ runFile' = done \cup {k})
<1>1. Where \in Volumes /\ Where' = Where
  BY WhereType DEF Where
<1>2. CASE TargetAvailable
  <2> DEFINE all == done \cup {k} \cup runFile
  <2>1. /\ done' = all /\ runFile' = runFile
        /\ stateFile' = [stateFile EXCEPT ![Where] = all]
    BY <1>2 DEF Mark, Marked
  <2>2. stateFile'[Where] = all /\ \A v \in Volumes : v # Where => stateFile'[v] = stateFile[v]
    BY <1>1, <2>1 DEF TypeOK
  <2>3. stateFile[Where] \subseteq done
    BY <1>2 DEF Visible, TargetAvailable
  <2>4. Visible' = all
    BY <1>1, <1>2, <2>1, <2>2 DEF Visible, TargetAvailable
  <2> QED BY <1>1, <1>2, <2>1, <2>2, <2>3, <2>4 DEF TargetAvailable
<1>3. CASE ~TargetAvailable
  <2>1. /\ done' = done \cup {k} /\ runFile' = done \cup {k}
        /\ stateFile' = stateFile
    BY <1>3 DEF Mark, Marked
  <2>2. Visible' = done \cup {k}
    BY <1>1, <1>3, <2>1 DEF Visible, TargetAvailable
  <2> QED BY <1>3, <2>1, <2>2 DEF TargetAvailable
<1> QED BY <1>2, <1>3

\* Nothing the store reads is touched.
LEMMA StoreQuiet ==
    ASSUME UNCHANGED <<runFile, stateFile, fs, mounted, rootdev>>
    PROVE  /\ Visible' = Visible
           /\ LiveBare' = LiveBare
BY DEF Visible, LiveBare, Where

\* The wipe never is among the steps whose mark may be in memory only.
LEMMA WipeSaved ==
    ASSUME NEW z \in DOMAIN Steps, NEW r \in DOMAIN Steps, DiskFirst(z, r)
    PROVE  Steps[z].key \notin Unsaved
BY DEF DiskFirst, Unsaved

\* The steps whose mark may be in memory only become no fewer.
LEMMA UnsavedGrows ==
    ASSUME TypeOK, idx' \in {idx, idx + 1}, faults' \in {faults, faults + 1}
    PROVE  Unsaved \subseteq Unsaved'
<1>1. idx \in Nat /\ faults \in Nat /\ DOMAIN Steps = 1..Len(Steps) /\ Len(Steps) \in Nat
  BY StepsAssumption DEF TypeOK
<1>2. \A j \in DOMAIN Steps : j <= idx /\ faults > 0 => j <= idx' /\ faults' > 0
  BY <1>1
<1> QED BY <1>2 DEF Unsaved

\* An effect that is performed changes nothing of what the visible files record.
LEMMA PerformMatches ==
    ASSUME Undisturbed, NEW z \in DOMAIN Steps, NEW r \in DOMAIN Steps, DiskFirst(z, r),
           StoreInv(z, r), RunOp
    PROVE  LiveBare' /\ DiskFresh(z)' /\ Position(z, r)' /\ Visible' = Visible
<1> USE DEF StoreInv
<1> DEFINE o == Step.ops[op]
<1>1. PICK d : Disks = {d}
  BY DEF Undisturbed
<1>2. /\ disk = d /\ rootdev = d /\ d \in Volumes /\ Live \in Volumes /\ d # Live
      /\ fs \in [Volumes -> SUBSET STRING] /\ stateFile \in [Volumes -> SUBSET STRING]
  BY <1>1, DisksAssumption DEF TypeOK, Volumes
<1>3. /\ pc = "run" /\ idx \in 1..Len(Steps) /\ op \in 1..Len(Steps[idx].ops)
      /\ idx \in DOMAIN Steps /\ op \in DOMAIN Steps[idx].ops /\ op \in Nat
      /\ o = Steps[idx].ops[op] /\ o \in OpsOf(Steps[idx])
  <2>1. pc = "run" /\ idx \in 1..Len(Steps)
    BY DEF RunOp, TypeOK
  <2>2. Len(Steps[idx].ops) \in Nat
    BY <2>1, StepType
  <2>3. op \in 1..Len(Steps[idx].ops)
    BY <2>2 DEF RunOp, TypeOK, Step
  <2>4. idx \in DOMAIN Steps /\ op \in DOMAIN Steps[idx].ops
    BY <2>1, <2>3, StepType, OpType
  <2> QED BY <2>1, <2>3, <2>4 DEF OpsOf, Step, TypeOK
<1>4. /\ o.kind \in Kinds
      /\ o.kind = "zap" => idx = z
      /\ o.kind = "blk" => idx = z /\ o.obj # "etc"
      /\ o.kind = "root" => idx = r /\ o.obj = "root"
      /\ o.kind = "mount" => o.obj # "root"
      /\ o.kind \in {"write", "create"} => idx > r
  <2>1. o.kind \in Kinds
    BY <1>3, OpType
  <2> QED BY <1>3, <2>1 DEF DiskFirst
<1>5. /\ CanPerform(o) /\ Perform(o) /\ op' = op + 1
      /\ UNCHANGED <<pc, disk, idx, done, runFile, snap>>
  BY DEF RunOp
<1>6. z < r /\ z \in Nat /\ r \in Nat /\ Len(Steps) \in Nat
  BY Order
<1>7. done \subseteq Visible \cup Unsaved /\ Steps[z].key \notin Unsaved
  BY <1>3, WipeSaved DEF StoreMatchesFiles
<1>8. "root" \notin mounted => Visible = runFile
  BY DEF Visible, Where, LiveBare
<1> HIDE DEF o
<1>9. CASE o.kind = "zap"
  <2>1. idx = z /\ ~snap /\ "root" \notin mounted
    BY <1>3, <1>4, <1>5, <1>6, <1>9 DEF CanPerform, Position
  <2>2. fs' = [fs EXCEPT ![d] = {}] /\ stateFile' = [stateFile EXCEPT ![d] = {}]
        /\ UNCHANGED <<mounted, rootdev>>
    BY <1>2, <1>5, <1>9 DEF Perform
  <2>3. fs'[d] = {} /\ stateFile'[d] = {} /\ fs'[Live] = fs[Live] /\ stateFile'[Live] = stateFile[Live]
    BY <1>2, <2>2
  <2>4. LiveBare' /\ DiskFresh(z)'
    BY <1>1, <2>3 DEF LiveBare, DiskFresh
  <2>5. Position(z, r)'
    BY <1>3, <1>5, <1>6, <2>1, <2>2 DEF Position
  <2>6. Visible' = runFile
    BY <1>5, <2>1, <2>2, <2>4 DEF Visible, Where, LiveBare
  <2> QED BY <1>5, <1>8, <2>1, <2>4, <2>5, <2>6
<1>10. CASE o.kind = "blk"
  <2>1. idx = z /\ o.obj # "etc"
    BY <1>4, <1>10
  <2>2. fs' = [fs EXCEPT ![d] = @ \cup {o.obj}] /\ UNCHANGED <<mounted, rootdev, stateFile>>
    BY <1>2, <1>5, <1>10 DEF Perform
  <2>3. fs'[Live] = fs[Live] /\ ("etc" \in fs'[d] <=> "etc" \in fs[d])
    BY <1>2, <2>1, <2>2
  <2>4. LiveBare' /\ Where' = Where
    BY <2>2, <2>3 DEF LiveBare, Where
  <2>5. DiskFresh(z)'
    <3>1. op = 1 => Steps[idx].ops[op].kind = "zap"
      BY <2>1 DEF DiskFirst
    <3>2. op > 1
      BY <1>3, <1>10, <3>1 DEF o
    <3> QED BY <1>1, <1>3, <1>5, <2>1, <2>2, <2>3, <3>2 DEF DiskFresh
  <2>6. Position(z, r)'
    BY <1>3, <1>5, <1>6, <2>1, <2>2 DEF Position
  <2>7. Visible' = Visible
    BY <1>2, <1>5, <2>2, <2>3, <2>4 DEF Visible, Where
  <2> QED BY <1>5, <2>4, <2>5, <2>6, <2>7
<1>11. CASE o.kind = "root"
  <2>1. idx = r /\ mounted' = mounted \cup {"root"} /\ rootdev' = d
        /\ UNCHANGED <<fs, stateFile>>
    BY <1>2, <1>4, <1>5, <1>11 DEF Perform
  <2>2. LiveBare' /\ DiskFresh(z)'
    BY <1>1, <1>5, <1>6, <2>1 DEF LiveBare, DiskFresh
  <2>3. Position(z, r)'
    BY <1>3, <1>5, <1>6, <2>1 DEF Position
  <2>4. CASE "root" \in mounted
    BY <1>2, <1>5, <2>1, <2>2, <2>3, <2>4 DEF Visible, Where
  <2>5. CASE "root" \notin mounted
    <3>1. Steps[z].key \in runFile
      BY <1>3, <1>6, <1>7, <1>8, <2>1, <2>5 DEF Position
    <3>2. "etc" \notin fs[d]
      BY <1>1, <2>5, <3>1 DEF DiskFresh
    <3>3. Visible' = runFile
      BY <1>5, <2>1, <3>2 DEF Visible, Where
    <3> QED BY <1>5, <1>8, <2>2, <2>3, <2>5, <3>3
  <2> QED BY <2>4, <2>5
<1>12. CASE o.kind = "mount"
  <2>1. /\ UNCHANGED <<fs, stateFile, rootdev>> /\ mounted' = mounted \cup {o.obj}
        /\ o.obj # "root"
    BY <1>4, <1>5, <1>12 DEF Perform
  <2>2. "root" \in mounted' <=> "root" \in mounted
    BY <2>1
  <2>3. LiveBare' /\ DiskFresh(z)'
    <3>1. idx = z => op > 1
      <4>1. op = 1 /\ idx = z => Steps[idx].ops[op].kind = "zap"
        BY DEF DiskFirst
      <4> QED BY <1>3, <1>12, <4>1 DEF o
    <3> QED BY <1>3, <1>5, <2>1, <2>2, <3>1 DEF LiveBare, DiskFresh
  <2>4. Position(z, r)'
    <3>1. idx = r => Steps[r].ops[op].kind # "root"
      BY <1>3, <1>12 DEF o
    <3> QED BY <1>3, <1>5, <2>2, <3>1 DEF Position
  <2>5. Visible' = Visible
    BY <1>5, <2>1, <2>2 DEF Visible, Where
  <2> QED BY <1>5, <2>3, <2>4, <2>5
<1>13. CASE o.kind \in {"write", "create"}
  <2>1. "root" \in mounted /\ idx > r /\ Where = d
    BY <1>2, <1>3, <1>4, <1>13 DEF Position, Where
  <2>2. /\ fs' = [fs EXCEPT ![d] = @ \cup {o.obj}]
        /\ UNCHANGED <<stateFile, mounted, rootdev>>
    BY <1>5, <1>13, <2>1 DEF Perform
  <2>3. fs'[Live] = fs[Live] /\ fs[d] \subseteq fs'[d]
    BY <1>2, <2>2
  <2>4. LiveBare' /\ DiskFresh(z)'
    BY <1>1, <1>5, <2>1, <2>2, <2>3 DEF LiveBare, DiskFresh
  <2>5. Position(z, r)'
    BY <1>3, <1>5, <1>6, <2>1, <2>2 DEF Position
  <2>6. Where' = d
    BY <1>2, <2>1, <2>2 DEF Where
  <2>7. Visible' = Visible
    BY <1>1, <1>5, <2>1, <2>2, <2>3, <2>6 DEF Visible, DiskFresh
  <2> QED BY <1>5, <2>4, <2>5, <2>7
<1>14. CASE o.kind = "noop"
  <2>1. UNCHANGED <<fs, stateFile, mounted, rootdev>>
    BY <1>5, <1>14 DEF Perform
  <2>2. LiveBare' /\ Visible' = Visible
    BY <1>5, <2>1 DEF LiveBare, Visible, Where
  <2>3. DiskFresh(z)'
    <3>1. idx = z => op > 1
      <4>1. op = 1 /\ idx = z => Steps[idx].ops[op].kind = "zap"
        BY DEF DiskFirst
      <4> QED BY <1>3, <1>14, <4>1 DEF o
    <3> QED BY <1>3, <1>5, <2>1, <3>1 DEF DiskFresh
  <2>4. Position(z, r)'
    <3>1. idx = r => Steps[r].ops[op].kind # "root"
      BY <1>3, <1>14 DEF o
    <3> QED BY <1>3, <1>5, <2>1, <3>1 DEF Position
  <2> QED BY <1>5, <2>2, <2>3, <2>4
<1> QED BY <1>4, <1>9, <1>10, <1>11, <1>12, <1>13, <1>14 DEF Kinds

\* A step that is finished or skipped is recorded.
LEMMA MarkKeeps ==
    ASSUME Undisturbed, NEW z \in DOMAIN Steps, NEW r \in DOMAIN Steps, DiskFirst(z, r),
           StoreInv(z, r), pc \in {"run", "ask"}, idx \in 1..Len(Steps), Mark(Step.key),
           UNCHANGED <<fs, mounted, rootdev, snap>>, pc' = "teardown" \/ (pc' = "loop" /\ idx' = idx + 1),
           idx = z => pc = "run" /\ op > 1,
           idx = r => "root" \in mounted
    PROVE  LiveBare' /\ DiskFresh(z)' /\ Position(z, r)' /\ done' = Visible'
<1> USE DEF StoreInv
<1>1. PICK d : Disks = {d}
  BY DEF Undisturbed
<1>2. rootdev = d /\ d \in Volumes /\ Live \in Volumes /\ d # Live
  BY <1>1, DisksAssumption DEF TypeOK, Volumes
<1>3. /\ Step.key \in STRING /\ idx \in DOMAIN Steps
      /\ Step.key = Steps[z].key => idx = z
  BY StepType DEF Step, DiskFirst
<1>4. /\ Visible \subseteq done /\ done \subseteq Visible \cup Unsaved
      /\ Steps[z].key \notin Unsaved
  BY WipeSaved DEF StoreMatchesFiles
<1>5. "root" \notin mounted => Where = Live /\ done \subseteq runFile \cup Unsaved
  BY <1>4 DEF Visible, Where, LiveBare
<1>6. /\ done' = Visible' /\ done \subseteq done' /\ Step.key \in done'
      /\ \A v \in Volumes : (v = Where /\ "etc" \in fs[v]) \/ stateFile'[v] = stateFile[v]
      /\ runFile' = runFile \/ ("etc" \notin fs[Where] /\ runFile' = done \cup {Step.key})
  BY <1>3, <1>4, MarkMatches
<1>7. LiveBare'
  <2>1. "etc" \notin fs[Live]
    BY DEF LiveBare
  <2> QED BY <1>2, <1>6, <2>1 DEF LiveBare
<1>8. DiskFresh(z)'
  <2>1. "etc" \notin fs'[d] => stateFile'[d] = {}
    BY <1>1, <1>2, <1>6 DEF DiskFresh
  <2>2. ASSUME "root" \notin mounted, Steps[z].key \in runFile' PROVE "etc" \notin fs[d]
    <3>1. CASE Steps[z].key \in runFile
      BY <1>1, <2>2, <3>1 DEF DiskFresh
    <3>2. CASE Steps[z].key = Step.key
      BY <1>1, <1>3, <2>2, <3>2 DEF DiskFresh
    <3> QED BY <1>4, <1>5, <1>6, <2>2, <3>1, <3>2
  <2> QED BY <1>1, <2>1, <2>2 DEF DiskFresh
<1>9. Position(z, r)'
  <2> SUFFICES ASSUME pc' = "loop", idx' = idx + 1 PROVE Position(z, r)'
    BY DEF Position
  <2>1. z < r /\ z \in Nat /\ r \in Nat /\ Len(Steps) \in Nat
    BY Order
  <2>2. idx = z => Step.key = Steps[z].key
    BY DEF Step
  <2>3. idx' > z => Steps[z].key \in done'
    BY <1>6, <2>1, <2>2 DEF Position
  <2>4. idx' > r => "root" \in mounted'
    BY <2>1 DEF Position
  <2>5. idx' < r => (snap' <=> "root" \in mounted')
    BY <2>1 DEF Position
  <2> QED BY <2>3, <2>4, <2>5 DEF Position
<1> QED BY <1>6, <1>7, <1>8, <1>9

\* The initial state.
LEMMA StoreInit ==
    ASSUME NEW z, NEW r, Init PROVE StoreInv(z, r)
<1>1. Live \in Volumes /\ Disks \subseteq Volumes
  BY DEF Volumes
<1> QED BY <1>1, TypeInit DEF Init, StoreInv, LiveBare, DiskFresh, Position, StoreMatchesFiles

\* Every action preserves the agreement of memory and files.
LEMMA StoreNext ==
    ASSUME Undisturbed, NEW z \in DOMAIN Steps, NEW r \in DOMAIN Steps, DiskFirst(z, r),
           StoreInv(z, r), [Next]_vars
    PROVE  StoreInv(z, r)'
<1> USE DEF StoreInv
<1>0. TypeOK'
  BY TypeNext
<1>p. PICK d0 : Disks = {d0}
  BY DEF Undisturbed
<1>o. /\ z < r /\ z \in Nat /\ r \in Nat /\ Len(Steps) \in Nat
      /\ z \in 1..Len(Steps) /\ r \in 1..Len(Steps)
  BY Order
<1>m. pc \in {"loop", "run", "ask"} => Visible \subseteq done /\ done \subseteq Visible \cup Unsaved
  BY DEF StoreMatchesFiles
<1>q. ASSUME UNCHANGED <<runFile, stateFile, fs, mounted, rootdev>>,
             pc' = "teardown" \/ (pc \in {"loop", "run", "ask"} /\ UNCHANGED done),
             idx' \in {idx, idx + 1}, faults' \in {faults, faults + 1},
             pc' = "run" /\ idx' = z /\ op' > 1 => pc = "run" /\ idx = z /\ op = op',
             Position(z, r)'
      PROVE  StoreInv(z, r)'
  <2>1. Visible' = Visible /\ LiveBare'
    BY <1>q, StoreQuiet
  <2>2. DiskFresh(z)'
    BY <1>q DEF DiskFresh
  <2>3. StoreMatchesFiles'
    <3>1. Unsaved \subseteq Unsaved'
      BY <1>q, UnsavedGrows
    <3> QED BY <1>q, <1>m, <2>1, <3>1 DEF StoreMatchesFiles
  <2> QED BY <1>0, <1>q, <2>1, <2>2, <2>3
<1>1. ASSUME NEW d \in Disks, StartRun(d) PROVE StoreInv(z, r)'
  <2>1. /\ pc' = "loop" /\ idx' = 1 /\ done' = Visible /\ snap' = ("root" \in mounted /\ rootdev = d)
        /\ UNCHANGED <<runFile, stateFile, fs, mounted, rootdev>>
    BY <1>1 DEF StartRun, Load, Visible, TargetAvailable, world
  <2>2. rootdev = d
    BY <1>1, <1>p DEF TypeOK
  <2>3. LiveBare' /\ Visible' = Visible
    BY <2>1 DEF LiveBare, Visible, Where
  <2>4. DiskFresh(z)'
    BY <2>1 DEF DiskFresh
  <2>5. Position(z, r)'
    <3>1. snap' <=> "root" \in mounted'
      BY <2>1, <2>2, Zenon
    <3>2. ~(idx' > z) /\ ~(idx' > r) /\ pc' = "loop"
      BY <1>o, <2>1
    <3> QED BY <3>1, <3>2 DEF Position
  <2> QED BY <1>0, <2>1, <2>3, <2>4, <2>5 DEF StoreMatchesFiles
<1>2. ASSUME NEW d \in Disks, Remount(d) PROVE StoreInv(z, r)'
  <2>1. /\ pc' = "idle" /\ mounted \subseteq mounted'
        /\ UNCHANGED <<runFile, stateFile, fs>>
    BY <1>2 DEF Remount
  <2>2. LiveBare' /\ Position(z, r)' /\ StoreMatchesFiles'
    BY <2>1 DEF LiveBare, Position, StoreMatchesFiles
  <2>3. DiskFresh(z)'
    BY <2>1 DEF DiskFresh
  <2> QED BY <1>0, <2>2, <2>3
<1>3. CASE PassOver
  <2>1. /\ pc = "loop" /\ pc' = "loop" /\ idx' = idx + 1 /\ idx \in 1..Len(Steps)
        /\ UNCHANGED <<done, runFile, stateFile, fs, mounted, rootdev, op, snap, faults>>
    BY <1>3 DEF PassOver, world, budget, TypeOK
  <2>2. idx = z => Steps[z].key \in done
    BY <1>3 DEF PassOver, IsSatisfied, Step, DiskFirst
  <2>3. idx = r => "root" \in mounted
    BY <1>3 DEF PassOver, IsSatisfied, Step, DiskFirst
  <2>4. Position(z, r)'
    BY <1>o, <2>1, <2>2, <2>3 DEF Position
  <2> QED BY <1>q, <2>1, <2>4
<1>4. CASE BeginStep
  <2>1. /\ pc = "loop" /\ pc' = "run" /\ op' = 1
        /\ UNCHANGED <<done, runFile, stateFile, fs, mounted, rootdev, idx, snap, faults>>
    BY <1>4 DEF BeginStep, world, budget
  <2>2. \A j \in DOMAIN Steps[r].ops : ~(j < 1)
    <3>1. Steps[r].ops \in Seq(OpRecord)
      BY <1>o, StepType
    <3> QED BY <3>1
  <2>3. Position(z, r)'
    BY <2>1, <2>2 DEF Position
  <2> QED BY <1>q, <2>1, <2>3
<1>5. CASE RunOp
  <2>1. LiveBare' /\ DiskFresh(z)' /\ Position(z, r)' /\ Visible' = Visible
    BY <1>5, PerformMatches
  <2>2. pc = "run" /\ UNCHANGED <<pc, done, idx, faults>>
    BY <1>5 DEF RunOp, budget
  <2>3. Unsaved \subseteq Unsaved'
    BY <2>2, UnsavedGrows
  <2> QED BY <1>0, <1>m, <2>1, <2>2, <2>3 DEF StoreMatchesFiles
<1>6. CASE FailOp
  <2>1. /\ pc = "run" /\ pc' = "ask"
        /\ UNCHANGED <<done, runFile, stateFile, fs, mounted, rootdev, idx, snap, op>>
        /\ faults' \in {faults, faults + 1}
    BY <1>6 DEF FailOp, world
  <2>2. Position(z, r)'
    BY <2>1 DEF Position
  <2> QED BY <1>q, <2>1, <2>2
<1>7. CASE FinishStep
  <2>1. /\ pc = "run" /\ pc' = "loop" /\ op > Len(Step.ops) /\ idx' = idx + 1
        /\ Mark(Step.key) /\ UNCHANGED <<fs, mounted, rootdev, snap>>
        /\ idx \in 1..Len(Steps) /\ op \in Nat
    BY <1>7 DEF FinishStep, TypeOK
  <2>2. Len(Step.ops) \in Nat /\ DOMAIN Step.ops = 1..Len(Step.ops)
    BY <2>1, StepType DEF Step
  <2>3. idx = z => op > 1
    BY <2>1, <2>2 DEF DiskFirst, Step
  <2>4. idx = r => "root" \in mounted
    <3> SUFFICES ASSUME idx = r PROVE "root" \in mounted
      OBVIOUS
    <3>1. PICK j \in DOMAIN Steps[r].ops : Steps[r].ops[j].kind = "root"
      BY DEF DiskFirst, OpsOf
    <3>2. j < op
      BY <2>1, <2>2, <3>1 DEF Step
    <3> QED BY <2>1, <3>1, <3>2 DEF Position
  <2>5. LiveBare' /\ DiskFresh(z)' /\ Position(z, r)' /\ done' = Visible'
    BY <2>1, <2>3, <2>4, MarkKeeps
  <2> QED BY <1>0, <2>5 DEF StoreMatchesFiles
<1>8. CASE SaveFails
  <2>1. /\ pc' = "teardown" /\ faults' = faults + 1
        /\ UNCHANGED <<idx, fs, mounted, rootdev, snap>>
        /\ pc \in {"run", "ask"} /\ idx \in 1..Len(Steps) /\ op \in Nat
    BY <1>8 DEF SaveFails, TypeOK
  <2>2. CASE pc = "run" /\ op > Len(Step.ops) /\ Mark(Step.key)
    <3>1. Len(Step.ops) \in Nat /\ DOMAIN Step.ops = 1..Len(Step.ops)
      BY <2>1, StepType DEF Step
    <3>2. idx = z => op > 1
      BY <2>1, <2>2, <3>1 DEF DiskFirst, Step
    <3>3. idx = r => "root" \in mounted
      <4> SUFFICES ASSUME idx = r PROVE "root" \in mounted
        OBVIOUS
      <4>1. PICK j \in DOMAIN Steps[r].ops : Steps[r].ops[j].kind = "root"
        BY DEF DiskFirst, OpsOf
      <4>2. j < op
        BY <2>1, <2>2, <3>1, <4>1 DEF Step
      <4> QED BY <2>1, <2>2, <4>1, <4>2 DEF Position
    <3>4. LiveBare' /\ DiskFresh(z)' /\ Position(z, r)'
      BY <2>1, <2>2, <3>2, <3>3, MarkKeeps
    <3> QED BY <1>0, <2>1, <3>4 DEF StoreMatchesFiles
  <2>3. CASE UNCHANGED <<runFile, stateFile>>
    <3>1. Position(z, r)'
      BY <2>1 DEF Position
    <3> QED BY <1>q, <2>1, <2>3, <3>1
  <2> QED BY <1>8, <2>2, <2>3 DEF SaveFails
<1>18. CASE OwnSaveFails
  <2>1. /\ pc = "run" /\ pc' = "ask" /\ faults' = faults + 1 /\ faults \in Nat
        /\ done' = Marked(Step.key) /\ Step.saves
        /\ UNCHANGED <<idx, op, snap, runFile, stateFile, fs, mounted, rootdev>>
        /\ idx \in DOMAIN Steps /\ idx \in Nat
    BY <1>18, StepType DEF OwnSaveFails, world, TypeOK
  <2>2. Visible' = Visible /\ LiveBare'
    BY <2>1, StoreQuiet
  <2>3. DiskFresh(z)'
    BY <2>1 DEF DiskFresh
  <2>4. done' \subseteq done \cup {Step.key} \cup Visible /\ done \subseteq done'
    BY <2>1 DEF Marked, Visible
  <2>5. Position(z, r)'
    BY <2>1, <2>4 DEF Position
  <2>6. Unsaved \subseteq Unsaved'
    BY <2>1, UnsavedGrows
  <2>7. Step.key \in Unsaved'
    <3>1. idx <= idx' /\ faults' > 0 /\ Steps[idx].saves /\ Step.key = Steps[idx].key
      BY <2>1 DEF Step
    <3> QED BY <2>1, <3>1 DEF Unsaved
  <2>8. StoreMatchesFiles'
    BY <1>m, <2>1, <2>2, <2>4, <2>6, <2>7 DEF StoreMatchesFiles
  <2> QED BY <1>0, <2>2, <2>3, <2>5, <2>8
<1>9. CASE Retry
  <2>1. /\ pc = "ask" /\ pc' = "loop"
        /\ UNCHANGED <<done, runFile, stateFile, fs, mounted, rootdev, idx, snap, faults>>
    BY <1>9 DEF Retry, world, budget
  <2>2. Position(z, r)'
    BY <2>1 DEF Position
  <2> QED BY <1>q, <2>1, <2>2
<1>10. CASE Skip
  <2>1. /\ pc = "ask" /\ pc' = "loop" /\ idx' = idx + 1
        /\ Mark(Step.key) /\ UNCHANGED <<fs, mounted, rootdev, snap>>
        /\ idx \in 1..Len(Steps) /\ Step.key \in Skippable
    BY <1>10 DEF Skip, TypeOK
  <2>2. idx # z /\ idx # r
    BY <2>1 DEF Undisturbed, Step
  <2>3. LiveBare' /\ DiskFresh(z)' /\ Position(z, r)' /\ done' = Visible'
    BY <2>1, <2>2, MarkKeeps
  <2> QED BY <1>0, <2>3 DEF StoreMatchesFiles
<1>11. CASE Abort \/ Complete
  <2>1. /\ pc' = "teardown"
        /\ UNCHANGED <<runFile, stateFile, fs, mounted, rootdev, idx, faults>>
    BY <1>11 DEF Abort, Complete, world, budget
  <2>2. Position(z, r)'
    BY <2>1 DEF Position
  <2> QED BY <1>q, <2>1, <2>2
<1>12. CASE Teardown
  <2>1. /\ pc = "teardown" /\ pc' \in {"teardown", "idle"}
        /\ UNCHANGED <<done, runFile, stateFile, fs, rootdev>>
    BY <1>12 DEF Teardown
  <2>2. "root" \in mounted' <=> "root" \in mounted
    <3>1. tear \in 1..4 => TeardownOrder[tear] # "root"
      BY DEF TeardownOrder
    <3>2. tear <= Len(TeardownOrder) => tear \in 1..4
      BY Lengths DEF TypeOK
    <3> QED BY <1>12, <3>1, <3>2 DEF Teardown
  <2>3. LiveBare' /\ Position(z, r)'
    BY <2>1, <2>2 DEF LiveBare, Position
  <2>4. DiskFresh(z)'
    BY <2>1, <2>2 DEF DiskFresh
  <2> QED BY <1>0, <2>1, <2>3, <2>4 DEF StoreMatchesFiles
<1>13. CASE Kill
  <2>1. pc' = "idle" /\ UNCHANGED <<runFile, stateFile, fs, mounted>>
    BY <1>13 DEF Kill, world
  <2>2. LiveBare' /\ Position(z, r)' /\ DiskFresh(z)' /\ StoreMatchesFiles'
    BY <2>1 DEF LiveBare, Position, DiskFresh, StoreMatchesFiles
  <2> QED BY <1>0, <2>2
<1>14. CASE Reboot
  <2>1. /\ pc' = "idle" /\ runFile' = {}
        /\ fs' = [fs EXCEPT ![Live] = {}] /\ stateFile' = [stateFile EXCEPT ![Live] = {}]
    BY <1>14 DEF Reboot
  <2>2. Live \in Volumes /\ d0 \in Volumes /\ d0 # Live
    BY <1>p, DisksAssumption DEF Volumes
  <2>3. fs'[Live] = {} /\ stateFile'[Live] = {} /\ fs'[d0] = fs[d0] /\ stateFile'[d0] = stateFile[d0]
    BY <2>1, <2>2 DEF TypeOK
  <2>4. LiveBare' /\ Position(z, r)' /\ DiskFresh(z)' /\ StoreMatchesFiles'
    BY <1>p, <2>1, <2>3 DEF LiveBare, Position, DiskFresh, StoreMatchesFiles
  <2> QED BY <1>0, <2>4
<1>15. CASE Unmount
  BY <1>15 DEF Unmount, Undisturbed, TypeOK
<1>16. CASE UNCHANGED vars
  <2>1. UNCHANGED <<pc, idx, op, snap, faults, done, runFile, stateFile, fs, mounted, rootdev>>
    BY <1>16 DEF vars
  <2>2. Position(z, r)' /\ DiskFresh(z)' /\ LiveBare' /\ Visible' = Visible
    BY <2>1, StoreQuiet DEF Position, DiskFresh
  <2>3. Unsaved' = Unsaved
    BY <2>1 DEF Unsaved
  <2> QED BY <1>0, <1>m, <2>1, <2>2, <2>3 DEF StoreMatchesFiles
<1> QED
  BY <1>1, <1>2, <1>3, <1>4, <1>5, <1>6, <1>7, <1>8, <1>9, <1>10, <1>11,
     <1>12, <1>13, <1>14, <1>15, <1>16, <1>18 DEF Next

\* While a run is under way its store holds what the visible state files
\* record, and beyond it only marks of steps that mark themselves and whose
\* save failed, across stage3 (where the file moves from the live medium to
\* the target), faults, retries, skips, kills and reboots.
THEOREM StoreIsOnDisk == ASSUME Undisturbed PROVE Spec => []StoreMatchesFiles
<1>1. PICK z \in DOMAIN Steps, r \in DOMAIN Steps : DiskFirst(z, r)
  BY OrderAssumption
<1>2. Init => StoreInv(z, r)
  BY StoreInit
<1>3. StoreInv(z, r) /\ [Next]_vars => StoreInv(z, r)'
  BY <1>1, StoreNext
<1>4. StoreInv(z, r) => StoreMatchesFiles
  BY DEF StoreInv
<1> QED BY <1>2, <1>3, <1>4, PTL DEF Spec

\* What a step of the engine keeps of the state files.
KeepsMarks == \A v \in Volumes : stateFile[v] \subseteq stateFile'[v] \/ fs'[v] = {}

\* Only a wipe, or the reboot that empties the live medium, drops marks.
LEMMA MarksKept ==
    ASSUME TypeOK, StoreMatchesFiles, [Next]_vars PROVE [KeepsMarks]_vars
<1> SUFFICES ASSUME Next PROVE KeepsMarks
  BY DEF KeepsMarks, vars
<1>1. ASSUME UNCHANGED stateFile PROVE KeepsMarks
  BY <1>1 DEF KeepsMarks
<1>2. ASSUME pc \in {"run", "ask"}, Mark(Step.key), UNCHANGED <<fs, mounted, rootdev>>
      PROVE  KeepsMarks
  <2>1. Step.key \in STRING /\ Visible \subseteq done
    BY <1>2, StepType DEF TypeOK, Step, StoreMatchesFiles
  <2> QED BY <1>2, <2>1, MarkMatches DEF KeepsMarks
<1>3. CASE RunOp
  <2> DEFINE o == Step.ops[op]
  <2>1. CASE o.kind = "zap"
    <3>1. fs' = [fs EXCEPT ![disk] = {}] /\ stateFile' = [stateFile EXCEPT ![disk] = {}]
      BY <1>3, <2>1 DEF RunOp, Perform
    <3> QED BY <3>1 DEF KeepsMarks, TypeOK, Volumes
  <2>2. CASE o.kind # "zap"
    BY <1>1, <1>3, <2>2 DEF RunOp, Perform
  <2> QED BY <2>1, <2>2
<1>4. CASE FinishStep
  BY <1>2, <1>4 DEF FinishStep
<1>5. CASE Skip
  BY <1>2, <1>5 DEF Skip
<1>8. CASE SaveFails
  BY <1>1, <1>2, <1>8 DEF SaveFails
<1>6. CASE Reboot
  BY <1>6 DEF Reboot, KeepsMarks, TypeOK
<1>7. CASE \/ \E d \in Disks : StartRun(d) \/ Remount(d)
           \/ PassOver \/ BeginStep \/ FailOp \/ OwnSaveFails \/ Retry \/ Abort
           \/ Complete \/ Teardown \/ Kill \/ Unmount
  BY <1>1, <1>7 DEF StartRun, Remount, PassOver, BeginStep, FailOp, OwnSaveFails, Retry,
     Abort, Complete, Teardown, Kill, Unmount, world
<1> QED BY <1>3, <1>4, <1>5, <1>6, <1>7, <1>8 DEF Next

\* A mark once saved for a volume stays until the volume is wiped: no save
\* overwrites a state file with less than it held.
THEOREM MarksStay == ASSUME Undisturbed PROVE Spec => MarksNeverLost
<1>1. TypeOK /\ StoreMatchesFiles /\ [Next]_vars => [KeepsMarks]_vars
  BY MarksKept
<1>2. MarksNeverLost <=> [][KeepsMarks]_vars
  BY DEF MarksNeverLost, KeepsMarks
<1>3. Spec => []StoreMatchesFiles
  BY StoreIsOnDisk
<1> QED BY <1>1, <1>2, <1>3, TypeCorrect, PTL DEF Spec

-----------------------------------------------------------------------------
(* The chroot: what runs in the target finds the pseudo-filesystems. *)

\* The user skips neither of the two steps, and neither the mounting of the
\* pseudo-filesystems nor their unmounting is cut short: both are passed over
\* or left half-done by what looks at "proc" alone.
ChrootWhole ==
    \A f, c \in DOMAIN Steps : ChrootReady(f, c) =>
        /\ {Steps[f].key, Steps[c].key} \cap Skippable = {}
        /\ {Steps[c].key, "teardown"} \cap Fallible = {}

InRun == pc \in {"loop", "run", "ask"}
Mounting(c) == pc = "run" /\ idx = c

\* <root>/etc is there once step f is behind.
EtcThere(f) ==
    /\ \A v \in Volumes : "fstab" \in fs[v] => "etc" \in fs[v]
    /\ InRun /\ idx > f => "etc" \in fs[Where]
    /\ pc = "run" /\ idx = f /\ op > 1 => "etc" \in fs[Where]

\* The pseudo-filesystems are mounted all or not at all, except while step c
\* mounts them or the teardown unmounts them one by one.
AllOrNone(c) ==
    ~Mounting(c) /\ ~(pc = "teardown" /\ opened) =>
        mounted \cap Pseudo = {} \/ Pseudo \subseteq mounted

\* How far step c has come, and what lies behind it.
Bound(c) ==
    /\ InRun /\ idx > c => Pseudo \subseteq mounted
    /\ Mounting(c) => \A k \in 1..4 : k < op => Steps[c].ops[k].obj \in mounted
    /\ ~(pc = "ask" /\ idx = c)
    /\ InRun => tear = 1
    /\ pc = "teardown" => \A k \in 1..4 : k < tear => TeardownOrder[k] \notin mounted

\* As long as no run was killed, what is mounted was mounted by this run, which
\* knows it.
OwnMounts(c) ==
    kills = 0 =>
        /\ pc = "idle" => mounted \cap Pseudo = {}
        /\ InRun /\ idx > c => opened
        /\ InRun /\ ~(idx > c) /\ ~Mounting(c) => mounted \cap Pseudo = {}
        /\ pc = "teardown" => opened \/ mounted \cap Pseudo = {}

ChrootIInv(f, c) == TypeOK /\ EtcThere(f) /\ AllOrNone(c) /\ Bound(c) /\ OwnMounts(c)

\* The pseudo-filesystems, by name.
LEMMA PseudoNames ==
    /\ TeardownOrder[1] = "run" /\ TeardownOrder[2] = "dev"
    /\ TeardownOrder[3] = "sys" /\ TeardownOrder[4] = "proc"
    /\ "proc" \in Pseudo /\ "root" \notin Pseudo
    /\ \A m \in Pseudo : \E k \in 1..4 : TeardownOrder[k] = m
BY DEF TeardownOrder, Pseudo

\* The two steps in the list, and the steps that DiskFirst names before them.
LEMMA ChrootOrder ==
    ASSUME NEW f \in DOMAIN Steps, NEW c \in DOMAIN Steps, ChrootReady(f, c),
           NEW z \in DOMAIN Steps, NEW r \in DOMAIN Steps, DiskFirst(z, r)
    PROVE  /\ z < r /\ r < f /\ f < c
           /\ z \in Nat /\ r \in Nat /\ f \in 1..Len(Steps) /\ c \in 1..Len(Steps)
           /\ Len(Steps) \in Nat /\ Len(Steps[f].ops) \in Nat /\ Len(Steps[c].ops) \in Nat
           /\ DOMAIN Steps[c].ops = 1..Len(Steps[c].ops)
<1>1. DOMAIN Steps = 1..Len(Steps) /\ Len(Steps) \in Nat
  BY StepsAssumption
<1>2. f \in 1..Len(Steps) /\ c \in 1..Len(Steps)
  BY <1>1
<1>3. /\ Len(Steps[f].ops) \in Nat /\ Len(Steps[c].ops) \in Nat
      /\ DOMAIN Steps[c].ops = 1..Len(Steps[c].ops)
      /\ DOMAIN Steps[f].ops = 1..Len(Steps[f].ops)
  BY <1>2, StepType
<1>4. Steps[f].ops[1] \in OpsOf(Steps[f]) /\ Steps[f].ops[1].kind = "write"
  BY <1>3 DEF OpsOf, ChrootReady
<1>5. f > r
  BY <1>4 DEF DiskFirst
<1> QED BY <1>1, <1>2, <1>3, <1>5 DEF DiskFirst, ChrootReady

\* The effect that a run is about to perform.
LEMMA AtOp ==
    ASSUME TypeOK, pc = "run", op <= Len(Step.ops)
    PROVE  /\ idx \in 1..Len(Steps) /\ idx \in DOMAIN Steps /\ op \in 1..Len(Steps[idx].ops)
           /\ op \in DOMAIN Steps[idx].ops /\ Step.ops[op] = Steps[idx].ops[op]
           /\ Step.ops[op] \in OpsOf(Steps[idx]) /\ Step.ops[op].kind \in Kinds
           /\ Step.ops[op].obj \in STRING
<1>1. idx \in 1..Len(Steps)
  BY DEF TypeOK
<1>2. Len(Steps[idx].ops) \in Nat
  BY <1>1, StepType
<1>3. op \in 1..Len(Steps[idx].ops)
  BY <1>2 DEF TypeOK, Step
<1>4. idx \in DOMAIN Steps /\ op \in DOMAIN Steps[idx].ops
  BY <1>1, <1>3, StepType, OpType
<1> QED BY <1>1, <1>3, <1>4, OpType DEF OpsOf, Step

\* None of step c's effects is refused.
LEMMA NoRefusal ==
    ASSUME NEW f \in DOMAIN Steps, NEW c \in DOMAIN Steps, ChrootReady(f, c),
           ChrootIInv(f, c), Mounting(c), op <= Len(Step.ops)
    PROVE  CanPerform(Step.ops[op])
<1> DEFINE o == Step.ops[op]
<1>1. /\ op \in DOMAIN Steps[c].ops /\ o = Steps[c].ops[op]
      /\ c \in Nat /\ f \in Nat
  BY AtOp, StepsAssumption DEF ChrootIInv, Mounting
<1>2. o.kind \in {"mount", "write"} /\ o.needs \subseteq {"etc"} /\ (o.needs = {} \/ "etc" \in fs[Where])
  BY <1>1 DEF ChrootReady, ChrootIInv, EtcThere, Mounting, InRun
<1> QED BY <1>2 DEF CanPerform

\* Performing an effect keeps the chroot whole.
LEMMA ChrootRunOp ==
    ASSUME NEW f \in DOMAIN Steps, NEW c \in DOMAIN Steps, ChrootReady(f, c),
           NEW z \in DOMAIN Steps, NEW r \in DOMAIN Steps, DiskFirst(z, r),
           ChrootIInv(f, c), RunOp
    PROVE  EtcThere(f)' /\ AllOrNone(c)' /\ Bound(c)' /\ OwnMounts(c)'
<1> DEFINE o == Step.ops[op]
<1>1. /\ pc = "run" /\ op <= Len(Step.ops) /\ Perform(o) /\ op' = op + 1 /\ op \in Nat
      /\ op >= 1
      /\ UNCHANGED <<pc, idx, disk, opened, tear, kills>>
  BY DEF RunOp, ChrootIInv, TypeOK, budget
<1>2. /\ idx \in 1..Len(Steps) /\ idx \in DOMAIN Steps /\ op \in DOMAIN Steps[idx].ops
      /\ o = Steps[idx].ops[op] /\ o \in OpsOf(Steps[idx]) /\ o.kind \in Kinds
  BY <1>1, AtOp DEF ChrootIInv
<1>3. /\ o.kind = "zap" => idx = z
      /\ o.kind = "blk" => idx = z /\ o.obj # "etc"
      /\ o.kind = "root" => idx = r /\ o.obj = "root"
      /\ o.kind = "mount" => o.obj # "root"
      /\ o.kind \in {"write", "create"} => idx > r
      /\ o.obj = "fstab" => idx = f
      /\ o.kind = "mount" /\ o.obj \in Pseudo => idx = c
  BY <1>2 DEF DiskFirst, ChrootReady
<1>4. /\ z < r /\ r < f /\ f < c /\ z \in Nat /\ r \in Nat /\ f \in Nat /\ c \in Nat
  BY ChrootOrder
<1>5. /\ Where \in Volumes /\ disk \in Volumes /\ fs \in [Volumes -> SUBSET STRING]
  BY WhereType DEF ChrootIInv, TypeOK, Volumes
<1>6. /\ idx = f /\ op = 1 => o.kind = "write" /\ o.obj = "etc"
      /\ idx = c => IF op <= 4 THEN o.kind = "mount" /\ o.obj = Steps[c].ops[op].obj
                    ELSE o.kind = "write"
  BY <1>2 DEF ChrootReady
<1> HIDE DEF o
<1>7. EtcThere(f)'
  <2>1. \A v \in Volumes : "fstab" \in fs'[v] => "etc" \in fs'[v]
    <3>1. CASE o.kind = "zap"
      BY <1>1, <1>5, <3>1 DEF Perform, ChrootIInv, EtcThere
    <3>2. CASE o.kind = "blk"
      BY <1>1, <1>3, <1>4, <1>5, <3>2 DEF Perform, ChrootIInv, EtcThere
    <3>3. CASE o.kind \in {"write", "create"}
      <4>1. fs' = [fs EXCEPT ![Where] = @ \cup {o.obj}]
        BY <1>1, <3>3 DEF Perform
      <4>2. o.obj = "fstab" => "etc" \in fs[Where]
        BY <1>1, <1>3, <1>6 DEF ChrootIInv, EtcThere
      <4> QED BY <1>5, <4>1, <4>2 DEF ChrootIInv, EtcThere
    <3>4. CASE o.kind \notin {"zap", "blk", "write", "create"}
      BY <1>1, <3>4 DEF Perform, ChrootIInv, EtcThere
    <3> QED BY <3>1, <3>2, <3>3, <3>4
  <2>2. ASSUME idx >= f PROVE Where' = Where /\ fs[Where] \subseteq fs'[Where]
    <3>1. o.kind \notin {"zap", "blk", "root"}
      BY <1>3, <1>4, <1>2, <2>2
    <3>2. Where' = Where
      BY <1>1, <1>3, <3>1 DEF Perform, Where
    <3> QED BY <1>1, <1>5, <3>1, <3>2 DEF Perform
  <2>3. ASSUME idx > f PROVE "etc" \in fs'[Where']
    BY <1>1, <1>2, <1>4, <2>2, <2>3 DEF ChrootIInv, EtcThere, InRun
  <2>4. ASSUME idx = f PROVE "etc" \in fs'[Where']
    <3>1. CASE op = 1
      BY <1>1, <1>2, <1>4, <1>5, <1>6, <2>2, <2>4, <3>1 DEF Perform
    <3>2. CASE op # 1
      BY <1>1, <1>2, <1>4, <2>2, <2>4, <3>2 DEF ChrootIInv, EtcThere
    <3> QED BY <3>1, <3>2
  <2> QED BY <1>1, <2>1, <2>3, <2>4 DEF EtcThere, InRun
<1>8. CASE idx = c
  <2>1. \A k \in 1..4 : k < op' => Steps[c].ops[k].obj \in mounted'
    <3>1. mounted \subseteq mounted'
      BY <1>1 DEF Perform
    <3>2. \A k \in 1..4 : k < op => Steps[c].ops[k].obj \in mounted
      BY <1>1, <1>8 DEF ChrootIInv, Bound, Mounting
    <3>3. op <= 4 => Steps[c].ops[op].obj \in mounted'
      BY <1>1, <1>6, <1>8 DEF Perform
    <3> QED BY <1>1, <3>1, <3>2, <3>3
  <2> QED BY <1>1, <1>4, <1>7, <1>8, <2>1 DEF AllOrNone, Bound, OwnMounts, ChrootIInv, Mounting, InRun
<1>9. CASE idx # c
  <2>1. mounted' \cap Pseudo = mounted \cap Pseudo
    BY <1>1, <1>3, <1>9, PseudoNames DEF Perform
  <2> QED BY <1>1, <1>7, <1>9, <2>1 DEF AllOrNone, Bound, OwnMounts, Mounting, InRun, ChrootIInv
<1> QED BY <1>7, <1>8, <1>9

\* Every action keeps the chroot whole.
LEMMA ChrootNext ==
    ASSUME NEW f \in DOMAIN Steps, NEW c \in DOMAIN Steps, ChrootReady(f, c),
           NEW z \in DOMAIN Steps, NEW r \in DOMAIN Steps, DiskFirst(z, r),
           ChrootWhole, ChrootIInv(f, c), [Next]_vars
    PROVE  ChrootIInv(f, c)'
<1>0. TypeOK /\ TypeOK' /\ EtcThere(f) /\ AllOrNone(c) /\ Bound(c) /\ OwnMounts(c)
  BY TypeNext DEF ChrootIInv
<1>o. /\ f < c /\ f \in 1..Len(Steps) /\ c \in 1..Len(Steps) /\ Len(Steps) \in Nat
      /\ Len(Steps[f].ops) \in Nat /\ Len(Steps[c].ops) \in Nat
  BY ChrootOrder
<1>w. /\ Steps[f].key \notin Skippable /\ Steps[c].key \notin Skippable
      /\ Steps[c].key \notin Fallible /\ "teardown" \notin Fallible
  BY DEF ChrootWhole
<1>t. /\ idx \in Nat /\ op \in Nat \ {0} /\ tear \in 1..5 /\ Len(TeardownOrder) = 4
  BY <1>0, <1>o, Lengths DEF TypeOK
<1>s. Step = Steps[idx]
  BY DEF Step
<1> USE DEF InRun, Mounting
\* What the run mounted it knows of, as long as it mounts and unmounts nothing.
<1>p. ASSUME UNCHANGED mounted, kills' = 0 => kills = 0, pc' = "idle" => kills' # 0,
             InRun' => \/ pc = "idle" /\ idx' = 1
                       \/ /\ InRun /\ idx' = idx /\ (opened => opened')
                          /\ Mounting(c) => Mounting(c)'
                       \/ /\ InRun /\ idx' = idx + 1
                          /\ idx # c => (opened => opened')
                          /\ idx = c => opened' \/ ("proc" \in mounted /\ ~Mounting(c)),
             pc' = "teardown" => InRun /\ (opened => opened') /\ (Mounting(c) => opened')
      PROVE  OwnMounts(c)'
  <2> SUFFICES ASSUME kills' = 0 PROVE OwnMounts(c)'
    BY DEF OwnMounts
  <2>0. kills = 0 /\ pc' # "idle"
    BY <1>p
  <2>1. ASSUME InRun', idx' > c PROVE opened'
    BY <1>0, <1>o, <1>t, <1>p, <2>0, <2>1, PseudoNames DEF OwnMounts
  <2>2. ASSUME InRun', ~(idx' > c), ~Mounting(c)' PROVE mounted' \cap Pseudo = {}
    BY <1>0, <1>o, <1>t, <1>p, <2>0, <2>2 DEF OwnMounts
  <2>3. ASSUME pc' = "teardown" PROVE opened' \/ mounted' \cap Pseudo = {}
    BY <1>0, <1>o, <1>t, <1>p, <2>0, <2>3 DEF OwnMounts
  <2> QED BY <2>0, <2>1, <2>2, <2>3 DEF OwnMounts
\* Nothing is mounted, unmounted or written.
<1>q. ASSUME UNCHANGED <<fs, mounted, rootdev>>,
             pc' = "run" => op' = 1 \/ (pc = "run" /\ UNCHANGED <<idx, op>>),
             pc' \in {"loop", "run", "ask"} =>
                \/ pc \in {"loop", "run", "ask"} /\ idx' = idx
                \/ idx' = 1
                \/ /\ pc \in {"loop", "run", "ask"} /\ idx' = idx + 1
                   /\ idx = f => "etc" \in fs[Where]
                   /\ idx = c => Pseudo \subseteq mounted,
             ~(pc' = "ask" /\ idx' = c),
             pc = "run" /\ idx = c =>
                \/ pc' = "run" /\ idx' = c
                \/ Pseudo \subseteq mounted
                \/ pc' = "teardown" /\ opened',
             pc = "teardown" => pc' = "teardown" /\ UNCHANGED <<opened, tear>>,
             pc' \in {"loop", "run", "ask"} => tear' = 1,
             pc' = "teardown" => pc = "teardown" \/ tear' = 1,
             OwnMounts(c)'
      PROVE  ChrootIInv(f, c)'
  <2>1. Where' = Where
    BY <1>q DEF Where
  <2>2. EtcThere(f)'
    <3>1. \A v \in Volumes : "fstab" \in fs'[v] => "etc" \in fs'[v]
      BY <1>0, <1>q DEF EtcThere
    <3>2. ASSUME InRun', idx' > f PROVE "etc" \in fs'[Where']
      BY <1>0, <1>o, <1>t, <1>q, <2>1, <3>2 DEF EtcThere
    <3>3. ASSUME pc' = "run", idx' = f, op' > 1 PROVE "etc" \in fs'[Where']
      BY <1>0, <1>t, <1>q, <2>1, <3>3 DEF EtcThere
    <3> QED BY <3>1, <3>2, <3>3 DEF EtcThere
  <2>3. AllOrNone(c)'
    <3>1. CASE pc = "run" /\ idx = c
      BY <1>q, <3>1 DEF AllOrNone
    <3>2. CASE pc = "teardown"
      BY <1>0, <1>q, <3>2 DEF AllOrNone
    <3> QED BY <1>0, <1>q, <3>1, <3>2 DEF AllOrNone
  <2>4. Bound(c)'
    <3>1. ASSUME InRun', idx' > c PROVE Pseudo \subseteq mounted'
      BY <1>0, <1>o, <1>t, <1>q, <3>1 DEF Bound
    <3>2. ASSUME Mounting(c)' PROVE \A k \in 1..4 : k < op' => Steps[c].ops[k].obj \in mounted'
      BY <1>0, <1>t, <1>q, <3>2 DEF Bound
    <3>3. ASSUME pc' = "teardown" PROVE \A k \in 1..4 : k < tear' => TeardownOrder[k] \notin mounted'
      BY <1>0, <1>t, <1>q, <3>3 DEF Bound
    <3> QED BY <1>q, <3>1, <3>2, <3>3 DEF Bound
  <2> QED BY <1>0, <1>q, <2>2, <2>3, <2>4 DEF ChrootIInv
\* Step c is complete when its last effect is performed.
<1>c. ASSUME pc = "run", idx = c, op > Len(Step.ops) PROVE Pseudo \subseteq mounted /\ Step.opens
  <2>1. \A k \in 1..4 : k < op
    BY <1>o, <1>t, <1>c DEF ChrootReady, Step
  <2>2. {Steps[c].ops[k].obj : k \in 1..4} \subseteq mounted
    BY <1>0, <1>c, <2>1 DEF Bound
  <2> QED BY <1>c, <2>2 DEF ChrootReady, Step
<1>f. ASSUME pc = "run", idx = f, op > Len(Step.ops) PROVE "etc" \in fs[Where]
  <2>1. op > 1
    BY <1>o, <1>t, <1>f DEF ChrootReady, Step
  <2> QED BY <1>0, <1>f, <2>1 DEF EtcThere
<1>1. ASSUME NEW d \in Disks, StartRun(d) PROVE ChrootIInv(f, c)'
  <2>1. OwnMounts(c)'
    BY <1>1, <1>p, <1>o DEF StartRun, world, budget
  <2> QED BY <1>1, <1>q, <1>o, <2>1 DEF StartRun, world
<1>2. ASSUME NEW d \in Disks, Remount(d) PROVE ChrootIInv(f, c)'
  <2>1. /\ pc = "idle" /\ pc' = "idle" /\ mounted' = mounted \cup TargetMounts
        /\ UNCHANGED <<fs, kills>>
    BY <1>2 DEF Remount, budget
  <2>2. TargetMounts \cap Pseudo = {}
    BY DEF TargetMounts
  <2>3. mounted' \cap Pseudo = mounted \cap Pseudo
    BY <2>1, <2>2
  <2> QED BY <1>0, <2>1, <2>3 DEF ChrootIInv, EtcThere, AllOrNone, Bound, OwnMounts
<1>3. CASE PassOver
  <2>1. /\ pc = "loop" /\ pc' = "loop" /\ idx' = idx + 1 /\ IsSatisfied(Step)
        /\ UNCHANGED <<op, tear, opened, kills, fs, mounted, rootdev>>
    BY <1>3 DEF PassOver, world, budget
  <2>2. idx = f => "etc" \in fs[Where]
    BY <1>0, <2>1, WhereType DEF IsSatisfied, ChrootReady, EtcThere, Step
  <2>3. idx = c => Pseudo \subseteq mounted
    BY <1>0, <2>1, PseudoNames DEF IsSatisfied, ChrootReady, AllOrNone, Step
  <2>4. idx = c => "proc" \in mounted
    BY <2>1 DEF IsSatisfied, ChrootReady, Step
  <2>5. OwnMounts(c)'
    BY <1>p, <2>1, <2>4
  <2>6. tear' = 1 /\ ~(pc' = "ask" /\ idx' = c)
    BY <1>0, <2>1 DEF Bound
  <2> QED BY <1>q, <2>1, <2>2, <2>3, <2>5, <2>6
<1>4. CASE BeginStep
  <2>1. OwnMounts(c)'
    BY <1>4, <1>p DEF BeginStep, world, budget
  <2> QED BY <1>0, <1>4, <1>q, <2>1 DEF BeginStep, world, Bound
<1>5. CASE RunOp
  BY <1>0, <1>5, ChrootRunOp DEF ChrootIInv
<1>6. CASE FailOp
  <2>1. /\ pc = "run" /\ pc' = "ask" /\ op <= Len(Step.ops)
        /\ ~CanPerform(Step.ops[op]) \/ Step.key \in Fallible
        /\ UNCHANGED <<idx, op, tear, opened, kills, fs, mounted, rootdev>>
    BY <1>6 DEF FailOp, world
  <2>2. idx # c
    BY <1>w, <2>1, NoRefusal DEF Step
  <2>3. OwnMounts(c)'
    BY <1>p, <2>1, <2>2
  <2> QED BY <1>0, <1>q, <2>1, <2>2, <2>3 DEF Bound
<1>7. CASE FinishStep
  <2>1. /\ pc = "run" /\ pc' = "loop" /\ op > Len(Step.ops) /\ idx' = idx + 1
        /\ opened' = (opened \/ Step.opens)
        /\ UNCHANGED <<op, tear, kills, fs, mounted, rootdev>>
    BY <1>7 DEF FinishStep, budget
  <2>2. OwnMounts(c)'
    BY <1>p, <1>c, <2>1
  <2> QED BY <1>0, <1>q, <1>c, <1>f, <2>1, <2>2 DEF Bound
<1>8. CASE SaveFails
  <2>1. /\ pc' = "teardown" /\ UNCHANGED <<idx, op, tear, kills, fs, mounted, rootdev>>
        /\ \/ pc = "run" /\ op > Len(Step.ops) /\ opened' = (opened \/ Step.opens)
           \/ pc = "ask" /\ opened' = opened
    BY <1>8 DEF SaveFails
  <2>2. OwnMounts(c)'
    BY <1>p, <1>c, <2>1
  <2> QED BY <1>0, <1>q, <1>c, <2>1, <2>2 DEF Bound
<1>18. CASE OwnSaveFails
  <2>1. /\ pc = "run" /\ pc' = "ask" /\ idx # c
        /\ UNCHANGED <<idx, op, tear, opened, kills, fs, mounted, rootdev>>
    BY <1>18 DEF OwnSaveFails, world, ChrootReady, Step
  <2>2. OwnMounts(c)'
    BY <1>p, <2>1
  <2> QED BY <1>0, <1>q, <2>1, <2>2 DEF Bound
<1>9. CASE Retry
  <2>1. OwnMounts(c)'
    BY <1>9, <1>p DEF Retry, world, budget
  <2> QED BY <1>0, <1>9, <1>q, <2>1 DEF Retry, world, Bound
<1>10. CASE Skip
  <2>1. /\ pc = "ask" /\ pc' = "loop" /\ idx' = idx + 1 /\ Step.key \in Skippable
        /\ UNCHANGED <<op, tear, opened, kills, fs, mounted, rootdev>>
    BY <1>10 DEF Skip, budget
  <2>2. idx # f /\ idx # c
    BY <1>w, <2>1 DEF Step
  <2>3. OwnMounts(c)'
    BY <1>p, <2>1, <2>2
  <2> QED BY <1>0, <1>q, <2>1, <2>2, <2>3 DEF Bound
<1>11. CASE Abort
  <2>1. /\ pc = "ask" /\ pc' = "teardown"
        /\ UNCHANGED <<idx, op, tear, opened, kills, fs, mounted, rootdev>>
    BY <1>11 DEF Abort, world, budget
  <2>2. OwnMounts(c)'
    BY <1>p, <2>1
  <2> QED BY <1>0, <1>q, <2>1, <2>2 DEF Bound
<1>12. CASE Complete
  <2>1. /\ pc = "loop" /\ pc' = "teardown"
        /\ UNCHANGED <<idx, op, tear, opened, kills, fs, mounted, rootdev>>
    BY <1>12 DEF Complete, world, budget
  <2>2. OwnMounts(c)'
    BY <1>p, <2>1
  <2> QED BY <1>0, <1>q, <2>1, <2>2 DEF Bound
<1>13. CASE Teardown
  <2>1. CASE opened /\ tear <= Len(TeardownOrder)
    <3>1. /\ pc = "teardown" /\ pc' = "teardown" /\ opened /\ opened' /\ tear' = tear + 1
          /\ mounted' = mounted \ {TeardownOrder[tear]} /\ UNCHANGED <<fs, rootdev, kills>>
      BY <1>13, <2>1 DEF Teardown, budget
    <3>2. \A k \in 1..4 : k < tear' => TeardownOrder[k] \notin mounted'
      BY <1>0, <1>t, <3>1 DEF Bound
    <3> QED BY <1>0, <3>1, <3>2 DEF ChrootIInv, EtcThere, AllOrNone, Bound, OwnMounts
  <2>2. CASE ~(opened /\ tear <= Len(TeardownOrder))
    <3>1. /\ pc = "teardown" /\ pc' = "idle" /\ opened' = opened
          /\ UNCHANGED <<fs, rootdev, mounted, kills>>
      BY <1>13, <2>2 DEF Teardown, budget
    <3>2. opened => mounted \cap Pseudo = {}
      <4>1. opened => \A k \in 1..4 : k < tear
        BY <1>t, <2>2
      <4> QED BY <1>0, <3>1, <4>1, PseudoNames DEF Bound
    <3> QED BY <1>0, <3>1, <3>2 DEF ChrootIInv, EtcThere, AllOrNone, Bound, OwnMounts
  <2> QED BY <2>1, <2>2
<1>14. CASE Kill
  <2>1. /\ pc' = "idle" /\ kills' # 0 /\ UNCHANGED <<fs, mounted, rootdev>>
        /\ pc = "run" => idx # c
        /\ pc # "teardown"
    BY <1>0, <1>14, <1>w DEF Kill, world, Step, TypeOK
  <2> QED BY <1>0, <2>1 DEF ChrootIInv, EtcThere, AllOrNone, Bound, OwnMounts
<1>15. CASE Reboot
  <2>1. /\ pc' = "idle" /\ mounted' = {} /\ fs' = [fs EXCEPT ![Live] = {}]
    BY <1>15 DEF Reboot
  <2>2. \A v \in Volumes : "fstab" \in fs'[v] => "etc" \in fs'[v]
    BY <1>0, <2>1 DEF EtcThere, TypeOK
  <2> QED BY <1>0, <2>1, <2>2 DEF ChrootIInv, EtcThere, AllOrNone, Bound, OwnMounts
<1>16. CASE Unmount
  <2>1. pc' = "idle" /\ mounted' = {} /\ UNCHANGED fs
    BY <1>16 DEF Unmount
  <2> QED BY <1>0, <2>1 DEF ChrootIInv, EtcThere, AllOrNone, Bound, OwnMounts
<1>17. CASE UNCHANGED vars
  BY <1>0, <1>17 DEF ChrootIInv, EtcThere, AllOrNone, Bound, OwnMounts, vars, Where
<1> QED BY <1>1, <1>2, <1>3, <1>4, <1>5, <1>6, <1>7, <1>8, <1>9, <1>10, <1>11, <1>12,
           <1>13, <1>14, <1>15, <1>16, <1>17, <1>18 DEF Next

\* Nothing is mounted when the installer is first opened.
LEMMA ChrootInit ==
    ASSUME NEW f \in DOMAIN Steps, NEW c \in DOMAIN Steps, Init
    PROVE  ChrootIInv(f, c)
<1>1. TypeOK
  BY TypeInit
<1>2. EtcThere(f)
  BY DEF Init, EtcThere, InRun
<1>3. AllOrNone(c) /\ Bound(c) /\ OwnMounts(c)
  BY DEF Init, AllOrNone, Bound, OwnMounts, InRun, Mounting
<1> QED BY <1>1, <1>2, <1>3 DEF ChrootIInv

\* A command runs inside the target only with the four pseudo-filesystems
\* mounted there, whatever failed, was killed, rebooted or unmounted before.
THEOREM ChrootPrepared ==
    ASSUME ChrootWhole
    PROVE  Spec => []ChrootHasPseudo
<1> PICK z \in DOMAIN Steps, r \in DOMAIN Steps : DiskFirst(z, r)
  BY OrderAssumption
<1> PICK f \in DOMAIN Steps, c \in DOMAIN Steps : ChrootReady(f, c)
  BY ChrootAssumption
<1>1. Init => ChrootIInv(f, c)
  BY ChrootInit
<1>2. ChrootIInv(f, c) /\ [Next]_vars => ChrootIInv(f, c)'
  BY ChrootNext
<1>3. ChrootIInv(f, c) => ChrootHasPseudo
  BY StepsAssumption DEF ChrootIInv, TypeOK, Bound, InRun, ChrootHasPseudo, ChrootReady, Step
<1> QED BY <1>1, <1>2, <1>3, PTL DEF Spec

\* As long as no run is killed, none leaves a pseudo-filesystem mounted either.
THEOREM ChrootClean ==
    ASSUME ChrootWhole, MaxKills = 0
    PROVE  Spec => []ChrootInv
<1> PICK z \in DOMAIN Steps, r \in DOMAIN Steps : DiskFirst(z, r)
  BY OrderAssumption
<1> PICK f \in DOMAIN Steps, c \in DOMAIN Steps : ChrootReady(f, c)
  BY ChrootAssumption
<1>1. Init => ChrootIInv(f, c) /\ kills = 0
  BY ChrootInit DEF Init
<1>2. ChrootIInv(f, c) /\ kills = 0 /\ [Next]_vars => ChrootIInv(f, c)' /\ (kills = 0)'
  <2>1. kills = 0 /\ [Next]_vars => kills' = 0
    BY DEF Next, vars, budget, StartRun, Remount, PassOver, BeginStep, RunOp, FailOp, FinishStep,
           SaveFails, OwnSaveFails, Retry, Skip, Abort, Complete, Teardown, Kill, Reboot, Unmount
  <2> QED BY <2>1, ChrootNext
<1>3. ChrootIInv(f, c) /\ kills = 0 => ChrootInv
  <2>1. ChrootIInv(f, c) => ChrootHasPseudo
    BY StepsAssumption DEF ChrootIInv, TypeOK, Bound, InRun, ChrootHasPseudo, ChrootReady, Step
  <2>2. ChrootIInv(f, c) /\ kills = 0 => TeardownClean
    BY DEF ChrootIInv, OwnMounts, TeardownClean
  <2> QED BY <2>1, <2>2 DEF ChrootInv, ChrootIInv
<1> QED BY <1>1, <1>2, <1>3, PTL DEF Spec

-----------------------------------------------------------------------------
(* A run that reports success has installed everything. *)

\* What the k-th effect of step i needs is there: an earlier effect of the same
\* step, or of an earlier one that is requested and that the user does not skip.
Provided(i, k) ==
    \A n \in Steps[i].ops[k].needs :
        \E j \in DOMAIN Steps : \E m \in DOMAIN Steps[j].ops :
            /\ Steps[j].ops[m].obj = n /\ Steps[j].ops[m].kind \notin {"zap", "noop"}
            /\ \/ j = i /\ m < k
               \/ j < i /\ Steps[j].gate # "off" /\ Steps[j].key \notin Skippable

\* One disk; the wipe and the two mounting steps are not skipped; what passes
\* for complete when it is half done is never interrupted; and every command
\* finds what it needs.
Dependable ==
    /\ \E d \in Disks : Disks = {d}
    /\ ChrootWhole
    /\ \A z, r \in DOMAIN Steps : DiskFirst(z, r) =>
         {Steps[z].key, Steps[r].key} \cap Skippable = {} /\ Steps[r].key \notin Fallible
    /\ \A i \in DOMAIN Steps : AllAtOnce(i) => Steps[i].key \notin Fallible
    /\ \A i \in DOMAIN Steps : Steps[i].gate # "off" =>
         \A k \in DOMAIN Steps[i].ops : Provided(i, k)

\* The root is mounted before anything else under it, and a run knows where it
\* stands: what is marked, and what is mounted.
RootFirst(z, r) ==
    /\ mounted # {} => "root" \in mounted
    /\ InRun => runFile \subseteq done
    /\ InRun /\ idx > z => Steps[z].key \in done
    /\ InRun /\ idx > r => "root" \in mounted
    /\ InRun /\ idx < r => (snap <=> "root" \in mounted)
    /\ pc = "run" /\ idx = r => (op > 1 <=> "root" \in mounted)
    /\ pc = "run" /\ idx = z => Steps[z].key \notin done

BaseInv(z, r, f, c) ==
    ChrootIInv(f, c) /\ LiveBare /\ RootFirst(z, r) /\ skipped \subseteq Skippable

\* What a set of marks records is on the disk, and the wipe is recorded with it.
MarksTrue(z, marks) ==
    \A i \in DOMAIN Steps : ByOwnMark(i) /\ Steps[i].key \in marks =>
        /\ Steps[i].key \notin skipped => \A o \in OpsOf(Steps[i]) : InPlace(o)
        /\ i > z => Steps[z].key \in marks

StoresTrue(z) ==
    /\ MarksTrue(z, runFile)
    /\ \A d \in Disks : MarksTrue(z, stateFile[d])
    /\ InRun => MarksTrue(z, done)

\* What passes a step over by its last file is there with the rest of it.
FilesTrue ==
    \A i \in DOMAIN Steps : \A x \in Steps[i].facts :
        ByLastFile(i, x) /\ x \in fs[disk] => \A o \in OpsOf(Steps[i]) : o.obj \in fs[disk]

Doing(i) == pc = "run" /\ idx = i

\* An uninterrupted step is there as a whole, or not at all.
WholesTrue ==
    \A i \in DOMAIN Steps : AllAtOnce(i) =>
        /\ Steps[i].ops[1].obj \in fs[disk] /\ ~Doing(i) =>
             \A o \in OpsOf(Steps[i]) : o.obj \in fs[disk]
        /\ Doing(i) /\ op = 1 => Steps[i].ops[1].obj \notin fs[disk]
        /\ \A k \in DOMAIN Steps[i].ops : Steps[i].ops[k].kind = "create" =>
             /\ Steps[i].ops[k].obj \in fs[disk] => Steps[i].ops[1].obj \in fs[disk]
             /\ Doing(i) /\ k >= op => Steps[i].ops[k].obj \notin fs[disk]

\* The mounts that pass steps r and c over are there with the rest of them.
MountsTrue(r, c) ==
    /\ "root" \in mounted /\ ~Doing(r) => \A o \in OpsOf(Steps[r]) : o.obj \in mounted
    /\ "proc" \in mounted /\ ~Doing(c) /\ ~(pc = "teardown" /\ opened) =>
         \A o \in OpsOf(Steps[c]) : o.kind = "write" => o.obj \in fs[disk]

\* What lies behind the run is in place.
Progress ==
    /\ InRun => \A i \in DOMAIN Steps :
         i < idx /\ Steps[i].gate # "off" /\ Steps[i].key \notin skipped =>
             \A o \in OpsOf(Steps[i]) : InPlace(o)
    /\ pc = "run" => \A k \in DOMAIN Step.ops : k < op => InPlace(Step.ops[k])
    /\ pc \in {"run", "ask"} => Step.gate # "off"

\* The four steps that the argument names.
Layout(z, r, f, c) ==
    /\ z \in DOMAIN Steps /\ r \in DOMAIN Steps /\ f \in DOMAIN Steps /\ c \in DOMAIN Steps
    /\ DiskFirst(z, r) /\ ChrootReady(f, c) /\ GatesSound(z, r, c)

\* Their order, and what the user may not skip and no fault may interrupt.
LEMMA LayoutFacts ==
    ASSUME NEW z, NEW r, NEW f, NEW c, Layout(z, r, f, c), Dependable
    PROVE  /\ z = 1 /\ z < r /\ r < f /\ f < c /\ r \in Nat /\ f \in Nat /\ c \in Nat
           /\ DOMAIN Steps = 1..Len(Steps) /\ Len(Steps) \in Nat
           /\ {z, r, f, c} \subseteq DOMAIN Steps
           /\ Steps[z].gate = "probe" /\ Steps[z].marks = {Steps[z].key}
           /\ Steps[z].facts = {} /\ Steps[z].mnts = {}
           /\ Steps[r].gate = "probe" /\ Steps[r].marks = {} /\ Steps[r].facts = {}
           /\ Steps[r].mnts = {"root"}
           /\ Len(Steps[r].ops) > 0 /\ Len(Steps[z].ops) > 0
           /\ Steps[z].key \notin Skippable /\ Steps[r].key \notin Skippable
           /\ Steps[c].key \notin Skippable /\ Steps[c].key \notin Fallible
           /\ Steps[r].key \notin Fallible /\ "teardown" \notin Fallible
           /\ \E d \in Disks : Disks = {d}
<1>1. DOMAIN Steps = 1..Len(Steps) /\ Len(Steps) \in Nat
  BY StepsAssumption
<1>2. z = 1 /\ z < r /\ r < f /\ f < c /\ r \in Nat /\ f \in Nat /\ c \in Nat
  BY <1>1, ChrootOrder DEF Layout, GatesSound
<1>3. Steps[z].facts = {} /\ Steps[z].mnts = {}
  <2>1. DOMAIN Steps[z].ops = 1..Len(Steps[z].ops) /\ Len(Steps[z].ops) \in Nat
    BY <1>1, StepType DEF Layout
  <2>2. 1 \in DOMAIN Steps[z].ops /\ Steps[z].ops[1].kind = "zap"
    BY <2>1 DEF Layout, DiskFirst
  <2> QED BY <2>2, ZapAssumption DEF Layout
<1>4. Len(Steps[r].ops) > 0
  <2>1. DOMAIN Steps[r].ops = 1..Len(Steps[r].ops) /\ Len(Steps[r].ops) \in Nat
    BY <1>1, StepType DEF Layout
  <2>2. \E k \in DOMAIN Steps[r].ops : TRUE
    BY DEF Layout, DiskFirst, OpsOf
  <2> QED BY <2>1, <2>2
<1>5. /\ Steps[z].key \notin Skippable /\ Steps[r].key \notin Skippable
      /\ Steps[c].key \notin Skippable /\ Steps[c].key \notin Fallible
      /\ Steps[r].key \notin Fallible /\ "teardown" \notin Fallible
  <2>1. /\ {Steps[z].key, Steps[r].key} \cap Skippable = {} /\ Steps[r].key \notin Fallible
    BY DEF Layout, Dependable
  <2>2. /\ {Steps[f].key, Steps[c].key} \cap Skippable = {}
        /\ {Steps[c].key, "teardown"} \cap Fallible = {}
    BY DEF Layout, Dependable, ChrootWhole
  <2> QED BY <2>1, <2>2
<1> QED BY <1>1, <1>2, <1>3, <1>4, <1>5 DEF Layout, DiskFirst, GatesSound, Dependable

\* The one disk.
LEMMA TheDisk ==
    ASSUME TypeOK, Dependable
    PROVE  /\ Disks = {disk} /\ rootdev = disk /\ disk \in Volumes /\ Live \in Volumes
           /\ disk # Live /\ Volumes = {disk, Live}
           /\ "root" \in mounted => Where = disk
           /\ "root" \notin mounted => Where = Live
<1>1. PICK d \in Disks : Disks = {d}
  BY DEF Dependable
<1>2. disk = d /\ rootdev = d
  BY <1>1 DEF TypeOK
<1> QED BY <1>1, <1>2, DisksAssumption DEF Volumes, Where

\* What kinds of effect the steps have.
LEMMA KindOrder ==
    ASSUME NEW z, NEW r, NEW f, NEW c, Layout(z, r, f, c), Dependable,
           NEW i \in DOMAIN Steps, NEW k \in DOMAIN Steps[i].ops
    PROVE  LET o == Steps[i].ops[k]
           IN  /\ o \in OpsOf(Steps[i]) /\ o.kind \in Kinds /\ o.obj \in STRING /\ k \in Nat /\ k >= 1
               /\ o.kind = "zap" => i = z /\ k = 1
               /\ o.kind = "blk" => i = z /\ o.obj # "etc"
               /\ o.kind = "root" => i = r /\ k = 1 /\ o.obj = "root"
               /\ o.kind = "mount" => i \in {r, c} /\ o.obj # "root" /\ (i = r => k # 1)
               /\ o.kind \in {"write", "create"} => i > r
               /\ i = z /\ k = 1 => o.kind = "zap"
               /\ i = r => o.kind = IF k = 1 THEN "root" ELSE "mount"
               /\ i = c => o.kind \in {"mount", "write"}
<1> DEFINE o == Steps[i].ops[k]
<1>1. i \in 1..Len(Steps)
  BY StepsAssumption
<1>2. k \in 1..Len(Steps[i].ops) /\ Len(Steps[i].ops) \in Nat
  BY <1>1, StepType
<1>3. o \in OpsOf(Steps[i]) /\ o.kind \in Kinds /\ o.obj \in STRING
  BY <1>1, <1>2, OpType DEF OpsOf
<1>4. /\ o.kind = "zap" => i = z
      /\ o.kind = "blk" => i = z /\ o.obj # "etc"
      /\ o.kind = "root" => i = r /\ o.obj = "root"
      /\ o.kind = "mount" => o.obj # "root"
      /\ o.kind \in {"write", "create"} => i > r
      /\ i = z /\ k = 1 => o.kind = "zap"
  BY <1>3 DEF Layout, DiskFirst
<1>5. /\ o.kind = "zap" /\ i = z => k = 1
      /\ o.kind = "mount" => i \in {r, c}
      /\ i = r => o.kind = IF k = 1 THEN "root" ELSE "mount"
  BY <1>3 DEF Layout, GatesSound
<1>6. i = c => o.kind \in {"mount", "write"}
  BY DEF Layout, ChrootReady
<1> QED BY <1>2, <1>3, <1>4, <1>5, <1>6

\* The effect that a run is about to perform is one of those.
LEMMA AtKind ==
    ASSUME NEW z, NEW r, NEW f, NEW c, Layout(z, r, f, c), Dependable, TypeOK,
           pc = "run", op <= Len(Step.ops)
    PROVE  LET o == Step.ops[op]
           IN  /\ idx \in DOMAIN Steps /\ op \in DOMAIN Steps[idx].ops /\ o = Steps[idx].ops[op]
               /\ o \in OpsOf(Steps[idx]) /\ o.kind \in Kinds /\ o.obj \in STRING
               /\ idx \in Nat /\ op \in Nat /\ op >= 1
               /\ o.kind = "zap" => idx = z /\ op = 1
               /\ o.kind = "blk" => idx = z /\ o.obj # "etc"
               /\ o.kind = "root" => idx = r /\ op = 1 /\ o.obj = "root"
               /\ o.kind = "mount" => idx \in {r, c} /\ o.obj # "root" /\ (idx = r => op # 1)
               /\ o.kind \in {"write", "create"} => idx > r
               /\ idx = z /\ op = 1 => o.kind = "zap"
               /\ idx = r => o.kind = IF op = 1 THEN "root" ELSE "mount"
               /\ idx = c => o.kind \in {"mount", "write"}
<1>1. /\ idx \in DOMAIN Steps /\ op \in DOMAIN Steps[idx].ops /\ Step.ops[op] = Steps[idx].ops[op]
      /\ Step.ops[op] \in OpsOf(Steps[idx])
  BY AtOp
<1>2. idx \in Nat /\ op \in Nat /\ op >= 1
  BY Lengths DEF TypeOK
<1> QED BY <1>1, <1>2, KindOrder

\* Recording a key leaves the live medium's tree alone and keeps the run file
\* within memory.
LEMMA MarkStores ==
    ASSUME TypeOK, LiveBare, NEW k \in STRING, Mark(k)
    PROVE  /\ done' = Marked(k) /\ done \subseteq done' /\ k \in done'
           /\ runFile \subseteq done => runFile' \subseteq done' /\ done' = done \cup {k}
           /\ stateFile'[Live] = {}
           /\ runFile' \in {runFile, done'}
           /\ \A d \in Disks : stateFile'[d] \in {stateFile[d], done'}
<1>1. Where \in Volumes /\ Live \in Volumes /\ Disks \subseteq Volumes
  BY WhereType DEF Volumes
<1>2. CASE TargetAvailable
  <2>1. /\ done' = done \cup {k} \cup runFile /\ runFile' = runFile /\ done' = Marked(k)
        /\ stateFile' = [stateFile EXCEPT ![Where] = done']
    BY <1>2 DEF Mark, Marked
  <2>2. Where # Live
    BY <1>2 DEF TargetAvailable, LiveBare
  <2> QED BY <1>1, <2>1, <2>2 DEF LiveBare, TypeOK
<1>3. CASE ~TargetAvailable
  BY <1>3 DEF Mark, Marked, LiveBare
<1> QED BY <1>2, <1>3

\* The initial state.
LEMMA BaseInit ==
    ASSUME NEW z, NEW r, NEW f, NEW c, Layout(z, r, f, c), Init
    PROVE  BaseInv(z, r, f, c)
<1>1. ChrootIInv(f, c)
  BY ChrootInit DEF Layout
<1>2. Live \in Volumes
  BY DEF Volumes
<1> QED BY <1>1, <1>2 DEF Init, BaseInv, LiveBare, RootFirst, InRun

\* An effect that is performed.
LEMMA BaseRunOp ==
    ASSUME NEW z, NEW r, NEW f, NEW c, Layout(z, r, f, c), Dependable,
           BaseInv(z, r, f, c), RunOp
    PROVE  LiveBare' /\ RootFirst(z, r)'
<1> DEFINE o == Step.ops[op]
<1>0. TypeOK /\ LiveBare /\ RootFirst(z, r)
  BY DEF BaseInv, ChrootIInv
<1>1. /\ pc = "run" /\ op <= Len(Step.ops) /\ Perform(o) /\ op' = op + 1
      /\ UNCHANGED <<pc, idx, done, runFile, snap, disk>>
  BY DEF RunOp
<1>2. /\ idx \in Nat /\ op \in Nat /\ op >= 1 /\ o.kind \in Kinds
      /\ o.kind = "zap" => idx = z
      /\ o.kind = "blk" => idx = z /\ o.obj # "etc"
      /\ o.kind = "root" => idx = r /\ op = 1 /\ o.obj = "root"
      /\ o.kind = "mount" => idx \in {r, c} /\ o.obj # "root" /\ (idx = r => op # 1)
      /\ o.kind \in {"write", "create"} => idx > r
      /\ idx = r => o.kind = IF op = 1 THEN "root" ELSE "mount"
  BY <1>0, <1>1, AtKind
<1>3. /\ z < r /\ r < c /\ z \in Nat /\ r \in Nat /\ c \in Nat
  BY LayoutFacts
<1>4. /\ disk # Live /\ disk \in Volumes /\ Live \in Volumes
      /\ "root" \in mounted => Where = disk
      /\ fs \in [Volumes -> SUBSET STRING] /\ stateFile \in [Volumes -> SUBSET STRING]
  BY <1>0, TheDisk DEF TypeOK
<1> HIDE DEF o
<1>5. o.kind \in {"write", "create"} => Where = disk
  BY <1>0, <1>1, <1>2, <1>4 DEF RootFirst, InRun
<1>6. LiveBare'
  <2>1. fs'[Live] = fs[Live]
    BY <1>1, <1>4, <1>5 DEF Perform
  <2>2. stateFile'[Live] = stateFile[Live]
    BY <1>1, <1>4 DEF Perform
  <2> QED BY <1>0, <2>1, <2>2 DEF LiveBare
<1>7. RootFirst(z, r)'
  <2>1. mounted \subseteq mounted' /\ ("root" \in mounted' <=> "root" \in mounted \/ o.kind = "root")
    BY <1>1, <1>2 DEF Perform
  <2>2. mounted' # mounted => "root" \in mounted'
    <3>1. o.kind \in {"root", "mount"} => "root" \in mounted'
      BY <1>0, <1>1, <1>2, <1>3, <2>1 DEF RootFirst, InRun
    <3> QED BY <1>1, <3>1 DEF Perform
  <2>3. idx = r => "root" \in mounted'
    BY <1>0, <1>1, <1>2, <2>1 DEF RootFirst
  <2> QED BY <1>0, <1>1, <1>2, <1>3, <2>1, <2>2, <2>3 DEF RootFirst, InRun
<1> QED BY <1>6, <1>7

\* Every action keeps the root first.
LEMMA BaseNext ==
    ASSUME NEW z, NEW r, NEW f, NEW c, Layout(z, r, f, c), Dependable,
           BaseInv(z, r, f, c), [Next]_vars
    PROVE  BaseInv(z, r, f, c)'
<1>0. /\ TypeOK /\ LiveBare /\ RootFirst(z, r) /\ skipped \subseteq Skippable
      /\ ChrootIInv(f, c)' /\ TypeOK'
  BY ChrootNext DEF BaseInv, ChrootIInv, Layout, Dependable
<1>o. /\ z = 1 /\ z < r /\ r \in Nat /\ Len(Steps) \in Nat /\ DOMAIN Steps = 1..Len(Steps)
      /\ Steps[z].gate = "probe" /\ Steps[z].marks = {Steps[z].key}
      /\ Steps[z].facts = {} /\ Steps[z].mnts = {}
      /\ Steps[r].gate = "probe" /\ Steps[r].marks = {} /\ Steps[r].facts = {}
      /\ Steps[r].mnts = {"root"} /\ Len(Steps[r].ops) > 0
      /\ Steps[z].key \notin Skippable /\ Steps[r].key \notin Skippable
  BY LayoutFacts
<1>t. idx \in Nat /\ op \in Nat \ {0}
  BY <1>0, <1>o DEF TypeOK
<1>l. Live \in Volumes /\ fs \in [Volumes -> SUBSET STRING] /\ stateFile \in [Volumes -> SUBSET STRING]
  BY <1>0 DEF TypeOK, Volumes
\* Out of a run, only what is mounted matters.
<1>q. ASSUME pc' \in {"idle", "teardown"}, fs'[Live] \subseteq fs[Live], stateFile'[Live] = {},
             mounted' # {} => "root" \in mounted', skipped' = skipped
      PROVE  BaseInv(z, r, f, c)'
  BY <1>0, <1>q DEF BaseInv, LiveBare, RootFirst, InRun
<1>k. ASSUME pc' \in {"idle", "teardown"}, UNCHANGED <<fs, stateFile, mounted, skipped>>
      PROVE  BaseInv(z, r, f, c)'
  BY <1>0, <1>k DEF BaseInv, LiveBare, RootFirst, InRun
\* In a run, what lies behind it.
<1>r. ASSUME pc' = "loop" \/ pc' = "ask", UNCHANGED <<fs, mounted>>, stateFile'[Live] = {},
             skipped' \subseteq Skippable, runFile' \subseteq done',
             idx' > z => Steps[z].key \in done', idx' > r => "root" \in mounted,
             idx' < r => (snap' <=> "root" \in mounted)
      PROVE  BaseInv(z, r, f, c)'
  BY <1>0, <1>r DEF BaseInv, LiveBare, RootFirst, InRun
<1>1. ASSUME NEW d \in Disks, StartRun(d) PROVE BaseInv(z, r, f, c)'
  <2>1. /\ pc' = "loop" /\ idx' = 1 /\ done' = Load /\ snap' = ("root" \in mounted /\ rootdev = d)
        /\ UNCHANGED <<runFile, stateFile, fs, mounted, skipped>>
    BY <1>1 DEF StartRun, world
  <2>2. rootdev = d
    BY <1>0, <1>1, TheDisk
  <2>3. snap' <=> "root" \in mounted
    BY <2>1, <2>2, Zenon
  <2>4. runFile' \subseteq done'
    BY <2>1 DEF Load
  <2> QED BY <1>0, <1>r, <1>o, <2>1, <2>3, <2>4 DEF LiveBare
<1>2. ASSUME NEW d \in Disks, Remount(d) PROVE BaseInv(z, r, f, c)'
  <2>1. /\ pc' = "idle" /\ mounted' = mounted \cup TargetMounts
        /\ UNCHANGED <<fs, stateFile, skipped>>
    BY <1>2 DEF Remount
  <2>2. PICK e \in OpsOf(Steps[r]) : e.kind = "root" /\ e.obj = "root"
    BY DEF Layout, DiskFirst
  <2>3. "root" \in MountPoints
    BY <2>2 DEF Layout, MountPoints
  <2>4. "root" \in TargetMounts
    BY <2>3, PseudoNames DEF TargetMounts
  <2> QED BY <1>0, <1>q, <2>1, <2>4 DEF LiveBare
<1>3. CASE PassOver
  <2>1. /\ pc = "loop" /\ pc' = "loop" /\ idx' = idx + 1 /\ IsSatisfied(Step)
        /\ UNCHANGED <<done, runFile, fs, stateFile, mounted, snap, skipped>>
    BY <1>3 DEF PassOver, world
  <2>2. idx = z => Steps[z].key \in done
    BY <1>o, <2>1 DEF IsSatisfied, Step
  <2>3. idx = r => "root" \in mounted
    BY <1>o, <2>1 DEF IsSatisfied, Step
  <2> QED BY <1>0, <1>r, <1>o, <1>t, <2>1, <2>2, <2>3 DEF LiveBare, RootFirst, InRun
<1>4. CASE BeginStep
  <2>1. /\ pc = "loop" /\ pc' = "run" /\ idx' = idx /\ op' = 1 /\ ~IsSatisfied(Step)
        /\ UNCHANGED <<done, runFile, fs, stateFile, mounted, snap, skipped>>
    BY <1>4 DEF BeginStep, world
  <2>2. idx = z => Steps[z].key \notin done
    BY <1>o, <2>1 DEF IsSatisfied, Step
  <2>3. idx = r => "root" \notin mounted
    BY <1>o, <2>1 DEF IsSatisfied, Step
  <2>4. LiveBare'
    BY <1>0, <2>1 DEF LiveBare
  <2>5. RootFirst(z, r)'
    BY <1>0, <2>1, <2>2, <2>3 DEF RootFirst, InRun
  <2> QED BY <1>0, <2>1, <2>4, <2>5 DEF BaseInv
<1>5. CASE RunOp
  <2>1. skipped' = skipped
    BY <1>5 DEF RunOp
  <2> QED BY <1>0, <1>5, <2>1, BaseRunOp DEF BaseInv
<1>6. CASE FailOp
  <2>1. /\ pc = "run" /\ pc' = "ask"
        /\ UNCHANGED <<idx, done, runFile, fs, stateFile, mounted, snap, skipped>>
    BY <1>6 DEF FailOp, world
  <2> QED BY <1>0, <1>r, <2>1 DEF LiveBare, RootFirst, InRun
<1>m. ASSUME pc \in {"run", "ask"}, Mark(Step.key), pc' = "loop", idx' = idx + 1,
             UNCHANGED <<fs, mounted, snap>>, skipped' \subseteq Skippable,
             idx = r => "root" \in mounted
      PROVE  BaseInv(z, r, f, c)'
  <2>1. Step.key \in STRING
    BY <1>0, <1>m, StepType DEF TypeOK, Step
  <2>2. /\ done \subseteq done' /\ Step.key \in done' /\ runFile' \subseteq done'
        /\ stateFile'[Live] = {}
    BY <1>0, <1>m, <2>1, MarkStores DEF RootFirst, InRun
  <2>3. idx = z => Step.key = Steps[z].key
    BY DEF Step
  <2> QED BY <1>0, <1>r, <1>o, <1>t, <1>m, <2>2, <2>3 DEF RootFirst, InRun
<1>7. CASE FinishStep
  <2>1. /\ pc = "run" /\ pc' = "loop" /\ op > Len(Step.ops) /\ idx' = idx + 1 /\ Mark(Step.key)
        /\ UNCHANGED <<fs, mounted, snap, skipped>>
    BY <1>7 DEF FinishStep
  <2>2. idx = r => op > 1
    <3>1. Len(Steps[r].ops) \in Nat
      BY StepType, <1>o DEF Layout
    <3> QED BY <1>o, <1>t, <2>1, <3>1 DEF Step
  <2> QED BY <1>0, <1>m, <2>1, <2>2 DEF RootFirst
<1>8. CASE SaveFails
  <2>1. /\ pc \in {"run", "ask"} /\ pc' = "teardown" /\ UNCHANGED <<fs, mounted, skipped>>
        /\ Mark(Step.key) \/ UNCHANGED <<runFile, stateFile>>
    BY <1>8 DEF SaveFails
  <2>2. Step.key \in STRING
    BY <1>0, <2>1, StepType DEF TypeOK, Step
  <2>3. stateFile'[Live] = {}
    BY <1>0, <2>1, <2>2, MarkStores DEF LiveBare
  <2> QED BY <1>0, <1>q, <2>1, <2>3 DEF RootFirst
<1>18. CASE OwnSaveFails
  <2>1. /\ pc = "run" /\ pc' = "ask" /\ done \subseteq done'
        /\ UNCHANGED <<idx, runFile, fs, stateFile, mounted, snap, skipped>>
    BY <1>18 DEF OwnSaveFails, world, Marked
  <2> QED BY <1>0, <1>r, <2>1 DEF LiveBare, RootFirst, InRun
<1>9. CASE Retry
  <2>1. /\ pc = "ask" /\ pc' = "loop"
        /\ UNCHANGED <<idx, done, runFile, fs, stateFile, mounted, snap, skipped>>
    BY <1>9 DEF Retry, world
  <2> QED BY <1>0, <1>r, <2>1 DEF LiveBare, RootFirst, InRun
<1>10. CASE Skip
  <2>1. /\ pc = "ask" /\ pc' = "loop" /\ idx' = idx + 1 /\ Mark(Step.key)
        /\ Step.key \in Skippable /\ skipped' = skipped \cup {Step.key}
        /\ UNCHANGED <<fs, mounted, snap>>
    BY <1>10 DEF Skip
  <2> QED BY <1>0, <1>m, <1>o, <2>1 DEF Step
<1>11. CASE Abort
  BY <1>11, <1>k DEF Abort, world
<1>12. CASE Complete
  BY <1>12, <1>k DEF Complete, world
<1>13. CASE Teardown
  <2>1. /\ pc' \in {"idle", "teardown"} /\ UNCHANGED <<fs, stateFile, skipped>>
        /\ mounted' = mounted \/ mounted' = mounted \ {TeardownOrder[tear]}
    BY <1>13 DEF Teardown
  <2>2. tear \in 1..4 => TeardownOrder[tear] # "root"
    BY PseudoNames DEF TeardownOrder
  <2>3. mounted' # mounted => tear \in 1..4
    BY <1>0, <1>13, Lengths DEF Teardown, TypeOK
  <2>4. mounted' # {} => "root" \in mounted'
    BY <1>0, <2>1, <2>2, <2>3 DEF RootFirst
  <2> QED BY <1>0, <1>q, <2>1, <2>4 DEF LiveBare
<1>14. CASE Kill
  BY <1>14, <1>k DEF Kill, world
<1>15. CASE Reboot
  <2>1. /\ pc' = "idle" /\ fs'[Live] = {} /\ stateFile'[Live] = {} /\ mounted' = {}
        /\ skipped' = skipped
    BY <1>l, <1>15 DEF Reboot
  <2> QED BY <1>q, <2>1
<1>16. CASE Unmount
  BY <1>0, <1>16, <1>q DEF Unmount, LiveBare
<1>17. CASE UNCHANGED vars
  BY <1>0, <1>17 DEF BaseInv, LiveBare, RootFirst, InRun, vars
<1> QED BY <1>1, <1>2, <1>3, <1>4, <1>5, <1>6, <1>7, <1>8, <1>9, <1>10, <1>11, <1>12,
           <1>13, <1>14, <1>15, <1>16, <1>17, <1>18 DEF Next

-----------------------------------------------------------------------------

Rest(z, r, c) ==
    StoresTrue(z) /\ FilesTrue /\ WholesTrue /\ MountsTrue(r, c) /\ Progress

\* An effect that is in place stays, unless the disk is wiped or mounts go.
LEMMA InPlaceStays ==
    ASSUME disk' = disk, fs[disk] \subseteq fs'[disk], mounted \subseteq mounted', NEW o, InPlace(o)
    PROVE  InPlace(o)'
BY DEF InPlace

LEMMA InPlaceOnDisk ==
    ASSUME disk' = disk, fs[disk] \subseteq fs'[disk], NEW o, o.kind \notin {"root", "mount"}, InPlace(o)
    PROVE  InPlace(o)'
BY DEF InPlace

\* An effect that is performed is in place, and nothing else is new.
LEMMA Performed ==
    ASSUME NEW z, NEW r, NEW f, NEW c, Layout(z, r, f, c), Dependable,
           BaseInv(z, r, f, c), RunOp, Step.ops[op].kind # "zap"
    PROVE  LET o == Step.ops[op]
           IN  /\ fs[disk] \subseteq fs'[disk] /\ mounted \subseteq mounted'
               /\ fs'[disk] \subseteq fs[disk] \cup {o.obj}
               /\ mounted' \subseteq mounted \cup {o.obj}
               /\ mounted' # mounted => o.kind \in {"root", "mount"}
               /\ stateFile' = stateFile /\ disk' = disk
               /\ \A e : e = o => InPlace(e)'
<1> DEFINE o == Step.ops[op]
<1>0. TypeOK /\ RootFirst(z, r) /\ LiveBare
  BY DEF BaseInv, ChrootIInv
<1>1. /\ pc = "run" /\ op <= Len(Step.ops) /\ Perform(o) /\ disk' = disk
  BY DEF RunOp
<1>2. /\ o.kind \in Kinds
      /\ o.kind \in {"write", "create"} => idx > r
  BY <1>0, <1>1, AtKind
<1>3. /\ disk \in Volumes /\ fs \in [Volumes -> SUBSET STRING]
      /\ "root" \in mounted => Where = disk
  BY <1>0, TheDisk DEF TypeOK
<1>4. o.kind \in {"write", "create"} => Where = disk
  BY <1>0, <1>1, <1>2, <1>3 DEF RootFirst, InRun
<1> HIDE DEF o
<1>5. /\ fs'[disk] = IF o.kind \in {"blk", "write", "create"} THEN fs[disk] \cup {o.obj} ELSE fs[disk]
      /\ mounted' = IF o.kind \in {"root", "mount"} THEN mounted \cup {o.obj} ELSE mounted
      /\ stateFile' = stateFile
  <2>1. o.kind # "zap"
    BY DEF o
  <2> QED BY <1>1, <1>3, <1>4, <2>1 DEF Perform
<1>6. \A e : e = o => InPlace(e)'
  BY <1>1, <1>2, <1>5 DEF InPlace, Kinds
<1> QED BY <1>1, <1>5, <1>6 DEF o

\* Wiping the disk leaves nothing that could pass a step over.
LEMMA RestZap ==
    ASSUME NEW z, NEW r, NEW f, NEW c, Layout(z, r, f, c), Dependable,
           BaseInv(z, r, f, c), Rest(z, r, c), RunOp, Step.ops[op].kind = "zap"
    PROVE  Rest(z, r, c)'
<1> DEFINE o == Step.ops[op]
<1>0. TypeOK /\ RootFirst(z, r) /\ LiveBare /\ TypeOK'
  BY TypeNext DEF BaseInv, ChrootIInv, Next
<1>1. /\ pc = "run" /\ op <= Len(Step.ops) /\ Perform(o) /\ CanPerform(o) /\ op' = op + 1
      /\ UNCHANGED <<pc, disk, idx, done, runFile, skipped, opened>>
  BY DEF RunOp
<1>2. idx = z /\ op = 1 /\ z = 1 /\ z < r /\ r < c /\ r \in Nat /\ c \in Nat /\ DOMAIN Steps \subseteq Nat \ {0}
  BY <1>0, <1>1, AtKind, LayoutFacts
<1>3. /\ disk \in Volumes /\ fs \in [Volumes -> SUBSET STRING] /\ stateFile \in [Volumes -> SUBSET STRING]
      /\ Disks = {disk}
  BY <1>0, TheDisk DEF TypeOK
<1>4. fs'[disk] = {} /\ stateFile'[disk] = {} /\ mounted' = mounted
  BY <1>1, <1>3 DEF Perform
<1>5. mounted = {}
  BY <1>0, <1>1, <1>2 DEF RootFirst, CanPerform, InRun
<1>6. Steps[z].key \notin done /\ runFile \subseteq done
  BY <1>0, <1>1, <1>2 DEF RootFirst, InRun
<1>7. StoresTrue(z)'
  <2>1. \A i \in DOMAIN Steps : ByOwnMark(i) => Steps[i].key \notin done
    <3> SUFFICES ASSUME NEW i \in DOMAIN Steps, ByOwnMark(i), Steps[i].key \in done PROVE FALSE
      OBVIOUS
    <3>1. i > z => Steps[z].key \in done
      BY <1>1 DEF Rest, StoresTrue, MarksTrue, InRun
    <3>2. i = z
      BY <1>2, <1>6, <3>1
    <3> QED BY <1>6, <3>2
  <2>2. MarksTrue(z, done)'
    BY <1>1, <2>1 DEF MarksTrue
  <2>3. MarksTrue(z, runFile)'
    BY <1>1, <1>6, <2>1 DEF MarksTrue
  <2>4. \A d \in Disks : MarksTrue(z, stateFile[d])'
    BY <1>3, <1>4 DEF MarksTrue
  <2> QED BY <2>2, <2>3, <2>4 DEF StoresTrue
<1>8. FilesTrue' /\ WholesTrue'
  BY <1>1, <1>2, <1>4 DEF FilesTrue, WholesTrue, Doing
<1>9. MountsTrue(r, c)'
  BY <1>4, <1>5 DEF MountsTrue
<1>10. Progress'
  <2>1. Step' = Step /\ \A k \in DOMAIN Step.ops : k < op' => k = 1
    <3>1. idx \in DOMAIN Steps /\ DOMAIN Step.ops \subseteq Nat \ {0}
      BY SMTT(30), <1>0, <1>1, StepType, StepsAssumption DEF TypeOK, Step
    <3> QED BY <1>1, <1>2, <3>1 DEF Step
  <2>2. InPlace(Steps[z].ops[1])'
    BY <1>1, <1>2 DEF InPlace, Step
  <2>3. Step = Steps[z]
    BY <1>2 DEF Step
  <2> QED BY <1>1, <1>2, <2>1, <2>2, <2>3 DEF Progress, Rest, InRun
<1> QED BY <1>7, <1>8, <1>9, <1>10 DEF Rest

\* Any other effect only adds to what is in place.
LEMMA RestRunOp ==
    ASSUME NEW z, NEW r, NEW f, NEW c, Layout(z, r, f, c), Dependable,
           BaseInv(z, r, f, c), Rest(z, r, c), RunOp, Step.ops[op].kind # "zap"
    PROVE  Rest(z, r, c)'
<1> DEFINE o == Step.ops[op]
<1>0. TypeOK /\ RootFirst(z, r)
  BY DEF BaseInv, ChrootIInv
<1>1. /\ pc = "run" /\ op <= Len(Step.ops) /\ op' = op + 1
      /\ UNCHANGED <<pc, idx, done, runFile, skipped, opened>>
  BY DEF RunOp
<1>2. /\ idx \in DOMAIN Steps /\ op \in DOMAIN Steps[idx].ops /\ o = Steps[idx].ops[op]
      /\ o \in OpsOf(Steps[idx]) /\ op \in Nat /\ op >= 1
      /\ o.kind = "root" => idx = r
      /\ o.kind = "mount" => o.obj # "root"
  BY <1>0, <1>1, AtKind
<1>3. /\ fs[disk] \subseteq fs'[disk] /\ mounted \subseteq mounted'
      /\ fs'[disk] \subseteq fs[disk] \cup {o.obj}
      /\ mounted' \subseteq mounted \cup {o.obj}
      /\ mounted' # mounted => o.kind \in {"root", "mount"}
      /\ stateFile' = stateFile /\ disk' = disk
      /\ \A e : e = o => InPlace(e)'
  BY Performed
<1>4. \A e : InPlace(e) => InPlace(e)'
  BY <1>3, InPlaceStays
<1>5. /\ Step = Steps[idx] /\ Step' = Steps[idx]
      /\ \A k \in DOMAIN Steps[idx].ops : k < op => InPlace(Steps[idx].ops[k])
      /\ DOMAIN Steps[idx].ops \subseteq Nat \ {0}
  <2>1. DOMAIN Steps[idx].ops \subseteq Nat \ {0}
    BY <1>2, StepType, StepsAssumption
  <2> QED BY <1>1, <2>1 DEF Rest, Progress, Step
<1> HIDE DEF o
<1>6. StoresTrue(z)'
  <2>1. Disks = {disk}
    BY <1>0, TheDisk
  <2> QED BY <1>1, <1>3, <1>4, <2>1 DEF Rest, StoresTrue, MarksTrue, InRun
<1>7. FilesTrue'
  <2> SUFFICES ASSUME NEW i \in DOMAIN Steps, NEW x \in Steps[i].facts, ByLastFile(i, x),
                      x \in fs'[disk], NEW e \in OpsOf(Steps[i])
               PROVE  e.obj \in fs'[disk]
    BY <1>3 DEF FilesTrue
  <2>1. CASE x \in fs[disk]
    BY <1>3, <2>1 DEF Rest, FilesTrue
  <2>2. CASE x = o.obj
    <3>1. PICK m \in 1..op : Steps[idx].ops[m].obj = e.obj /\ Steps[idx].ops[m].kind = "write"
      BY <1>2, <2>2 DEF ByLastFile
    <3>2. m \in DOMAIN Steps[idx].ops
      BY <1>2, <3>1, StepType, StepsAssumption
    <3>3. \A a : a = Steps[idx].ops[m] => InPlace(a)'
      BY <1>2, <1>3, <1>4, <1>5, <3>2
    <3> QED BY <1>3, <3>1, <3>3 DEF InPlace
  <2> QED BY <1>3, <2>1, <2>2
<1>8. WholesTrue'
  <2> SUFFICES ASSUME NEW i \in DOMAIN Steps, AllAtOnce(i)
               PROVE  /\ Steps[i].ops[1].obj \in fs'[disk] /\ ~(Doing(i))' =>
                           \A e \in OpsOf(Steps[i]) : e.obj \in fs'[disk]
                      /\ (Doing(i))' /\ op' = 1 => Steps[i].ops[1].obj \notin fs'[disk]
                      /\ \A k \in DOMAIN Steps[i].ops : Steps[i].ops[k].kind = "create" =>
                           /\ Steps[i].ops[k].obj \in fs'[disk] => Steps[i].ops[1].obj \in fs'[disk]
                           /\ (Doing(i))' /\ k >= op' => Steps[i].ops[k].obj \notin fs'[disk]
    BY <1>3 DEF WholesTrue
  <2>1. o.obj = Steps[i].ops[1].obj => idx = i /\ op = 1
    BY <1>2 DEF AllAtOnce, OnlyBy
  <2>2. ASSUME Steps[i].ops[1].obj \in fs'[disk], ~(Doing(i))', NEW e \in OpsOf(Steps[i])
        PROVE  e.obj \in fs'[disk]
    <3>1. ~Doing(i)
      BY <1>1, <2>2 DEF Doing
    <3>2. Steps[i].ops[1].obj \in fs[disk]
      BY <1>1, <1>3, <2>1, <2>2, <3>1 DEF Doing
    <3> QED BY <1>3, <3>1, <3>2, <2>2 DEF Rest, WholesTrue
  <2>3. op' # 1
    BY <1>1, <1>2
  <2>4. ASSUME NEW k \in DOMAIN Steps[i].ops, Steps[i].ops[k].kind = "create"
        PROVE  /\ Steps[i].ops[k].obj \in fs'[disk] => Steps[i].ops[1].obj \in fs'[disk]
               /\ (Doing(i))' /\ k >= op' => Steps[i].ops[k].obj \notin fs'[disk]
    <3>1. o.obj = Steps[i].ops[k].obj => idx = i /\ op = k
      BY <1>2, <2>4 DEF AllAtOnce, OnlyBy
    <3>2. ASSUME Steps[i].ops[k].obj \in fs'[disk] PROVE Steps[i].ops[1].obj \in fs'[disk]
      <4>1. CASE Steps[i].ops[k].obj \in fs[disk]
        BY <1>3, <2>4, <4>1 DEF Rest, WholesTrue
      <4>2. CASE idx = i /\ op = k /\ k = 1
        BY <1>3, <2>4, <3>2, <4>2
      <4>3. CASE idx = i /\ op = k /\ k # 1
        <5>1. 1 \in DOMAIN Steps[idx].ops /\ 1 < op
          BY <1>2, <1>5, <4>3, StepType, StepsAssumption
        <5>2. InPlace(Steps[i].ops[1]) /\ Steps[i].ops[1].kind \in {"write", "create"}
          BY <1>5, <4>3, <5>1 DEF AllAtOnce
        <5> QED BY <1>3, <5>2 DEF InPlace
      <4> QED BY <1>3, <3>1, <3>2, <4>1, <4>2, <4>3
    <3>3. ASSUME (Doing(i))', k >= op' PROVE Steps[i].ops[k].obj \notin fs'[disk]
      <4>1. Doing(i) /\ k >= op /\ k # op
        BY <1>1, <1>2, <1>5, <2>4, <3>3 DEF Doing
      <4>2. Steps[i].ops[k].obj \notin fs[disk]
        BY <2>4, <4>1 DEF Rest, WholesTrue
      <4> QED BY <1>3, <3>1, <4>1, <4>2
    <3> QED BY <3>2, <3>3
  <2> QED BY <2>2, <2>3, <2>4
<1>9. MountsTrue(r, c)'
  <2>1. ASSUME "root" \in mounted', ~(Doing(r))', NEW e \in OpsOf(Steps[r]) PROVE e.obj \in mounted'
    <3>1. "root" \in mounted /\ ~Doing(r)
      BY <1>1, <1>2, <1>3, <2>1 DEF Doing
    <3> QED BY <1>3, <2>1, <3>1 DEF Rest, MountsTrue
  <2>2. ASSUME "proc" \in mounted', ~(Doing(c))', NEW e \in OpsOf(Steps[c]), e.kind = "write"
        PROVE  e.obj \in fs'[disk]
    <3>1. o.kind \in {"root", "mount"} /\ o.obj = "proc" => idx = c
      BY <1>2, PseudoNames DEF Layout, ChrootReady, DiskFirst
    <3>2. "proc" \in mounted /\ ~Doing(c)
      BY <1>1, <1>3, <2>2, <3>1 DEF Doing
    <3> QED BY <1>1, <1>3, <2>2, <3>2 DEF Rest, MountsTrue
  <2> QED BY <1>3, <2>1, <2>2 DEF MountsTrue
<1>10. Progress'
  <2>1. \A k \in DOMAIN Steps[idx].ops : k < op' => \A a : a = Steps[idx].ops[k] => InPlace(a)'
    <3> SUFFICES ASSUME NEW k \in DOMAIN Steps[idx].ops, k < op', NEW a, a = Steps[idx].ops[k]
                 PROVE  InPlace(a)'
      OBVIOUS
    <3>1. k < op \/ k = op
      BY <1>1, <1>2, <1>5
    <3> QED BY <1>2, <1>3, <1>4, <1>5, <3>1
  <2>2. \A i \in DOMAIN Steps :
           i < idx' /\ Steps[i].gate # "off" /\ Steps[i].key \notin skipped' =>
               \A e \in OpsOf(Steps[i]) : InPlace(e)'
    BY <1>1, <1>4 DEF Rest, Progress, InRun
  <2>3. Step'.gate # "off"
    BY <1>1, <1>5 DEF Rest, Progress
  <2>4. \A k \in DOMAIN Step'.ops : k < op' => InPlace(Step.ops[k])'
    BY <1>1, <1>5, <2>1 DEF InPlace
  <2> QED BY <2>2, <2>3, <2>4 DEF Progress
<1> QED BY <1>6, <1>7, <1>8, <1>9, <1>10 DEF Rest

\* What the next effect needs is there.
LEMMA NeedsMet ==
    ASSUME NEW z, NEW r, NEW f, NEW c, Layout(z, r, f, c), Dependable,
           BaseInv(z, r, f, c), Rest(z, r, c), pc = "run", op <= Len(Step.ops), "root" \in mounted
    PROVE  Step.ops[op].needs \subseteq fs[Where] \cup mounted
<1>0. TypeOK /\ skipped \subseteq Skippable
  BY DEF BaseInv, ChrootIInv
<1>1. /\ idx \in DOMAIN Steps /\ op \in DOMAIN Steps[idx].ops /\ Step = Steps[idx]
      /\ Steps[idx].gate # "off"
  BY <1>0, AtKind DEF Step, Rest, Progress
<1>2. Where = disk
  BY <1>0, TheDisk
<1> SUFFICES ASSUME NEW n \in Steps[idx].ops[op].needs PROVE n \in fs[disk] \cup mounted
  BY <1>1, <1>2
<1>p. PICK j \in DOMAIN Steps : \E m \in DOMAIN Steps[j].ops :
         /\ Steps[j].ops[m].obj = n /\ Steps[j].ops[m].kind \notin {"zap", "noop"}
         /\ \/ j = idx /\ m < op
            \/ j < idx /\ Steps[j].gate # "off" /\ Steps[j].key \notin Skippable
  BY <1>1 DEF Dependable, Provided
<1>3. PICK m \in DOMAIN Steps[j].ops :
         /\ Steps[j].ops[m].obj = n /\ Steps[j].ops[m].kind \notin {"zap", "noop"}
         /\ \/ j = idx /\ m < op
            \/ j < idx /\ Steps[j].gate # "off" /\ Steps[j].key \notin Skippable
  BY <1>p
<1>4. Steps[j].ops[m].kind \in Kinds /\ Steps[j].ops[m] \in OpsOf(Steps[j])
  BY KindOrder
<1>5. InPlace(Steps[j].ops[m])
  <2>1. CASE j = idx /\ m < op
    BY <1>1, <2>1 DEF Rest, Progress
  <2>2. CASE j < idx /\ Steps[j].gate # "off" /\ Steps[j].key \notin Skippable
    BY <1>0, <1>4, <2>2 DEF Rest, Progress, InRun
  <2> QED BY <1>3, <2>1, <2>2
<1> QED BY <1>3, <1>4, <1>5 DEF InPlace, Kinds

\* No effect but the first of a step that is made at once, or of the mount of
\* the target, is refused.
LEMMA NotHalfway ==
    ASSUME NEW z, NEW r, NEW f, NEW c, Layout(z, r, f, c), Dependable,
           BaseInv(z, r, f, c), Rest(z, r, c), pc = "run", op <= Len(Step.ops), op > 1,
           AllAtOnce(idx) \/ idx = r
    PROVE  CanPerform(Step.ops[op])
<1> DEFINE o == Step.ops[op]
<1>0. TypeOK /\ RootFirst(z, r)
  BY DEF BaseInv, ChrootIInv
<1>1. /\ idx \in DOMAIN Steps /\ op \in DOMAIN Steps[idx].ops /\ o = Steps[idx].ops[op]
      /\ o.kind \in {"write", "create"} => idx > r
      /\ idx = r => o.kind = IF op = 1 THEN "root" ELSE "mount"
  BY <1>0, AtKind
<1>2. o.kind \in {"write", "create", "mount"} /\ (AllAtOnce(idx) => o.kind \in {"write", "create"})
  BY <1>1 DEF AllAtOnce
<1>3. "root" \in mounted
  BY <1>0, <1>1, <1>2 DEF RootFirst, InRun
<1>4. o.needs \subseteq fs[Where] \cup mounted
  BY <1>3, NeedsMet
<1>5. o.kind = "create" => o.obj \notin fs[Where]
  <2> SUFFICES ASSUME o.kind = "create" PROVE o.obj \notin fs[Where]
    OBVIOUS
  <2>1. AllAtOnce(idx)
    BY <1>1
  <2>2. Where = disk
    BY <1>0, <1>3, TheDisk
  <2>3. op \in Nat
    BY <1>0 DEF TypeOK
  <2> QED BY <1>1, <2>1, <2>2, <2>3 DEF Rest, WholesTrue, Doing
<1> QED BY <1>2, <1>4, <1>5 DEF CanPerform

\* A step whose last effect is performed is in place.
LEMMA StepDone ==
    ASSUME TypeOK, Progress, pc = "run", op > Len(Step.ops)
    PROVE  \A o \in OpsOf(Steps[idx]) : InPlace(o)
<1>1. idx \in DOMAIN Steps /\ Step = Steps[idx] /\ op \in Nat
  BY StepsAssumption DEF TypeOK, Step
<1>2. DOMAIN Steps[idx].ops = 1..Len(Steps[idx].ops) /\ Len(Steps[idx].ops) \in Nat
  BY <1>1, StepType, StepsAssumption
<1> QED BY <1>1, <1>2 DEF Progress, OpsOf

\* What a step is passed over by says the truth.
LEMMA PassedOver ==
    ASSUME NEW z, NEW r, NEW f, NEW c, Layout(z, r, f, c), Dependable,
           BaseInv(z, r, f, c), Rest(z, r, c), pc = "loop", idx <= Len(Steps), IsSatisfied(Step),
           Step.gate # "off", Step.key \notin skipped
    PROVE  \A o \in OpsOf(Steps[idx]) : InPlace(o)
<1>0. TypeOK /\ RootFirst(z, r) /\ AllOrNone(c)
  BY DEF BaseInv, ChrootIInv
<1>1. idx \in DOMAIN Steps /\ Step = Steps[idx]
  BY <1>0, StepsAssumption DEF TypeOK, Step
<1>2. /\ Steps[idx].gate = "probe" /\ Steps[idx].marks \subseteq done
      /\ Steps[idx].facts \subseteq fs[Where] /\ Steps[idx].mnts \subseteq mounted
  BY <1>1 DEF IsSatisfied
<1> SUFFICES ASSUME NEW o \in OpsOf(Steps[idx]) PROVE InPlace(o)
  OBVIOUS
<1>3. PICK k \in DOMAIN Steps[idx].ops : o = Steps[idx].ops[k]
  BY DEF OpsOf
<1>4. /\ o.kind \in Kinds /\ k \in Nat
      /\ o.kind \in {"write", "create"} => idx > r
      /\ idx = r => o.kind \in {"root", "mount"}
      /\ idx = c => o.kind \in {"mount", "write"}
  BY <1>1, <1>3, KindOrder
<1>5. o.kind \in {"write", "create"} => Where = disk
  BY <1>0, <1>4, TheDisk DEF RootFirst, InRun
<1>6. CASE idx = r
  BY <1>2, <1>4, <1>6, LayoutFacts DEF Rest, MountsTrue, InPlace, Doing
<1>7. CASE idx = c
  <2>1. "proc" \in mounted
    BY <1>2, <1>7 DEF Layout, ChrootReady
  <2>2. o.kind = "write" => o.obj \in fs[disk]
    BY <1>7, <2>1 DEF Rest, MountsTrue, Doing
  <2>3. o.kind = "mount" => o.obj \in Pseudo
    <3>1. o.kind = "mount" => k \in 1..4
      BY <1>3, <1>4, <1>7, KindOrder DEF Layout, ChrootReady
    <3> QED BY <1>3, <1>7, <3>1 DEF Layout, ChrootReady
  <2>4. Pseudo \subseteq mounted
    BY <1>0, <2>1, PseudoNames DEF AllOrNone, Mounting
  <2> QED BY <1>4, <1>7, <2>2, <2>3, <2>4 DEF InPlace
<1>8. CASE ByOwnMark(idx)
  <2>1. Steps[idx].key \in done
    BY <1>2, <1>8 DEF ByOwnMark
  <2> QED BY <1>1, <1>8, <2>1 DEF Rest, StoresTrue, MarksTrue, InRun
<1>9. CASE AllAtOnce(idx)
  <2>1. o.kind \in {"write", "create"} /\ Steps[idx].ops[1].obj \in fs[disk]
    BY <1>2, <1>3, <1>5, <1>9 DEF AllAtOnce
  <2> QED BY <1>1, <1>9, <2>1 DEF Rest, WholesTrue, Doing, InPlace
<1>10. CASE \E x \in Steps[idx].facts : ByLastFile(idx, x)
  <2>1. PICK x \in Steps[idx].facts : ByLastFile(idx, x)
    BY <1>10
  <2>2. o.kind = "write"
    BY <2>1 DEF ByLastFile
  <2>3. x \in fs[disk]
    BY <1>2, <1>5, <2>1, <2>2
  <2> QED BY <1>1, <2>1, <2>2, <2>3 DEF Rest, FilesTrue, InPlace
<1> QED BY <1>1, <1>2, <1>6, <1>7, <1>8, <1>9, <1>10 DEF Layout, GatesSound

\* The initial state: nothing is marked, written or mounted.
LEMMA RestInit ==
    ASSUME NEW z, NEW r, NEW c, Init PROVE Rest(z, r, c) /\ CompleteMeansInstalled
<1>1. Disks \subseteq Volumes /\ disk \in Volumes
  BY DEF Init, Volumes
<1>2. fs[disk] = {} /\ pc = "idle" /\ runFile = {} /\ mounted = {} /\ \A d \in Disks : stateFile[d] = {}
  BY <1>1 DEF Init
<1>3. StoresTrue(z)
  BY <1>2 DEF StoresTrue, MarksTrue, InRun
<1>4. FilesTrue /\ WholesTrue /\ MountsTrue(r, c) /\ Progress
  BY <1>2 DEF FilesTrue, WholesTrue, MountsTrue, Progress, Doing, InRun
<1> QED BY <1>2, <1>3, <1>4 DEF Rest, CompleteMeansInstalled

\* Recording a key in memory and in the active file says the truth.
LEMMA StoresMark ==
    ASSUME NEW z, NEW r, NEW f, NEW c, Layout(z, r, f, c), Dependable,
           BaseInv(z, r, f, c), StoresTrue(z), pc \in {"run", "ask"},
           \/ Mark(Step.key)
           \/ done' = Marked(Step.key) /\ UNCHANGED <<runFile, stateFile>>,
           UNCHANGED <<fs, mounted, disk>>, skipped \subseteq skipped',
           Step.key \in skipped' \/ \A o \in OpsOf(Steps[idx]) : InPlace(o)
    PROVE  StoresTrue(z)'
<1>0. TypeOK /\ RootFirst(z, r) /\ LiveBare /\ InRun
  BY DEF BaseInv, ChrootIInv, InRun
<1>1. idx \in DOMAIN Steps /\ Step = Steps[idx] /\ Step.key \in STRING
  BY <1>0, StepType, StepsAssumption DEF TypeOK, Step
<1>2. /\ done' = done \cup {Steps[idx].key} /\ runFile' \in {runFile, done'}
      /\ \A d \in Disks : stateFile'[d] \in {stateFile[d], done'}
  <2>1. CASE Mark(Step.key)
    BY <1>0, <1>1, <2>1, MarkStores DEF RootFirst
  <2>2. CASE done' = Marked(Step.key) /\ UNCHANGED <<runFile, stateFile>>
    BY <1>0, <1>1, <2>2 DEF RootFirst, Marked
  <2> QED BY <2>1, <2>2
<1>3. \A e : InPlace(e) => InPlace(e)'
  BY DEF InPlace
<1>4. MarksTrue(z, done)'
  <2> SUFFICES ASSUME NEW i \in DOMAIN Steps, ByOwnMark(i), Steps[i].key \in done'
               PROVE  /\ Steps[i].key \notin skipped' => \A o \in OpsOf(Steps[i]) : InPlace(o)'
                      /\ i > z => Steps[z].key \in done'
    BY DEF MarksTrue
  <2>1. CASE Steps[i].key \in done
    BY <1>0, <1>2, <1>3, <2>1 DEF StoresTrue, MarksTrue
  <2>2. CASE Steps[i].key = Steps[idx].key
    <3>1. i = idx
      BY <1>1, <2>2 DEF ByOwnMark
    <3> QED BY <1>0, <1>1, <1>2, <1>3, <3>1 DEF RootFirst
  <2> QED BY <1>2, <2>1, <2>2
<1>5. MarksTrue(z, runFile)'
  <2>1. CASE runFile' = runFile
    BY <1>3, <2>1 DEF StoresTrue, MarksTrue
  <2>2. CASE runFile' = done'
    BY <1>4, <2>2 DEF MarksTrue
  <2> QED BY <1>2, <2>1, <2>2
<1>6. ASSUME NEW d \in Disks PROVE MarksTrue(z, stateFile[d])'
  <2>1. CASE stateFile'[d] = stateFile[d]
    BY <1>3, <2>1 DEF StoresTrue, MarksTrue
  <2>2. CASE stateFile'[d] = done'
    BY <1>4, <2>2 DEF MarksTrue
  <2> QED BY <1>2, <2>1, <2>2
<1> QED BY <1>4, <1>5, <1>6 DEF StoresTrue

\* Every action keeps what the gates say true, and what lies behind a run in
\* place.
LEMMA RestNext ==
    ASSUME NEW z, NEW r, NEW f, NEW c, Layout(z, r, f, c), Dependable,
           BaseInv(z, r, f, c), Rest(z, r, c), CompleteMeansInstalled, [Next]_vars
    PROVE  Rest(z, r, c)' /\ CompleteMeansInstalled'
<1>0. /\ TypeOK /\ TypeOK' /\ RootFirst(z, r) /\ LiveBare /\ skipped \subseteq Skippable
      /\ AllOrNone(c) /\ Bound(c)
  BY TypeNext DEF BaseInv, ChrootIInv
<1>o. /\ z = 1 /\ z < r /\ r < c /\ r \in Nat /\ c \in Nat
      /\ Len(Steps) \in Nat /\ DOMAIN Steps = 1..Len(Steps)
      /\ {z, r, c} \subseteq DOMAIN Steps
      /\ Steps[c].key \notin Fallible /\ Steps[r].key \notin Fallible /\ "teardown" \notin Fallible
      /\ \A i \in DOMAIN Steps : AllAtOnce(i) => Steps[i].key \notin Fallible
  BY LayoutFacts DEF Dependable
<1>d. /\ disk' = disk /\ Disks = {disk} /\ disk # Live /\ disk \in Volumes
      /\ fs \in [Volumes -> SUBSET STRING] /\ stateFile \in [Volumes -> SUBSET STRING]
  BY <1>0, TheDisk DEF TypeOK
<1>t. idx \in Nat /\ op \in Nat /\ op >= 1
  BY <1>0, <1>o DEF TypeOK
<1>p. Step = Steps[idx] /\ (pc \in {"run", "ask"} => idx \in DOMAIN Steps)
  BY <1>0, <1>o DEF Step, TypeOK
<1>h. StoresTrue(z) /\ FilesTrue /\ WholesTrue /\ MountsTrue(r, c) /\ Progress
  BY DEF Rest
\* The step that runs, when its last effect is performed.
<1>x. ASSUME pc = "run", op > Len(Step.ops) PROVE \A o \in OpsOf(Steps[idx]) : InPlace(o)
  BY <1>0, <1>h, <1>x, StepDone
\* The marks, while the disk and the files that record them stay.
<1>s. ASSUME fs'[disk] = fs[disk], skipped \subseteq skipped', runFile' \in {runFile, {}},
             stateFile'[disk] = stateFile[disk],
             InRun' => InRun /\ done' = done
      PROVE  StoresTrue(z)'
  <2>1. \A i \in DOMAIN Steps :
           ByOwnMark(i) /\ (\A o \in OpsOf(Steps[i]) : InPlace(o)) => \A o \in OpsOf(Steps[i]) : InPlace(o)'
    BY <1>d, <1>s, InPlaceOnDisk DEF ByOwnMark
  <2>2. MarksTrue(z, runFile)'
    BY <1>h, <1>s, <2>1 DEF StoresTrue, MarksTrue
  <2>3. \A d \in Disks : MarksTrue(z, stateFile[d])'
    BY <1>d, <1>h, <1>s, <2>1 DEF StoresTrue, MarksTrue
  <2>4. InRun' => MarksTrue(z, done)'
    BY <1>h, <1>s, <2>1 DEF StoresTrue, MarksTrue
  <2> QED BY <2>2, <2>3, <2>4 DEF StoresTrue
<1>f. ASSUME fs'[disk] = fs[disk] PROVE FilesTrue'
  BY <1>d, <1>h, <1>f DEF FilesTrue
\* Nothing is made at once in this step, or all of it is, or none.
<1>w. ASSUME fs'[disk] = fs[disk], pc' # "run",
             \A i \in DOMAIN Steps : AllAtOnce(i) /\ Doing(i) =>
                \/ Steps[i].ops[1].obj \notin fs[disk]
                \/ \A o \in OpsOf(Steps[i]) : o.obj \in fs[disk]
      PROVE  WholesTrue'
  BY <1>d, <1>h, <1>w DEF WholesTrue, Doing
\* A step that is made at once is whole when its last effect is performed.
<1>y. ASSUME pc = "run", op > Len(Step.ops), NEW i \in DOMAIN Steps, AllAtOnce(i), Doing(i)
      PROVE  \A o \in OpsOf(Steps[i]) : o.obj \in fs[disk]
  BY <1>x, <1>y DEF Doing, AllAtOnce, OpsOf, InPlace
<1>1. ASSUME NEW d \in Disks, StartRun(d) PROVE Rest(z, r, c)' /\ CompleteMeansInstalled'
  <2>1. /\ pc = "idle" /\ pc' = "loop" /\ idx' = 1 /\ done' = Load
        /\ UNCHANGED <<runFile, stateFile, fs, mounted, skipped>>
    BY <1>1 DEF StartRun, world
  <2>2. \A e : InPlace(e)' <=> InPlace(e)
    BY <1>d, <2>1 DEF InPlace
  <2>3. done' = runFile \/ done' = runFile \cup stateFile[disk]
    BY <1>0, <1>d, <2>1, TheDisk DEF Load, TargetAvailable, LiveBare
  <2>4. MarksTrue(z, done)' /\ MarksTrue(z, runFile)' /\ \A v \in Disks : MarksTrue(z, stateFile[v])'
    <3>1. MarksTrue(z, runFile)'
      BY <1>h, <2>1, <2>2 DEF StoresTrue, MarksTrue
    <3>2. \A v \in Disks : MarksTrue(z, stateFile[v])'
      BY <1>h, <2>1, <2>2 DEF StoresTrue, MarksTrue
    <3>3. MarksTrue(z, done)'
      BY <1>d, <1>h, <2>1, <2>2, <2>3 DEF StoresTrue, MarksTrue
    <3> QED BY <3>1, <3>2, <3>3
  <2>5. StoresTrue(z)'
    BY <2>4 DEF StoresTrue
  <2>6. WholesTrue'
    BY <1>w, <2>1 DEF Doing
  <2>7. MountsTrue(r, c)'
    BY <1>d, <1>h, <2>1 DEF MountsTrue, Doing
  <2>8. Progress' /\ CompleteMeansInstalled'
    BY <1>o, <2>1 DEF Progress, CompleteMeansInstalled
  <2> QED BY <1>f, <2>1, <2>5, <2>6, <2>7, <2>8 DEF Rest
<1>2. ASSUME NEW d \in Disks, Remount(d) PROVE Rest(z, r, c)' /\ CompleteMeansInstalled'
  <2>1. /\ pc = "idle" /\ pc' = "idle" /\ "root" \notin mounted
        /\ mounted' = mounted \cup TargetMounts
        /\ UNCHANGED <<runFile, stateFile, fs, skipped>>
    BY <1>2 DEF Remount
  <2>2. mounted = {}
    BY <1>0, <2>1 DEF RootFirst
  <2>3. "proc" \notin mounted'
    BY <2>1, <2>2, PseudoNames DEF TargetMounts
  <2>4. ASSUME NEW o \in OpsOf(Steps[r]) PROVE o.obj \in mounted'
    <3>1. PICK k \in DOMAIN Steps[r].ops : o = Steps[r].ops[k]
      BY DEF OpsOf
    <3>2. o.kind \in {"root", "mount"} /\ (o.kind = "root" => o.obj = "root")
      BY <1>o, <3>1, KindOrder
    <3>3. o.obj \in MountPoints
      BY <1>o, <3>2 DEF MountPoints
    <3>4. o.obj \notin Pseudo
      BY <1>o, <3>2, PseudoNames DEF Layout, ChrootReady
    <3> QED BY <2>1, <3>3, <3>4 DEF TargetMounts
  <2>5. StoresTrue(z)' /\ FilesTrue' /\ WholesTrue'
    BY <1>s, <1>f, <1>w, <2>1 DEF InRun, Doing
  <2>6. MountsTrue(r, c)' /\ Progress' /\ CompleteMeansInstalled'
    BY <2>1, <2>3, <2>4 DEF MountsTrue, Progress, CompleteMeansInstalled, InRun
  <2> QED BY <2>5, <2>6 DEF Rest

\* The two mounting steps are whole when their last effect is performed.
<1>z. ASSUME pc = "run", op > Len(Step.ops)
      PROVE  /\ idx = r => \A o \in OpsOf(Steps[r]) : o.obj \in mounted
             /\ idx = c => \A o \in OpsOf(Steps[c]) : o.kind = "write" => o.obj \in fs[disk]
  <2>1. ASSUME idx = r, NEW o \in OpsOf(Steps[r]) PROVE o.obj \in mounted
    <3>1. PICK k \in DOMAIN Steps[r].ops : o = Steps[r].ops[k]
      BY DEF OpsOf
    <3>2. o.kind \in {"root", "mount"}
      BY <1>o, <3>1, KindOrder
    <3> QED BY <1>x, <1>z, <2>1, <3>2 DEF InPlace
  <2>2. ASSUME idx = c, NEW o \in OpsOf(Steps[c]), o.kind = "write" PROVE o.obj \in fs[disk]
    BY <1>x, <1>z, <2>2 DEF InPlace
  <2> QED BY <2>1, <2>2
<1>3. CASE PassOver
  <2>1. /\ pc = "loop" /\ pc' = "loop" /\ idx <= Len(Steps) /\ idx' = idx + 1 /\ IsSatisfied(Step)
        /\ UNCHANGED <<done, runFile, stateFile, fs, mounted, skipped, opened>>
    BY <1>3 DEF PassOver, world
  <2>2. \A e : InPlace(e)' <=> InPlace(e)
    BY <1>d, <2>1 DEF InPlace
  <2>3. Step.gate # "off" /\ Step.key \notin skipped => \A o \in OpsOf(Steps[idx]) : InPlace(o)
    BY <2>1, PassedOver
  <2>4. StoresTrue(z)' /\ FilesTrue' /\ WholesTrue'
    BY <1>s, <1>f, <1>w, <2>1 DEF InRun, Doing
  <2>5. MountsTrue(r, c)'
    BY <1>d, <1>h, <2>1 DEF MountsTrue, Doing
  <2>6. Progress'
    BY <1>h, <1>o, <1>p, <1>t, <2>1, <2>2, <2>3 DEF Progress, InRun
  <2>7. CompleteMeansInstalled'
    BY <2>1 DEF CompleteMeansInstalled
  <2> QED BY <2>4, <2>5, <2>6, <2>7 DEF Rest
<1>4. CASE BeginStep
  <2>1. /\ pc = "loop" /\ pc' = "run" /\ idx <= Len(Steps) /\ idx' = idx /\ op' = 1 /\ ~IsSatisfied(Step)
        /\ UNCHANGED <<done, runFile, stateFile, fs, mounted, skipped, opened>>
    BY <1>4 DEF BeginStep, world
  <2>2. \A e : InPlace(e)' <=> InPlace(e)
    BY <1>d, <2>1 DEF InPlace
  <2>3. StoresTrue(z)' /\ FilesTrue'
    BY <1>s, <1>f, <2>1 DEF InRun
  <2>4. WholesTrue'
    <3>1. ASSUME AllAtOnce(idx), Steps[idx].ops[1].obj \in fs[disk] PROVE FALSE
      <4>1. idx \in DOMAIN Steps
        BY <1>o, <1>t, <1>0, <2>1 DEF TypeOK
      <4>2. \A o \in OpsOf(Steps[idx]) : o.obj \in fs[disk]
        BY <1>h, <2>1, <3>1, <4>1 DEF WholesTrue, Doing
      <4>3. Steps[idx].facts \subseteq fs[disk]
        BY <3>1, <4>2 DEF AllAtOnce
      <4>4. Where = disk
        <5>1. 1 \in DOMAIN Steps[idx].ops
          BY <3>1, <4>1, StepType, StepsAssumption DEF AllAtOnce
        <5>2. idx > r
          BY <3>1, <4>1, <5>1, KindOrder DEF AllAtOnce
        <5> QED BY <1>0, <2>1, <5>2, TheDisk DEF RootFirst, InRun
      <4> QED BY <1>p, <2>1, <3>1, <4>3, <4>4 DEF IsSatisfied, AllAtOnce
    <3>2. \A i \in DOMAIN Steps : (Doing(i))' <=> i = idx
      BY <2>1 DEF Doing
    <3>3. \A i \in DOMAIN Steps : ~Doing(i)
      BY <2>1 DEF Doing
    <3> QED BY <1>d, <1>h, <2>1, <3>1, <3>2, <3>3 DEF WholesTrue
  <2>5. MountsTrue(r, c)'
    BY <1>d, <1>h, <2>1 DEF MountsTrue, Doing
  <2>6. Progress'
    <3>1. Step' = Step /\ Step.gate # "off"
      BY <2>1 DEF Step, IsSatisfied
    <3>2. idx \in DOMAIN Steps
      BY <1>o, <1>t, <1>0, <2>1 DEF TypeOK
    <3>3. DOMAIN Step.ops \subseteq Nat \ {0}
      BY <1>p, <3>2, StepType, StepsAssumption
    <3>4. \A k \in DOMAIN Step.ops : ~(k < op')
      BY <2>1, <3>3
    <3> QED BY <1>h, <2>1, <2>2, <3>1, <3>4 DEF Progress, InRun
  <2>7. CompleteMeansInstalled'
    BY <2>1 DEF CompleteMeansInstalled
  <2> QED BY <2>3, <2>4, <2>5, <2>6, <2>7 DEF Rest
<1>5. CASE RunOp
  <2>1. CompleteMeansInstalled'
    BY <1>5 DEF RunOp, CompleteMeansInstalled
  <2> QED BY <1>5, <2>1, RestZap, RestRunOp
<1>6. CASE FailOp
  <2>1. /\ pc = "run" /\ pc' = "ask" /\ op <= Len(Step.ops)
        /\ ~CanPerform(Step.ops[op]) \/ Step.key \in Fallible
        /\ UNCHANGED <<idx, op, done, runFile, stateFile, fs, mounted, skipped, opened>>
    BY <1>6 DEF FailOp, world
  <2>2. \A e : InPlace(e)' <=> InPlace(e)
    BY <1>d, <2>1 DEF InPlace
  <2>3. ASSUME AllAtOnce(idx) \/ idx = r PROVE op = 1
    BY <1>o, <1>p, <1>t, <2>1, <2>3, NotHalfway
  <2>4. idx # c
    BY <1>o, <1>p, <2>1, NoRefusal DEF Layout, BaseInv, Mounting
  <2>5. StoresTrue(z)' /\ FilesTrue'
    BY <1>s, <1>f, <2>1 DEF InRun
  <2>6. WholesTrue'
    BY <1>h, <1>w, <2>1, <2>3 DEF WholesTrue, Doing
  <2>7. MountsTrue(r, c)'
    <3>1. idx = r => "root" \notin mounted
      BY <1>0, <2>1, <2>3 DEF RootFirst
    <3> QED BY <1>d, <1>h, <2>1, <2>4, <3>1 DEF MountsTrue, Doing
  <2>8. Progress' /\ CompleteMeansInstalled'
    <3>1. Step' = Step
      BY <2>1 DEF Step
    <3> QED BY <1>h, <2>1, <2>2, <3>1 DEF Progress, CompleteMeansInstalled, InRun
  <2> QED BY <2>5, <2>6, <2>7, <2>8 DEF Rest
<1>7. CASE FinishStep
  <2>1. /\ pc = "run" /\ pc' = "loop" /\ op > Len(Step.ops) /\ idx' = idx + 1 /\ Mark(Step.key)
        /\ UNCHANGED <<fs, mounted, skipped, disk>>
    BY <1>7 DEF FinishStep
  <2>2. \A e : InPlace(e)' <=> InPlace(e)
    BY <1>d, <2>1 DEF InPlace
  <2>3. StoresTrue(z)'
    BY <1>h, <1>x, <2>1, StoresMark
  <2>4. FilesTrue' /\ WholesTrue'
    BY <1>f, <1>w, <1>y, <2>1
  <2>5. MountsTrue(r, c)'
    BY <1>d, <1>h, <1>z, <2>1 DEF MountsTrue, Doing
  <2>6. Progress' /\ CompleteMeansInstalled'
    BY <1>h, <1>o, <1>t, <1>x, <2>1, <2>2 DEF Progress, CompleteMeansInstalled, InRun
  <2> QED BY <2>3, <2>4, <2>5, <2>6 DEF Rest
<1>8. CASE SaveFails
  <2>1. /\ pc' = "teardown" /\ result' = "failed"
        /\ \/ pc = "run" /\ op > Len(Step.ops)
           \/ pc = "ask"
        /\ \/ pc = "run" /\ Mark(Step.key)
           \/ UNCHANGED <<runFile, stateFile>>
        /\ UNCHANGED <<fs, mounted, skipped, disk>>
    BY <1>8 DEF SaveFails
  <2>2. StoresTrue(z)' /\ FilesTrue'
    <3>1. CASE pc = "run" /\ Mark(Step.key)
      BY <1>f, <1>h, <1>x, <2>1, <3>1, StoresMark
    <3>2. CASE UNCHANGED <<runFile, stateFile>>
      BY <1>s, <1>f, <2>1, <3>2 DEF InRun
    <3> QED BY <2>1, <3>1, <3>2
  <2>3. WholesTrue'
    BY <1>w, <1>y, <2>1 DEF Doing
  <2>4. MountsTrue(r, c)'
    BY <1>d, <1>h, <1>z, <2>1 DEF MountsTrue, Doing
  <2>5. Progress' /\ CompleteMeansInstalled'
    BY <2>1 DEF Progress, CompleteMeansInstalled, InRun
  <2> QED BY <2>2, <2>3, <2>4, <2>5 DEF Rest
<1>18. CASE OwnSaveFails
  <2>1. /\ pc = "run" /\ pc' = "ask" /\ op > Len(Step.ops) /\ done' = Marked(Step.key)
        /\ UNCHANGED <<idx, disk, runFile, stateFile, fs, mounted, skipped>>
    BY <1>18 DEF OwnSaveFails, world
  <2>2. \A e : InPlace(e)' <=> InPlace(e)
    BY <1>d, <2>1 DEF InPlace
  <2>3. StoresTrue(z)' /\ FilesTrue'
    BY <1>f, <1>h, <1>x, <2>1, StoresMark
  <2>4. WholesTrue'
    BY <1>w, <1>y, <2>1 DEF Doing
  <2>5. MountsTrue(r, c)'
    BY <1>d, <1>h, <1>z, <2>1 DEF MountsTrue, Doing
  <2>6. Progress' /\ CompleteMeansInstalled'
    <3>1. Step' = Step
      BY <2>1 DEF Step
    <3> QED BY <1>h, <2>1, <2>2, <3>1 DEF Progress, CompleteMeansInstalled, InRun
  <2> QED BY <2>3, <2>4, <2>5, <2>6 DEF Rest
<1>9. CASE Retry
  <2>1. /\ pc = "ask" /\ pc' = "loop"
        /\ UNCHANGED <<idx, done, runFile, stateFile, fs, mounted, skipped>>
    BY <1>9 DEF Retry, world
  <2>2. \A e : InPlace(e)' <=> InPlace(e)
    BY <1>d, <2>1 DEF InPlace
  <2>3. StoresTrue(z)' /\ FilesTrue' /\ WholesTrue'
    BY <1>s, <1>f, <1>w, <2>1 DEF InRun, Doing
  <2>4. MountsTrue(r, c)'
    BY <1>d, <1>h, <2>1 DEF MountsTrue, Doing
  <2>5. Progress' /\ CompleteMeansInstalled'
    BY <1>h, <2>1, <2>2 DEF Progress, CompleteMeansInstalled, InRun
  <2> QED BY <2>3, <2>4, <2>5 DEF Rest
<1>10. CASE Skip
  <2>1. /\ pc = "ask" /\ pc' = "loop" /\ idx' = idx + 1 /\ Mark(Step.key)
        /\ skipped' = skipped \cup {Step.key}
        /\ UNCHANGED <<fs, mounted, disk>>
    BY <1>10 DEF Skip
  <2>2. \A e : InPlace(e)' <=> InPlace(e)
    BY <1>d, <2>1 DEF InPlace
  <2>3. StoresTrue(z)'
    BY <1>h, <2>1, StoresMark
  <2>4. FilesTrue' /\ WholesTrue'
    BY <1>f, <1>w, <2>1 DEF Doing
  <2>5. MountsTrue(r, c)'
    BY <1>d, <1>h, <2>1 DEF MountsTrue, Doing
  <2>6. Progress' /\ CompleteMeansInstalled'
    BY <1>h, <1>o, <1>p, <1>t, <2>1, <2>2 DEF Progress, CompleteMeansInstalled, InRun
  <2> QED BY <2>3, <2>4, <2>5, <2>6 DEF Rest
<1>11. CASE Abort
  <2>1. /\ pc = "ask" /\ pc' = "teardown" /\ result' = "failed"
        /\ UNCHANGED <<runFile, stateFile, fs, mounted, skipped>>
    BY <1>11 DEF Abort, world
  <2>2. StoresTrue(z)' /\ FilesTrue' /\ WholesTrue'
    BY <1>s, <1>f, <1>w, <2>1 DEF InRun, Doing
  <2>3. MountsTrue(r, c)'
    BY <1>d, <1>h, <2>1 DEF MountsTrue, Doing
  <2>4. Progress' /\ CompleteMeansInstalled'
    BY <2>1 DEF Progress, CompleteMeansInstalled, InRun
  <2> QED BY <2>2, <2>3, <2>4 DEF Rest
<1>12. CASE Complete
  <2>1. /\ pc = "loop" /\ pc' = "teardown" /\ idx > Len(Steps)
        /\ UNCHANGED <<runFile, stateFile, fs, mounted, skipped>>
    BY <1>12 DEF Complete, world
  <2>2. \A e : InPlace(e)' <=> InPlace(e)
    BY <1>d, <2>1 DEF InPlace
  <2>3. StoresTrue(z)' /\ FilesTrue' /\ WholesTrue'
    BY <1>s, <1>f, <1>w, <2>1 DEF InRun, Doing
  <2>4. MountsTrue(r, c)'
    BY <1>d, <1>h, <2>1 DEF MountsTrue, Doing
  <2>5. Progress' /\ CompleteMeansInstalled'
    BY <1>h, <1>o, <1>t, <2>1, <2>2 DEF Progress, CompleteMeansInstalled, InRun
  <2> QED BY <2>3, <2>4, <2>5 DEF Rest
<1>13. CASE Teardown
  <2>1. /\ pc = "teardown" /\ opened' = opened
        /\ UNCHANGED <<runFile, stateFile, fs, skipped>>
        /\ \/ /\ opened /\ tear <= 4 /\ pc' = "teardown" /\ tear' = tear + 1
              /\ mounted' = mounted \ {TeardownOrder[tear]}
           \/ /\ ~(opened /\ tear <= 4) /\ pc' = "idle" /\ mounted' = mounted
    BY <1>13, Lengths DEF Teardown
  <2>2. tear \in 1..5
    BY <1>0, Lengths DEF TypeOK
  <2>3. StoresTrue(z)' /\ FilesTrue' /\ WholesTrue'
    BY <1>s, <1>f, <1>w, <2>1 DEF InRun, Doing
  <2>4. ASSUME "root" \in mounted', NEW o \in OpsOf(Steps[r]) PROVE o.obj \in mounted'
    <3>1. PICK k \in DOMAIN Steps[r].ops : o = Steps[r].ops[k]
      BY <2>4 DEF OpsOf
    <3>2. o.kind \in {"root", "mount"} /\ (o.kind = "root" => o.obj = "root")
      BY <1>o, <3>1, KindOrder
    <3>3. o.obj \notin Pseudo
      BY <1>o, <2>4, <3>2, PseudoNames DEF Layout, ChrootReady
    <3>4. tear <= 4 => TeardownOrder[tear] \in Pseudo
      BY <2>2 DEF TeardownOrder, Pseudo
    <3>5. o.obj \in mounted
      BY <1>h, <2>1, <2>4 DEF MountsTrue, Doing
    <3> QED BY <2>1, <3>3, <3>4, <3>5
  <2>5. opened /\ pc' = "idle" => "proc" \notin mounted'
    BY <1>0, <2>1, <2>2, PseudoNames DEF Bound
  <2>6. MountsTrue(r, c)'
    BY <1>d, <1>h, <2>1, <2>4, <2>5 DEF MountsTrue, Doing
  <2>7. Progress' /\ CompleteMeansInstalled'
    BY <2>1, <2>2 DEF Progress, CompleteMeansInstalled, InRun
  <2> QED BY <2>3, <2>6, <2>7 DEF Rest
\* What is interrupted is neither made at once nor a mounting step.
<1>i. ASSUME pc = "run" => Step.key \in Fallible
      PROVE  ~Doing(r) /\ ~Doing(c) /\ \A i \in DOMAIN Steps : AllAtOnce(i) => ~Doing(i)
  BY <1>i, <1>o, <1>p DEF Doing
<1>14. CASE Kill
  <2>1. /\ pc' = "idle" /\ (pc = "run" => Step.key \in Fallible) /\ pc # "teardown"
        /\ UNCHANGED <<runFile, stateFile, fs, mounted, skipped>>
    BY <1>o, <1>14 DEF Kill, world
  <2>2. StoresTrue(z)' /\ FilesTrue' /\ WholesTrue'
    BY <1>s, <1>f, <1>w, <1>i, <2>1 DEF InRun
  <2>3. MountsTrue(r, c)'
    BY <1>d, <1>h, <1>i, <2>1 DEF MountsTrue
  <2>4. Progress' /\ CompleteMeansInstalled'
    BY <2>1 DEF Progress, CompleteMeansInstalled, InRun
  <2> QED BY <2>2, <2>3, <2>4 DEF Rest
<1>15. CASE Reboot
  <2>1. /\ pc' = "idle" /\ (pc = "run" => Step.key \in Fallible) /\ runFile' = {} /\ mounted' = {}
        /\ fs'[disk] = fs[disk] /\ stateFile'[disk] = stateFile[disk] /\ skipped' = skipped
    BY <1>d, <1>15 DEF Reboot
  <2>2. StoresTrue(z)' /\ FilesTrue' /\ WholesTrue'
    BY <1>s, <1>f, <1>w, <1>i, <2>1 DEF InRun
  <2>3. MountsTrue(r, c)' /\ Progress' /\ CompleteMeansInstalled'
    BY <2>1 DEF MountsTrue, Progress, CompleteMeansInstalled, InRun
  <2> QED BY <2>2, <2>3 DEF Rest
<1>16. CASE Unmount
  <2>1. /\ pc = "idle" /\ pc' = "idle" /\ mounted' = {}
        /\ UNCHANGED <<runFile, stateFile, fs, skipped>>
    BY <1>16 DEF Unmount
  <2>2. StoresTrue(z)' /\ FilesTrue' /\ WholesTrue'
    BY <1>s, <1>f, <1>w, <2>1 DEF InRun, Doing
  <2>3. MountsTrue(r, c)' /\ Progress' /\ CompleteMeansInstalled'
    BY <2>1 DEF MountsTrue, Progress, CompleteMeansInstalled, InRun
  <2> QED BY <2>2, <2>3 DEF Rest
<1>17. CASE UNCHANGED vars
  <2>1. \A e : InPlace(e)' <=> InPlace(e)
    BY <1>17 DEF InPlace, vars
  <2>2. StoresTrue(z)'
    BY <1>h, <1>17, <2>1 DEF StoresTrue, MarksTrue, InRun, vars
  <2>3. FilesTrue' /\ WholesTrue' /\ MountsTrue(r, c)'
    BY <1>h, <1>17 DEF FilesTrue, WholesTrue, MountsTrue, Doing, vars
  <2>4. Step' = Step /\ Progress'
    BY <1>h, <1>17, <2>1 DEF Progress, InRun, vars, Step
  <2>5. CompleteMeansInstalled'
    BY <1>17, <2>1 DEF CompleteMeansInstalled, vars
  <2> QED BY <2>2, <2>3, <2>4, <2>5 DEF Rest
<1> QED BY <1>1, <1>2, <1>3, <1>4, <1>5, <1>6, <1>7, <1>8, <1>9, <1>10, <1>11, <1>12,
           <1>13, <1>14, <1>15, <1>16, <1>17, <1>18 DEF Next

\* When a run reports success, every effect of every requested step that the
\* user did not skip is in place on the disk, whatever number of failures,
\* retries, kills, reboots and unmounts lies behind it.
THEOREM InstalledWhenComplete ==
    ASSUME Dependable PROVE Spec => []CompleteMeansInstalled
<1> PICK z \in DOMAIN Steps, r \in DOMAIN Steps :
        /\ DiskFirst(z, r)
        /\ \E f, c \in DOMAIN Steps :
            /\ ChrootReady(f, c) /\ GatesSound(z, r, c)
            /\ \E u \in DOMAIN Steps : Unpacks(r, u, f)
  BY GatesAssumption
<1> PICK f \in DOMAIN Steps, c \in DOMAIN Steps : ChrootReady(f, c) /\ GatesSound(z, r, c)
  OBVIOUS
<1>l. Layout(z, r, f, c)
  BY DEF Layout
<1> DEFINE I == BaseInv(z, r, f, c) /\ Rest(z, r, c) /\ CompleteMeansInstalled
<1>1. Init => I
  BY <1>l, BaseInit, RestInit
<1>2. I /\ [Next]_vars => I'
  BY <1>l, BaseNext, RestNext
<1> QED BY <1>1, <1>2, PTL DEF Spec

-----------------------------------------------------------------------------
(* Nothing fails without a fault. *)

\* The wipe is recorded on the disk as soon as step u is behind, and the run
\* file never records step u.
Resumable(z, u) ==
    /\ Steps[u].key \notin runFile
    /\ InRun /\ Steps[u].key \in done =>
         Steps[z].key \in stateFile[disk] /\ "etc" \in fs[disk] /\ "root" \in mounted
    /\ InRun /\ idx > u => Steps[z].key \in stateFile[disk]
    /\ "fstab" \in fs[disk] => Steps[z].key \in stateFile[disk]
    /\ InRun /\ idx = z /\ snap /\ "etc" \in fs[disk] => stateFile[disk] \subseteq done

\* Recording a key on the disk records the wipe with it.
LEMMA ResumableMark ==
    ASSUME NEW z, NEW r, NEW f, NEW c, Layout(z, r, f, c), Dependable,
           NEW u \in DOMAIN Steps, Unpacks(r, u, f),
           BaseInv(z, r, f, c), Resumable(z, u), pc \in {"run", "ask"}, Mark(Step.key),
           UNCHANGED <<fs, mounted, disk>>,
           pc' = "teardown" \/ (pc' = "loop" /\ idx' = idx + 1),
           idx = u => "etc" \in fs[disk]
    PROVE  Resumable(z, u)'
<1>0. TypeOK /\ RootFirst(z, r) /\ LiveBare /\ InRun
  BY DEF BaseInv, ChrootIInv, InRun
<1>1. /\ idx \in DOMAIN Steps /\ Step = Steps[idx] /\ Step.key \in STRING /\ idx \in Nat
      /\ idx >= 1 /\ u \in Nat /\ r < u /\ z = 1 /\ r \in Nat /\ z < r
  BY <1>0, StepType, StepsAssumption, LayoutFacts DEF TypeOK, Step, Unpacks
<1>2. done' = done \cup {Steps[idx].key}
  BY <1>0, <1>1, MarkStores DEF RootFirst
<1>3. Steps[z].key \in done'
  BY <1>0, <1>1, <1>2 DEF RootFirst
<1>4. disk \in Volumes /\ stateFile \in [Volumes -> SUBSET STRING] /\ Where \in Volumes
      /\ ("root" \in mounted => Where = disk) /\ ("root" \notin mounted => Where = Live)
  BY <1>0, TheDisk, WhereType DEF TypeOK
<1>5. Steps[u].key = Steps[idx].key => idx = u
  BY <1>1 DEF Unpacks, ByOwnMark
<1>6. idx >= u => "root" \in mounted
  BY <1>0, <1>1 DEF RootFirst
<1>7. CASE TargetAvailable
  <2>1. Where = disk /\ "etc" \in fs[disk] /\ "root" \in mounted
    BY <1>0, <1>4, <1>7 DEF TargetAvailable, LiveBare
  <2>2. runFile' = runFile /\ stateFile'[disk] = done'
    BY <1>4, <1>7, <2>1 DEF Mark
  <2> QED BY <1>1, <1>3, <2>1, <2>2 DEF Resumable, InRun
<1>8. CASE ~TargetAvailable
  <2>1. runFile' = done' /\ stateFile' = stateFile
    BY <1>8 DEF Mark
  <2>2. Steps[u].key \notin done /\ idx # u
    BY <1>0, <1>1, <1>4, <1>6, <1>8 DEF Resumable, TargetAvailable
  <2>3. Steps[u].key \notin done'
    BY <1>2, <1>5, <2>2
  <2> QED BY <1>0, <1>1, <2>1, <2>2, <2>3 DEF Resumable, InRun
<1> QED BY <1>7, <1>8

\* Every action keeps the disk resumable.
LEMMA ResumableNext ==
    ASSUME NEW z, NEW r, NEW f, NEW c, Layout(z, r, f, c), Dependable,
           NEW u \in DOMAIN Steps, Unpacks(r, u, f), Steps[u].key \notin Skippable,
           BaseInv(z, r, f, c), Rest(z, r, c), Resumable(z, u), [Next]_vars
    PROVE  Resumable(z, u)'
<1>0. TypeOK /\ TypeOK' /\ RootFirst(z, r) /\ LiveBare /\ skipped \subseteq Skippable
  BY TypeNext DEF BaseInv, ChrootIInv
<1>o. /\ z = 1 /\ z < r /\ r < u /\ u < f /\ r \in Nat /\ u \in Nat /\ f \in Nat
      /\ Len(Steps) \in Nat /\ DOMAIN Steps = 1..Len(Steps)
      /\ ByOwnMark(u)
  BY LayoutFacts, StepsAssumption DEF Unpacks
<1>d. /\ disk' = disk /\ Disks = {disk} /\ disk # Live /\ disk \in Volumes
      /\ fs \in [Volumes -> SUBSET STRING] /\ stateFile \in [Volumes -> SUBSET STRING]
  BY <1>0, TheDisk DEF TypeOK
<1>t. idx \in Nat /\ op \in Nat /\ op >= 1
  BY <1>0, <1>o DEF TypeOK
\* Outside a run, the disk and the run file say it all.
<1>q. ASSUME ~InRun', runFile' \in {runFile, {}}, fs'[disk] = fs[disk], stateFile'[disk] = stateFile[disk]
      PROVE  Resumable(z, u)'
  BY <1>d, <1>q DEF Resumable
\* In a run that records nothing, only the index moves.
<1>r. ASSUME InRun, UNCHANGED <<runFile, done, fs, mounted, stateFile, snap>>,
             idx' \in {idx, idx + 1},
             idx' = idx + 1 /\ idx = u => Steps[u].key \in done
      PROVE  Resumable(z, u)'
  <2>1. idx >= 1
    BY <1>0, <1>o DEF TypeOK
  <2>2. idx' > u => idx > u \/ Steps[u].key \in done
    BY <1>o, <1>t, <1>r
  <2>3. idx' = z => idx = z
    BY <1>o, <1>t, <1>r, <2>1
  <2> QED BY <1>d, <1>r, <2>2, <2>3 DEF Resumable
<1>1. ASSUME NEW d \in Disks, StartRun(d) PROVE Resumable(z, u)'
  <2>1. /\ pc' = "loop" /\ idx' = 1 /\ done' = Load /\ snap' = ("root" \in mounted /\ rootdev = d)
        /\ UNCHANGED <<runFile, stateFile, fs, mounted>>
    BY <1>1 DEF StartRun, world
  <2>2. ASSUME "root" \in mounted, "etc" \in fs[disk] PROVE done' = runFile \cup stateFile[disk]
    BY <1>0, <2>1, <2>2, TheDisk DEF Load, TargetAvailable
  <2>3. ASSUME ~("root" \in mounted /\ "etc" \in fs[disk]) PROVE done' = runFile
    BY <1>0, <2>1, <2>3, TheDisk DEF Load, TargetAvailable, LiveBare
  <2>4. Steps[u].key \in stateFile[disk] => Steps[z].key \in stateFile[disk]
    BY <1>d, <1>o DEF Rest, StoresTrue, MarksTrue
  <2>5. snap' => "root" \in mounted
    BY <2>1
  <2>6. Steps[u].key \in done' =>
           Steps[z].key \in stateFile[disk] /\ "etc" \in fs[disk] /\ "root" \in mounted
    BY <2>2, <2>3, <2>4 DEF Resumable
  <2>7. snap' /\ "etc" \in fs[disk] => stateFile[disk] \subseteq done'
    BY <2>2, <2>5
  <2>8. ~(idx' > u)
    BY <1>o, <2>1
  <2> QED BY <1>d, <2>1, <2>6, <2>7, <2>8 DEF Resumable
<1>2. ASSUME NEW d \in Disks, Remount(d) PROVE Resumable(z, u)'
  BY <1>2, <1>q DEF Remount, InRun
<1>3. CASE PassOver
  <2>1. /\ pc = "loop" /\ idx' = idx + 1 /\ IsSatisfied(Step)
        /\ UNCHANGED <<done, runFile, stateFile, fs, mounted, snap>>
    BY <1>3 DEF PassOver, world
  <2>2. idx = u => Steps[u].key \in done
    BY <1>o, <2>1 DEF IsSatisfied, ByOwnMark, Step
  <2> QED BY <1>r, <2>1, <2>2 DEF InRun
<1>4. CASE BeginStep
  BY <1>4, <1>r, <1>t DEF BeginStep, world, InRun
<1>5. CASE RunOp
  <2> DEFINE o == Step.ops[op]
  <2>1. /\ pc = "run" /\ op <= Len(Step.ops) /\ Perform(o) /\ CanPerform(o)
        /\ UNCHANGED <<pc, disk, idx, done, runFile, snap>>
    BY <1>5 DEF RunOp
  <2>2. /\ idx \in DOMAIN Steps /\ o \in OpsOf(Steps[idx])
        /\ o.kind = "zap" => idx = z
        /\ o.kind = "blk" => idx = z /\ o.obj # "etc"
        /\ o.kind \in {"write", "create"} => idx > r
    BY <1>0, <2>1, AtKind
  <2>3. CASE o.kind = "zap"
    <3>1. fs'[disk] = {} /\ stateFile'[disk] = {} /\ mounted' = mounted
      BY <1>d, <2>1, <2>3 DEF Perform
    <3>2. Steps[z].key \notin done /\ idx = z /\ ~snap
      BY <1>0, <2>1, <2>2, <2>3 DEF RootFirst, CanPerform
    <3>3. Steps[u].key \notin done
      BY <1>o, <2>1, <3>2 DEF Rest, StoresTrue, MarksTrue, InRun
    <3> QED BY <1>d, <1>o, <2>1, <3>1, <3>2, <3>3 DEF Resumable, InRun
  <2>4. CASE o.kind # "zap"
    <3>1. /\ fs[disk] \subseteq fs'[disk] /\ mounted \subseteq mounted'
          /\ fs'[disk] \subseteq fs[disk] \cup {o.obj} /\ stateFile' = stateFile
      BY <1>5, <2>4, Performed
    <3>2. o.obj = "fstab" => idx = f
      BY <2>2 DEF Layout, ChrootReady
    <3>3. idx = z => (o.obj = "etc" => "etc" \notin fs'[disk] \ fs[disk])
      <4>1. idx = z => o.kind \notin {"write", "create"}
        BY <1>o, <2>2
      <4>2. idx = z /\ o.obj = "etc" => o.kind \notin {"blk", "write", "create"}
        BY <2>2, <4>1
      <4> QED BY <1>d, <2>1, <2>4, <4>2 DEF Perform
    <3>4. idx = f => Steps[z].key \in stateFile[disk]
      BY <1>o, <2>1 DEF Resumable, InRun
    <3> HIDE DEF o
    <3>5. InRun /\ InRun'
      BY <2>1 DEF InRun
    <3> QED BY <1>d, <2>1, <3>1, <3>2, <3>3, <3>4, <3>5 DEF Resumable
  <2> QED BY <2>3, <2>4
<1>6. CASE FailOp
  BY <1>6, <1>r, <1>t DEF FailOp, world, InRun
<1>7. CASE FinishStep
  <2>1. /\ pc = "run" /\ pc' = "loop" /\ op > Len(Step.ops) /\ idx' = idx + 1 /\ Mark(Step.key)
        /\ UNCHANGED <<fs, mounted, disk>>
    BY <1>7 DEF FinishStep
  <2>2. idx = u => "etc" \in fs[disk]
    <3>1. PICK o \in OpsOf(Steps[u]) : o.kind = "write" /\ o.obj = "etc"
      BY DEF Unpacks
    <3> QED BY <1>0, <2>1, <3>1, StepDone DEF Rest, InPlace
  <2> QED BY <2>1, <2>2, ResumableMark
<1>8. CASE SaveFails
  <2>1. CASE UNCHANGED <<runFile, stateFile>>
    BY <1>8, <1>q, <2>1 DEF SaveFails, InRun
  <2>2. CASE pc = "run" /\ op > Len(Step.ops) /\ Mark(Step.key)
    <3>1. idx = u => "etc" \in fs[disk]
      <4>1. PICK o \in OpsOf(Steps[u]) : o.kind = "write" /\ o.obj = "etc"
        BY DEF Unpacks
      <4> QED BY <1>0, <2>2, <4>1, StepDone DEF Rest, InPlace
    <3>2. pc' = "teardown" /\ UNCHANGED <<fs, mounted, disk>>
      BY <1>8 DEF SaveFails
    <3> QED BY <2>2, <3>1, <3>2, ResumableMark
  <2> QED BY <1>8, <2>1, <2>2 DEF SaveFails
<1>18. CASE OwnSaveFails
  <2>1. /\ pc = "run" /\ idx \in DOMAIN Steps /\ done' = done \cup {Steps[idx].key}
        /\ UNCHANGED <<idx, snap, runFile, stateFile, fs, mounted>> /\ idx # u
    BY <1>0, <1>18, <1>o DEF OwnSaveFails, world, Marked, RootFirst, InRun, Unpacks, Step, TypeOK
  <2>2. Steps[u].key \in done' => Steps[u].key \in done
    BY <1>o, <2>1 DEF ByOwnMark
  <2> QED BY <1>d, <2>1, <2>2 DEF Resumable, InRun
<1>9. CASE Retry
  BY <1>9, <1>r, <1>t DEF Retry, world, InRun
<1>10. CASE Skip
  <2>1. /\ pc = "ask" /\ pc' = "loop" /\ idx' = idx + 1 /\ Mark(Step.key) /\ Step.key \in Skippable
        /\ UNCHANGED <<fs, mounted, disk>>
    BY <1>10 DEF Skip
  <2>2. idx # u
    BY <2>1 DEF Step
  <2> QED BY <2>1, <2>2, ResumableMark
<1>11. CASE Abort
  BY <1>11, <1>q DEF Abort, world, InRun
<1>12. CASE Complete
  BY <1>12, <1>q DEF Complete, world, InRun
<1>13. CASE Teardown
  BY <1>13, <1>q DEF Teardown, InRun
<1>14. CASE Kill
  BY <1>14, <1>q DEF Kill, world, InRun
<1>15. CASE Reboot
  <2>1. /\ pc' = "idle" /\ runFile' = {} /\ fs'[disk] = fs[disk] /\ stateFile'[disk] = stateFile[disk]
    BY <1>d, <1>15 DEF Reboot
  <2> QED BY <1>q, <2>1 DEF InRun
<1>16. CASE Unmount
  BY <1>16, <1>q DEF Unmount, InRun
<1>17. CASE UNCHANGED vars
  BY <1>17 DEF vars, Resumable, InRun
<1> QED BY <1>1, <1>2, <1>3, <1>4, <1>5, <1>6, <1>7, <1>8, <1>9, <1>10, <1>11, <1>12,
           <1>13, <1>14, <1>15, <1>16, <1>17, <1>18 DEF Next

\* The first effect of a refused step is the wipe of a disk that holds no
\* resumable state.
LEMMA RefusedOnlyWipe ==
    ASSUME NEW z, NEW r, NEW f, NEW c, Layout(z, r, f, c), Dependable, NEW u,
           BaseInv(z, r, f, c), Rest(z, r, c), Resumable(z, u),
           pc = "run", op <= Len(Step.ops), ~CanPerform(Step.ops[op])
    PROVE  Step.ops[op].kind = "zap" /\ "fstab" \notin fs[disk]
<1> DEFINE o == Step.ops[op]
<1>0. TypeOK /\ RootFirst(z, r) /\ LiveBare /\ skipped \subseteq Skippable /\ EtcThere(f)
  BY DEF BaseInv, ChrootIInv
<1>1. /\ idx \in DOMAIN Steps /\ op \in DOMAIN Steps[idx].ops /\ o = Steps[idx].ops[op]
      /\ idx \in Nat /\ op \in Nat /\ op >= 1 /\ o \in OpsOf(Steps[idx])
      /\ o.kind = "zap" => idx = z
      /\ o.kind = "root" => idx = r
      /\ o.kind \in {"write", "create"} => idx > r
  BY <1>0, AtKind
<1>2. /\ z = 1 /\ z < r /\ r \in Nat /\ Steps[z].gate = "probe" /\ Steps[z].key \notin Skippable
      /\ z \in DOMAIN Steps /\ DOMAIN Steps = 1..Len(Steps)
  BY LayoutFacts
<1>3. o.needs \subseteq fs[Where] \cup mounted
  <2>1. CASE "root" \in mounted
    BY <2>1, NeedsMet
  <2>2. CASE "root" \notin mounted
    <3>1. idx < r \/ (idx = r /\ op = 1)
      BY <1>0, <1>1, <1>2, <2>2 DEF RootFirst, InRun
    <3>2. idx \in 1..r
      BY <1>1, <1>2, <3>1
    <3> QED BY <1>1, <3>1, <3>2 DEF Layout, GatesSound
  <2> QED BY <2>1, <2>2
<1>4. o.kind = "root" => "filesystems" \in fs[disk]
  <2> SUFFICES ASSUME o.kind = "root" PROVE "filesystems" \in fs[disk]
    OBVIOUS
  <2>1. PICK e \in OpsOf(Steps[z]) : e.kind = "blk" /\ e.obj = "filesystems"
    BY DEF Layout, GatesSound
  <2>2. InPlace(e)
    BY <1>0, <1>1, <1>2, <2>1 DEF Rest, Progress, InRun
  <2> QED BY <2>1, <2>2 DEF InPlace
<1>5. o.kind = "create" => o.obj \notin fs[Where]
  <2> SUFFICES ASSUME o.kind = "create" PROVE o.obj \notin fs[Where]
    OBVIOUS
  <2>1. AllAtOnce(idx)
    BY <1>1 DEF Layout, GatesSound
  <2>2. Where = disk
    BY <1>0, <1>1, TheDisk DEF RootFirst, InRun
  <2> QED BY <1>1, <2>1, <2>2 DEF Rest, WholesTrue, Doing
<1>6. o.kind = "zap" /\ snap
  BY <1>3, <1>4, <1>5 DEF CanPerform
<1>7. idx = z /\ Steps[z].key \notin done
  BY <1>0, <1>1, <1>6 DEF RootFirst
<1>8. "fstab" \notin fs[disk]
  <2> SUFFICES ASSUME "fstab" \in fs[disk] PROVE FALSE
    OBVIOUS
  <2>1. "etc" \in fs[disk]
    BY <1>0, TheDisk DEF EtcThere
  <2>2. Steps[z].key \in stateFile[disk] /\ stateFile[disk] \subseteq done
    BY <1>6, <1>7, <2>1 DEF Resumable, InRun
  <2> QED BY <1>7, <2>2
<1> QED BY <1>6, <1>8

\* With no fault, no command is refused but the wipe of a mounted disk.
LEMMA NoFaultNext ==
    ASSUME NEW z, NEW r, NEW f, NEW c, Layout(z, r, f, c), Dependable, NEW u,
           BaseInv(z, r, f, c), Rest(z, r, c), Resumable(z, u), NoFaultNoFailure, [Next]_vars
    PROVE  NoFaultNoFailure'
<1>0. TypeOK
  BY DEF BaseInv, ChrootIInv
<1>1. CASE FailOp
  <2>1. /\ pc = "run" /\ op <= Len(Step.ops) /\ UNCHANGED <<idx, op, fs, disk>>
        /\ \/ ~CanPerform(Step.ops[op])
           \/ faults' = faults + 1
    BY <1>1 DEF FailOp, world
  <2>2. faults' = 0 => ~CanPerform(Step.ops[op])
    BY <1>0, <2>1 DEF TypeOK
  <2>3. Step' = Step
    BY <2>1 DEF Step
  <2> QED BY <2>1, <2>2, <2>3, RefusedOnlyWipe DEF NoFaultNoFailure
<1>2. CASE pc' # "ask"
  BY <1>2 DEF NoFaultNoFailure
<1>3. CASE UNCHANGED vars
  BY <1>3 DEF NoFaultNoFailure, vars, Step
<1>4. [Next]_vars => FailOp \/ OwnSaveFails \/ pc' # "ask" \/ UNCHANGED vars
  BY <1>0 DEF Next, StartRun, Remount, PassOver, BeginStep, RunOp, FinishStep, SaveFails, Retry, Skip,
         Abort, Complete, Teardown, Kill, Reboot, Unmount
<1>5. CASE OwnSaveFails
  <2>1. faults \in Nat /\ faults' = faults + 1
    BY <1>0, <1>5 DEF OwnSaveFails, TypeOK
  <2>2. faults' # 0
    BY <2>1
  <2> QED BY <2>2 DEF NoFaultNoFailure
<1> QED BY <1>1, <1>2, <1>3, <1>4, <1>5

\* In a run without a fault no step fails, in a first run or in one resumed at
\* any point after a kill, a reboot or an unmount, except the refusal to wipe
\* a mounted disk that holds no resumable state.
THEOREM NothingRefused ==
    ASSUME Dependable,
           \A r, u, f \in DOMAIN Steps : Unpacks(r, u, f) => Steps[u].key \notin Skippable
    PROVE  Spec => []NoFaultNoFailure
<1> PICK z \in DOMAIN Steps, r \in DOMAIN Steps :
        /\ DiskFirst(z, r)
        /\ \E f, c \in DOMAIN Steps :
            /\ ChrootReady(f, c) /\ GatesSound(z, r, c)
            /\ \E u \in DOMAIN Steps : Unpacks(r, u, f)
  BY GatesAssumption
<1> PICK f \in DOMAIN Steps, c \in DOMAIN Steps :
        /\ ChrootReady(f, c) /\ GatesSound(z, r, c)
        /\ \E u \in DOMAIN Steps : Unpacks(r, u, f)
  OBVIOUS
<1> PICK u \in DOMAIN Steps : Unpacks(r, u, f)
  OBVIOUS
<1>l. Layout(z, r, f, c) /\ Steps[u].key \notin Skippable
  BY DEF Layout
<1> DEFINE I == /\ BaseInv(z, r, f, c) /\ Rest(z, r, c) /\ CompleteMeansInstalled
                /\ Resumable(z, u) /\ NoFaultNoFailure
<1>1. Init => I
  <2>1. Init => Resumable(z, u) /\ NoFaultNoFailure
    BY DEF Init, Resumable, NoFaultNoFailure, InRun, Volumes
  <2> QED BY <1>l, <2>1, BaseInit, RestInit
<1>2. I /\ [Next]_vars => I'
  BY <1>l, BaseNext, RestNext, ResumableNext, NoFaultNext
<1> QED BY <1>1, <1>2, PTL DEF Spec

-----------------------------------------------------------------------------
(* Root is locked last. *)

\* Root is locked by one effect of one step, and what lets an administrator in
\* is put on the disk by earlier steps that are requested and not skipped.
AdminFirst(l, k) ==
    /\ k \in DOMAIN Steps[l].ops /\ Steps[l].ops[k].kind = "write"
    /\ OnlyBy("root.locked", l, k)
    /\ \A a \in Admin : \E j \in DOMAIN Steps :
        /\ j < l /\ Steps[j].gate # "off" /\ Steps[j].key \notin Skippable
        /\ \E o \in OpsOf(Steps[j]) : o.obj = a /\ o.kind \in {"blk", "write", "create"}

\* Nothing is ever written to the live medium's own tree.
LiveEmpty == fs[Live] = {}

LEMMA AdminNext ==
    ASSUME NEW z, NEW r, NEW f, NEW c, Layout(z, r, f, c), Dependable,
           NEW l \in DOMAIN Steps, NEW k, AdminFirst(l, k),
           BaseInv(z, r, f, c), Rest(z, r, c), LiveEmpty, AdminReachable, [Next]_vars
    PROVE  LiveEmpty' /\ AdminReachable'
<1>0. TypeOK /\ TypeOK' /\ RootFirst(z, r) /\ LiveBare /\ skipped \subseteq Skippable
  BY TypeNext DEF BaseInv, ChrootIInv
<1>d. /\ disk' = disk /\ Disks = {disk} /\ disk # Live /\ disk \in Volumes /\ Live \in Volumes
      /\ Volumes = {disk, Live} /\ fs \in [Volumes -> SUBSET STRING]
      /\ "root" \in mounted => Where = disk
  BY <1>0, TheDisk DEF TypeOK
<1>q. ASSUME fs'[Live] = {}, "root.locked" \in fs'[disk] => Admin \subseteq fs'[disk]
      PROVE  LiveEmpty' /\ AdminReachable'
  BY <1>d, <1>q DEF LiveEmpty, AdminReachable
<1>1. CASE RunOp
  <2> DEFINE o == Step.ops[op]
  <2>1. /\ pc = "run" /\ op <= Len(Step.ops) /\ Perform(o)
    BY <1>1 DEF RunOp
  <2>2. /\ idx \in DOMAIN Steps /\ op \in DOMAIN Steps[idx].ops /\ o = Steps[idx].ops[op]
        /\ o.kind \in {"write", "create"} => idx > r
    BY <1>0, <2>1, AtKind
  <2>3. o.kind \in {"write", "create"} => Where = disk
    BY <1>0, <1>d, <2>1, <2>2 DEF RootFirst, InRun
  <2>4. fs'[Live] = {}
    BY <1>d, <2>1, <2>3 DEF Perform, LiveEmpty
  <2>5. CASE o.kind = "zap"
    <3>1. fs'[disk] = {}
      BY <1>d, <2>1, <2>5 DEF Perform
    <3> QED BY <1>q, <2>4, <3>1
  <2>6. CASE o.kind # "zap"
    <3>1. fs[disk] \subseteq fs'[disk] /\ fs'[disk] \subseteq fs[disk] \cup {o.obj}
      BY <1>1, <2>6, Performed
    <3>2. ASSUME o.obj = "root.locked", NEW a \in Admin PROVE a \in fs[disk]
      <4>1. idx = l
        BY <2>2, <3>2 DEF AdminFirst, OnlyBy
      <4>2. PICK j \in DOMAIN Steps :
               /\ j < l /\ Steps[j].gate # "off" /\ Steps[j].key \notin Skippable
               /\ \E e \in OpsOf(Steps[j]) : e.obj = a /\ e.kind \in {"blk", "write", "create"}
        BY <3>2 DEF AdminFirst
      <4>3. PICK e \in OpsOf(Steps[j]) : e.obj = a /\ e.kind \in {"blk", "write", "create"}
        BY <4>2
      <4>4. InPlace(e)
        BY <1>0, <2>1, <4>1, <4>2 DEF Rest, Progress, InRun
      <4> QED BY <4>3, <4>4 DEF InPlace
    <3> QED BY <1>d, <1>q, <2>4, <3>1, <3>2 DEF AdminReachable
  <2> QED BY <2>5, <2>6
<1>2. CASE Reboot
  <2>1. fs'[Live] = {} /\ fs'[disk] = fs[disk]
    BY <1>d, <1>2 DEF Reboot
  <2> QED BY <1>d, <1>q, <2>1 DEF AdminReachable
<1>3. CASE fs' = fs
  BY <1>d, <1>q, <1>3 DEF AdminReachable, LiveEmpty
<1>4. [Next]_vars => RunOp \/ Reboot \/ fs' = fs
  BY DEF Next, vars, world, StartRun, Remount, PassOver, BeginStep, FailOp, FinishStep, SaveFails, OwnSaveFails,
         Retry, Skip, Abort, Complete, Teardown, Kill, Unmount
<1> QED BY <1>1, <1>2, <1>3, <1>4

\* The root account of a disk is never locked before an administrator can get
\* in, whatever was interrupted and resumed before.
THEOREM LockedLast ==
    ASSUME Dependable, NEW l \in DOMAIN Steps, NEW k, AdminFirst(l, k)
    PROVE  Spec => []AdminReachable
<1> PICK z \in DOMAIN Steps, r \in DOMAIN Steps :
        /\ DiskFirst(z, r)
        /\ \E f, c \in DOMAIN Steps :
            /\ ChrootReady(f, c) /\ GatesSound(z, r, c)
            /\ \E u \in DOMAIN Steps : Unpacks(r, u, f)
  BY GatesAssumption
<1> PICK f \in DOMAIN Steps, c \in DOMAIN Steps : ChrootReady(f, c) /\ GatesSound(z, r, c)
  OBVIOUS
<1>l. Layout(z, r, f, c)
  BY DEF Layout
<1> DEFINE I == /\ BaseInv(z, r, f, c) /\ Rest(z, r, c) /\ CompleteMeansInstalled
                /\ LiveEmpty /\ AdminReachable
<1>1. Init => I
  <2>1. Init => LiveEmpty /\ AdminReachable
    BY DEF Init, LiveEmpty, AdminReachable, Volumes
  <2> QED BY <1>l, <2>1, BaseInit, RestInit
<1>2. I /\ [Next]_vars => I'
  BY <1>l, BaseNext, RestNext, AdminNext
<1> QED BY <1>1, <1>2, PTL DEF Spec
=============================================================================
