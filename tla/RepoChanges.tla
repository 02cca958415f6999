----------------------------- MODULE RepoChanges -----------------------------
(***************************************************************************)
(* Software repositories: enabling, adding, disabling, removing, editing    *)
(* and refresh-on-open are staged (gest/core/repos/pending.py) and applied  *)
(* on Accept (gest/tui/screens/repos.py): eselect repository for each state *)
(* change, then one batch of file writes for the rest.                      *)
(***************************************************************************)
EXTENDS Naturals, Sequences, FiniteSets, SequencesExt, Functions

CONSTANTS Repos,           \* names
          MainRepo,        \* protected: only its fields can be edited
          MaxMarks,        \* changes staged in a behaviour
          MaxAccepts,      \* Accepts
          MaxRepoFaults    \* calls that fail by themselves

\* Finitely many, none of them called as the tags of the two record files.
ASSUME ReposAssumption ==
    /\ MainRepo \in Repos /\ IsFiniteSet(Repos) /\ Repos \cap {"disabled", "refresh"} = {}
    /\ {MaxMarks, MaxAccepts, MaxRepoFaults} \subseteq Nat

VARIABLES conf,            \* repos.conf: name -> the file it is in and its URI
          disabledFile,    \* /etc/portage/gest/disabled: name -> URI
          refreshFile,     \* /etc/portage/gest/refresh: a set of names
          marks,           \* Pending: state, adds, edits, refresh
          listed,          \* _repos and _disabled as last loaded
          loading,         \* a _load task is under way
          open,            \* the screen is on the stack
          accept,          \* the _accept tasks
          marked, repoFaults

repoVars == <<conf, disabledFile, refreshFile, marks, listed, loading, open,
              accept, marked, repoFaults>>

NoMap == [n \in {} |-> n]
NoMarks == [state |-> NoMap, adds |-> NoMap, edits |-> NoMap, refresh |-> NoMap]
Put(f, n, v) == [m \in DOMAIN f \cup {n} |-> IF m = n THEN v ELSE f[m]]
Drop(f, n) == Restrict(f, DOMAIN f \ {n})

-----------------------------------------------------------------------------
(* Pending *)

IsEmpty == marks = NoMarks
\* The same mark again clears it; removing forgets edit and refresh.
MarkState(n, op) ==
    IF n \in DOMAIN marks.state /\ marks.state[n] = op
    THEN [marks EXCEPT !.state = Drop(@, n)]
    ELSE IF op = "remove"
    THEN [marks EXCEPT !.state = Put(@, n, op), !.refresh = Drop(@, n), !.edits = Drop(@, n)]
    ELSE [marks EXCEPT !.state = Put(@, n, op)]
ToggleRefresh(n, now) ==
    LET want == ~(IF n \in DOMAIN marks.refresh THEN marks.refresh[n] ELSE now)
    IN  [marks EXCEPT !.refresh = IF want = now THEN Drop(@, n) ELSE Put(@, n, want)]
CancelNew(n) ==
    [state |-> Drop(marks.state, n), adds |-> Drop(marks.adds, n),
     edits |-> Drop(marks.edits, n), refresh |-> Drop(marks.refresh, n)]
\* Adds and enables before disables and removes.
OrderedOps ==
    LET Some(kind, names) == SetToSeq({[kind |-> kind, name |-> n] : n \in names})
        Of(op) == {n \in DOMAIN marks.state : marks.state[n] = op}
    IN  Some("add", DOMAIN marks.adds) \o Some("enable", Of("enable"))
        \o Some("disable", Of("disable")) \o Some("remove", Of("remove"))
\* Mutant: removing a repository does not touch the refresh file.
TouchesRefreshFile_toggles == marks.refresh # NoMap
TouchesRefreshFile ==
    marks.refresh # NoMap \/ \E n \in DOMAIN marks.state : marks.state[n] = "remove"
ResolvedRefresh(on) ==
    LET kept == {n \in on : ~(n \in DOMAIN marks.state /\ marks.state[n] = "remove")}
    IN  {n \in kept \cup DOMAIN marks.refresh :
            n \in DOMAIN marks.refresh => marks.refresh[n]}

-----------------------------------------------------------------------------
(* The screen *)

Listed == [enabled |-> [n \in DOMAIN conf |-> conf[n].uri],
           disabled |-> Restrict(disabledFile, DOMAIN disabledFile \ DOMAIN conf),
           refresh |-> refreshFile \cap DOMAIN conf]
Known(n) == n \in DOMAIN listed.enabled \cup DOMAIN listed.disabled
                  \cup DOMAIN marks.state \cup DOMAIN marks.adds

ReposInit ==
    \* eselect keeps its repositories in one file.
    /\ conf \in {[n \in S \cup {MainRepo} |-> [file |-> IF n = MainRepo THEN MainRepo ELSE "eselect",
                                               uri |-> "old"]] : S \in SUBSET Repos}
    /\ disabledFile \in {[n \in S |-> "old"] : S \in SUBSET (Repos \ DOMAIN conf)}
    /\ refreshFile = {} /\ marks = NoMarks
    /\ listed = [enabled |-> NoMap, disabled |-> NoMap, refresh |-> {}]
    /\ loading = TRUE /\ open = TRUE
    /\ accept = <<>> /\ marked = 0 /\ repoFaults = 0

Load ==
    /\ loading
    /\ listed' = Listed /\ loading' = FALSE
    /\ UNCHANGED <<conf, disabledFile, refreshFile, marks, open, accept, marked, repoFaults>>
Reload ==
    /\ open /\ ~loading /\ loading' = TRUE
    /\ UNCHANGED <<conf, disabledFile, refreshFile, marks, listed, open, accept, marked, repoFaults>>

\* Something is staged or discarded under a running Accept: whether it is a
\* name that gained or lost its edit matters to the loop over the edits.
Disturb ==
    accept' = [t \in 1..Len(accept) |->
                  [accept[t] EXCEPT !.steady = FALSE,
                                    !.resized = @ \/ DOMAIN marks'.edits # DOMAIN marks.edits]]
Stages(new) ==
    /\ open /\ marked < MaxMarks
    /\ marks' = new /\ marked' = marked + 1 /\ Disturb
    /\ UNCHANGED <<conf, disabledFile, refreshFile, listed, loading, open, repoFaults>>
\* Mutant: the main repository is like any other.
Mark_any(n) == n \in DOMAIN listed.enabled /\ Stages(MarkState(n, "remove"))
\* d, x and t on a row; a on a disabled one.
Mark(n) ==
    \/ /\ n \in DOMAIN listed.enabled /\ n # MainRepo
       /\ Stages(MarkState(n, "disable")) \/ Stages(MarkState(n, "remove"))
          \/ Stages(ToggleRefresh(n, n \in listed.refresh))
    \/ /\ n \in DOMAIN listed.disabled
       /\ Stages(MarkState(n, "enable")) \/ Stages(MarkState(n, "remove"))
    \/ /\ n \notin DOMAIN listed.enabled \cup DOMAIN listed.disabled
       /\ n \in DOMAIN marks.adds \cup DOMAIN marks.state
       /\ Stages(CancelNew(n))
\* The dialogues: enable by name, add, edit an enabled repository.
EnableNew(n) == ~Known(n) /\ Stages(MarkState(n, "enable"))
Add(n) == ~Known(n) /\ Stages([marks EXCEPT !.adds = Put(@, n, "new")])
Edit(n) ==
    /\ n \in DOMAIN listed.enabled
    /\ Stages([marks EXCEPT !.edits = Put(@, n, "new")])
\* F9; Esc, with "Discard & leave" when something is staged.
DropMarks ==
    /\ open /\ ~IsEmpty /\ marks' = NoMarks /\ Disturb
    /\ UNCHANGED <<conf, disabledFile, refreshFile, listed, loading, open, marked, repoFaults>>
LeaveRepos ==
    /\ open /\ open' = FALSE /\ marks' = NoMarks /\ Disturb
    /\ UNCHANGED <<conf, disabledFile, refreshFile, listed, loading, marked, repoFaults>>

\* F10: what is listed and staged now is what the task works on.
Running == {t \in 1..Len(accept) : accept[t].pc # "end"}
NotEnabled(task, n) == n \in DOMAIN task.listed.disabled
Forgets(task, op) == op.kind = "remove" /\ NotEnabled(task, op.name)
AcceptMarks ==
    /\ open /\ ~IsEmpty /\ Len(accept) < MaxAccepts
    /\ LET task == [pc |-> "connect", ops |-> OrderedOps, done |-> 0, adds |-> marks.adds,
                    listed |-> listed, final |-> listed.disabled, ok |-> TRUE,
                    alone |-> Running = {} /\ listed = Listed
                              /\ DOMAIN conf \cap DOMAIN disabledFile = {},
                    steady |-> TRUE, staged |-> marks, files |-> <<>>,
                    names |-> {}, seen |-> {}, taken |-> NoMap, resized |-> FALSE]
       IN  accept' = Append([t \in 1..Len(accept) |-> [accept[t] EXCEPT !.alone = FALSE]], task)
    /\ UNCHANGED <<conf, disabledFile, refreshFile, marks, listed, loading, open, marked, repoFaults>>

-----------------------------------------------------------------------------
(* _accept *)

AcceptAt(t, pc) == t \in 1..Len(accept) /\ accept[t].pc = pc
Ended == [pc |-> "end", ops |-> <<>>, done |-> 0, adds |-> NoMap, listed |-> NoMap,
          final |-> NoMap, ok |-> TRUE, alone |-> FALSE,
          steady |-> FALSE, staged |-> NoMarks, files |-> <<>>,
          names |-> {}, seen |-> {}, taken |-> NoMap, resized |-> FALSE]
MayFail == repoFaults < MaxRepoFaults

\* Without the backend nothing is tried and everything stays staged.
ConnectRepos(t) ==
    /\ AcceptAt(t, "connect")
    /\ \/ accept' = [accept EXCEPT ![t].pc = "run"] /\ UNCHANGED repoFaults
       \/ /\ MayFail /\ \E i \in 1..Len(accept[t].ops) : ~Forgets(accept[t], accept[t].ops[i])
          /\ accept' = [accept EXCEPT ![t] = Ended] /\ repoFaults' = repoFaults + 1
    /\ UNCHANGED <<conf, disabledFile, refreshFile, marks, listed, loading, open, marked>>

\* eselect repository, external: add and enable need a new name, disable and
\* remove an existing one.
Eselect(kind, n, uri) ==
    IF kind \in {"add", "enable"}
    THEN [can |-> n \notin DOMAIN conf, conf |-> Put(conf, n, [file |-> "eselect", uri |-> uri])]
    ELSE [can |-> n \in DOMAIN conf, conf |-> Drop(conf, n)]
\* _apply_op's call for an operation: a disabled repository comes back with
\* the URI that was kept for it.
Call(task, op) ==
    Eselect(op.kind, op.name,
            IF op.kind = "add" THEN task.adds[op.name]
            ELSE IF NotEnabled(task, op.name) THEN task.listed.disabled[op.name] ELSE "list")
\* Mutant: a disabled repository is not recorded.
Kept_forgets(task, op) == Drop(task.final, op.name)
\* The record of disabled repositories after an operation that worked.
Kept(task, op) ==
    IF op.kind = "disable" /\ op.name \in DOMAIN task.listed.enabled
    THEN Put(task.final, op.name, task.listed.enabled[op.name])
    ELSE IF op.kind \in {"add", "disable"} THEN task.final
    ELSE IF op.kind = "enable" /\ ~NotEnabled(task, op.name) THEN task.final
    ELSE Drop(task.final, op.name)

\* One operation: a failure is noted and the next one runs.
ApplyMark(t) ==
    LET task == accept[t]
        op == task.ops[task.done + 1]
        call == Call(task, op)
        Worked == accept' = [accept EXCEPT ![t].done = @ + 1, ![t].final = Kept(task, op)]
    IN
    /\ AcceptAt(t, "run") /\ task.done < Len(task.ops)
    /\ \/ Forgets(task, op) /\ Worked /\ UNCHANGED <<conf, repoFaults>>
       \/ /\ ~Forgets(task, op) /\ call.can
          /\ Worked /\ conf' = call.conf /\ UNCHANGED repoFaults
       \/ /\ ~Forgets(task, op) /\ (~call.can \/ MayFail)
          /\ accept' = [accept EXCEPT ![t].done = @ + 1, ![t].ok = FALSE]
          /\ repoFaults' = IF call.can THEN repoFaults + 1 ELSE repoFaults
          /\ UNCHANGED conf
    /\ UNCHANGED <<disabledFile, refreshFile, marks, listed, loading, open, marked>>

\* _write_state first builds the two records, from what is staged by now.
Records(task) ==
    (IF task.final = task.listed.disabled THEN <<>>
     ELSE <<[file |-> "disabled", text |-> task.final]>>)
    \o (IF ~TouchesRefreshFile THEN <<>>
        ELSE <<[file |-> "refresh", text |-> ResolvedRefresh(listed.refresh \ {MainRepo})]>>)
\* for ... in self._pending.edits.items(): the next edit that is staged, or
\* none left.  Names that came or went since the loop began end the task with
\* RuntimeError when there are more or fewer of them, and then nothing is
\* written, reported or cleared; with as many as before the dict may go on
\* from where it was.
Going(task) == ~task.resized \/ Cardinality(DOMAIN marks.edits) = Cardinality(task.names)
NextEdit(t, task) ==
    \/ /\ Going(task)
       /\ \E n \in DOMAIN marks.edits \ task.seen :
            accept' = [accept EXCEPT ![t] = [task EXCEPT !.pc = "edits", !.seen = @ \cup {n},
                                                         !.taken = Put(NoMap, n, marks.edits[n])]]
    \/ /\ Going(task) /\ (task.resized \/ DOMAIN marks.edits \subseteq task.seen)
       /\ accept' = [accept EXCEPT ![t] = [task EXCEPT !.pc = "write"]]
    \/ task.resized /\ accept' = [accept EXCEPT ![t] = Ended]
LoopOver(task) == [task EXCEPT !.names = DOMAIN marks.edits, !.resized = FALSE]
WriteState(t) ==
    LET task == [accept[t] EXCEPT !.files = Records(accept[t])] IN
    /\ AcceptAt(t, "run") /\ accept[t].done = Len(accept[t].ops)
    /\ IF task.files = <<>> THEN NextEdit(t, LoopOver(task))
       ELSE accept' = [accept EXCEPT ![t] = [task EXCEPT !.pc = "records"]]
    /\ UNCHANGED <<conf, disabledFile, refreshFile, marks, listed, loading, open, marked, repoFaults>>
\* The records are built in a thread; the loop over the edits begins.
BeginEdits(t) ==
    /\ AcceptAt(t, "records") /\ NextEdit(t, LoopOver(accept[t]))
    /\ UNCHANGED <<conf, disabledFile, refreshFile, marks, listed, loading, open, marked, repoFaults>>

\* locate and set_fields: the whole fragment as it is on disk, with the
\* repository's fields changed; a repository that is nowhere gets a file.
Fragment(edit) ==
    LET n == CHOOSE m \in DOMAIN edit : TRUE
        file == IF n \in DOMAIN conf THEN conf[n].file ELSE n
        there == {m \in DOMAIN conf : conf[m].file = file}
    IN  [file |-> file, text |-> [m \in there \cup {n} |-> IF m = n THEN edit[n] ELSE conf[m].uri]]
LocateEdit(t) ==
    /\ AcceptAt(t, "edits")
    /\ NextEdit(t, [accept[t] EXCEPT !.files = Append(@, Fragment(accept[t].taken))])
    /\ UNCHANGED <<conf, disabledFile, refreshFile, marks, listed, loading, open, marked, repoFaults>>

\* PortageBackend.write_config: the files in order; an error stops half-way.
WriteOne(s, w) ==
    IF w.file = "disabled" THEN [s EXCEPT !.disabled = w.text]
    ELSE IF w.file = "refresh" THEN [s EXCEPT !.refresh = w.text]
    ELSE LET others == {n \in DOMAIN s.conf : s.conf[n].file # w.file}
         IN  [s EXCEPT !.conf = [n \in others \cup DOMAIN w.text |->
                 IF n \in DOMAIN w.text THEN [file |-> w.file, uri |-> w.text[n]] ELSE @[n]]]
Written(files) ==
    LET after[k \in 0..Len(files)] ==
            IF k = 0 THEN [conf |-> conf, disabled |-> disabledFile, refresh |-> refreshFile]
            ELSE WriteOne(after[k - 1], files[k])
    IN  after[Len(files)]
Put3(s) == conf' = s.conf /\ disabledFile' = s.disabled /\ refreshFile' = s.refresh
Write(t) ==
    LET files == accept[t].files IN
    /\ AcceptAt(t, "write")
    /\ \/ /\ Put3(Written(files))
          /\ accept' = [accept EXCEPT ![t].pc = "report"] /\ UNCHANGED repoFaults
       \/ /\ files # <<>> /\ MayFail
          /\ \E k \in 0..(Len(files) - 1) : Put3(Written(SubSeq(files, 1, k)))
          /\ accept' = [accept EXCEPT ![t].pc = "report", ![t].ok = FALSE]
          /\ repoFaults' = repoFaults + 1
    /\ UNCHANGED <<marks, listed, loading, open, marked>>

\* Everything staged is forgotten, the outcome reported, the list loaded.
ReportMarks(t) ==
    /\ AcceptAt(t, "report")
    /\ marks' = NoMarks /\ loading' = TRUE
    /\ accept' = [u \in 1..Len(accept) |->
                     IF u = t THEN Ended
                     ELSE [accept[u] EXCEPT !.resized = @ \/ DOMAIN marks.edits # {}]]
    /\ UNCHANGED <<conf, disabledFile, refreshFile, listed, open, marked, repoFaults>>

ReposNext ==
    \/ Load \/ Reload \/ DropMarks \/ LeaveRepos \/ AcceptMarks
    \/ \E n \in Repos : Mark(n) \/ EnableNew(n) \/ Add(n) \/ Edit(n)
    \/ \E t \in 1..Len(accept) :
         ConnectRepos(t) \/ ApplyMark(t) \/ WriteState(t) \/ BeginEdits(t) \/ LocateEdit(t)
         \/ Write(t) \/ ReportMarks(t)
ReposSpec == ReposInit /\ [][ReposNext]_repoVars

-----------------------------------------------------------------------------
(* Properties.                                                              *)

\* The staged marks are about names, the main repository is never marked for
\* leaving and never leaves repos.conf, and the counters keep their bounds.
ReposTypeOK ==
    /\ UNION {DOMAIN marks.state, DOMAIN marks.adds, DOMAIN marks.edits, DOMAIN marks.refresh}
         \subseteq Repos
    /\ MainRepo \in DOMAIN conf
    /\ MainRepo \in DOMAIN marks.state => marks.state[MainRepo] = "enable"
    /\ DOMAIN conf \cup DOMAIN disabledFile \cup refreshFile \subseteq Repos
    /\ marked \in 0..MaxMarks /\ repoFaults \in 0..MaxRepoFaults

\* What is staged for a name is what the system says of it.
InEffect(s) ==
    /\ \A n \in DOMAIN s.adds : n \in DOMAIN conf /\ conf[n].uri = s.adds[n]
    /\ \A n \in DOMAIN s.state :
         CASE s.state[n] = "enable" -> n \in DOMAIN conf /\ n \notin DOMAIN disabledFile
           [] s.state[n] = "disable" -> n \notin DOMAIN conf /\ n \in DOMAIN disabledFile
           [] s.state[n] = "remove" -> n \notin DOMAIN conf \cup DOMAIN disabledFile \cup refreshFile
    /\ \A n \in DOMAIN s.edits : n \in DOMAIN conf /\ conf[n].uri = s.edits[n]
    /\ \A n \in DOMAIN s.refresh : (n \in refreshFile) = s.refresh[n]

\* The edits staged together are in different files, and what leaves is
\* neither edited, nor added, nor marked for refresh afterwards.
Compatible(task) ==
    LET s == task.staged IN
    /\ (DOMAIN s.edits \cup DOMAIN s.adds) \cap DOMAIN s.state = {}
    /\ \A n \in DOMAIN s.refresh : n \in DOMAIN s.state => s.state[n] # "remove"
    /\ \A m, n \in DOMAIN s.edits : m = n \/ MainRepo \in {m, n}

\* An Accept that reports every change as applied has applied every change,
\* if the list said what was there, the record of disabled repositories named
\* none that is enabled, nothing was staged or discarded meanwhile, no other Accept
\* ran beside it and what is staged does not collide.
AppliedInFull ==
    \A t \in 1..Len(accept) :
        AcceptAt(t, "report") /\ accept[t].ok /\ accept[t].alone /\ accept[t].steady /\ Compatible(accept[t])
            => InEffect(accept[t].staged)
ReposInv == ReposTypeOK /\ AppliedInFull

\* No repository is forgotten: a name that is in repos.conf or in the record
\* of disabled ones stays in one of them, or with the Accept that is moving
\* it, unless its removal was asked for (or its addition together with its
\* disabling), the write of the record failed (and is reported), two Accepts
\* ran at once or on a list that did not say what was there, or an edit was
\* staged or discarded while the Accept was looping over the edits.
Remembered(n) == \/ n \in DOMAIN conf \cup DOMAIN disabledFile
                 \/ \E t \in Running : n \in DOMAIN accept[t].final
Asks(task, kind, n) == [kind |-> kind, name |-> n] \in ToSet(task.ops)
Excused(task, n) ==
    Asks(task, "remove", n) \/ (Asks(task, "add", n) /\ Asks(task, "disable", n))
NeverForgotten ==
    [][\A n \in Repos : Remembered(n) /\ ~Remembered(n)' =>
         \E t \in Running : \/ ~accept[t].alone \/ ~accept[t].ok \/ ~accept'[t].ok
                            \/ accept[t].pc = "edits" /\ accept[t].resized
                            \/ Excused(accept[t], n)]_repoVars
=============================================================================
