------------------------------- MODULE Screens -------------------------------
(***************************************************************************)
(* The two frontends' screens over the configuration services: the urwid    *)
(* App with its screen stack, modals and asyncio tasks (gest/tui/runtime.py)*)
(* and the Qt window with its blocking calls (gest/qt/backend.py).          *)
(*                                                                         *)
(* A screen shows an object of the system (a file, a service list) as Items *)
(* with values.  What its keys do is data, one record per operation:        *)
(*   via      "key" at once, "modal" after a form or a confirmation;        *)
(*   carries  what the call sends:  "one" an item and its value; "view" the *)
(*            whole object as last loaded, edited; "fresh" the whole object *)
(*            as the task reads it, edited; "work" the staged copy (taken   *)
(*            when the review opens, if there is one); "form" the same, but *)
(*            with the default for an item the form has no field for;       *)
(*            "now" the staged copy as it is when the task runs; "diff"     *)
(*            the staged copy against the baseline; "side"                  *)
(*            something the screen does not show.  "stage" calls nothing:   *)
(*            it edits the staged copy; "read" only loads again;            *)
(*   needs    an item of the loaded view must have the focus;               *)
(*   ok, bad  what follows a success and a refusal: any of "reload", "pop", *)
(*            "push", "sent" (baseline := what was sent), "working"         *)
(*            (baseline := the staged copy as it is now), "shown" (the view *)
(*            takes the value without reading it back).  An exception only  *)
(*            notifies.                                                     *)
(* A screen `marked' knows its file by a comment GeST writes into it, and    *)
(* takes any other content for none at all.                                 *)
(* Each behaviour opens the screens of `visits', one after the other from   *)
(* the main menu.                                                           *)
(***************************************************************************)
EXTENDS Naturals, Sequences, FiniteSets

CONSTANTS Items,        \* the entries of an object
          Screen,       \* the screens, by name
          Visits,       \* sequences of names of screens, opened in turn
          Tasks,        \* coroutines under way at most
          MaxEdits,     \* operations of the user
          MaxForeign    \* changes made outside GeST

ASSUME ScreensAssumption ==
    /\ MaxEdits \in Nat /\ MaxForeign \in Nat
    /\ Visits \subseteq Seq(DOMAIN Screen)

Ops(s) == {s.ops[n] : n \in DOMAIN s.ops}
\* Operations that change nothing their screen shows.
Silent == {"stage", "side", "read"}
Carriers == Silent \cup {"one", "view", "fresh", "work", "form", "now", "diff"}
Reactions == {"reload", "pop", "push", "sent", "working", "shown"}

\* A reaction is one that what was sent allows.
ASSUME TableAssumption ==
    \A n \in DOMAIN Screen : \A op \in Ops(Screen[n]) :
        LET after == op.ok \cup op.bad IN
        /\ op.carries \in Carriers /\ after \subseteq Reactions
        /\ "sent" \in after => op.carries = "work"
        /\ "working" \in after => op.carries = "diff"
        /\ "shown" \in after => op.carries \in {"one", "fresh", "view"}

\* No task of a screen that asks before it is left closes a screen.
ASSUME AskingAssumption ==
    \A n \in DOMAIN Screen : Screen[n].asks =>
        \A op \in Ops(Screen[n]) : "pop" \notin op.ok \cup op.bad

\* A screen that sends its staged copy changes the object in no other way, and
\* one that takes the copy before its task runs loads the object only when it
\* is opened; one that sends its view brings it up to date after every change.
ASSUME KeepingAssumption ==
    \A n \in DOMAIN Screen :
        LET s == Screen[n]
            Has(kinds) == \E op \in Ops(s) : op.carries \in kinds
        IN  \A op \in Ops(s) :
              /\ Has({"work", "now"}) => op.carries \in Silent \cup {"work", "now"}
              /\ Has({"work"}) =>
                   /\ s.load # "async"
                   /\ op.carries # "read" /\ "reload" \notin op.ok \cup op.bad
              /\ Has({"view"}) /\ op.carries \notin Silent =>
                   op.carries # "diff" /\ op.ok \cap {"reload", "sent", "shown"} # {}

\* A screen that shows the object takes over nothing that was refused; one that
\* takes its staged copy for the new baseline applies and loads in no other way.
ASSUME ShowingAssumption ==
    \A n \in DOMAIN Screen :
        LET s == Screen[n] IN
        s.truth => \A op \in Ops(s) :
            /\ op.bad \cap {"sent", "working"} = {}
            /\ "working" \in op.ok =>
                 /\ s.load # "async"
                 /\ \A o \in Ops(s) : /\ o.carries \in {"stage", "diff"}
                                      /\ "reload" \notin o.ok \cup o.bad
                                      /\ o.carries = "diff" => "working" \in o.ok

\* A screen that may take the file for empty loads it only when it is opened,
\* and what it shows is not what is there.
ASSUME MarkedAssumption ==
    \A n \in DOMAIN Screen :
        LET s == Screen[n] IN
        s.marked => /\ s.load = "init" /\ ~s.truth
                    /\ \A op \in Ops(s) : "reload" \notin op.ok \cup op.bad

VARIABLES visits, stack, inst, file, task, edits, foreign,
          byhand,   \* files of marked screens that somebody else has written
          \* history, for the properties only
          want, undisturbed, current, stray, added

ui == <<visits, stack, inst, file, task, edits, foreign, byhand>>
history == <<want, undisturbed, current, stray, added>>
scrVars == <<visits, stack, inst, file, task, edits, foreign, byhand,
             want, undisturbed, current, stray, added>>

Vals == {0, 1}
Contents == [Items -> Vals]
Unknown == 2
Opens == 1..Len(visits)
\* The item a "form" has no field for.
Unshown == CHOOSE it \in Items : TRUE

\* The object the i-th screen shows: one object for all that show it.
Scr(i) == Screen[visits[i]]
Obj(i) == CHOOSE k \in Opens : Scr(k).shows = Scr(i).shows
Idle == [pc |-> "idle"]
Active == {t \in Tasks : task[t].pc # "idle"}
On(f) == {t \in Active : Obj(task[t].inst) = f}

Top == stack[Len(stack)]
Root == [kind |-> "menu", inst |-> 0]
IsOpen(i) == \E k \in 1..Len(stack) : stack[k].kind = "screen" /\ stack[k].inst = i
\* Mutant: App.pop without its guard.
Popped_any(s) == SubSeq(s, 1, Len(s) - 1)
Popped(s) == IF Len(s) > 1 THEN SubSeq(s, 1, Len(s) - 1) ELSE s
Dirty(i) == inst[i].work # inst[i].view
\* Qt handlers wait for their call: the window takes no input meanwhile.
TakesInput == \A t \in Active : ~Scr(task[t].inst).blocks

-----------------------------------------------------------------------------
ScrInit ==
    /\ visits \in Visits
    /\ stack = <<Root>>
    /\ inst = <<>>
    /\ file = [f \in Opens |-> [it \in Items |-> 0]]
    /\ task = [t \in Tasks |-> Idle]
    /\ edits = 0 /\ foreign = 0 /\ byhand = {}
    /\ want = [f \in Opens |-> [it \in Items |-> Unknown]]
    /\ undisturbed = [f \in Opens |-> TRUE]
    /\ current = [f \in Opens |-> TRUE]
    /\ stray = FALSE /\ added = {}

NewTask(rec) ==
    LET free == {u \in Tasks : task[u] = Idle}
    IN  /\ free # {}
        /\ task' = [task EXCEPT ![CHOOSE u \in free : TRUE] = rec]

\* A task that starts while another one on the same object is under way.
Overlapping(f) == On(f) # {}
NoteOverlap(f) ==
    /\ undisturbed' = [undisturbed EXCEPT ![f] = @ /\ ~Overlapping(f)]
    /\ current' = [current EXCEPT ![f] = @ /\ ~Overlapping(f)]

Nothing == [it \in {} |-> 0]
LoadTask(i) == [pc |-> "read", inst |-> i, ok |-> {}, bad |-> {},
                carries |-> "read", edits |-> {}, data |-> Nothing]

\* The fields of a screen: the baseline, the staged copy, and what the user has
\* set in it since (history).
Fields(content, loaded) ==
    [view |-> content, work |-> content, loaded |-> loaded, set |-> {}]

\* What a screen reads of its file (reader.current_policy, _DEFAULT).
Blank == [it \in Items |-> 0]
Seen(i) == IF Scr(i).marked /\ Obj(i) \in byhand THEN Blank ELSE file[Obj(i)]

\* MenuScreen._open: push a new screen; its constructor reads the object or
\* schedules the first load.
Open ==
    /\ TakesInput /\ Top = Root /\ Len(inst) < Len(visits)
    /\ LET i == Len(inst) + 1
           s == Scr(i)
           f == Obj(i)
       IN  /\ stack' = Append(stack, [kind |-> "screen", inst |-> i])
           /\ inst' = Append(inst, IF s.load = "async" THEN Fields(Blank, FALSE) ELSE Fields(Seen(i), TRUE))
           /\ IF s.load = "async" THEN NewTask(LoadTask(i)) ELSE UNCHANGED task
           /\ NoteOverlap(f)
    /\ UNCHANGED <<visits, file, edits, foreign, byhand, want, stray, added>>

\* Schedule the coroutine of an operation (App.run_async).
Job(i, op, items, data) ==
    [pc |-> IF op.carries \in {"fresh", "now"} THEN "build"
            ELSE IF op.carries = "read" THEN "read" ELSE "call",
     inst |-> i, ok |-> op.ok, bad |-> op.bad,
     carries |-> op.carries, edits |-> items, data |-> data]
Begin(i, op, items, data) ==
    /\ NewTask(Job(i, op, items, data))
    /\ NoteOverlap(Obj(i))
    /\ UNCHANGED <<inst, stray, added>>

\* Edit the staged copy: no call.
NoteAdded(i) ==
    added' = IF \E t \in Active : task[t].inst = i THEN added \cup {i} ELSE added
Stage(i, it, v) ==
    /\ inst' = [inst EXCEPT ![i].work[it] = v, ![i].set = @ \cup {it}]
    /\ NoteAdded(i)
    /\ UNCHANGED <<task, undisturbed, current, stray>>

\* What a save is about: the changes, where there is a baseline to tell them
\* by, and otherwise every field the user has set.
Staged(i) == {it \in Items : inst[i].work[it] # inst[i].view[it]}
Edited(i, op) == IF op.carries = "diff" THEN Staged(i) ELSE inst[i].set

\* What the operation sends, given the item and the value the user chose.
Perform(i, op, it, v) ==
    \/ /\ op.carries = "stage" /\ Stage(i, it, v)
    \/ /\ op.carries \in {"one", "fresh"}
       /\ Begin(i, op, {it}, [x \in {it} |-> v])
    \/ /\ op.carries = "view"
       /\ Begin(i, op, {it}, [inst[i].view EXCEPT ![it] = v])
    \/ /\ op.carries = "work"
       /\ Begin(i, op, Edited(i, op), inst[i].work)
    \/ /\ op.carries = "form"
       /\ Begin(i, op, Edited(i, op), [inst[i].work EXCEPT ![Unshown] = 0])
    \/ /\ op.carries \in {"side", "read", "now"}
       /\ Begin(i, op, {}, Nothing)

Focused(i, op) == op.needs => inst[i].loaded

\* Screen.handle_key on an operation that needs no dialogue.
Press(op) ==
    LET i == Top.inst IN
    /\ TakesInput /\ Top.kind = "screen" /\ edits < MaxEdits
    /\ op.via = "key" /\ Focused(i, op)
    /\ \E it \in Items : Perform(i, op, it, 1 - inst[i].work[it])
    /\ edits' = edits + 1
    /\ UNCHANGED <<visits, stack, file, foreign, byhand, want>>

\* Open the form or the confirmation; a review captures what it shows.
Ask(op) ==
    LET i == Top.inst IN
    /\ TakesInput /\ Top.kind = "screen" /\ edits < MaxEdits
    /\ op.via = "modal" /\ Focused(i, op)
    /\ op.carries \in {"work", "diff"} => Dirty(i) \/ ~Scr(i).asks
    /\ stack' = Append(stack, [kind |-> "modal", inst |-> i, op |-> op,
                               data |-> inst[i].work, edits |-> Edited(i, op)])
    /\ UNCHANGED <<visits, inst, file, task, edits, foreign, byhand, history>>

\* The dialogue's first button (Modal._primary): it pops itself, then acts.
Confirm ==
    LET m == Top
        Diff == [it \in m.edits |-> m.data[it]]
    IN
    /\ TakesInput /\ Top.kind = "modal" /\ edits < MaxEdits
    /\ \/ m.op.carries = "work" /\ Begin(m.inst, m.op, m.edits, m.data)
       \/ m.op.carries = "diff" /\ Begin(m.inst, m.op, m.edits, Diff)
       \/ /\ m.op.carries \notin {"work", "diff"}
          /\ \E it \in Items :
               Perform(m.inst, m.op, it, 1 - inst[m.inst].work[it])
    /\ stack' = Popped(stack)
    /\ edits' = edits + 1
    /\ UNCHANGED <<visits, file, foreign, byhand, want>>

\* F1 and its Close button; Cancel and Esc in any dialogue (Modal.keypress).
Help ==
    /\ TakesInput /\ Top.kind = "screen"
    /\ stack' = Append(stack, [kind |-> "help", inst |-> Top.inst])
    /\ UNCHANGED <<visits, inst, file, task, edits, foreign, byhand, history>>
Cancel ==
    /\ TakesInput /\ Top.kind \notin {"menu", "screen"}
    /\ stack' = Popped(stack)
    /\ UNCHANGED <<visits, inst, file, task, edits, foreign, byhand, history>>

\* Mutant: Esc leaves at once.
Back_drops ==
    /\ TakesInput /\ Top.kind = "screen"
    /\ stack' = Popped(stack)
    /\ UNCHANGED <<visits, inst, file, task, edits, foreign, byhand, history>>

\* Esc on a screen: staged changes are asked about where the screen does so.
Back ==
    /\ TakesInput /\ Top.kind = "screen"
    /\ stack' = IF Scr(Top.inst).asks /\ Dirty(Top.inst)
                THEN Append(stack, [kind |-> "discard?", inst |-> Top.inst])
                ELSE Popped(stack)
    /\ UNCHANGED <<visits, inst, file, task, edits, foreign, byhand, history>>

\* "Discard & back" pops twice.
DiscardBack ==
    /\ TakesInput /\ Top.kind = "discard?"
    /\ stack' = Popped(Popped(stack))
    /\ UNCHANGED <<visits, inst, file, task, edits, foreign, byhand, history>>

\* u: the staged copy returns to the baseline.
Undo ==
    /\ TakesInput /\ Top.kind = "screen" /\ Scr(Top.inst).asks /\ Dirty(Top.inst)
    /\ inst' = [inst EXCEPT ![Top.inst].work = inst[Top.inst].view]
    /\ NoteAdded(Top.inst)
    /\ UNCHANGED <<visits, stack, file, task, edits, foreign, byhand, want,
                   undisturbed, current, stray>>

-----------------------------------------------------------------------------
(* The coroutine.                                                           *)

Finish(t) == [task EXCEPT ![t] = Idle]
At(t, pc) == task[t].pc = pc
Data(t) == task[t].data
Over(new, old) == [it \in Items |-> IF it \in DOMAIN new THEN new[it] ELSE old[it]]

\* Mutant: the new content is built from what the screen has loaded.
Build_cached(t) ==
    LET r == task[t] IN
    /\ At(t, "build")
    /\ task' = [task EXCEPT ![t] = [r EXCEPT !.pc = "call", !.data = Over(r.data, inst[r.inst].view)]]
    /\ UNCHANGED <<visits, stack, inst, file, edits, foreign, byhand, history>>
\* A screen that only writes sends nothing when its choices are those of the
\* files; one that rebuilds the package afterwards always does.
NothingNew(r) ==
    r.carries = "now" /\ "push" \notin r.ok /\ inst[r.inst].work = file[Obj(r.inst)]
\* "No changes to apply": the screen stays.
NothingToDo(t) ==
    /\ At(t, "build") /\ NothingNew(task[t])
    /\ task' = Finish(t)
    /\ UNCHANGED <<visits, stack, inst, file, edits, foreign, byhand, history>>

\* run_blocking(build): the new content from what is read now.
Build(t) ==
    LET r == task[t] IN
    /\ At(t, "build") /\ ~NothingNew(r)
    /\ task' = [task EXCEPT ![t] =
         IF r.carries = "now"
         THEN [r EXCEPT !.pc = "call", !.data = inst[r.inst].work,
                        !.edits = inst[r.inst].set]
         ELSE [r EXCEPT !.pc = "call", !.data = Over(r.data, file[Obj(r.inst)])]]
    /\ UNCHANGED <<visits, stack, inst, file, edits, foreign, byhand, history>>

\* The backend makes the change (external: see ConfigService).
Effect(t) ==
    LET f == Obj(task[t].inst) IN
    IF task[t].carries = "side" THEN UNCHANGED <<file, byhand>>
    ELSE /\ file' = [file EXCEPT ![f] = Over(Data(t), file[f])]
         /\ byhand' = byhand \ {f}
\* The operation changes what its screen shows, and the screen does not follow.
Leaves(r) ==
    r.carries \notin Silent
    /\ r.ok \cap {"reload", "sent", "working", "shown", "pop"} = {}
\* The reply: done; refused; an error, a lost connection.  A refusal or an
\* error may come after the change was made.
Reply(t) ==
    LET r == task[t]
        f == Obj(r.inst)
        Note(x) == want' = [want EXCEPT ![f] =
                     [it \in Items |-> IF it \in r.edits THEN x[it] ELSE @[it]]]
    IN
    /\ At(t, "call")
    /\ \/ /\ Effect(t)
          /\ task' = [task EXCEPT ![t].pc = "ok"]
          /\ Note(Over(r.data, file[f]))
          /\ current' = [current EXCEPT ![f] = @ /\ ~Leaves(r)]
       \/ \E e \in {"refused", "raised"} :
            /\ \/ Effect(t)
               \/ UNCHANGED <<file, byhand>>
            /\ task' = [task EXCEPT ![t].pc = e]
            /\ Note([it \in Items |-> Unknown])
            /\ current' = [current EXCEPT ![f] = @ /\ file' = file]
    /\ UNCHANGED <<visits, stack, inst, edits, foreign, undisturbed, stray, added>>

\* Mutant: a refused call is made again.
Return_retries(t) ==
    /\ task[t].pc \in {"ok", "refused", "raised"}
    /\ task' = IF task[t].pc = "refused" THEN [task EXCEPT ![t].pc = "call"] ELSE Finish(t)
    /\ UNCHANGED <<visits, stack, inst, file, edits, foreign, byhand, history>>

\* What the handler does after the reply, and to the fields of its screen.
After(r) == IF r.pc = "ok" THEN r.ok
            ELSE IF r.pc = "refused" \/ Scr(r.inst).blocks THEN r.bad ELSE {}
Followed(r, pane) ==
    LET next == After(r)
        edited == [it \in r.edits |-> r.data[it]]
    IN  IF "reload" \in next /\ Scr(r.inst).load # "async" THEN Fields(file[Obj(r.inst)], TRUE)
        ELSE IF "sent" \in next THEN [pane EXCEPT !.view = r.data]
        ELSE IF "working" \in next THEN [pane EXCEPT !.view = pane.work]
        ELSE IF "shown" \in next
        THEN [pane EXCEPT !.view = Over(edited, @), !.work = Over(edited, @)]
        ELSE pane

\* The reply: notify, then what the handler does.  pop and push act on
\* whatever is on top now.
Return(t) ==
    LET r == task[t]
        i == r.inst
        next == After(r)
    IN
    /\ r.pc \in {"ok", "refused", "raised"}
    /\ inst' = [inst EXCEPT ![i] = Followed(r, inst[i])]
    /\ task' = IF "reload" \in next /\ Scr(i).load = "async"
               THEN [task EXCEPT ![t] = LoadTask(i)] ELSE Finish(t)
    /\ stack' = LET s == IF "pop" \in next THEN Popped(stack) ELSE stack
                IN  IF "push" \in next
                    THEN Append(s, [kind |-> "result", inst |-> i]) ELSE s
    /\ stray' = (stray \/ (next \cap {"pop", "push"} # {}
                           /\ ~(Top.kind = "screen" /\ Top.inst = i)))
    /\ UNCHANGED <<visits, file, edits, foreign, byhand, want, undisturbed, current,
                   added>>

\* Mutant: what was read before is shown again.
Read_cached(t) ==
    /\ At(t, "read")
    /\ task' = [task EXCEPT ![t].pc = "show", ![t].data = inst[task[t].inst].view]
    /\ UNCHANGED <<visits, stack, inst, file, edits, foreign, byhand, history>>
\* _load: read in a thread, show on the loop.
Read(t) ==
    /\ At(t, "read")
    /\ task' = [task EXCEPT ![t].pc = "show", ![t].data = file[Obj(task[t].inst)]]
    /\ UNCHANGED <<visits, stack, inst, file, edits, foreign, byhand, history>>
Show(t) ==
    /\ At(t, "show")
    /\ inst' = [inst EXCEPT ![task[t].inst] = Fields(Data(t), TRUE)]
    /\ task' = Finish(t)
    /\ UNCHANGED <<visits, stack, file, edits, foreign, byhand, history>>

\* Someone edits the object outside GeST: a marked file is theirs from then on.
Handwritten(f) == \E i \in Opens : Obj(i) = f /\ Scr(i).marked
Cached(i) == \E op \in Ops(Scr(i)) : op.carries \in {"view", "work", "now"}
Foreign(f) ==
    /\ foreign < MaxForeign
    /\ \E it \in Items :
         /\ file' = [file EXCEPT ![f][it] = 1 - @]
         /\ want' = [want EXCEPT ![f][it] = 1 - file[f][it]]
    /\ foreign' = foreign + 1
    /\ byhand' = byhand \cup {g \in {f} : Handwritten(g)}
    /\ LET open == {i \in 1..Len(inst) : IsOpen(i) /\ Obj(i) = f}
       IN  /\ undisturbed' = [undisturbed EXCEPT ![f] =
                @ /\ On(f) = {} /\ ~Handwritten(f) /\ \A i \in open : ~Cached(i)]
           /\ current' = [current EXCEPT ![f] = @ /\ On(f) = {} /\ open = {}]
    /\ UNCHANGED <<visits, stack, inst, task, edits, stray, added>>

Step(t) == Build(t) \/ NothingToDo(t) \/ Reply(t) \/ Return(t) \/ Read(t) \/ Show(t)
User == \/ Open \/ Confirm \/ Help \/ Cancel \/ Back \/ DiscardBack \/ Undo
        \/ Top.kind = "screen" /\ \E op \in Ops(Scr(Top.inst)) : Press(op) \/ Ask(op)
ScrNext == User \/ (\E t \in Tasks : Step(t)) \/ \E i \in Opens : Foreign(Obj(i))

ScrSpec == ScrInit /\ [][ScrNext]_scrVars /\ \A t \in Tasks : WF_scrVars(Step(t))

-----------------------------------------------------------------------------
(* Properties.  The history variables say how the screens were used:        *)
(*   want         the last value saved with success, or set outside GeST;   *)
(*   undisturbed  no two tasks on the object overlapped, and nobody edited  *)
(*                it outside GeST under a task or a screen that caches it,  *)
(*                or wrote a marked file by hand;                           *)
(*   current      besides, no failed call changed it, no outside edit       *)
(*                happened under an open screen, and none of its operations *)
(*                was used after which the screen does not load (mounting,  *)
(*                partitioning, installing a bootloader, building a kernel, *)
(*                masking a service in its detail screen);                  *)
(*   stray        a task popped or pushed on a screen other than its own;   *)
(*   added        screens edited while their own task was under way.        *)

TaskRecords == {r.pc : r \in {task[t] : t \in Tasks}}

\* The state of the frontends is well formed: one menu at the bottom, every
\* widget on the stack belongs to a screen that was opened, each open screen
\* is on the stack once.
ScrTypeOK ==
    /\ Len(stack) >= 1 /\ stack[1] = Root
    /\ \A k \in 2..Len(stack) : stack[k].inst \in 1..Len(inst)
    /\ \A j, k \in 1..Len(stack) :
         stack[j].kind = "screen" /\ stack[k].kind = "screen"
         /\ stack[j].inst = stack[k].inst => j = k
    /\ \A i \in 1..Len(inst) : inst[i].view \in Contents /\ inst[i].work \in Contents
    /\ file \in [Opens -> Contents]
    /\ TaskRecords \subseteq {"idle", "build", "call", "ok", "refused", "raised", "read", "show"}
    /\ edits \in 0..MaxEdits /\ foreign \in 0..MaxForeign

Resets(i) == \E op \in Ops(Scr(i)) : op.carries = "form"
KeepsRefused(i) == \E op \in Ops(Scr(i)) : "shown" \in op.bad

\* Used one save at a time, no screen undoes another change: whatever a save
\* reported as done, and whatever was edited outside GeST before the save
\* began, is still there after any number of later saves -- although most
\* screens send back the whole file.  (Not promised by the Qt sshd form,
\* which resets the directive it has no field for, nor to a firewall ruleset
\* written by hand: see HandWrittenKept.)
SavedKept ==
    \A f \in Opens :
        undisturbed[f] /\ (\A i \in Opens : Obj(i) = f => ~Resets(i)) =>
            \A it \in Items : want[f][it] \in {Unknown, file[f][it]}

Settled(i) ==
    /\ IsOpen(i) /\ inst[i].loaded /\ On(Obj(i)) = {}
    /\ current[Obj(i)] /\ ~stray /\ Scr(i).truth /\ ~KeepsRefused(i)

\* With no call under way a screen shows what is really there: the handlers
\* that load again, or take over exactly what was applied, do so on every reply
\* that can have changed the object.  (The firewalld screen only if nothing was
\* edited or discarded during its apply, whose baseline it then takes.  After
\* an operation that Leaves its screen behind nothing is promised.)
TakesWorking(i) == \E op \in Ops(Scr(i)) : "working" \in op.ok
ShownIsTrue ==
    \A i \in 1..Len(inst) :
        Settled(i) /\ (i \in added => ~TakesWorking(i))
            => inst[i].view = file[Obj(i)]
ScreensInv == ScrTypeOK /\ ShownIsTrue

\* Changes staged in the sshd and firewalld screens leave with their screen
\* only when the user says so in the dialogue Esc opens -- as long as no
\* other screen's task pops the stack.
StagedKept ==
    [][\A i \in 1..Len(inst) :
         IsOpen(i) /\ ~IsOpen(i)' /\ Scr(i).asks /\ Dirty(i)
           => (Top.kind = "discard?" /\ Top.inst = i) \/ stray']_scrVars

\* "distinguish a GeST-managed ruleset from a hand-written one (in which case
\* parse_ruleset returns None and the UI leaves it untouched)" (nft.py).
HandWrittenKept ==
    [][\A f \in Opens : f \in byhand /\ foreign' = foreign
         => file'[f] = file[f]]_scrVars

\* Every load and every call ends: replied, reported and gone.
TasksEnd == (Active # {}) ~> (Active = {})
=============================================================================
