--------------------------- MODULE Screens_proofs ---------------------------
(***************************************************************************)
(* Proofs about Screens, for every table of screens with the properties     *)
(* assumed there: the frontends' state is well formed, a screen that has    *)
(* settled shows what is there, no save undoes another, and staged changes  *)
(* leave only when the user says so.                                        *)
(***************************************************************************)
EXTENDS Screens, TLAPS

-----------------------------------------------------------------------------
(* What the state looks like. *)

AllOps == UNION {Ops(Screen[n]) : n \in DOMAIN Screen}
Frames == [kind : {"menu", "screen", "help", "discard?", "result"}, inst : Nat]
          \cup [kind : {"modal"}, inst : Nat, op : AllOps, data : Contents, edits : SUBSET Items]
Panes == [view : Contents, work : Contents, loaded : BOOLEAN, set : SUBSET Items]
Partial == UNION {[S -> Vals] : S \in SUBSET Items}
Phases == {"build", "call", "ok", "refused", "raised", "read", "show"}
Jobs == [pc : Phases, inst : Nat, ok : SUBSET Reactions, bad : SUBSET Reactions,
         carries : Carriers, edits : SUBSET Items, data : Partial]

TypeInv ==
    /\ visits \in Visits
    /\ stack \in Seq(Frames)
    /\ inst \in Seq(Panes) /\ Len(inst) <= Len(visits)
    /\ file \in [Opens -> Contents]
    /\ task \in [Tasks -> {Idle} \cup Jobs]
    /\ edits \in 0..MaxEdits /\ foreign \in 0..MaxForeign
    /\ want \in [Opens -> [Items -> {0, 1, Unknown}]]
    /\ undisturbed \in [Opens -> BOOLEAN] /\ current \in [Opens -> BOOLEAN]
    /\ stray \in BOOLEAN /\ added \subseteq Nat

\* The screen of the i-th visit is the one above the menu.
OpenIn(s, i) == Len(s) >= 2 /\ s[2].kind = "screen" /\ s[2].inst = i
OpenAt(i) == OpenIn(stack, i)

\* The menu is at the bottom and a screen right above it; a dialogue or a help
\* text is opened over its screen and what a task pushes may be anywhere.
FrameFits(s, k, n) ==
    /\ s[k].kind # "menu" /\ s[k].inst \in 1..n
    /\ s[k].kind = "screen" => k = 2
    /\ s[k].kind \in {"modal", "help", "discard?"} => k = 3 /\ OpenIn(s, s[k].inst)
    /\ s[k].kind = "modal" => s[k].op \in Ops(Scr(s[k].inst))
StackFits(s, n) ==
    /\ Len(s) >= 1 /\ s[1] = Root
    /\ \A k \in 2..Len(s) : FrameFits(s, k, n)
StackInv == StackFits(stack, Len(inst))

\* Tasks that have a whole object in hand, and those that have the edit only.
Whole(r) == \/ r.carries \in {"view", "work", "form"} \/ r.pc = "show"
            \/ r.carries \in {"fresh", "now"} /\ r.pc # "build"
Picked(r) == r.carries \in {"one", "diff"} \/ (r.carries = "fresh" /\ r.pc = "build")

\* A task is a load, or an operation of its screen with what it carries.
JobFits(r) ==
    /\ r.inst \in 1..Len(inst)
    /\ \/ r.carries = "read" /\ r.ok = {} /\ r.bad = {} /\ Scr(r.inst).load = "async"
       \/ \E op \in Ops(Scr(r.inst)) :
            op.carries = r.carries /\ op.ok = r.ok /\ op.bad = r.bad
    /\ r.carries # "stage"
    /\ r.pc = "build" => r.carries \in {"fresh", "now"}
    /\ r.pc \in {"call", "ok", "refused", "raised"} => r.carries # "read"
    /\ r.pc \in {"read", "show"} => r.carries = "read"
    /\ Whole(r) => r.data \in Contents
    /\ Picked(r) => DOMAIN r.data = r.edits
    /\ r.carries \in {"side", "read"} \/ (r.carries = "now" /\ r.pc = "build") => r.edits = {}
JobOf(t) == {task[t]} \ {Idle}
TasksInv == \A t \in Tasks : \A r \in JobOf(t) : JobFits(r)

\* What has not been loaded is being loaded.
LoadInv ==
    \A i \in 1..Len(inst) : ~inst[i].loaded =>
        /\ Scr(i).load = "async"
        /\ \E t \in Tasks : \E r \in JobOf(t) : r.inst = i /\ r.pc \in {"read", "show"}

BaseInv == TypeInv /\ StackInv /\ TasksInv /\ LoadInv

-----------------------------------------------------------------------------
(* How the screens were used. *)

\* What task t is doing on the object f.
JobsOn(f, t) == {r \in JobOf(t) : Obj(r.inst) = f}
Free(f) == \A t \in Tasks : JobsOn(f, t) = {}

\* One task at a time, and that of the open screen.
Sole(f) ==
    /\ \A t, u \in Tasks : JobsOn(f, t) # {} /\ JobsOn(f, u) # {} => t = u
    /\ \A i \in 1..Len(inst) : OpenAt(i) /\ Obj(i) = f =>
         \A t \in Tasks : \A r \in JobsOn(f, t) : r.inst = i
SoleInv == \A f \in Opens : undisturbed[f] \/ current[f] => Sole(f)

\* What is wanted, w, is what g says outside S.
Fits(w, g, S) == \A it \in DOMAIN g \ S : w[it] \in {Unknown, g[it]}
Resetting(f) == \E i \in Opens : Obj(i) = f /\ Resets(i)
Has(i, kinds) == \E op \in Ops(Scr(i)) : op.carries \in kinds

\* The file, what the tasks bring, and what the open screen will send.
TaskKeeps(f, r) ==
    /\ r.pc \in {"call", "ok", "refused", "raised"} => Fits(want[f], r.data, r.edits)
    /\ r.pc \in {"ok", "refused", "raised", "show"} => Fits(want[f], r.data, {})
    /\ r.pc = "build" /\ r.carries = "now" => Fits(want[f], inst[r.inst].work, inst[r.inst].set)
ViewKeeps(f, i) ==
    /\ Free(f) => Fits(want[f], inst[i].view, {})
    /\ \A t \in Tasks : \A r \in JobsOn(f, t) :
         /\ r.pc \in {"build", "call", "refused", "raised"} => Fits(want[f], inst[i].view, {})
         /\ r.pc = "ok" => Fits(want[f], inst[i].view, r.edits)
CopyKeeps(f, i) ==
    /\ inst[i].loaded => /\ Fits(want[f], inst[i].work, inst[i].set)
                         /\ Fits(want[f], inst[i].view, inst[i].set)
    /\ \A t \in Tasks : \A r \in JobsOn(f, t) : r.edits \subseteq inst[i].set
\* The review is of the staged copy.
Reviewed(kind) == Len(stack) >= 3 /\ stack[3].kind = "modal" /\ stack[3].op.carries = kind
ReviewKeeps(i) ==
    Reviewed("work") => stack[3].data = inst[i].work /\ stack[3].edits = inst[i].set
ScreenKeeps(f, i) ==
    /\ Has(i, {"view"}) => ViewKeeps(f, i)
    /\ Has(i, {"work", "now"}) => CopyKeeps(f, i) /\ ReviewKeeps(i)
Keeps(f) ==
    /\ Fits(want[f], file[f], {})
    /\ \A t \in Tasks : \A r \in JobsOn(f, t) : TaskKeeps(f, r)
    /\ \A i \in 1..Len(inst) : OpenAt(i) /\ Obj(i) = f => ScreenKeeps(f, i)
KeepInv == \A f \in Opens : undisturbed[f] /\ ~Resetting(f) => Keeps(f)

\* A screen that is what ShownIsTrue is about.
Honest(i) ==
    /\ OpenAt(i) /\ current[Obj(i)] /\ ~stray /\ Scr(i).truth /\ ~KeepsRefused(i)
    /\ i \in added => ~TakesWorking(i)
TaskShows(i, r) ==
    LET f == Obj(i) IN
    /\ r.pc \in {"build", "call", "refused", "raised"} => inst[i].view = file[f]
    /\ r.pc = "ok" => ~Leaves(r)
    /\ r.pc = "ok" => file[f] = IF r.carries = "side" THEN inst[i].view
                                ELSE Over(r.data, inst[i].view)
    /\ r.pc = "show" => r.data = file[f]
    /\ r.carries \in {"one", "fresh", "view"} /\ r.pc \in {"build", "call", "ok"} =>
         \A it \in DOMAIN r.data \ r.edits : r.data[it] = inst[i].view[it]
    /\ TakesWorking(i) /\ r.pc \in {"call", "ok"} => Over(r.data, inst[i].view) = inst[i].work
ReviewShows(i) ==
    TakesWorking(i) /\ Reviewed("diff") =>
        /\ stack[3].data = inst[i].work
        /\ \A it \in Items \ stack[3].edits : inst[i].view[it] = inst[i].work[it]
Shows(i) ==
    /\ Free(Obj(i)) => inst[i].view = file[Obj(i)]
    /\ \A t \in Tasks : \A r \in JobsOn(Obj(i), t) : TaskShows(i, r)
    /\ ReviewShows(i)
ShowInv == \A i \in 1..Len(inst) : Honest(i) => Shows(i)

-----------------------------------------------------------------------------
(* The operators. *)

LEMMA PoppedFacts ==
    ASSUME NEW S, NEW s \in Seq(S), Len(s) >= 2
    PROVE  /\ Popped(s) \in Seq(S) /\ Len(Popped(s)) = Len(s) - 1
           /\ \A k \in 1..(Len(s) - 1) : Popped(s)[k] = s[k]
BY DEF Popped

LEMMA PoppedType ==
    ASSUME NEW S, NEW s \in Seq(S), Len(s) >= 1
    PROVE  Popped(s) \in Seq(S) /\ Len(Popped(s)) >= 1
BY DEF Popped

LEMMA AboveOne == \A n \in Nat : n >= 1 /\ n # 1 => n \in 2..n /\ n >= 2
OBVIOUS

LEMMA PoppedMenu == ASSUME NEW s, Len(s) = 1 PROVE Popped(s) = s
BY DEF Popped

LEMMA ObjFacts ==
    ASSUME TypeInv, NEW i \in Opens
    PROVE  Obj(i) \in Opens /\ Len(visits) \in Nat
BY ScreensAssumption DEF TypeInv, Obj, Opens, Scr

LEMMA ScrFacts ==
    ASSUME TypeInv, NEW i \in Opens
    PROVE  visits[i] \in DOMAIN Screen /\ Scr(i) = Screen[visits[i]]
BY ScreensAssumption DEF TypeInv, Opens, Scr

LEMMA OpFacts ==
    ASSUME TypeInv, NEW i \in Opens, NEW op \in Ops(Scr(i))
    PROVE  /\ op \in AllOps /\ op.carries \in Carriers
           /\ op.ok \in SUBSET Reactions /\ op.bad \in SUBSET Reactions
           /\ "sent" \in op.ok \cup op.bad => op.carries = "work"
           /\ "working" \in op.ok \cup op.bad => op.carries = "diff"
           /\ "shown" \in op.ok \cup op.bad => op.carries \in {"one", "fresh", "view"}
BY ScrFacts, TableAssumption DEF AllOps

LEMMA PartialFacts ==
    /\ \A S \in SUBSET Items : \A d \in [S -> Vals] : d \in Partial
    /\ \A d \in Partial : /\ DOMAIN d \in SUBSET Items
                          /\ \A it \in DOMAIN d : d[it] \in Vals
    /\ Contents \subseteq Partial /\ Nothing \in Partial /\ DOMAIN Nothing = {}
<1>1. \A S \in SUBSET Items : \A d \in [S -> Vals] : d \in Partial
  BY DEF Partial
<1>2. ASSUME NEW d \in Partial
      PROVE  DOMAIN d \in SUBSET Items /\ \A it \in DOMAIN d : d[it] \in Vals
  <2> PICK S \in SUBSET Items : d \in [S -> Vals]
    BY DEF Partial
  <2> QED OBVIOUS
<1>3. Contents \subseteq Partial
  BY <1>1 DEF Contents
<1>4. Nothing \in [{} -> Vals]
  BY DEF Nothing
<1> QED BY <1>1, <1>2, <1>3, <1>4

LEMMA OverFacts ==
    ASSUME NEW d \in Partial, NEW c \in Contents
    PROVE  /\ Over(d, c) \in Contents
           /\ \A it \in Items : Over(d, c)[it] = IF it \in DOMAIN d THEN d[it] ELSE c[it]
BY PartialFacts DEF Over, Contents

-----------------------------------------------------------------------------
(* What the actions amount to. *)

LEMMA TopScreen ==
    ASSUME TypeInv, StackInv, Top.kind = "screen"
    PROVE  /\ Len(stack) = 2 /\ Top = stack[2] /\ OpenAt(Top.inst)
           /\ Top.inst \in 1..Len(inst) /\ Top.inst \in Opens
<1>1. /\ stack \in Seq(Frames) /\ inst \in Seq(Panes) /\ visits \in Seq(DOMAIN Screen)
      /\ Len(inst) <= Len(visits)
  BY ScreensAssumption DEF TypeInv
<1>2. Len(stack) # 1
  BY DEF StackInv, StackFits, Top, Root
<1>3. Len(stack) >= 1
  BY DEF StackInv, StackFits
<1>4. Len(stack) \in 2..Len(stack)
  <2>1. Len(stack) \in Nat
    BY <1>1
  <2> QED BY <1>2, <1>3, <2>1, AboveOne
<1>5. /\ Top.inst \in 1..Len(inst)
      /\ Top.kind = "screen" => Len(stack) = 2
      /\ Top.kind \in {"modal", "help", "discard?"} => Len(stack) = 3 /\ OpenAt(Top.inst)
      /\ Top.kind = "modal" => Top.op \in Ops(Scr(Top.inst))
  BY <1>4 DEF StackInv, StackFits, FrameFits, OpenAt, Top
<1>6. Top.inst \in Opens
  BY <1>1, <1>5 DEF Opens
<1>7. Len(stack) = 2
  BY <1>5
<1>8. Top = stack[2]
  BY <1>7 DEF Top
<1>9. Len(stack) >= 2
  BY <1>7
<1>10. OpenAt(Top.inst)
  BY <1>8, <1>9 DEF OpenAt, OpenIn
<1> QED BY <1>5, <1>6, <1>7, <1>8, <1>10

LEMMA TopDialogue ==
    ASSUME TypeInv, StackInv, Top.kind \in {"modal", "help", "discard?"}
    PROVE  /\ Len(stack) = 3 /\ Top = stack[3] /\ OpenAt(Top.inst)
           /\ Top.inst \in 1..Len(inst) /\ Top.inst \in Opens
           /\ Top.kind = "modal" => Top.op \in Ops(Scr(Top.inst))
<1>1. /\ stack \in Seq(Frames) /\ inst \in Seq(Panes) /\ visits \in Seq(DOMAIN Screen)
      /\ Len(inst) <= Len(visits)
  BY ScreensAssumption DEF TypeInv
<1>2. Len(stack) # 1
  BY DEF StackInv, StackFits, Top, Root
<1>3. Len(stack) >= 1
  BY DEF StackInv, StackFits
<1>4. Len(stack) \in 2..Len(stack)
  <2>1. Len(stack) \in Nat
    BY <1>1
  <2> QED BY <1>2, <1>3, <2>1, AboveOne
<1>5. /\ Top.inst \in 1..Len(inst)
      /\ Top.kind = "screen" => Len(stack) = 2
      /\ Top.kind \in {"modal", "help", "discard?"} => Len(stack) = 3 /\ OpenAt(Top.inst)
      /\ Top.kind = "modal" => Top.op \in Ops(Scr(Top.inst))
  BY <1>4 DEF StackInv, StackFits, FrameFits, OpenAt, Top
<1>6. Top.inst \in Opens
  BY <1>1, <1>5 DEF Opens
<1> QED BY <1>5, <1>6 DEF Top, OpenAt, OpenIn

LEMMA ModalFields ==
    ASSUME TypeInv, NEW k \in 1..Len(stack), stack[k].kind = "modal"
    PROVE  stack[k].data \in Contents /\ stack[k].edits \in SUBSET Items
<1>1. stack[k] \in Frames
  BY DEF TypeInv
<1> QED BY <1>1 DEF Frames

\* The open screen gets a key, or the first button of its dialogue is pressed.
UserActs(i) ==
    /\ OpenAt(i) /\ i \in 1..Len(inst) /\ i \in Opens
    /\ stack' \in Seq(Frames) /\ Len(stack') = 2 /\ stack'[1] = stack[1] /\ stack'[2] = stack[2]
    /\ edits < MaxEdits /\ edits' = edits + 1
    /\ UNCHANGED <<visits, file, foreign, byhand, want>>
Sends(i, op, E, D) ==
    \/ /\ op.carries \in {"one", "fresh"}
       /\ \E it \in Items, v \in Vals : E = {it} /\ D = [x \in {it} |-> v]
    \/ /\ op.carries = "view"
       /\ \E it \in Items, v \in Vals : E = {it} /\ D = [inst[i].view EXCEPT ![it] = v]
    \/ op.carries = "work" /\ E = inst[i].set /\ D = inst[i].work
    \/ op.carries = "form" /\ E = inst[i].set /\ D = [inst[i].work EXCEPT ![Unshown] = 0]
    \/ op.carries \in {"side", "read", "now"} /\ E = {} /\ D = Nothing
    \/ /\ op.carries \in {"work", "diff"} /\ Len(stack) = 3 /\ stack[3].kind = "modal"
       /\ stack[3].op = op /\ E = stack[3].edits
       /\ D = IF op.carries = "work" THEN stack[3].data ELSE [it \in E |-> stack[3].data[it]]
UserStages(i) == UserActs(i) /\ \E it \in Items, v \in Vals : Stage(i, it, v)
UserBegins(i, op, E, D) ==
    /\ UserActs(i) /\ op \in Ops(Scr(i)) /\ Begin(i, op, E, D) /\ Sends(i, op, E, D)

LEMMA PerformFacts ==
    ASSUME NEW i, NEW op, NEW it \in Items, NEW v \in Vals, Perform(i, op, it, v)
    PROVE  Stage(i, it, v) \/ \E E, D : Begin(i, op, E, D) /\ Sends(i, op, E, D)
<1>1. CASE op.carries = "stage" /\ Stage(i, it, v)
  BY <1>1
<1>2. CASE op.carries \in {"one", "fresh"} /\ Begin(i, op, {it}, [x \in {it} |-> v])
  <2>1. Sends(i, op, {it}, [x \in {it} |-> v])
    BY <1>2 DEF Sends
  <2> QED BY <1>2, <2>1
<1>3. CASE op.carries = "view" /\ Begin(i, op, {it}, [inst[i].view EXCEPT ![it] = v])
  <2>1. Sends(i, op, {it}, [inst[i].view EXCEPT ![it] = v])
    BY <1>3 DEF Sends
  <2> QED BY <1>3, <2>1
<1>4. CASE op.carries = "work" /\ Begin(i, op, Edited(i, op), inst[i].work)
  <2>1. Edited(i, op) = inst[i].set
    BY <1>4 DEF Edited
  <2>2. Sends(i, op, Edited(i, op), inst[i].work)
    BY <1>4, <2>1 DEF Sends
  <2> QED BY <1>4, <2>2
<1>5. CASE op.carries = "form" /\ Begin(i, op, Edited(i, op), [inst[i].work EXCEPT ![Unshown] = 0])
  <2>1. Edited(i, op) = inst[i].set
    BY <1>5 DEF Edited
  <2>2. Sends(i, op, Edited(i, op), [inst[i].work EXCEPT ![Unshown] = 0])
    BY <1>5, <2>1 DEF Sends
  <2> QED BY <1>5, <2>2
<1>6. CASE op.carries \in {"side", "read", "now"} /\ Begin(i, op, {}, Nothing)
  <2>1. Sends(i, op, {}, Nothing)
    BY <1>6 DEF Sends
  <2> QED BY <1>6, <2>1
<1> QED BY <1>1, <1>2, <1>3, <1>4, <1>5, <1>6 DEF Perform

LEMMA FlipFacts ==
    ASSUME TypeInv, NEW i \in 1..Len(inst), NEW it \in Items
    PROVE  /\ 1 - inst[i].work[it] \in Vals /\ inst[i] \in Panes
<1>1. inst[i] \in Panes
  BY DEF TypeInv
<1> QED BY <1>1 DEF Panes, Contents, Vals

LEMMA PressActs ==
    ASSUME TypeInv, StackInv, Top.kind = "screen", NEW op \in Ops(Scr(Top.inst)), Press(op)
    PROVE  \/ UserStages(Top.inst)
           \/ \E E, D : UserBegins(Top.inst, op, E, D)
<1>1. UserActs(Top.inst)
  BY TopScreen DEF UserActs, Press, TypeInv
<1>2. PICK it \in Items : Perform(Top.inst, op, it, 1 - inst[Top.inst].work[it])
  BY DEF Press
<1>3. 1 - inst[Top.inst].work[it] \in Vals
  BY TopScreen, FlipFacts
<1> QED BY <1>1, <1>2, <1>3, PerformFacts DEF UserStages, UserBegins

LEMMA ConfirmActs ==
    ASSUME TypeInv, StackInv, Confirm
    PROVE  \/ UserStages(Top.inst)
           \/ \E op, E, D : UserBegins(Top.inst, op, E, D)
<1> DEFINE i == Top.inst
           op == Top.op
<1>1. Top.kind = "modal"
  BY DEF Confirm
<1>2. UserActs(i)
  <2>1. stack' = Popped(stack)
    BY DEF Confirm
  <2>2. /\ stack' \in Seq(Frames) /\ Len(stack') = 2
        /\ stack'[1] = stack[1] /\ stack'[2] = stack[2]
    <3>1. stack \in Seq(Frames) /\ Len(stack) = 3
      BY <1>1, TopDialogue DEF TypeInv
    <3>2. /\ Len(Popped(stack)) = 2
          /\ Popped(stack)[1] = stack[1] /\ Popped(stack)[2] = stack[2]
      BY <3>1 DEF Popped
    <3>3. Popped(stack) \in Seq(Frames)
      <4>1. Len(stack) >= 1
        BY <3>1
      <4> QED BY <3>1, <4>1, PoppedType
    <3> QED BY <2>1, <3>2, <3>3
  <2> QED BY <1>1, <2>2, TopDialogue DEF UserActs, Confirm
<1>3. op \in Ops(Scr(i))
  BY <1>1, TopDialogue
<1>4. CASE op.carries = "work" /\ Begin(i, op, Top.edits, Top.data)
  <2>1. Sends(i, op, Top.edits, Top.data)
    BY <1>1, <1>4, TopDialogue DEF Sends
  <2> QED BY <1>2, <1>3, <1>4, <2>1 DEF UserBegins
<1>5. CASE op.carries = "diff" /\ Begin(i, op, Top.edits, [it \in Top.edits |-> Top.data[it]])
  <2>1. Sends(i, op, Top.edits, [it \in Top.edits |-> Top.data[it]])
    BY <1>1, <1>5, TopDialogue DEF Sends
  <2> QED BY <1>2, <1>3, <1>5, <2>1 DEF UserBegins
<1>6. CASE \E it \in Items : Perform(i, op, it, 1 - inst[i].work[it])
  <2>1. PICK it \in Items : Perform(i, op, it, 1 - inst[i].work[it])
    BY <1>6
  <2>2. 1 - inst[i].work[it] \in Vals
    BY <1>1, TopDialogue, FlipFacts
  <2> QED BY <1>2, <1>3, <2>1, <2>2, PerformFacts DEF UserStages, UserBegins
<1> QED BY <1>4, <1>5, <1>6 DEF Confirm

\* What is left of the stack when its top frames are gone.
Prefix(s) ==
    /\ s \in Seq(Frames) /\ Len(s) >= 1 /\ Len(s) <= Len(stack)
    /\ \A k \in 1..Len(s) : s[k] = stack[k]

LEMMA PrefixWhole ==
    ASSUME TypeInv, StackInv PROVE Prefix(stack)
BY DEF TypeInv, StackInv, StackFits, Prefix

LEMMA PrefixPopped ==
    ASSUME TypeInv, NEW s, Prefix(s) PROVE Prefix(Popped(s))
<1>1. s \in Seq(Frames) /\ Len(s) >= 1 /\ stack \in Seq(Frames)
  BY DEF TypeInv, Prefix
<1>2. Popped(s) \in Seq(Frames) /\ Len(Popped(s)) >= 1
  BY <1>1, PoppedType
<1>3. Len(Popped(s)) <= Len(s) /\ \A k \in 1..Len(Popped(s)) : Popped(s)[k] = s[k]
  <2>1. CASE Len(s) > 1
    BY <1>1, <2>1 DEF Popped
  <2>2. CASE ~(Len(s) > 1)
    BY <1>1, <2>2 DEF Popped
  <2> QED BY <2>1, <2>2
<1>4. Len(Popped(s)) \in Nat /\ Len(s) \in Nat /\ Len(stack) \in Nat
  BY <1>1, <1>2
<1>5. Len(Popped(s)) <= Len(stack)
  BY <1>3, <1>4 DEF Prefix
<1>6. ASSUME NEW k \in 1..Len(Popped(s)) PROVE Popped(s)[k] = stack[k]
  BY <1>3, <1>4 DEF Prefix
<1> QED BY <1>2, <1>5, <1>6 DEF Prefix

LEMMA PrefixFits ==
    ASSUME TypeInv, StackInv, NEW s, Prefix(s), NEW n \in Nat, Len(inst) <= n
    PROVE  StackFits(s, n)
<1>0. Len(s) \in Nat /\ Len(stack) \in Nat /\ Len(inst) \in Nat
  BY DEF TypeInv, Prefix
<1>1. Len(s) >= 1 /\ s[1] = Root
  <2>1. 1 \in 1..Len(s) /\ Len(s) >= 1
    BY <1>0 DEF Prefix
  <2> QED BY <2>1 DEF Prefix, StackInv, StackFits
<1>2. ASSUME NEW k \in 2..Len(s) PROVE FrameFits(s, k, n)
  <2>1. k \in 1..Len(s) /\ k \in 2..Len(stack) /\ 2 \in 1..Len(s) /\ Len(s) >= 2
    BY <1>0 DEF Prefix
  <2>2. s[k] = stack[k] /\ s[2] = stack[2]
    BY <2>1 DEF Prefix
  <2>3. FrameFits(stack, k, Len(inst))
    BY <2>1 DEF StackInv, StackFits
  <2>4. s[k].inst \in 1..n
    BY <1>0, <2>2, <2>3 DEF FrameFits
  <2> QED BY <2>1, <2>2, <2>3, <2>4 DEF FrameFits, OpenIn
<1> QED BY <1>1, <1>2 DEF StackFits

LEMMA PushFits ==
    ASSUME NEW s \in Seq(Frames), NEW n \in Nat, StackFits(s, n), NEW w \in Frames,
           w.kind # "menu", w.inst \in 1..n, w.kind = "screen" => Len(s) = 1,
           w.kind \in {"modal", "help", "discard?"} => Len(s) = 2 /\ OpenIn(s, w.inst),
           w.kind = "modal" => w.op \in Ops(Scr(w.inst))
    PROVE  StackFits(Append(s, w), n) /\ Append(s, w) \in Seq(Frames)
<1> DEFINE a == Append(s, w)
<1>0. Len(s) \in Nat /\ Len(s) >= 1
  BY DEF StackFits
<1>1. /\ a \in Seq(Frames) /\ Len(a) = Len(s) + 1 /\ a[Len(s) + 1] = w
      /\ \A k \in 1..Len(s) : a[k] = s[k]
  OBVIOUS
<1> HIDE DEF a
<1>2. Len(a) >= 1 /\ a[1] = Root
  <2>1. 1 \in 1..Len(s) /\ Len(s) + 1 >= 1
    BY <1>0
  <2> QED BY <1>1, <2>1 DEF StackFits
<1>3. ASSUME NEW k \in 2..Len(s) PROVE FrameFits(a, k, n)
  <2>1. k \in 1..Len(s) /\ 2 \in 1..Len(s) /\ Len(s) + 1 >= 2
    BY <1>0
  <2>2. a[k] = s[k] /\ a[2] = s[2] /\ Len(a) >= 2
    BY <1>1, <2>1
  <2>3. FrameFits(s, k, n)
    BY DEF StackFits
  <2> QED BY <2>2, <2>3 DEF FrameFits, OpenIn
<1>4. FrameFits(a, Len(s) + 1, n)
  <2>1. CASE w.kind = "screen"
    <3>0. Len(s) = 1
      BY <2>1
    <3>1. Len(s) + 1 = 2
      BY <3>0
    <3> QED BY <1>1, <2>1, <3>1 DEF FrameFits
  <2>2. CASE w.kind \in {"modal", "help", "discard?"}
    <3>0. Len(s) = 2
      BY <2>2
    <3>1. Len(s) = 2 /\ Len(s) + 1 = 3
      BY <3>0
    <3>2. 2 \in 1..Len(s) /\ Len(a) >= 2
      BY <1>1, <3>1
    <3>3. a[2] = s[2]
      BY <1>1, <3>2
    <3>4. OpenIn(a, w.inst)
      BY <2>2, <3>2, <3>3 DEF OpenIn
    <3> QED BY <1>1, <2>2, <3>1, <3>4 DEF FrameFits
  <2>3. CASE w.kind \notin {"screen", "modal", "help", "discard?"}
    BY <1>1, <2>3 DEF FrameFits
  <2> QED BY <2>1, <2>2, <2>3
<1>5. ASSUME NEW k \in 2..Len(a) PROVE FrameFits(a, k, n)
  <2>1. k \in 2..Len(s) \/ k = Len(s) + 1
    BY <1>0, <1>1
  <2> QED BY <2>1, <1>3, <1>4
<1>6. StackFits(a, n)
  BY <1>2, <1>5 DEF StackFits
<1> QED BY <1>1, <1>6 DEF a

\* The actions that only look: what is left of the stack, or one frame more
\* over the open screen.
AskedFrame(w) ==
    /\ OpenAt(w.inst)
    /\ \/ w.kind \in {"help", "discard?"}
       \/ /\ w.kind = "modal" /\ w.op \in Ops(Scr(w.inst)) /\ w.op.via = "modal"
          /\ Focused(w.inst, w.op)
          /\ w.data = inst[w.inst].work /\ w.edits = Edited(w.inst, w.op)
Looks ==
    /\ UNCHANGED <<visits, inst, file, task, edits, foreign, byhand, history>>
    /\ \/ Prefix(stack')
       \/ Len(stack) = 2 /\ \E w \in Frames : AskedFrame(w) /\ stack' = Append(stack, w)

LEMMA EditedType ==
    ASSUME TypeInv, NEW i \in 1..Len(inst), NEW op
    PROVE  inst[i] \in Panes /\ Edited(i, op) \in SUBSET Items
<1>1. inst[i] \in Panes
  BY DEF TypeInv
<1> QED BY <1>1 DEF Edited, Staged, Panes

LEMMA LooksOnly ==
    ASSUME TypeInv, StackInv,
           \/ Help \/ Cancel \/ Back \/ DiscardBack
           \/ Top.kind = "screen" /\ \E op \in Ops(Scr(Top.inst)) : Ask(op)
    PROVE  Looks
<1>1. CASE Help
  <2>1. Top.kind = "screen"
    BY <1>1 DEF Help
  <2> DEFINE w == [kind |-> "help", inst |-> Top.inst]
  <2>2. w \in Frames /\ AskedFrame(w) /\ Len(stack) = 2
    BY <2>1, TopScreen DEF Frames, AskedFrame, TypeInv
  <2> QED BY <1>1, <2>2 DEF Help, Looks
<1>2. CASE Cancel
  BY <1>2, PrefixWhole, PrefixPopped DEF Cancel, Looks
<1>3. CASE Back
  <2>1. Top.kind = "screen"
    BY <1>3 DEF Back
  <2> DEFINE w == [kind |-> "discard?", inst |-> Top.inst]
  <2>2. w \in Frames /\ AskedFrame(w) /\ Len(stack) = 2
    BY <2>1, TopScreen DEF Frames, AskedFrame, TypeInv
  <2>3. Prefix(Popped(stack))
    BY PrefixWhole, PrefixPopped
  <2>4. stack' = Append(stack, w) \/ stack' = Popped(stack)
    BY <1>3 DEF Back
  <2> QED BY <1>3, <2>2, <2>3, <2>4 DEF Back, Looks
<1>4. CASE DiscardBack
  BY <1>4, PrefixWhole, PrefixPopped DEF DiscardBack, Looks
<1>5. ASSUME Top.kind = "screen", NEW op \in Ops(Scr(Top.inst)), Ask(op) PROVE Looks
  <2> DEFINE i == Top.inst
             w == [kind |-> "modal", inst |-> i, op |-> op, data |-> inst[i].work, edits |-> Edited(i, op)]
  <2>1. i \in 1..Len(inst) /\ i \in Opens /\ Len(stack) = 2 /\ OpenAt(i)
    BY <1>5, TopScreen
  <2>2. inst[i].work \in Contents /\ Edited(i, op) \in SUBSET Items /\ i \in Nat
    BY <2>1, EditedType DEF Panes
  <2>3. w \in Frames
    BY <2>1, <2>2, OpFacts DEF Frames
  <2>4. AskedFrame(w)
    BY <1>5, <2>1 DEF AskedFrame, Ask
  <2> QED BY <1>5, <2>1, <2>3, <2>4 DEF Ask, Looks
<1> QED BY <1>1, <1>2, <1>3, <1>4, <1>5

\* How a task finds a free slot and begins.
LEMMA NewTaskFacts ==
    ASSUME NEW rec, NewTask(rec)
    PROVE  \E u \in Tasks : task[u] = Idle /\ task' = [task EXCEPT ![u] = rec]
BY DEF NewTask

LEMMA LoadTaskType ==
    ASSUME TypeInv, NEW i \in Nat
    PROVE  LoadTask(i) \in Jobs /\ LoadTask(i) # Idle /\ LoadTask(i).pc = "read"
BY PartialFacts DEF LoadTask, Jobs, Phases, Carriers, Silent, Idle

LEMMA JobNotIdle == \A r \in Jobs : r # Idle /\ r.pc # "idle"
BY DEF Jobs, Idle, Phases

\* What a user's operation sends is an object, or the edited part of one.
LEMMA JobFacts ==
    ASSUME TypeInv, StackInv, NEW i, NEW op, NEW E, NEW D, UserBegins(i, op, E, D)
    PROVE  /\ Job(i, op, E, D) \in Jobs /\ JobFits(Job(i, op, E, D))
           /\ E \in SUBSET Items /\ D \in Partial
<1> DEFINE r == Job(i, op, E, D)
<1>0. i \in 1..Len(inst) /\ i \in Opens /\ i \in Nat /\ op \in Ops(Scr(i))
  BY DEF UserBegins, UserActs, TypeInv
<1>1. inst[i] \in Panes
  BY <1>0 DEF TypeInv
<1>2. /\ E \in SUBSET Items /\ D \in Partial
      /\ op.carries \in {"view", "work", "form"} => D \in Contents
      /\ op.carries \in {"one", "fresh", "diff"} => DOMAIN D = E
      /\ op.carries \in {"side", "read", "now"} => E = {}
      /\ op.carries # "stage"
  <2>1. CASE /\ op.carries \in {"one", "fresh"}
             /\ \E it \in Items, v \in Vals : E = {it} /\ D = [x \in {it} |-> v]
    <3> PICK it \in Items, v \in Vals : E = {it} /\ D = [x \in {it} |-> v]
      BY <2>1
    <3>1. D \in [E -> Vals] /\ E \in SUBSET Items
      OBVIOUS
    <3> QED BY <2>1, <3>1, PartialFacts
  <2>2. CASE /\ op.carries = "view"
             /\ \E it \in Items, v \in Vals : E = {it} /\ D = [inst[i].view EXCEPT ![it] = v]
    <3>1. D \in Contents /\ E \in SUBSET Items
      BY <1>1, <2>2 DEF Panes, Contents
    <3> QED BY <2>2, <3>1, PartialFacts
  <2>3. CASE op.carries = "work" /\ E = inst[i].set /\ D = inst[i].work
    BY <1>1, <2>3, PartialFacts DEF Panes
  <2>4. CASE op.carries = "form" /\ E = inst[i].set /\ D = [inst[i].work EXCEPT ![Unshown] = 0]
    <3>1. D \in Contents
      BY <1>1, <2>4 DEF Panes, Contents, Vals
    <3> QED BY <1>1, <2>4, <3>1, PartialFacts DEF Panes
  <2>5. CASE op.carries \in {"side", "read", "now"} /\ E = {} /\ D = Nothing
    BY <2>5, PartialFacts
  <2>6. CASE /\ op.carries \in {"work", "diff"} /\ Len(stack) = 3 /\ stack[3].kind = "modal"
             /\ stack[3].op = op /\ E = stack[3].edits
             /\ D = IF op.carries = "work" THEN stack[3].data ELSE [it \in E |-> stack[3].data[it]]
    <3>1. 3 \in 1..Len(stack)
      BY <2>6
    <3>2. stack[3].data \in Contents /\ E \in SUBSET Items
      BY <2>6, <3>1, ModalFields
    <3>3. [it \in E |-> stack[3].data[it]] \in [E -> Vals]
      BY <3>2 DEF Contents
    <3> QED BY <2>6, <3>2, <3>3, PartialFacts
  <2> QED BY <2>1, <2>2, <2>3, <2>4, <2>5, <2>6 DEF UserBegins, Sends
<1>3. op.carries \in Carriers /\ op.ok \in SUBSET Reactions /\ op.bad \in SUBSET Reactions
  BY <1>0, OpFacts
<1>4. r \in Jobs
  BY <1>0, <1>2, <1>3 DEF Job, Jobs, Phases
<1>5. /\ r.pc = (IF op.carries \in {"fresh", "now"} THEN "build"
                 ELSE IF op.carries = "read" THEN "read" ELSE "call")
      /\ r.inst = i /\ r.ok = op.ok /\ r.bad = op.bad /\ r.carries = op.carries
      /\ r.edits = E /\ r.data = D
  BY DEF Job
<1> HIDE DEF r
<1>6. Whole(r) => r.data \in Contents
  BY <1>2, <1>5 DEF Whole
<1>7. Picked(r) => DOMAIN r.data = r.edits
  BY <1>2, <1>5 DEF Picked
<1>8. \E o \in Ops(Scr(r.inst)) : o.carries = r.carries /\ o.ok = r.ok /\ o.bad = r.bad
  BY <1>0, <1>5
<1>9. r.inst \in 1..Len(inst)
  BY <1>0, <1>5
<1>10. JobFits(r)
  BY <1>2, <1>5, <1>6, <1>7, <1>8, <1>9 DEF JobFits
<1> QED BY <1>2, <1>4, <1>10 DEF r

-----------------------------------------------------------------------------
(* The state stays well formed. *)

LEMMA PaneSet ==
    ASSUME TypeInv, NEW i \in 1..Len(inst), NEW x \in Panes
    PROVE  /\ [inst EXCEPT ![i] = x] \in Seq(Panes)
           /\ Len([inst EXCEPT ![i] = x]) = Len(inst)
           /\ \A j \in 1..Len(inst) : [inst EXCEPT ![i] = x][j] = IF j = i THEN x ELSE inst[j]
BY DEF TypeInv

LEMMA TaskSet ==
    ASSUME TypeInv, NEW u \in Tasks, NEW x
    PROVE  /\ x \in Jobs \cup {Idle} => [task EXCEPT ![u] = x] \in [Tasks -> {Idle} \cup Jobs]
           /\ \A t \in Tasks : [task EXCEPT ![u] = x][t] = IF t = u THEN x ELSE task[t]
BY DEF TypeInv

LEMMA JobStays ==
    ASSUME visits' = visits, Len(inst) \in Nat, Len(inst') \in Nat, Len(inst) <= Len(inst'),
           NEW r, JobFits(r)
    PROVE  JobFits(r)'
<1>1. r.inst \in 1..Len(inst')
  BY DEF JobFits
<1> QED BY <1>1 DEF JobFits, Scr

LEMMA TasksAfter ==
    ASSUME TypeInv, TasksInv, visits' = visits, Len(inst') \in Nat, Len(inst) <= Len(inst'),
           NEW u \in Tasks, NEW x, task' = [task EXCEPT ![u] = x], x # Idle => JobFits(x)'
    PROVE  TasksInv'
<1> SUFFICES ASSUME NEW t \in Tasks, NEW r, r = task'[t], r # Idle PROVE JobFits(r)'
  BY DEF TasksInv, JobOf
<1>1. task'[t] = IF t = u THEN x ELSE task[t]
  BY TaskSet
<1>2. CASE t = u
  BY <1>1, <1>2
<1>3. CASE t # u
  <2>1. r = task[t]
    BY <1>1, <1>3
  <2>2. JobFits(r)
    BY <2>1 DEF TasksInv, JobOf
  <2>3. Len(inst) \in Nat
    BY DEF TypeInv
  <2> QED BY <2>2, <2>3, JobStays
<1> QED BY <1>2, <1>3

LEMMA TasksSame ==
    ASSUME TypeInv, TasksInv, visits' = visits, Len(inst') \in Nat, Len(inst) <= Len(inst'), task' = task
    PROVE  TasksInv'
<1> SUFFICES ASSUME NEW t \in Tasks, NEW r, r = task[t], r # Idle PROVE JobFits(r)'
  BY DEF TasksInv, JobOf
<1>1. JobFits(r)
  BY DEF TasksInv, JobOf
<1>2. Len(inst) \in Nat
  BY DEF TypeInv
<1> QED BY <1>1, <1>2, JobStays

LEMMA StackSame ==
    ASSUME TypeInv, StackInv, visits' = visits, Len(inst') \in Nat, Len(inst) <= Len(inst'), stack' = stack
    PROVE  StackInv'
<1>1. StackFits(stack, Len(inst'))
  BY PrefixWhole, PrefixFits
<1> QED BY <1>1 DEF StackInv, StackFits, FrameFits, OpenIn, Scr

LEMMA StackPrefix ==
    ASSUME TypeInv, StackInv, visits' = visits, Len(inst') \in Nat, Len(inst) <= Len(inst'), Prefix(stack')
    PROVE  StackInv' /\ stack' \in Seq(Frames)
<1>1. StackFits(stack', Len(inst'))
  BY PrefixFits
<1> QED BY <1>1 DEF StackInv, StackFits, FrameFits, OpenIn, Scr, Prefix

LEMMA OverlapType ==
    ASSUME TypeInv, NEW f, NoteOverlap(f)
    PROVE  undisturbed' \in [Opens -> BOOLEAN] /\ current' \in [Opens -> BOOLEAN]
BY DEF TypeInv, NoteOverlap

LEMMA LoadSame ==
    ASSUME TypeInv, LoadInv, visits' = visits, inst' \in Seq(Panes), Len(inst') = Len(inst),
           \A i \in 1..Len(inst) : inst[i].loaded => inst'[i].loaded,
           \A t \in Tasks : task[t] \in Jobs /\ task[t].pc \in {"read", "show"} =>
               \/ task'[t] \in Jobs /\ task'[t].pc \in {"read", "show"} /\ task'[t].inst = task[t].inst
               \/ inst'[task[t].inst].loaded
    PROVE  LoadInv'
<1> SUFFICES ASSUME NEW i \in 1..Len(inst'), ~inst'[i].loaded
             PROVE  /\ Scr(i)'.load = "async"
                    /\ \E t \in Tasks : \E r \in JobOf(t)' : r.inst = i /\ r.pc \in {"read", "show"}
  BY DEF LoadInv
<1>1. i \in 1..Len(inst) /\ ~inst[i].loaded
  OBVIOUS
<1>2. Scr(i)'.load = "async"
  BY <1>1 DEF LoadInv, Scr
<1>3. PICK t \in Tasks : task[t] # Idle /\ task[t].inst = i /\ task[t].pc \in {"read", "show"}
  BY <1>1 DEF LoadInv, JobOf
<1>4. task[t] \in Jobs
  BY <1>3 DEF TypeInv
<1>5. task'[t] \in Jobs /\ task'[t].pc \in {"read", "show"} /\ task'[t].inst = i
  BY <1>3, <1>4
<1>6. task'[t] # Idle
  BY <1>5, JobNotIdle
<1> QED BY <1>2, <1>5, <1>6 DEF JobOf

LEMMA BaseInit == ASSUME ScrInit PROVE BaseInv
<1>1. visits \in Seq(DOMAIN Screen) /\ Len(visits) \in Nat
  BY ScreensAssumption DEF ScrInit
<1>2. TypeInv
  <2>1. Root \in Frames
    BY DEF Root, Frames
  <2>2. stack \in Seq(Frames) /\ inst \in Seq(Panes) /\ Len(inst) <= Len(visits)
    BY <1>1, <2>1 DEF ScrInit
  <2>3. file \in [Opens -> Contents]
    BY DEF ScrInit, Contents, Vals
  <2>4. want \in [Opens -> [Items -> {0, 1, Unknown}]]
    BY DEF ScrInit
  <2>5. task \in [Tasks -> {Idle} \cup Jobs]
    BY DEF ScrInit
  <2>6. undisturbed \in [Opens -> BOOLEAN] /\ current \in [Opens -> BOOLEAN]
    BY DEF ScrInit
  <2>7. edits \in 0..MaxEdits /\ foreign \in 0..MaxForeign
    BY ScreensAssumption DEF ScrInit
  <2>8. visits \in Visits /\ stray \in BOOLEAN /\ added \subseteq Nat
    BY DEF ScrInit
  <2> QED BY <2>2, <2>3, <2>4, <2>5, <2>6, <2>7, <2>8 DEF TypeInv
<1>3. StackInv
  BY DEF ScrInit, StackInv, StackFits
<1>4. TasksInv
  BY DEF ScrInit, TasksInv, JobOf
<1>5. LoadInv
  BY DEF ScrInit, LoadInv
<1> QED BY <1>2, <1>3, <1>4, <1>5 DEF BaseInv

LEMMA SeenType ==
    ASSUME TypeInv, NEW i \in Opens
    PROVE  Blank \in Contents /\ Seen(i) \in Contents
<1>1. file[Obj(i)] \in Contents
  BY ObjFacts DEF TypeInv
<1> QED BY <1>1 DEF Seen, Blank, Contents, Vals

LEMMA BaseOpen == ASSUME BaseInv, Open PROVE BaseInv'
<1> DEFINE i == Len(inst) + 1
           s == Scr(i)
           f == Obj(i)
           pane == IF s.load = "async" THEN Fields(Blank, FALSE) ELSE Fields(Seen(i), TRUE)
           w == [kind |-> "screen", inst |-> i]
<1>0. TypeInv /\ StackInv /\ TasksInv /\ LoadInv
  BY DEF BaseInv
<1>1. /\ stack \in Seq(Frames) /\ inst \in Seq(Panes) /\ visits \in Seq(DOMAIN Screen)
      /\ Len(inst) \in Nat /\ Len(visits) \in Nat /\ Len(inst) < Len(visits)
  BY <1>0, ScreensAssumption DEF TypeInv, Open
<1>2. i \in Opens /\ i \in Nat /\ f \in Opens
  <2>1. i \in Opens /\ i \in Nat
    BY <1>1 DEF Opens
  <2> QED BY <1>0, <2>1, ObjFacts
<1>3. pane \in Panes
  <2>1. Blank \in Contents /\ Seen(i) \in Contents
    BY <1>0, <1>2, SeenType
  <2> QED BY <2>1 DEF Fields, Panes
<1>4. /\ UNCHANGED <<visits, file, edits, foreign, want, stray, added>>
      /\ stack' = Append(stack, w) /\ inst' = Append(inst, pane)
      /\ IF s.load = "async" THEN NewTask(LoadTask(i)) ELSE UNCHANGED task
      /\ NoteOverlap(f)
  BY DEF Open
<1> HIDE DEF pane, w
<1>5. /\ inst' \in Seq(Panes) /\ Len(inst') = i /\ inst'[i] = pane
      /\ \A j \in 1..Len(inst) : inst'[j] = inst[j]
  BY <1>1, <1>3, <1>4
<1>6. Len(stack) = 1
  <2>1. Top = Root
    BY DEF Open
  <2>2. Len(stack) \in Nat /\ Len(stack) >= 1
    BY <1>0, <1>1 DEF StackInv, StackFits
  <2>3. ASSUME Len(stack) # 1 PROVE FALSE
    <3>1. Len(stack) \in 2..Len(stack)
      BY <2>2, <2>3, AboveOne
    <3>2. FrameFits(stack, Len(stack), Len(inst))
      BY <1>0, <3>1 DEF StackInv, StackFits
    <3> QED BY <2>1, <3>2 DEF FrameFits, Top, Root
  <2> QED BY <2>3
<1>7. StackInv' /\ stack' \in Seq(Frames)
  <2>1. Len(inst) <= i
    BY <1>1
  <2>2. StackFits(stack, i)
    BY <1>0, <1>2, <2>1, PrefixWhole, PrefixFits
  <2>3. w \in Frames /\ w.kind = "screen" /\ w.inst \in 1..i
    BY <1>1, <1>2 DEF Frames, w
  <2>4. StackFits(stack', i) /\ stack' \in Seq(Frames)
    BY <1>1, <1>2, <1>4, <1>6, <2>2, <2>3, PushFits
  <2> QED BY <1>4, <1>5, <2>4 DEF StackInv, StackFits, FrameFits, OpenIn, Scr
<1>8. undisturbed' \in [Opens -> BOOLEAN] /\ current' \in [Opens -> BOOLEAN]
  BY <1>0, <1>4, OverlapType
<1>9. Len(inst') \in Nat /\ Len(inst) <= Len(inst') /\ Len(inst') <= Len(visits)
  BY <1>1, <1>5
<1>10. CASE s.load = "async"
  <2>1. PICK u \in Tasks : task[u] = Idle /\ task' = [task EXCEPT ![u] = LoadTask(i)]
    BY <1>4, <1>10, NewTaskFacts
  <2> PICK x : x = LoadTask(i)
    OBVIOUS
  <2>2. x \in Jobs /\ x # Idle /\ x.pc = "read" /\ x.inst = i
    BY <1>0, <1>2, LoadTaskType DEF LoadTask
  <2>3. task' \in [Tasks -> {Idle} \cup Jobs] /\ task'[u] = x
    BY <1>0, <2>1, <2>2, TaskSet
  <2>4. JobFits(x)'
    <3>1. x.inst \in 1..Len(inst')
      BY <1>1, <1>5, <2>2
    <3>2. Scr(x.inst)'.load = "async"
      BY <1>4, <1>10, <2>2 DEF Scr
    <3> QED BY <2>2, <3>1, <3>2, PartialFacts DEF JobFits, LoadTask, Whole, Picked
  <2>5. TasksInv'
    BY <1>0, <1>4, <1>9, <2>1, <2>4, TasksAfter
  <2>6. LoadInv'
    <3> SUFFICES ASSUME NEW j \in 1..Len(inst'), ~inst'[j].loaded
                 PROVE  /\ Scr(j)'.load = "async"
                        /\ \E t \in Tasks : \E r \in JobOf(t)' : r.inst = j /\ r.pc \in {"read", "show"}
      BY DEF LoadInv
    <3>1. CASE j = i
      <4>1. x \in JobOf(u)'
        BY <2>2, <2>3 DEF JobOf
      <4> QED BY <1>4, <1>10, <2>2, <3>1, <4>1 DEF Scr
    <3>2. CASE j \in 1..Len(inst)
      <4>1. ~inst[j].loaded
        BY <1>5, <3>2
      <4>2. PICK t \in Tasks : task[t] # Idle /\ task[t].inst = j /\ task[t].pc \in {"read", "show"}
        BY <1>0, <3>2, <4>1 DEF LoadInv, JobOf
      <4>3. task'[t] = task[t]
        BY <1>0, <2>1, <4>2, TaskSet
      <4>4. Scr(j).load = "async"
        BY <1>0, <3>2, <4>1 DEF LoadInv
      <4> QED BY <1>4, <4>2, <4>3, <4>4 DEF JobOf, Scr
    <3> QED BY <1>1, <1>5, <3>1, <3>2
  <2>7. TypeInv'
    BY <1>0, <1>4, <1>5, <1>7, <1>8, <1>9, <2>3 DEF TypeInv, Opens
  <2> QED BY <1>7, <2>5, <2>6, <2>7 DEF BaseInv
<1>11. CASE s.load # "async"
  <2>1. task' = task
    BY <1>4, <1>11
  <2>2. TasksInv'
    BY <1>0, <1>4, <1>9, <2>1, TasksSame
  <2>3. LoadInv'
    <3> SUFFICES ASSUME NEW j \in 1..Len(inst'), ~inst'[j].loaded
                 PROVE  /\ Scr(j)'.load = "async"
                        /\ \E t \in Tasks : \E r \in JobOf(t)' : r.inst = j /\ r.pc \in {"read", "show"}
      BY DEF LoadInv
    <3>1. j # i
      BY <1>5, <1>11 DEF pane, Fields
    <3>2. j \in 1..Len(inst)
      BY <1>1, <1>5, <3>1
    <3>3. ~inst[j].loaded
      BY <1>5, <3>2
    <3> QED BY <1>0, <1>4, <2>1, <3>2, <3>3 DEF LoadInv, JobOf, Scr
  <2>4. TypeInv'
    BY <1>0, <1>4, <1>5, <1>7, <1>8, <1>9, <2>1 DEF TypeInv, Opens
  <2> QED BY <1>7, <2>2, <2>3, <2>4 DEF BaseInv
<1> QED BY <1>10, <1>11

LEMMA BaseLooks == ASSUME BaseInv, Looks PROVE BaseInv'
<1>0. TypeInv /\ StackInv /\ TasksInv /\ LoadInv /\ Len(inst) \in Nat
  BY DEF BaseInv, TypeInv
<1>1. UNCHANGED <<visits, inst, file, task, edits, foreign, want, undisturbed, current, stray, added>>
  BY DEF Looks, history
<1>2. StackInv' /\ stack' \in Seq(Frames)
  <2>1. CASE Prefix(stack')
    BY <1>0, <1>1, <2>1, StackPrefix
  <2>2. ASSUME Len(stack) = 2, NEW w \in Frames, AskedFrame(w), stack' = Append(stack, w)
        PROVE  StackInv' /\ stack' \in Seq(Frames)
    <3>1. OpenIn(stack, w.inst) /\ w.kind \in {"help", "discard?", "modal"}
      BY <2>2 DEF AskedFrame, OpenAt
    <3>2. StackFits(stack, Len(inst)) /\ stack \in Seq(Frames)
      BY <1>0 DEF StackInv, TypeInv
    <3>3. w.inst \in 1..Len(inst)
      <4>1. 2 \in 2..Len(stack)
        BY <2>2
      <4> QED BY <3>1, <3>2, <4>1 DEF StackFits, FrameFits, OpenIn
    <3>4. w.kind = "modal" => w.op \in Ops(Scr(w.inst))
      BY <2>2 DEF AskedFrame
    <3>5. StackFits(stack', Len(inst)) /\ stack' \in Seq(Frames)
      BY <1>0, <2>2, <3>1, <3>2, <3>3, <3>4, PushFits
    <3> QED BY <1>1, <3>5 DEF StackInv, StackFits, FrameFits, OpenIn, Scr
  <2> QED BY <2>1, <2>2 DEF Looks
<1>3. TasksInv'
  BY <1>0, <1>1, TasksSame
<1>4. LoadInv'
  BY <1>0, <1>1 DEF LoadInv, JobOf, Scr
<1>5. TypeInv'
  BY <1>0, <1>1, <1>2 DEF TypeInv, Opens
<1> QED BY <1>2, <1>3, <1>4, <1>5 DEF BaseInv

LEMMA UserPrefix == ASSUME TypeInv, NEW i, UserActs(i) PROVE Prefix(stack')
<1>1. Len(stack) \in Nat /\ Len(stack) >= 2 /\ stack' \in Seq(Frames) /\ Len(stack') = 2
  BY DEF TypeInv, UserActs, OpenAt, OpenIn
<1>2. Len(stack') >= 1 /\ Len(stack') <= Len(stack)
  BY <1>1
<1>3. ASSUME NEW k \in 1..Len(stack') PROVE stack'[k] = stack[k]
  <2>1. k = 1 \/ k = 2
    BY <1>1
  <2> QED BY <2>1 DEF UserActs
<1> QED BY <1>1, <1>2, <1>3 DEF Prefix

LEMMA JobAt ==
    ASSUME TypeInv, TasksInv, NEW t \in Tasks, task[t].pc \in Phases
    PROVE  /\ task[t] \in Jobs /\ task[t] # Idle /\ JobFits(task[t])
           /\ task[t].inst \in 1..Len(inst) /\ task[t].inst \in Opens /\ Obj(task[t].inst) \in Opens
           /\ inst[task[t].inst] \in Panes
<1>1. task[t] # Idle
  BY DEF Idle, Phases
<1>2. task[t] \in Jobs /\ JobFits(task[t])
  BY <1>1 DEF TypeInv, TasksInv, JobOf
<1>3. task[t].inst \in 1..Len(inst) /\ task[t].inst \in Opens
  <2>1. task[t].inst \in 1..Len(inst)
    BY <1>2 DEF JobFits
  <2>2. visits \in Seq(DOMAIN Screen) /\ inst \in Seq(Panes) /\ Len(inst) <= Len(visits)
    BY ScreensAssumption DEF TypeInv
  <2> QED BY <2>1, <2>2 DEF Opens
<1> QED BY <1>1, <1>2, <1>3, ObjFacts DEF TypeInv

LEMMA StagedPane ==
    ASSUME TypeInv, NEW i \in 1..Len(inst), NEW it \in Items, NEW v \in Vals, Stage(i, it, v)
    PROVE  \E x \in Panes :
             /\ inst' = [inst EXCEPT ![i] = x]
             /\ x.work = [inst[i].work EXCEPT ![it] = v] /\ x.set = inst[i].set \cup {it}
             /\ x.view = inst[i].view /\ x.loaded = inst[i].loaded
<1> DEFINE x == [inst[i] EXCEPT !.work = [@ EXCEPT ![it] = v], !.set = @ \cup {it}]
<1>1. inst[i] \in Panes
  BY DEF TypeInv
<1>2. /\ x \in Panes
      /\ x.work = [inst[i].work EXCEPT ![it] = v] /\ x.set = inst[i].set \cup {it}
      /\ x.view = inst[i].view /\ x.loaded = inst[i].loaded
  BY <1>1 DEF Panes, Contents
<1>3. inst' = [inst EXCEPT ![i] = x]
  BY DEF Stage, TypeInv
<1> QED BY <1>2, <1>3

LEMMA AddedType ==
    ASSUME TypeInv, NEW i \in Nat, NoteAdded(i) PROVE added' \subseteq Nat
BY DEF TypeInv, NoteAdded

LEMMA BaseStages == ASSUME BaseInv, NEW i, UserStages(i) PROVE BaseInv'
<1>0. TypeInv /\ StackInv /\ TasksInv /\ LoadInv /\ Len(inst) \in Nat /\ i \in 1..Len(inst) /\ i \in Nat
  BY DEF BaseInv, TypeInv, UserStages, UserActs
<1>1. PICK it \in Items, v \in Vals : Stage(i, it, v)
  BY DEF UserStages
<1>2. /\ UNCHANGED <<visits, file, foreign, want>> /\ UNCHANGED <<task, undisturbed, current, stray>>
      /\ edits < MaxEdits /\ edits' = edits + 1 /\ NoteAdded(i)
  BY <1>1 DEF UserStages, UserActs, Stage
<1>3. PICK x \in Panes :
         /\ inst' = [inst EXCEPT ![i] = x]
         /\ x.loaded = inst[i].loaded
  BY <1>0, <1>1, StagedPane
<1>4. /\ inst' \in Seq(Panes) /\ Len(inst') = Len(inst)
      /\ \A j \in 1..Len(inst) : inst'[j] = IF j = i THEN x ELSE inst[j]
  BY <1>0, <1>3, PaneSet
<1>5. StackInv' /\ stack' \in Seq(Frames)
  BY <1>0, <1>2, <1>4, UserPrefix, StackPrefix DEF UserStages
<1>6. TasksInv'
  BY <1>0, <1>2, <1>4, TasksSame
<1>7. \A j \in 1..Len(inst) : inst[j].loaded => inst'[j].loaded
  BY <1>3, <1>4
<1>8. LoadInv'
  BY <1>0, <1>2, <1>4, <1>7, LoadSame
<1>9. edits' \in 0..MaxEdits /\ added' \subseteq Nat
  BY <1>0, <1>2, AddedType, ScreensAssumption DEF TypeInv
<1>10. TypeInv'
  BY <1>0, <1>2, <1>4, <1>5, <1>9 DEF TypeInv, Opens
<1> QED BY <1>5, <1>6, <1>8, <1>10 DEF BaseInv

LEMMA BaseBegins ==
    ASSUME BaseInv, NEW i, NEW op, NEW E, NEW D, UserBegins(i, op, E, D) PROVE BaseInv'
<1>0. TypeInv /\ StackInv /\ TasksInv /\ LoadInv /\ Len(inst) \in Nat
  BY DEF BaseInv, TypeInv
<1>1. /\ UNCHANGED <<visits, file, foreign, want>> /\ UNCHANGED <<inst, stray, added>>
      /\ edits < MaxEdits /\ edits' = edits + 1 /\ NoteOverlap(Obj(i)) /\ NewTask(Job(i, op, E, D))
  BY DEF UserBegins, UserActs, Begin
<1> PICK x : x = Job(i, op, E, D)
  OBVIOUS
<1>2. x \in Jobs /\ JobFits(x)
  BY <1>0, JobFacts
<1>3. PICK u \in Tasks : task[u] = Idle /\ task' = [task EXCEPT ![u] = x]
  BY <1>1, NewTaskFacts
<1>4. task' \in [Tasks -> {Idle} \cup Jobs] /\ \A t \in Tasks : task'[t] = IF t = u THEN x ELSE task[t]
  BY <1>0, <1>2, <1>3, TaskSet
<1>5. TasksInv'
  <2>1. JobFits(x)'
    BY <1>0, <1>1, <1>2, JobStays
  <2>2. Len(inst') \in Nat /\ Len(inst) <= Len(inst') /\ visits' = visits
    BY <1>0, <1>1
  <2> QED BY <1>0, <1>3, <2>1, <2>2, TasksAfter
<1>6. StackInv' /\ stack' \in Seq(Frames)
  BY <1>0, <1>1, UserPrefix, StackPrefix DEF UserBegins
<1>7. LoadInv'
  <2>1. \A t \in Tasks : task[t] \in Jobs => task'[t] = task[t]
    BY <1>3, <1>4, JobNotIdle
  <2>2. inst' \in Seq(Panes)
    BY <1>0, <1>1 DEF TypeInv
  <2> QED BY <1>0, <1>1, <2>1, <2>2, LoadSame
<1>8. edits' \in 0..MaxEdits
  BY <1>0, <1>1, ScreensAssumption DEF TypeInv
<1>9. undisturbed' \in [Opens -> BOOLEAN] /\ current' \in [Opens -> BOOLEAN]
  BY <1>0, <1>1, OverlapType
<1>10. TypeInv'
  BY <1>0, <1>1, <1>4, <1>6, <1>8, <1>9 DEF TypeInv, Opens
<1> QED BY <1>5, <1>6, <1>7, <1>10 DEF BaseInv

LEMMA BaseUndo == ASSUME BaseInv, Undo PROVE BaseInv'
<1> DEFINE i == Top.inst
<1>0. TypeInv /\ StackInv /\ TasksInv /\ LoadInv /\ Len(inst) \in Nat
  BY DEF BaseInv, TypeInv
<1>1. i \in 1..Len(inst) /\ i \in Nat
  BY <1>0, TopScreen DEF Undo
<1> DEFINE x == [inst[i] EXCEPT !.work = inst[i].view]
<1>2. /\ UNCHANGED <<visits, stack, file, task, edits, foreign, want, undisturbed, current, stray>>
      /\ inst' = [inst EXCEPT ![i] = x] /\ NoteAdded(i)
  BY DEF Undo
<1>3. x \in Panes /\ x.loaded = inst[i].loaded
  <2>1. inst[i] \in Panes
    BY <1>0, <1>1 DEF TypeInv
  <2> QED BY <2>1 DEF Panes
<1> HIDE DEF x, i
<1>4. /\ inst' \in Seq(Panes) /\ Len(inst') = Len(inst)
      /\ \A j \in 1..Len(inst) : inst'[j] = IF j = i THEN x ELSE inst[j]
  BY <1>0, <1>1, <1>2, <1>3, PaneSet
<1>5. StackInv'
  BY <1>0, <1>2, <1>4, StackSame
<1>6. TasksInv'
  BY <1>0, <1>2, <1>4, TasksSame
<1>7. \A j \in 1..Len(inst) : inst[j].loaded => inst'[j].loaded
  BY <1>3, <1>4
<1>8. LoadInv'
  BY <1>0, <1>2, <1>4, <1>7, LoadSame
<1>9. added' \subseteq Nat
  BY <1>0, <1>1, <1>2, AddedType
<1>10. TypeInv'
  BY <1>0, <1>2, <1>4, <1>9 DEF TypeInv, Opens
<1> QED BY <1>5, <1>6, <1>8, <1>10 DEF BaseInv

\* A step of task t that leaves the fields of the screens alone.
LEMMA BaseTaskStep ==
    ASSUME BaseInv, NEW t \in Tasks, task[t].pc \in Phases, NEW x \in Jobs, JobFits(x),
           task' = [task EXCEPT ![t] = x], x.inst = task[t].inst,
           task[t].pc = "read" => x.pc = "show", task[t].pc # "show",
           UNCHANGED <<visits, stack, inst, edits, foreign, undisturbed, stray, added>>,
           file' \in [Opens -> Contents], want' \in [Opens -> [Items -> {0, 1, Unknown}]],
           current' \in [Opens -> BOOLEAN]
    PROVE  BaseInv'
<1>0. /\ TypeInv /\ StackInv /\ TasksInv /\ LoadInv /\ Len(inst) \in Nat
      /\ inst' = inst /\ visits' = visits /\ Len(inst') \in Nat /\ Len(inst) <= Len(inst')
  BY DEF BaseInv, TypeInv
<1>1. task' \in [Tasks -> {Idle} \cup Jobs] /\ \A u \in Tasks : task'[u] = IF u = t THEN x ELSE task[u]
  BY <1>0, TaskSet
<1>2. TasksInv'
  <2>1. JobFits(x)'
    BY <1>0, JobStays
  <2> QED BY <1>0, <2>1, TasksAfter
<1>3. StackInv'
  BY <1>0, StackSame
<1>4. LoadInv'
  <2>1. \A u \in Tasks : task[u] \in Jobs /\ task[u].pc \in {"read", "show"} =>
           task'[u] \in Jobs /\ task'[u].pc \in {"read", "show"} /\ task'[u].inst = task[u].inst
    BY <1>1
  <2>2. inst' \in Seq(Panes)
    BY <1>0 DEF TypeInv
  <2> QED BY <1>0, <2>1, <2>2, LoadSame
<1>5. TypeInv'
  BY <1>0, <1>1 DEF TypeInv, Opens
<1> QED BY <1>2, <1>3, <1>4, <1>5 DEF BaseInv

LEMMA BaseBuild == ASSUME BaseInv, NEW t \in Tasks, Build(t) PROVE BaseInv'
<1>0. TypeInv /\ TasksInv
  BY DEF BaseInv
<1> PICK r : r = task[t]
  OBVIOUS
<1>1. r.pc = "build" /\ task[t].pc \in Phases
  BY DEF Build, At, Phases
<1>2. /\ r \in Jobs /\ JobFits(r) /\ r.inst \in 1..Len(inst) /\ Obj(r.inst) \in Opens
      /\ inst[r.inst] \in Panes
  BY <1>0, <1>1, JobAt
<1>3. r.carries \in {"fresh", "now"}
  BY <1>1, <1>2 DEF JobFits
<1>4. PICK x : x = IF r.carries = "now"
                   THEN [r EXCEPT !.pc = "call", !.data = inst[r.inst].work, !.edits = inst[r.inst].set]
                   ELSE [r EXCEPT !.pc = "call", !.data = Over(r.data, file[Obj(r.inst)])]
  OBVIOUS
<1>5. Over(r.data, file[Obj(r.inst)]) \in Contents
  <2>1. r.data \in Partial /\ file[Obj(r.inst)] \in Contents
    BY <1>0, <1>2 DEF Jobs, TypeInv
  <2> QED BY <2>1, OverFacts
<1>6. /\ x \in Jobs /\ x.pc = "call" /\ x.inst = r.inst /\ x.carries = r.carries
      /\ x.ok = r.ok /\ x.bad = r.bad /\ x.data \in Contents
  BY <1>2, <1>4, <1>5, PartialFacts DEF Jobs, Panes, Phases
<1>7. JobFits(x)
  BY <1>2, <1>3, <1>6 DEF JobFits, Whole, Picked
<1>8. /\ task' = [task EXCEPT ![t] = x]
      /\ UNCHANGED <<visits, stack, inst, file, edits, foreign, want, undisturbed, current, stray, added>>
  BY <1>4 DEF Build, history
<1>9. /\ file' \in [Opens -> Contents] /\ want' \in [Opens -> [Items -> {0, 1, Unknown}]]
      /\ current' \in [Opens -> BOOLEAN]
  BY <1>0, <1>8 DEF TypeInv
<1> QED BY <1>1, <1>6, <1>7, <1>8, <1>9, BaseTaskStep

LEMMA BaseRead == ASSUME BaseInv, NEW t \in Tasks, Read(t) PROVE BaseInv'
<1>0. TypeInv /\ TasksInv
  BY DEF BaseInv
<1> PICK r : r = task[t]
  OBVIOUS
<1>1. r.pc = "read" /\ task[t].pc \in Phases
  BY DEF Read, At, Phases
<1>2. r \in Jobs /\ JobFits(r) /\ r.inst \in 1..Len(inst) /\ Obj(r.inst) \in Opens
  BY <1>0, <1>1, JobAt
<1>4. PICK x : x = [r EXCEPT !.pc = "show", !.data = file[Obj(r.inst)]]
  OBVIOUS
<1>5. file[Obj(r.inst)] \in Contents
  BY <1>0, <1>2 DEF TypeInv
<1>6. /\ x \in Jobs /\ x.pc = "show" /\ x.inst = r.inst /\ x.carries = r.carries
      /\ x.ok = r.ok /\ x.bad = r.bad /\ x.data \in Contents /\ x.edits = r.edits
  BY <1>2, <1>4, <1>5, PartialFacts DEF Jobs, Phases
<1>7. JobFits(x)
  BY <1>1, <1>2, <1>6 DEF JobFits, Whole, Picked
<1>8. /\ task' = [task EXCEPT ![t] = x]
      /\ UNCHANGED <<visits, stack, inst, file, edits, foreign, want, undisturbed, current, stray, added>>
  <2>1. task \in [Tasks -> {Idle} \cup Jobs]
    BY <1>0 DEF TypeInv
  <2>2. task' = [task EXCEPT ![t].pc = "show", ![t].data = file[Obj(task[t].inst)]]
    BY DEF Read
  <2>3. task' = [task EXCEPT ![t] = x]
    BY <1>4, <2>1, <2>2
  <2> QED BY <2>3 DEF Read, history
<1>9. /\ file' \in [Opens -> Contents] /\ want' \in [Opens -> [Items -> {0, 1, Unknown}]]
      /\ current' \in [Opens -> BOOLEAN]
  BY <1>0, <1>8 DEF TypeInv
<1> QED BY <1>1, <1>6, <1>7, <1>8, <1>9, BaseTaskStep

\* What the reply to task t does to the object and to what is wanted of it.
LEMMA ReplyFacts ==
    ASSUME TypeInv, TasksInv, NEW t \in Tasks, Reply(t), NEW r, r = task[t], NEW f, f = Obj(r.inst)
    PROVE  /\ r.pc = "call" /\ r \in Jobs /\ JobFits(r) /\ f \in Opens
           /\ \E e \in {"ok", "refused", "raised"} :
                /\ task' = [task EXCEPT ![t] = [r EXCEPT !.pc = e]]
                /\ file' = file \/ (r.carries # "side" /\ file' = [file EXCEPT ![f] = Over(r.data, file[f])])
                /\ e = "ok" /\ r.carries # "side" => file' = [file EXCEPT ![f] = Over(r.data, file[f])]
                /\ want' = [want EXCEPT ![f] = [it \in Items |->
                     IF it \in r.edits THEN (IF e = "ok" THEN Over(r.data, file[f])[it] ELSE Unknown)
                     ELSE want[f][it]]]
                /\ e = "ok" => current' = [current EXCEPT ![f] = @ /\ ~Leaves(r)]
                /\ e # "ok" => current' = [current EXCEPT ![f] = @ /\ file' = file]
           /\ UNCHANGED <<visits, stack, inst, edits, foreign, undisturbed, stray, added>>
<1>1. r.pc = "call" /\ task[t].pc \in Phases
  BY DEF Reply, At, Phases
<1>2. r \in Jobs /\ JobFits(r) /\ f \in Opens
  BY <1>1, JobAt
<1>3. Effect(t) => IF r.carries = "side" THEN file' = file
                   ELSE file' = [file EXCEPT ![f] = Over(r.data, file[f])]
  BY DEF Effect, Data
<1>4. \A e : [task EXCEPT ![t].pc = e] = [task EXCEPT ![t] = [r EXCEPT !.pc = e]]
  OBVIOUS
<1> DEFINE Noted(e) == [want EXCEPT ![f] = [it \in Items |->
                     IF it \in r.edits THEN (IF e = "ok" THEN Over(r.data, file[f])[it] ELSE Unknown)
                     ELSE want[f][it]]]
<1>5. CASE /\ Effect(t) /\ task' = [task EXCEPT ![t].pc = "ok"]
           /\ current' = [current EXCEPT ![f] = @ /\ ~Leaves(r)]
           /\ want' = [want EXCEPT ![f] =
                 [it \in Items |-> IF it \in r.edits THEN Over(r.data, file[f])[it] ELSE @[it]]]
  <2>1. want' = Noted("ok")
    BY <1>5
  <2>2. "ok" \in {"ok", "refused", "raised"}
    OBVIOUS
  <2> HIDE DEF Noted
  <2>3. task' = [task EXCEPT ![t] = [r EXCEPT !.pc = "ok"]]
    BY <1>4, <1>5
  <2> QED BY <1>1, <1>2, <1>3, <1>5, <2>1, <2>2, <2>3 DEF Reply, Noted
<1>6. ASSUME NEW e \in {"refused", "raised"},
             Effect(t) \/ UNCHANGED <<file, byhand>>, task' = [task EXCEPT ![t].pc = e],
             want' = [want EXCEPT ![f] =
                 [it \in Items |-> IF it \in r.edits THEN [x \in Items |-> Unknown][it] ELSE @[it]]],
             current' = [current EXCEPT ![f] = @ /\ file' = file]
      PROVE  /\ task' = [task EXCEPT ![t] = [r EXCEPT !.pc = e]]
             /\ file' = file \/ (r.carries # "side" /\ file' = [file EXCEPT ![f] = Over(r.data, file[f])])
             /\ want' = Noted(e)
  <2>1. want' = Noted(e)
    BY <1>6
  <2> QED BY <1>3, <1>4, <1>6, <2>1
<1>7. UNCHANGED <<visits, stack, inst, edits, foreign, undisturbed, stray, added>>
  BY DEF Reply
<1>8. \/ /\ Effect(t) /\ task' = [task EXCEPT ![t].pc = "ok"]
         /\ current' = [current EXCEPT ![f] = @ /\ ~Leaves(r)]
         /\ want' = [want EXCEPT ![f] =
               [it \in Items |-> IF it \in r.edits THEN Over(r.data, file[f])[it] ELSE @[it]]]
      \/ \E e \in {"refused", "raised"} :
             /\ Effect(t) \/ UNCHANGED <<file, byhand>>
             /\ task' = [task EXCEPT ![t].pc = e]
             /\ want' = [want EXCEPT ![f] =
                   [it \in Items |-> IF it \in r.edits THEN [x \in Items |-> Unknown][it] ELSE @[it]]]
             /\ current' = [current EXCEPT ![f] = @ /\ file' = file]
  BY DEF Reply
<1> QED BY <1>1, <1>2, <1>5, <1>6, <1>7, <1>8

LEMMA BaseReply == ASSUME BaseInv, NEW t \in Tasks, Reply(t) PROVE BaseInv'
<1>0. TypeInv /\ TasksInv
  BY DEF BaseInv
<1> PICK r : r = task[t]
  OBVIOUS
<1> PICK f : f = Obj(r.inst)
  OBVIOUS
<1>1. /\ r.pc = "call" /\ r \in Jobs /\ JobFits(r) /\ f \in Opens
      /\ UNCHANGED <<visits, stack, inst, edits, foreign, undisturbed, stray, added>>
  BY <1>0, ReplyFacts
<1>2. PICK e \in {"ok", "refused", "raised"} :
        /\ task' = [task EXCEPT ![t] = [r EXCEPT !.pc = e]]
        /\ file' = file \/ (r.carries # "side" /\ file' = [file EXCEPT ![f] = Over(r.data, file[f])])
        /\ want' = [want EXCEPT ![f] = [it \in Items |->
             IF it \in r.edits THEN (IF e = "ok" THEN Over(r.data, file[f])[it] ELSE Unknown)
             ELSE want[f][it]]]
        /\ e = "ok" => current' = [current EXCEPT ![f] = @ /\ ~Leaves(r)]
        /\ e # "ok" => current' = [current EXCEPT ![f] = @ /\ file' = file]
  BY <1>0, ReplyFacts
<1>3. PICK x : x = [r EXCEPT !.pc = e]
  OBVIOUS
<1>4. /\ x \in Jobs /\ x.pc = e /\ x.inst = r.inst /\ x.carries = r.carries
      /\ x.ok = r.ok /\ x.bad = r.bad /\ x.data = r.data /\ x.edits = r.edits
  BY <1>1, <1>3 DEF Jobs, Phases
<1>5. JobFits(x)
  BY <1>1, <1>4 DEF JobFits, Whole, Picked
<1>6. Over(r.data, file[f]) \in Contents
  <2>1. r.data \in Partial /\ file[f] \in Contents
    BY <1>0, <1>1 DEF Jobs, TypeInv
  <2> QED BY <2>1, OverFacts
<1>7. file' \in [Opens -> Contents]
  BY <1>0, <1>2, <1>6 DEF TypeInv
<1>8. want' \in [Opens -> [Items -> {0, 1, Unknown}]]
  <2>1. \A it \in Items : Over(r.data, file[f])[it] \in {0, 1, Unknown} /\ want[f][it] \in {0, 1, Unknown}
    BY <1>0, <1>1, <1>6 DEF Contents, Vals, TypeInv
  <2> QED BY <1>0, <1>2, <2>1 DEF TypeInv
<1>9. current' \in [Opens -> BOOLEAN]
  <2>1. current \in [Opens -> BOOLEAN]
    BY <1>0 DEF TypeInv
  <2>2. \/ current' = [current EXCEPT ![f] = @ /\ ~Leaves(r)]
        \/ current' = [current EXCEPT ![f] = @ /\ file' = file]
    BY <1>2
  <2> QED BY <2>1, <2>2
<1>10. task[t].pc \in Phases /\ task[t].pc = "call"
  BY <1>1 DEF Phases
<1> QED BY ZenonT(40), <1>1, <1>2, <1>3, <1>4, <1>5, <1>7, <1>8, <1>9, <1>10, BaseTaskStep

LEMMA FieldsType ==
    ASSUME NEW c \in Contents, NEW b \in BOOLEAN
    PROVE  /\ Fields(c, b) \in Panes /\ Fields(c, b).view = c /\ Fields(c, b).work = c
           /\ Fields(c, b).loaded = b /\ Fields(c, b).set = {}
BY DEF Fields, Panes

\* What was asked for by the operation of a task.
LEMMA OperationOf ==
    ASSUME TypeInv, TasksInv, NEW t \in Tasks, NEW r, r = task[t], r.pc \in {"call", "ok", "refused", "raised"}
    PROVE  /\ r \in Jobs /\ JobFits(r) /\ r.inst \in 1..Len(inst) /\ r.inst \in Opens
           /\ Obj(r.inst) \in Opens /\ inst[r.inst] \in Panes /\ r # Idle
           /\ \E op \in Ops(Scr(r.inst)) : op.carries = r.carries /\ op.ok = r.ok /\ op.bad = r.bad
           /\ "sent" \in r.ok \cup r.bad => r.carries = "work"
           /\ "working" \in r.ok \cup r.bad => r.carries = "diff"
           /\ "shown" \in r.ok \cup r.bad => r.carries \in {"one", "fresh", "view"}
<1>1. task[t].pc \in Phases
  BY DEF Phases
<1>2. /\ r \in Jobs /\ JobFits(r) /\ r.inst \in 1..Len(inst) /\ r.inst \in Opens
      /\ Obj(r.inst) \in Opens /\ inst[r.inst] \in Panes /\ r # Idle
  BY <1>1, JobAt
<1>3. PICK op \in Ops(Scr(r.inst)) : op.carries = r.carries /\ op.ok = r.ok /\ op.bad = r.bad
  BY <1>2 DEF JobFits
<1> QED BY <1>2, <1>3, OpFacts

LEMMA ReturnFacts ==
    ASSUME TypeInv, TasksInv, NEW t \in Tasks, Return(t), NEW r, r = task[t]
    PROVE  /\ r.pc \in {"ok", "refused", "raised"} /\ After(r) \subseteq r.ok \cup r.bad
           /\ r.edits \subseteq DOMAIN r.data \/ "shown" \notin After(r)
           /\ \E x \in Panes, y \in {Idle, LoadTask(r.inst)} :
                /\ x = Followed(r, inst[r.inst]) /\ (inst[r.inst].loaded => x.loaded)
                /\ inst' = [inst EXCEPT ![r.inst] = x]
                /\ task' = [task EXCEPT ![t] = y]
                /\ y = Idle <=> ~("reload" \in After(r) /\ Scr(r.inst).load = "async")
           /\ stack' = LET s == IF "pop" \in After(r) THEN Popped(stack) ELSE stack
                       IN  IF "push" \in After(r)
                           THEN Append(s, [kind |-> "result", inst |-> r.inst]) ELSE s
           /\ stray' = (stray \/ (After(r) \cap {"pop", "push"} # {}
                                  /\ ~(Top.kind = "screen" /\ Top.inst = r.inst)))
           /\ UNCHANGED <<visits, file, edits, foreign, want, undisturbed, current, added>>
<1>1. r.pc \in {"ok", "refused", "raised"}
  BY DEF Return
<1>2. After(r) \subseteq r.ok \cup r.bad
  BY DEF After
<1>3. /\ r \in Jobs /\ JobFits(r) /\ r.inst \in 1..Len(inst) /\ Obj(r.inst) \in Opens
      /\ inst[r.inst] \in Panes /\ r # Idle
      /\ "sent" \in r.ok \cup r.bad => r.carries = "work"
      /\ "shown" \in r.ok \cup r.bad => r.carries \in {"one", "fresh", "view"}
  BY <1>1, OperationOf
<1>4. "sent" \in After(r) => r.data \in Contents
  BY <1>2, <1>3 DEF JobFits, Whole
<1>5. "shown" \in After(r) => r.edits \subseteq DOMAIN r.data
  <2> SUFFICES ASSUME "shown" \in After(r) PROVE r.edits \subseteq DOMAIN r.data
    OBVIOUS
  <2>1. r.carries \in {"one", "fresh", "view"}
    BY <1>2, <1>3
  <2>2. CASE r.carries = "one"
    BY <1>3, <2>2 DEF JobFits, Picked
  <2>3. CASE r.carries \in {"fresh", "view"}
    <3>1. r.data \in Contents
      BY <1>1, <1>3, <2>3 DEF JobFits, Whole
    <3> QED BY <1>3, <3>1 DEF Contents, Jobs
  <2> QED BY <2>1, <2>2, <2>3
<1> DEFINE x == Followed(r, inst[r.inst])
           edited == [it \in r.edits |-> r.data[it]]
<1>6. file[Obj(r.inst)] \in Contents
  BY <1>3 DEF TypeInv
<1>7. x \in Panes /\ (inst[r.inst].loaded => x.loaded)
  <2>1. CASE "reload" \in After(r) /\ Scr(r.inst).load # "async"
    <3>1. x = Fields(file[Obj(r.inst)], TRUE)
      BY <2>1 DEF Followed
    <3> QED BY <1>6, <3>1, FieldsType
  <2>2. CASE ~("reload" \in After(r) /\ Scr(r.inst).load # "async") /\ "sent" \in After(r)
    <3>1. x = [inst[r.inst] EXCEPT !.view = r.data]
      BY <2>2 DEF Followed
    <3> QED BY <1>3, <1>4, <2>2, <3>1 DEF Panes
  <2>3. CASE ~("reload" \in After(r) /\ Scr(r.inst).load # "async") /\ "sent" \notin After(r)
             /\ "working" \in After(r)
    <3>1. x = [inst[r.inst] EXCEPT !.view = inst[r.inst].work]
      BY <2>3 DEF Followed
    <3> QED BY <1>3, <3>1 DEF Panes
  <2>4. CASE ~("reload" \in After(r) /\ Scr(r.inst).load # "async") /\ "sent" \notin After(r)
             /\ "working" \notin After(r) /\ "shown" \in After(r)
    <3> HIDE DEF edited
    <3>1. x = [inst[r.inst] EXCEPT !.view = Over(edited, @), !.work = Over(edited, @)]
      BY <2>4 DEF Followed, edited
    <3>2. edited \in Partial
      <4>1. r.edits \in SUBSET Items /\ r.data \in Partial
        BY <1>3 DEF Jobs
      <4>2. edited \in [r.edits -> Vals]
        BY <1>5, <2>4, <4>1, PartialFacts DEF edited
      <4> QED BY <4>1, <4>2, PartialFacts
    <3>3. Over(edited, inst[r.inst].view) \in Contents /\ Over(edited, inst[r.inst].work) \in Contents
      BY <1>3, <3>2, OverFacts DEF Panes
    <3> QED BY <1>3, <3>1, <3>3 DEF Panes
  <2>5. CASE ~("reload" \in After(r) /\ Scr(r.inst).load # "async") /\ "sent" \notin After(r)
             /\ "working" \notin After(r) /\ "shown" \notin After(r)
    <3>1. x = inst[r.inst]
      BY <2>5 DEF Followed
    <3> QED BY <1>3, <3>1
  <2> QED BY <2>1, <2>2, <2>3, <2>4, <2>5
<1> HIDE DEF x, edited
<1>8. PICK y : y = IF "reload" \in After(r) /\ Scr(r.inst).load = "async" THEN LoadTask(r.inst) ELSE Idle
  OBVIOUS
<1>9. y \in {Idle, LoadTask(r.inst)} /\ (y = Idle <=> ~("reload" \in After(r) /\ Scr(r.inst).load = "async"))
  <2>1. LoadTask(r.inst) # Idle
    BY <1>3, LoadTaskType DEF Jobs
  <2> QED BY <1>8, <2>1
<1>10. inst' = [inst EXCEPT ![r.inst] = x] /\ task' = [task EXCEPT ![t] = y]
  BY <1>8 DEF Return, Finish, x
<1>11. /\ stack' = LET s == IF "pop" \in After(r) THEN Popped(stack) ELSE stack
                       IN  IF "push" \in After(r)
                           THEN Append(s, [kind |-> "result", inst |-> r.inst]) ELSE s
       /\ stray' = (stray \/ (After(r) \cap {"pop", "push"} # {}
                                  /\ ~(Top.kind = "screen" /\ Top.inst = r.inst)))
       /\ UNCHANGED <<visits, file, edits, foreign, want, undisturbed, current, added>>
  BY DEF Return
<1>12. \E x0 \in Panes, y0 \in {Idle, LoadTask(r.inst)} :
                /\ x0 = Followed(r, inst[r.inst]) /\ (inst[r.inst].loaded => x0.loaded)
                /\ inst' = [inst EXCEPT ![r.inst] = x0]
                /\ task' = [task EXCEPT ![t] = y0]
                /\ y0 = Idle <=> ~("reload" \in After(r) /\ Scr(r.inst).load = "async")
  <2>1. x = Followed(r, inst[r.inst])
    BY DEF x
  <2> QED BY <1>7, <1>9, <1>10, <2>1
<1> QED BY <1>1, <1>2, <1>5, <1>11, <1>12

\* A step that ends task t or has it load again.
LEMMA BaseTaskEnds ==
    ASSUME BaseInv, NEW t \in Tasks, NEW r, r = task[t], r \in Jobs, r.inst \in 1..Len(inst),
           NEW x \in Panes, inst' = [inst EXCEPT ![r.inst] = x], inst[r.inst].loaded => x.loaded,
           r.pc \in {"read", "show"} => x.loaded,
           NEW y \in {Idle, LoadTask(r.inst)}, task' = [task EXCEPT ![t] = y],
           y # Idle => Scr(r.inst).load = "async",
           UNCHANGED <<visits, file, edits, foreign, want, undisturbed, current, added>>,
           stray' \in BOOLEAN,
           NEW s, Prefix(s), stack' = s \/ stack' = Append(s, [kind |-> "result", inst |-> r.inst])
    PROVE  BaseInv'
<1>0. TypeInv /\ StackInv /\ TasksInv /\ LoadInv /\ Len(inst) \in Nat /\ r.inst \in Nat
  BY DEF BaseInv, TypeInv
<1>1. /\ inst' \in Seq(Panes) /\ Len(inst') = Len(inst)
      /\ \A j \in 1..Len(inst) : inst'[j] = IF j = r.inst THEN x ELSE inst[j]
  BY <1>0, PaneSet
<1>2. y = Idle \/ (y \in Jobs /\ y.pc = "read" /\ y.inst = r.inst)
  BY <1>0, LoadTaskType DEF LoadTask
<1>3. task' \in [Tasks -> {Idle} \cup Jobs] /\ \A u \in Tasks : task'[u] = IF u = t THEN y ELSE task[u]
  <2>1. y \in Jobs \cup {Idle}
    BY <1>2
  <2> QED BY <1>0, <2>1, TaskSet
<1>4. Len(inst') \in Nat /\ Len(inst) <= Len(inst') /\ visits' = visits
  BY <1>0, <1>1
<1>5. TasksInv'
  <2>1. y # Idle => JobFits(y)'
    <3> SUFFICES ASSUME y # Idle PROVE JobFits(y)'
      OBVIOUS
    <3>1. y = LoadTask(r.inst) /\ y.inst \in 1..Len(inst')
      BY <1>1 DEF LoadTask
    <3>2. Scr(y.inst)'.load = "async"
      BY <1>4, <3>1 DEF Scr, LoadTask
    <3> QED BY <3>1, <3>2, PartialFacts DEF JobFits, LoadTask, Whole, Picked
  <2> QED BY <1>0, <1>4, <2>1, TasksAfter
<1>6. LoadInv'
  <2>1. \A j \in 1..Len(inst) : inst[j].loaded => inst'[j].loaded
    BY <1>1
  <2>2. \A u \in Tasks : task[u] \in Jobs /\ task[u].pc \in {"read", "show"} =>
           \/ task'[u] \in Jobs /\ task'[u].pc \in {"read", "show"} /\ task'[u].inst = task[u].inst
           \/ inst'[task[u].inst].loaded
    BY <1>1, <1>2, <1>3
  <2> QED BY <1>0, <1>1, <1>4, <2>1, <2>2, LoadSame
<1>7. StackInv' /\ stack' \in Seq(Frames)
  <2>1. StackFits(s, Len(inst)) /\ s \in Seq(Frames)
    BY <1>0, PrefixFits DEF Prefix
  <2> PICK w : w = [kind |-> "result", inst |-> r.inst]
    OBVIOUS
  <2>2. w \in Frames /\ w.kind = "result" /\ w.inst \in 1..Len(inst)
    BY <1>0 DEF Frames
  <2>3. StackFits(Append(s, w), Len(inst)) /\ Append(s, w) \in Seq(Frames)
    BY <1>0, <2>1, <2>2, PushFits
  <2>4. StackFits(stack', Len(inst)) /\ stack' \in Seq(Frames)
    BY <2>1, <2>3
  <2> QED BY <1>1, <1>4, <2>4 DEF StackInv, StackFits, FrameFits, OpenIn, Scr
<1>8. TypeInv'
  BY <1>0, <1>1, <1>3, <1>7 DEF TypeInv, Opens
<1> QED BY <1>5, <1>6, <1>7, <1>8 DEF BaseInv

LEMMA BaseReturn == ASSUME BaseInv, NEW t \in Tasks, Return(t) PROVE BaseInv'
<1>0. TypeInv /\ TasksInv /\ StackInv
  BY DEF BaseInv
<1> PICK r : r = task[t]
  OBVIOUS
<1>1. r.pc \in {"ok", "refused", "raised"}
  BY DEF Return
<1>2. r \in Jobs /\ r.inst \in 1..Len(inst)
  BY <1>0, <1>1, OperationOf
<1>3. /\ UNCHANGED <<visits, file, edits, foreign, want, undisturbed, current, added>>
      /\ stack' = LET s == IF "pop" \in After(r) THEN Popped(stack) ELSE stack
                       IN  IF "push" \in After(r)
                           THEN Append(s, [kind |-> "result", inst |-> r.inst]) ELSE s
      /\ stray' = (stray \/ (After(r) \cap {"pop", "push"} # {}
                                  /\ ~(Top.kind = "screen" /\ Top.inst = r.inst)))
  BY <1>0, ReturnFacts
<1>4. PICK x \in Panes, y \in {Idle, LoadTask(r.inst)} :
                /\ inst[r.inst].loaded => x.loaded
                /\ inst' = [inst EXCEPT ![r.inst] = x]
                /\ task' = [task EXCEPT ![t] = y]
                /\ y # Idle => Scr(r.inst).load = "async"
  <2>1. \E x \in Panes, y \in {Idle, LoadTask(r.inst)} :
                /\ x = Followed(r, inst[r.inst]) /\ (inst[r.inst].loaded => x.loaded)
                /\ inst' = [inst EXCEPT ![r.inst] = x]
                /\ task' = [task EXCEPT ![t] = y]
                /\ y = Idle <=> ~("reload" \in After(r) /\ Scr(r.inst).load = "async")
    BY ZenonT(60), <1>0, ReturnFacts
  <2> QED BY <2>1, ZenonT(40)
<1> PICK s : s = IF "pop" \in After(r) THEN Popped(stack) ELSE stack
  OBVIOUS
<1>5. Prefix(s)
  BY <1>0, PrefixWhole, PrefixPopped
<1>6. stack' = s \/ stack' = Append(s, [kind |-> "result", inst |-> r.inst])
  BY <1>3
<1>7. stray' \in BOOLEAN
  BY <1>0, <1>3 DEF TypeInv
<1>8. ~(r.pc \in {"read", "show"})
  BY <1>1
<1> QED BY <1>2, <1>3, <1>4, <1>5, <1>6, <1>7, <1>8, BaseTaskEnds

LEMMA BaseShow == ASSUME BaseInv, NEW t \in Tasks, Show(t) PROVE BaseInv'
<1>0. TypeInv /\ TasksInv /\ StackInv
  BY DEF BaseInv
<1> PICK r : r = task[t]
  OBVIOUS
<1>1. r.pc = "show" /\ task[t].pc \in Phases
  BY DEF Show, At, Phases
<1>2. r \in Jobs /\ r.inst \in 1..Len(inst) /\ JobFits(r)
  BY <1>0, <1>1, JobAt
<1>3. r.data \in Contents
  BY <1>1, <1>2 DEF JobFits, Whole
<1> PICK x : x = Fields(r.data, TRUE)
  OBVIOUS
<1>4. x \in Panes /\ x.loaded
  BY <1>3, FieldsType
<1>5. /\ UNCHANGED <<visits, stack, file, edits, foreign, want, undisturbed, current, stray, added>>
      /\ inst' = [inst EXCEPT ![r.inst] = x] /\ task' = [task EXCEPT ![t] = Idle]
  BY DEF Show, history, Data, Finish
<1>6. Prefix(stack) /\ stray' \in BOOLEAN
  BY <1>0, <1>5, PrefixWhole DEF TypeInv
<1>7. Idle \in {Idle, LoadTask(r.inst)}
  OBVIOUS
<1> QED BY <1>2, <1>4, <1>5, <1>6, <1>7, BaseTaskEnds

LEMMA SamePane ==
    ASSUME TypeInv, NEW i \in 1..Len(inst)
    PROVE  inst[i] \in Panes /\ inst = [inst EXCEPT ![i] = inst[i]]
<1>1. inst \in [1..Len(inst) -> Panes]
  BY DEF TypeInv
<1> QED BY <1>1

LEMMA BaseNothing == ASSUME BaseInv, NEW t \in Tasks, NothingToDo(t) PROVE BaseInv'
<1>0. TypeInv /\ TasksInv /\ StackInv
  BY DEF BaseInv
<1> PICK r : r = task[t]
  OBVIOUS
<1>1. r.pc = "build" /\ task[t].pc \in Phases
  BY DEF NothingToDo, At, Phases
<1>2. r \in Jobs /\ r.inst \in 1..Len(inst)
  BY <1>0, <1>1, JobAt
<1> PICK x : x = inst[r.inst]
  OBVIOUS
<1>3. x \in Panes /\ inst = [inst EXCEPT ![r.inst] = x]
  BY <1>0, <1>2, SamePane
<1>4. /\ UNCHANGED <<visits, stack, file, edits, foreign, want, undisturbed, current, stray, added>>
      /\ inst' = [inst EXCEPT ![r.inst] = x] /\ task' = [task EXCEPT ![t] = Idle]
  BY <1>3 DEF NothingToDo, history, Finish
<1>5. Prefix(stack) /\ stray' \in BOOLEAN
  BY <1>0, <1>4, PrefixWhole DEF TypeInv
<1>6. Idle \in {Idle, LoadTask(r.inst)} /\ ~(r.pc \in {"read", "show"})
  BY <1>1
<1> QED BY <1>2, <1>3, <1>4, <1>5, <1>6, BaseTaskEnds

\* Someone flips an item of the object.
LEMMA ForeignFacts ==
    ASSUME TypeInv, NEW f \in Opens, Foreign(f)
    PROVE  /\ UNCHANGED <<visits, stack, inst, task, edits, stray, added>>
           /\ \E it \in Items : /\ file' = [file EXCEPT ![f] = [file[f] EXCEPT ![it] = 1 - file[f][it]]]
                                /\ want' = [want EXCEPT ![f] = [want[f] EXCEPT ![it] = 1 - file[f][it]]]
                                /\ 1 - file[f][it] \in Vals
           /\ file' \in [Opens -> Contents] /\ want' \in [Opens -> [Items -> {0, 1, Unknown}]]
           /\ undisturbed' \in [Opens -> BOOLEAN] /\ current' \in [Opens -> BOOLEAN]
<1>1. PICK it \in Items : /\ file' = [file EXCEPT ![f][it] = 1 - @]
                          /\ want' = [want EXCEPT ![f][it] = 1 - file[f][it]]
  BY DEF Foreign
<1>2. file \in [Opens -> Contents] /\ want \in [Opens -> [Items -> {0, 1, Unknown}]]
  BY DEF TypeInv
<1>3. 1 - file[f][it] \in Vals
  BY <1>2 DEF Contents, Vals
<1>4. /\ file' = [file EXCEPT ![f] = [file[f] EXCEPT ![it] = 1 - file[f][it]]]
      /\ want' = [want EXCEPT ![f] = [want[f] EXCEPT ![it] = 1 - file[f][it]]]
  BY <1>1, <1>2 DEF Contents
<1>5. [file[f] EXCEPT ![it] = 1 - file[f][it]] \in Contents
  BY <1>2, <1>3 DEF Contents
<1>6. [want[f] EXCEPT ![it] = 1 - file[f][it]] \in [Items -> {0, 1, Unknown}]
  BY <1>2, <1>3 DEF Vals
<1>7. file' \in [Opens -> Contents] /\ want' \in [Opens -> [Items -> {0, 1, Unknown}]]
  BY <1>2, <1>4, <1>5, <1>6
<1>8. undisturbed' \in [Opens -> BOOLEAN] /\ current' \in [Opens -> BOOLEAN]
  BY DEF Foreign, TypeInv
<1> QED BY <1>3, <1>4, <1>7, <1>8 DEF Foreign

LEMMA BaseForeign == ASSUME BaseInv, NEW f \in Opens, Foreign(f) PROVE BaseInv'
<1>0. TypeInv /\ TasksInv /\ StackInv /\ LoadInv /\ Len(inst) \in Nat
  BY DEF BaseInv, TypeInv
<1>1. /\ UNCHANGED <<visits, stack, inst, task, edits, stray, added>>
      /\ file' \in [Opens -> Contents] /\ want' \in [Opens -> [Items -> {0, 1, Unknown}]]
      /\ undisturbed' \in [Opens -> BOOLEAN] /\ current' \in [Opens -> BOOLEAN]
  BY <1>0, ForeignFacts
<1>2. foreign' \in 0..MaxForeign
  BY <1>0, ScreensAssumption DEF Foreign, TypeInv
<1>3. StackInv' /\ TasksInv'
  BY <1>0, <1>1, StackSame, TasksSame
<1>4. LoadInv'
  BY <1>0, <1>1 DEF LoadInv, JobOf, Scr
<1>5. TypeInv'
  BY <1>0, <1>1, <1>2 DEF TypeInv, Opens
<1> QED BY <1>3, <1>4, <1>5 DEF BaseInv

LEMMA NextCases ==
    ASSUME BaseInv, ScrNext
    PROVE  \/ Open \/ Looks \/ Undo
           \/ \E i : UserStages(i)
           \/ \E i, op, E, D : UserBegins(i, op, E, D)
           \/ \E t \in Tasks : Build(t) \/ NothingToDo(t) \/ Reply(t) \/ Return(t) \/ Read(t) \/ Show(t)
           \/ \E f \in Opens : Foreign(f)
<1>0. TypeInv /\ StackInv
  BY DEF BaseInv
<1>1. CASE User
  <2>1. CASE Help \/ Cancel \/ Back \/ DiscardBack
             \/ (Top.kind = "screen" /\ \E op \in Ops(Scr(Top.inst)) : Ask(op))
    BY <1>0, <2>1, LooksOnly
  <2>2. CASE Open \/ Undo
    BY <2>2
  <2>3. CASE Confirm
    BY <1>0, <2>3, ConfirmActs
  <2>4. CASE Top.kind = "screen" /\ \E op \in Ops(Scr(Top.inst)) : Press(op)
    BY <1>0, <2>4, PressActs
  <2> QED BY <1>1, <2>1, <2>2, <2>3, <2>4 DEF User
<1>2. CASE \E t \in Tasks : Step(t)
  BY <1>2 DEF Step
<1>3. CASE \E i \in Opens : Foreign(Obj(i))
  BY <1>0, <1>3, ObjFacts
<1> QED BY <1>1, <1>2, <1>3 DEF ScrNext

LEMMA BaseNext == ASSUME BaseInv, [ScrNext]_scrVars PROVE BaseInv'
<1>1. CASE ScrNext
  BY <1>1, NextCases, BaseOpen, BaseLooks, BaseUndo, BaseStages, BaseBegins, BaseBuild, BaseNothing,
     BaseReply, BaseReturn, BaseRead, BaseShow, BaseForeign
<1>2. CASE UNCHANGED scrVars
  <2>0. TypeInv /\ StackInv /\ TasksInv /\ LoadInv /\ Len(inst) \in Nat
    BY DEF BaseInv, TypeInv
  <2>1. UNCHANGED <<visits, stack, inst, file, task, edits, foreign, want, undisturbed, current, stray, added>>
    BY <1>2 DEF scrVars
  <2>2. StackInv' /\ TasksInv'
    BY <2>0, <2>1, StackSame, TasksSame
  <2>3. LoadInv'
    BY <2>0, <2>1 DEF LoadInv, JobOf, Scr
  <2>4. TypeInv'
    BY <2>0, <2>1 DEF TypeInv, Opens
  <2> QED BY <2>2, <2>3, <2>4 DEF BaseInv
<1> QED BY <1>1, <1>2

-----------------------------------------------------------------------------
(* What closes a screen. *)

LEMMA OpenIsOpen ==
    ASSUME TypeInv, StackInv, NEW i
    PROVE  IsOpen(i) <=> OpenAt(i)
<1>0. Len(stack) \in Nat /\ Len(stack) >= 1 /\ stack[1].kind = "menu"
  BY DEF TypeInv, StackInv, StackFits, Root
<1>1. ASSUME NEW k \in 1..Len(stack), stack[k].kind = "screen", stack[k].inst = i PROVE OpenAt(i)
  <2>1. k # 1
    BY <1>0, <1>1
  <2>2. k \in 2..Len(stack)
    BY <1>0, <2>1
  <2>3. k = 2
    BY <1>1, <2>2 DEF StackInv, StackFits, FrameFits
  <2>4. Len(stack) >= 2
    BY <1>0, <2>3
  <2> QED BY <1>1, <2>3, <2>4 DEF OpenAt, OpenIn
<1>2. ASSUME OpenAt(i) PROVE IsOpen(i)
  <2>1. 2 \in 1..Len(stack)
    BY <1>0, <1>2 DEF OpenAt, OpenIn
  <2> QED BY <1>2, <2>1 DEF OpenAt, OpenIn, IsOpen
<1> QED BY <1>1, <1>2 DEF IsOpen

\* Only the screen right above the menu can be left, and only by a step that
\* takes the stack back to the menu.
LEMMA AppendKeepsOpen ==
    ASSUME TypeInv, NEW i, OpenAt(i), NEW w, stack' = Append(stack, w) PROVE OpenAt(i)'
<1>1. stack \in Seq(Frames) /\ Len(stack) >= 2 /\ Len(stack) \in Nat
  BY DEF TypeInv, OpenAt, OpenIn
<1>2. 2 \in 1..Len(stack)
  BY <1>1
<1>3. stack'[2] = stack[2]
  BY <1>1, <1>2
<1>4. Len(stack') = Len(stack) + 1
  BY <1>1
<1>5. Len(stack') >= 2
  BY <1>1, <1>4
<1> QED BY <1>3, <1>5 DEF OpenAt, OpenIn

LEMMA PoppedKeepsOpen ==
    ASSUME TypeInv, StackInv, NEW i, OpenAt(i), stack' = Popped(stack), Top.kind # "screen"
    PROVE  OpenAt(i)'
<1>1. stack \in Seq(Frames) /\ Len(stack) >= 2 /\ Len(stack) \in Nat
  BY DEF TypeInv, OpenAt, OpenIn
<1>2. Len(stack) # 2
  BY DEF Top, OpenAt, OpenIn
<1>3. Len(stack) >= 3
  <2>1. \A n \in Nat : n >= 2 /\ n # 2 => n >= 3
    OBVIOUS
  <2> QED BY <1>1, <1>2, <2>1
<1>4. Len(stack') = Len(stack) - 1 /\ stack'[2] = stack[2]
  <2>1. 2 \in 1..(Len(stack) - 1)
    BY <1>1, <1>3
  <2> QED BY <1>1, <2>1, PoppedFacts
<1>5. Len(stack') >= 2
  BY <1>1, <1>3, <1>4
<1> QED BY <1>4, <1>5 DEF OpenAt, OpenIn

LEMMA SameKeepsOpen ==
    ASSUME NEW i, OpenAt(i), stack' = stack PROVE OpenAt(i)'
BY DEF OpenAt, OpenIn

LEMMA ActsKeepOpen ==
    ASSUME NEW i, OpenAt(i), NEW j, UserActs(j) PROVE OpenAt(i)'
<1>1. Len(stack') >= 2 /\ stack'[2] = stack[2]
  BY DEF UserActs
<1> QED BY <1>1 DEF OpenAt, OpenIn

LEMMA OneOpen ==
    ASSUME NEW i, NEW j, OpenAt(i), OpenAt(j) PROVE i = j
BY DEF OpenAt, OpenIn

\* A task closes its own screen, or strays.
LEMMA ReturnPops ==
    ASSUME BaseInv, NEW t \in Tasks, Return(t), NEW i, OpenAt(i), ~OpenAt(i)'
    PROVE  stray' \/ (task[t].inst = i /\ "pop" \in After(task[t]))
<1>0. TypeInv /\ TasksInv /\ StackInv
  BY DEF BaseInv
<1> PICK r : r = task[t]
  OBVIOUS
<1> PICK s : s = IF "pop" \in After(r) THEN Popped(stack) ELSE stack
  OBVIOUS
<1>1. /\ stack' = IF "push" \in After(r) THEN Append(s, [kind |-> "result", inst |-> r.inst]) ELSE s
      /\ stray' = (stray \/ (After(r) \cap {"pop", "push"} # {}
                                  /\ ~(Top.kind = "screen" /\ Top.inst = r.inst)))
  BY <1>0, ReturnFacts
<1>2. CASE "pop" \notin After(r)
  <2>1. stack' = stack \/ stack' = Append(stack, [kind |-> "result", inst |-> r.inst])
    BY <1>1, <1>2
  <2> QED BY <1>0, <2>1, SameKeepsOpen, AppendKeepsOpen
<1>3. CASE "pop" \in After(r) /\ ~(Top.kind = "screen" /\ Top.inst = r.inst)
  BY <1>1, <1>3
<1>4. CASE "pop" \in After(r) /\ Top.kind = "screen" /\ Top.inst = r.inst
  BY <1>0, <1>4, TopScreen, OneOpen
<1> QED BY <1>2, <1>3, <1>4

LEMMA StagedStep ==
    ASSUME BaseInv, [ScrNext]_scrVars, NEW i \in 1..Len(inst), OpenAt(i), ~OpenAt(i)', Scr(i).asks, Dirty(i)
    PROVE  (Top.kind = "discard?" /\ Top.inst = i) \/ stray'
<1>0. TypeInv /\ TasksInv /\ StackInv
  BY DEF BaseInv
<1>1. CASE Open
  <2>1. PICK w : stack' = Append(stack, w)
    BY <1>1 DEF Open
  <2> QED BY <1>0, <2>1, AppendKeepsOpen
<1>2. CASE Help
  <2>1. PICK w : stack' = Append(stack, w)
    BY <1>2 DEF Help
  <2> QED BY <1>0, <2>1, AppendKeepsOpen
<1>3. CASE Cancel
  BY <1>0, <1>3, PoppedKeepsOpen DEF Cancel
<1>4. CASE Back
  <2>1. Top.inst = i
    BY <1>0, <1>4, TopScreen, OneOpen DEF Back
  <2>2. PICK w : stack' = Append(stack, w)
    BY <1>4, <2>1 DEF Back
  <2> QED BY <1>0, <2>2, AppendKeepsOpen
<1>5. CASE DiscardBack
  BY <1>0, <1>5, TopDialogue, OneOpen DEF DiscardBack
<1>6. CASE Undo
  BY <1>6, SameKeepsOpen DEF Undo
<1>7. CASE \E op : Ask(op)
  <2>1. PICK w : stack' = Append(stack, w)
    BY <1>7 DEF Ask
  <2> QED BY <1>0, <2>1, AppendKeepsOpen
<1>8. CASE \E j : UserActs(j)
  BY <1>8, ActsKeepOpen
<1>9. CASE \E t \in Tasks : Build(t) \/ NothingToDo(t) \/ Reply(t) \/ Read(t) \/ Show(t)
  BY <1>9, SameKeepsOpen DEF Build, NothingToDo, Reply, Read, Show
<1>10. CASE \E f : Foreign(f)
  BY <1>10, SameKeepsOpen DEF Foreign
<1>11. ASSUME NEW t \in Tasks, Return(t) PROVE stray'
  <2> SUFFICES ASSUME task[t].inst = i, "pop" \in After(task[t]) PROVE FALSE
    BY <1>11, ReturnPops
  <2> PICK r : r = task[t]
    OBVIOUS
  <2>1. r.pc \in {"ok", "refused", "raised"}
    BY <1>11 DEF Return
  <2>2. PICK op \in Ops(Scr(i)) : op.ok = r.ok /\ op.bad = r.bad
    BY <1>0, <2>1, OperationOf
  <2>3. "pop" \in op.ok \cup op.bad
    BY <1>0, <1>11, <2>2, ReturnFacts
  <2>4. i \in Opens
    BY <1>0, <2>1, OperationOf
  <2> QED BY <1>0, <2>2, <2>3, <2>4, ScrFacts, AskingAssumption
<1>12. CASE UNCHANGED scrVars
  BY <1>12, SameKeepsOpen DEF scrVars
<1>13. CASE Confirm
  BY <1>0, <1>8, <1>13, ConfirmActs DEF UserStages, UserBegins
<1>14. ASSUME Top.kind = "screen", NEW op \in Ops(Scr(Top.inst)), Press(op) PROVE FALSE
  BY <1>0, <1>14, PressActs, ActsKeepOpen DEF UserStages, UserBegins
<1> QED BY <1>1, <1>2, <1>3, <1>4, <1>5, <1>6, <1>7, <1>9, <1>10, <1>11, <1>12, <1>13, <1>14
        DEF ScrNext, User, Step

LEMMA BaseAlways == ScrSpec => []BaseInv
<1>1. ScrInit => BaseInv
  BY BaseInit
<1>2. BaseInv /\ [ScrNext]_scrVars => BaseInv'
  BY BaseNext
<1> QED BY <1>1, <1>2, PTL DEF ScrSpec

\* Whatever the screens, changes staged in one that asks before it is left go
\* with it only when the user says so in that dialogue, or another screen's
\* task popped the stack.
THEOREM StagedStay == ScrSpec => StagedKept
<1>1. ASSUME BaseInv, BaseInv', [ScrNext]_scrVars
      PROVE  [\A i \in 1..Len(inst) :
                IsOpen(i) /\ ~IsOpen(i)' /\ Scr(i).asks /\ Dirty(i)
                  => (Top.kind = "discard?" /\ Top.inst = i) \/ stray']_scrVars
  <2> SUFFICES ASSUME NEW i \in 1..Len(inst), IsOpen(i), ~IsOpen(i)', Scr(i).asks, Dirty(i)
               PROVE  (Top.kind = "discard?" /\ Top.inst = i) \/ stray'
    OBVIOUS
  <2>1. OpenAt(i)
    BY <1>1, OpenIsOpen DEF BaseInv
  <2>2. IsOpen(i)' <=> OpenAt(i)'
    <3>1. TypeInv' /\ StackInv'
      BY <1>1 DEF BaseInv
    <3>2. (TypeInv /\ StackInv => (IsOpen(i) <=> OpenAt(i)))'
      BY OpenIsOpen, PTL
    <3> QED BY <3>1, <3>2
  <2> QED BY <1>1, <2>1, <2>2, StagedStep
<1>2. ScrSpec => []BaseInv
  BY BaseAlways
<1>3. BaseInv /\ BaseInv' /\ [ScrNext]_scrVars =>
        [\A i \in 1..Len(inst) :
                IsOpen(i) /\ ~IsOpen(i)' /\ Scr(i).asks /\ Dirty(i)
                  => (Top.kind = "discard?" /\ Top.inst = i) \/ stray']_scrVars
  BY <1>1
<1> QED BY <1>2, <1>3, PTL DEF ScrSpec, StagedKept

-----------------------------------------------------------------------------
(* One task at a time on an object. *)

LEMMA VisitsSame ==
    ASSUME visits' = visits
    PROVE  /\ Opens' = Opens
           /\ \A i : Scr(i)' = Scr(i) /\ Obj(i)' = Obj(i)
           /\ \A i, kinds : Has(i, kinds)' = Has(i, kinds)
           /\ \A f : Resetting(f)' = Resetting(f)
           /\ \A i : TakesWorking(i)' = TakesWorking(i) /\ KeepsRefused(i)' = KeepsRefused(i)
<1>1. Opens' = Opens
  BY DEF Opens
<1>2. \A i : Scr(i)' = Scr(i)
  BY DEF Scr
<1>3. \A i : Obj(i)' = Obj(i)
  BY <1>1, <1>2 DEF Obj
<1>4. \A i, kinds : Has(i, kinds)' = Has(i, kinds)
  BY <1>2 DEF Has
<1>5. \A f : Resetting(f)' = Resetting(f)
  BY <1>1, <1>2, <1>3 DEF Resetting, Resets
<1>6. \A i : TakesWorking(i)' = TakesWorking(i) /\ KeepsRefused(i)' = KeepsRefused(i)
  BY <1>2 DEF TakesWorking, KeepsRefused
<1> QED BY <1>1, <1>2, <1>3, <1>4, <1>5, <1>6

LEMMA JobsElsewhere ==
    ASSUME visits' = visits, NEW u, task'[u] = task[u], NEW f
    PROVE  JobsOn(f, u)' = JobsOn(f, u)
<1>1. \A i : Obj(i)' = Obj(i)
  BY VisitsSame
<1> QED BY <1>1 DEF JobsOn, JobOf

LEMMA JobsHere ==
    ASSUME visits' = visits, NEW u, NEW y, task'[u] = y, NEW f
    PROVE  /\ y # Idle /\ Obj(y.inst) = f => JobsOn(f, u)' = {y}
           /\ ~(y # Idle /\ Obj(y.inst) = f) => JobsOn(f, u)' = {}
<1>1. \A i : Obj(i)' = Obj(i)
  BY VisitsSame
<1>2. JobsOn(f, u)' = {r \in {y} \ {Idle} : Obj(r.inst) = f}
  BY <1>1 DEF JobsOn, JobOf
<1> QED BY <1>2

LEMMA JobsSame ==
    ASSUME visits' = visits, task' = task, NEW f
    PROVE  (\A u : JobsOn(f, u)' = JobsOn(f, u)) /\ Free(f)' = Free(f)
<1>1. \A i : Obj(i)' = Obj(i)
  BY VisitsSame
<1>2. \A u : JobsOn(f, u)' = JobsOn(f, u)
  BY <1>1 DEF JobsOn, JobOf
<1> QED BY <1>2 DEF Free

LEMMA OnFree ==
    ASSUME TypeInv, NEW f, On(f) = {}
    PROVE  Free(f)
<1> SUFFICES ASSUME NEW t \in Tasks, task[t] # Idle, Obj(task[t].inst) = f PROVE FALSE
  BY DEF Free, JobsOn, JobOf
<1>1. task[t].pc # "idle"
  BY JobNotIdle DEF TypeInv
<1> QED BY <1>1 DEF On, Active

\* What a step that begins a task leaves.
LEMMA OverlapFacts ==
    ASSUME TypeInv, NEW f, f \in Opens, NoteOverlap(f)
    PROVE  /\ \A g \in Opens : undisturbed'[g] => undisturbed[g]
           /\ \A g \in Opens : current'[g] => current[g]
           /\ undisturbed'[f] \/ current'[f] => Free(f)
<1>1. undisturbed \in [Opens -> BOOLEAN] /\ current \in [Opens -> BOOLEAN]
  BY DEF TypeInv
<1>2. \A g \in Opens : /\ undisturbed'[g] = IF g = f THEN undisturbed[f] /\ On(f) = {} ELSE undisturbed[g]
                       /\ current'[g] = IF g = f THEN current[f] /\ On(f) = {} ELSE current[g]
  BY <1>1 DEF NoteOverlap, Overlapping
<1> QED BY <1>2, OnFree

LEMMA AppendLast ==
    ASSUME NEW S, NEW s \in Seq(S), NEW w, NEW n \in Nat, n = Len(s) + 1 PROVE Append(s, w)[n] = w
OBVIOUS

\* The open screen before a step that pushes no screen.
LEMMA OpenBefore ==
    ASSUME TypeInv, NEW s, Prefix(s), NEW w, w.kind # "screen", stack' = s \/ stack' = Append(s, w),
           NEW i, OpenAt(i)'
    PROVE  OpenAt(i)
<1>0. s \in Seq(Frames) /\ Len(s) \in Nat /\ Len(s) >= 1 /\ Len(stack) \in Nat /\ Len(s) <= Len(stack)
  BY DEF Prefix, TypeInv
<1>1. stack'[2].kind = "screen" /\ stack'[2].inst = i /\ Len(stack') >= 2
  BY DEF OpenAt, OpenIn
<1>2. Len(s) >= 2 /\ stack'[2] = s[2]
  <2>1. CASE stack' = s
    BY <1>1, <2>1
  <2>2. CASE stack' = Append(s, w)
    <3>1. ASSUME Len(s) = 1 PROVE FALSE
      <4>1. stack'[2] = w
        <5>1. 2 = Len(s) + 1
          BY <3>1
        <5> QED BY <1>0, <2>2, <5>1, AppendLast
      <4> QED BY <1>1, <4>1
    <3>2. Len(s) >= 2
      BY <1>0, <3>1, AboveOne
    <3>3. 2 \in 1..Len(s)
      BY <1>0, <3>2
    <3> QED BY <1>0, <2>2, <3>2, <3>3
  <2> QED BY <2>1, <2>2
<1>3. 2 \in 1..Len(s) /\ Len(stack) >= 2
  BY <1>0, <1>2
<1>4. s[2] = stack[2]
  BY <1>3 DEF Prefix
<1> QED BY <1>1, <1>2, <1>3, <1>4 DEF OpenAt, OpenIn

\* The review before a step that opens none.
LEMMA ReviewBefore ==
    ASSUME TypeInv, NEW s, Prefix(s), NEW w, NEW kind,
           ~(w.kind = "modal" /\ w.op.carries = kind), stack' = s \/ stack' = Append(s, w),
           Reviewed(kind)'
    PROVE  Reviewed(kind) /\ stack'[3] = stack[3]
<1>0. s \in Seq(Frames) /\ Len(s) \in Nat /\ Len(s) >= 1 /\ Len(stack) \in Nat /\ Len(s) <= Len(stack)
  BY DEF Prefix, TypeInv
<1>1. stack'[3].kind = "modal" /\ stack'[3].op.carries = kind /\ Len(stack') >= 3
  BY DEF Reviewed
<1>2. Len(s) >= 3 /\ stack'[3] = s[3]
  <2>1. CASE stack' = s
    BY <1>1, <2>1
  <2>2. CASE stack' = Append(s, w)
    <3>0. Len(stack') = Len(s) + 1
      BY <1>0, <2>2
    <3>1. Len(s) >= 2
      BY <1>0, <1>1, <3>0
    <3>2. ASSUME Len(s) = 2 PROVE FALSE
      <4>1. stack'[3] = w
        <5>1. 3 = Len(s) + 1
          BY <3>2
        <5> QED BY <1>0, <2>2, <5>1, AppendLast
      <4> QED BY <1>1, <4>1
    <3>3. Len(s) >= 3
      <4>1. \A n \in Nat : n >= 2 /\ n # 2 => n >= 3
        OBVIOUS
      <4> QED BY <1>0, <3>1, <3>2, <4>1
    <3>4. 3 \in 1..Len(s)
      BY <1>0, <3>3
    <3> QED BY <1>0, <2>2, <3>3, <3>4
  <2> QED BY <2>1, <2>2
<1>3. 3 \in 1..Len(s) /\ Len(stack) >= 3
  BY <1>0, <1>2
<1>4. s[3] = stack[3]
  BY <1>3 DEF Prefix
<1> QED BY <1>1, <1>2, <1>3, <1>4 DEF Reviewed

LEMMA SoleKept ==
    ASSUME BaseInv, SoleInv, visits' = visits, Len(inst') = Len(inst),
           \A t \in Tasks : \/ task'[t] \in {task[t], Idle}
                            \/ task[t] # Idle /\ task'[t].inst = task[t].inst,
           \A i : OpenAt(i)' => OpenAt(i),
           \A f \in Opens : undisturbed'[f] \/ current'[f] => undisturbed[f] \/ current[f]
    PROVE  SoleInv'
<1>1. Opens' = Opens /\ \A i : Obj(i)' = Obj(i)
  BY VisitsSame
<1> SUFFICES ASSUME NEW f \in Opens, undisturbed'[f] \/ current'[f] PROVE Sole(f)'
  BY <1>1 DEF SoleInv
<1>2. Sole(f)
  BY DEF SoleInv
<1>3. ASSUME NEW t \in Tasks, NEW r \in JobsOn(f, t)'
      PROVE  \E q \in JobsOn(f, t) : q.inst = r.inst
  <2>1. r = task'[t] /\ r # Idle /\ Obj(r.inst) = f
    BY <1>1, <1>3 DEF JobsOn, JobOf
  <2>2. task[t] # Idle /\ task[t].inst = r.inst
    BY <2>1
  <2> QED BY <2>1, <2>2 DEF JobsOn, JobOf
<1>4. ASSUME NEW t \in Tasks, NEW u \in Tasks, JobsOn(f, t)' # {}, JobsOn(f, u)' # {} PROVE t = u
  BY <1>2, <1>3, <1>4 DEF Sole
<1>5. ASSUME NEW i \in 1..Len(inst'), OpenAt(i)', Obj(i)' = f, NEW t \in Tasks, NEW r \in JobsOn(f, t)'
      PROVE  r.inst = i
  <2>1. OpenAt(i) /\ Obj(i) = f /\ i \in 1..Len(inst)
    BY <1>1, <1>5
  <2> QED BY <1>2, <1>3, <1>5, <2>1 DEF Sole
<1> QED BY <1>4, <1>5 DEF Sole

\* A step that begins task x on the object f, if it begins one.
LEMMA SoleBegins ==
    ASSUME BaseInv, SoleInv, visits' = visits, NEW f \in Opens, NoteOverlap(f), NEW i, Obj(i) = f,
           \/ task' = task
           \/ \E u \in Tasks : \E x : task[u] = Idle /\ x # Idle /\ x.inst = i /\ task' = [task EXCEPT ![u] = x],
           OpenAt(i)', \A j : OpenAt(j)' /\ Obj(j) # f => OpenAt(j) /\ j \in 1..Len(inst)
    PROVE  SoleInv'
<1>0. TypeInv
  BY DEF BaseInv
<1>1. Opens' = Opens /\ \A j : Obj(j)' = Obj(j)
  BY VisitsSame
<1> SUFFICES ASSUME NEW g \in Opens, undisturbed'[g] \/ current'[g] PROVE Sole(g)'
  BY <1>1 DEF SoleInv
<1>2. Sole(g) /\ (g = f => Free(f))
  BY <1>0, OverlapFacts DEF SoleInv
<1>3. CASE g # f
  <2>1. \A t \in Tasks : JobsOn(g, t)' = JobsOn(g, t)
    <3>1. CASE task' = task
      BY <3>1, JobsSame
    <3>2. ASSUME NEW u \in Tasks, NEW x, task[u] = Idle, x # Idle, x.inst = i, task' = [task EXCEPT ![u] = x]
          PROVE  \A t \in Tasks : JobsOn(g, t)' = JobsOn(g, t)
      <4>1. JobsOn(g, u) = {}
        BY <3>2 DEF JobsOn, JobOf
      <4>2. Obj(x.inst) # g
        BY <1>3, <3>2
      <4>3. task' = [task EXCEPT ![u] = x]
        BY <3>2
      <4>4. ASSUME NEW t \in Tasks, t # u PROVE JobsOn(g, t)' = JobsOn(g, t)
        <5>1. task'[t] = task[t]
          BY <1>0, <4>3, <4>4, TaskSet
        <5> QED BY <5>1, JobsElsewhere
      <4>5. JobsOn(g, u)' = {}
        <5>1. task'[u] = x
          BY <1>0, <4>3, TaskSet
        <5> QED BY <4>2, <5>1, JobsHere
      <4> QED BY <4>1, <4>4, <4>5
    <3> QED BY <3>1, <3>2
  <2> QED BY <1>1, <1>2, <1>3, <2>1 DEF Sole
<1>4. CASE g = f
  <2>1. \A j : OpenAt(j)' => j = i
    BY DEF OpenAt, OpenIn
  <2>2. CASE task' = task
    <3>1. \A t \in Tasks : JobsOn(g, t)' = {}
      BY <1>2, <1>4, <2>2, JobsSame DEF Free
    <3> QED BY <3>1 DEF Sole
  <2>3. ASSUME NEW u \in Tasks, NEW x, task[u] = Idle, x # Idle, x.inst = i, task' = [task EXCEPT ![u] = x]
        PROVE  Sole(g)'
    <3>1. Obj(x.inst) = g
      BY <1>4, <2>3
    <3>2. task' = [task EXCEPT ![u] = x] /\ x # Idle
      BY <2>3
    <3>3. ASSUME NEW t \in Tasks, t # u PROVE JobsOn(g, t)' = {}
      <4>1. JobsOn(g, t)' = JobsOn(g, t)
        <5>1. task'[t] = task[t]
          BY <1>0, <3>2, <3>3, TaskSet
        <5> QED BY <5>1, JobsElsewhere
      <4>2. JobsOn(g, t) = {}
        BY <1>2, <1>4 DEF Free
      <4> QED BY <4>1, <4>2
    <3>4. JobsOn(g, u)' = {x}
      <4>1. task'[u] = x
        BY <1>0, <3>2, TaskSet
      <4> QED BY <3>1, <3>2, <4>1, JobsHere
    <3> QED BY <2>1, <2>3, <3>3, <3>4 DEF Sole
  <2> QED BY <2>2, <2>3
<1> QED BY <1>3, <1>4

\* A step that edits the staged copy of the open screen, or takes it back.
EditStep(i, x) ==
    /\ OpenAt(i) /\ i \in 1..Len(inst) /\ i \in Opens /\ x \in Panes /\ inst' = [inst EXCEPT ![i] = x]
    /\ x.view = inst[i].view /\ x.loaded = inst[i].loaded /\ inst[i].set \subseteq x.set
    /\ \A it \in Items \ x.set : x.work[it] \in {inst[i].work[it], inst[i].view[it]}
    /\ Len(stack') = 2 /\ stack'[2] = stack[2] /\ NoteAdded(i)
    /\ UNCHANGED <<visits, file, task, want, undisturbed, current, stray>>

LEMMA StageEdits == ASSUME BaseInv, NEW i, UserStages(i) PROVE \E x : EditStep(i, x)
<1>0. TypeInv
  BY DEF BaseInv
<1>1. /\ OpenAt(i) /\ i \in 1..Len(inst) /\ i \in Opens
      /\ Len(stack') = 2 /\ stack'[2] = stack[2] /\ UNCHANGED <<visits, file, want>>
  BY DEF UserStages, UserActs
<1>2. PICK it \in Items, v \in Vals : Stage(i, it, v)
  BY DEF UserStages
<1>3. PICK x \in Panes :
             /\ inst' = [inst EXCEPT ![i] = x]
             /\ x.work = [inst[i].work EXCEPT ![it] = v] /\ x.set = inst[i].set \cup {it}
             /\ x.view = inst[i].view /\ x.loaded = inst[i].loaded
  BY <1>0, <1>1, <1>2, StagedPane
<1>4. \A z \in Items \ x.set : x.work[z] \in {inst[i].work[z], inst[i].view[z]}
  <2>1. inst[i] \in Panes
    BY <1>0, <1>1 DEF TypeInv
  <2>2. inst[i].work \in [Items -> Vals]
    BY <2>1 DEF Panes, Contents
  <2> QED BY <1>3, <2>2
<1>5. NoteAdded(i) /\ UNCHANGED <<task, undisturbed, current, stray>>
  BY <1>2 DEF Stage
<1> QED BY <1>1, <1>3, <1>4, <1>5 DEF EditStep

LEMMA UndoEdits == ASSUME BaseInv, Undo PROVE \E i, x : EditStep(i, x)
<1>0. TypeInv /\ StackInv
  BY DEF BaseInv
<1> PICK i : i = Top.inst
  OBVIOUS
<1>1. OpenAt(i) /\ i \in 1..Len(inst) /\ i \in Opens /\ Len(stack) = 2
  BY <1>0, TopScreen DEF Undo
<1> PICK x : x = [inst[i] EXCEPT !.work = inst[i].view]
  OBVIOUS
<1>2. /\ x \in Panes /\ x.view = inst[i].view /\ x.loaded = inst[i].loaded /\ x.set = inst[i].set
      /\ x.work = inst[i].view
  <2>1. inst[i] \in Panes
    BY <1>0, <1>1 DEF TypeInv
  <2> QED BY <2>1 DEF Panes
<1>3. /\ inst' = [inst EXCEPT ![i] = x] /\ NoteAdded(i) /\ stack' = stack
      /\ UNCHANGED <<visits, file, task, want, undisturbed, current, stray>>
  BY DEF Undo
<1> QED BY <1>1, <1>2, <1>3 DEF EditStep

\* A step of a task that has been answered ends it or has it load.
EndStep(t, r, x, y, s, w) ==
    /\ r = task[t] /\ r \in Jobs /\ r.inst \in 1..Len(inst) /\ r.inst \in Opens /\ JobFits(r) /\ r # Idle
    /\ x \in Panes /\ inst' = [inst EXCEPT ![r.inst] = x]
    /\ y \in {Idle, LoadTask(r.inst)} /\ task' = [task EXCEPT ![t] = y]
    /\ Prefix(s) /\ w.kind = "result" /\ (stack' = s \/ stack' = Append(s, w))
    /\ UNCHANGED <<visits, file, want, undisturbed, current, added>>

LEMMA ShowEnds ==
    ASSUME BaseInv, NEW t \in Tasks, Show(t)
    PROVE  \E r, x, s, w : /\ EndStep(t, r, x, Idle, s, w) /\ r.pc = "show" /\ r.data \in Contents
                           /\ x = Fields(r.data, TRUE) /\ stack' = stack /\ stray' = stray
<1>0. TypeInv /\ TasksInv /\ StackInv
  BY DEF BaseInv
<1> PICK r : r = task[t]
  OBVIOUS
<1>1. r.pc = "show" /\ task[t].pc \in Phases
  BY DEF Show, At, Phases
<1>2. r \in Jobs /\ r.inst \in 1..Len(inst) /\ JobFits(r) /\ r.inst \in Opens /\ r # Idle
  BY <1>0, <1>1, JobAt
<1>3. r.data \in Contents
  BY <1>1, <1>2 DEF JobFits, Whole
<1> PICK x : x = Fields(r.data, TRUE)
  OBVIOUS
<1> PICK w : w = [kind |-> "result", inst |-> r.inst]
  OBVIOUS
<1>4. x \in Panes /\ w.kind = "result" /\ Prefix(stack)
  BY <1>0, <1>3, FieldsType, PrefixWhole
<1>5. /\ UNCHANGED <<visits, stack, file, want, undisturbed, current, stray, added>>
      /\ inst' = [inst EXCEPT ![r.inst] = x] /\ task' = [task EXCEPT ![t] = Idle]
  BY DEF Show, history, Data, Finish
<1>6. EndStep(t, r, x, Idle, stack, w)
  BY <1>2, <1>4, <1>5 DEF EndStep
<1> QED BY <1>1, <1>3, <1>5, <1>6

LEMMA NothingEnds ==
    ASSUME BaseInv, NEW t \in Tasks, NothingToDo(t)
    PROVE  \E r, x, s, w : /\ EndStep(t, r, x, Idle, s, w) /\ r.pc = "build" /\ r.carries = "now"
                           /\ x = inst[r.inst] /\ stray' = stray
<1>0. TypeInv /\ TasksInv /\ StackInv
  BY DEF BaseInv
<1> PICK r : r = task[t]
  OBVIOUS
<1>1. r.pc = "build" /\ r.carries = "now" /\ task[t].pc \in Phases
  BY DEF NothingToDo, NothingNew, At, Phases
<1>2. r \in Jobs /\ r.inst \in 1..Len(inst) /\ JobFits(r) /\ r.inst \in Opens /\ r # Idle
  BY <1>0, <1>1, JobAt
<1> PICK x : x = inst[r.inst]
  OBVIOUS
<1> PICK w : w = [kind |-> "result", inst |-> r.inst]
  OBVIOUS
<1>3. x \in Panes /\ w.kind = "result" /\ Prefix(stack) /\ inst = [inst EXCEPT ![r.inst] = x]
  BY <1>0, <1>2, SamePane, PrefixWhole
<1>4. /\ UNCHANGED <<visits, stack, inst, file, want, undisturbed, current, stray, added>>
      /\ task' = [task EXCEPT ![t] = Idle]
  BY DEF NothingToDo, history, Finish
<1>5. EndStep(t, r, x, Idle, stack, w)
  BY <1>2, <1>3, <1>4 DEF EndStep
<1> QED BY <1>1, <1>4, <1>5

LEMMA ReturnEnds ==
    ASSUME BaseInv, NEW t \in Tasks, Return(t)
    PROVE  \E r, x, y, s, w : /\ EndStep(t, r, x, y, s, w) /\ r.pc \in {"ok", "refused", "raised"}
                              /\ x = Followed(r, inst[r.inst])
                              /\ y = Idle <=> ~("reload" \in After(r) /\ Scr(r.inst).load = "async")
<1>0. TypeInv /\ TasksInv /\ StackInv
  BY DEF BaseInv
<1> PICK r : r = task[t]
  OBVIOUS
<1>1. r.pc \in {"ok", "refused", "raised"}
  BY DEF Return
<1>2. r \in Jobs /\ r.inst \in 1..Len(inst) /\ JobFits(r) /\ r.inst \in Opens /\ r # Idle
  BY <1>0, <1>1, OperationOf
<1> PICK s : s = IF "pop" \in After(r) THEN Popped(stack) ELSE stack
  OBVIOUS
<1> PICK w : w = [kind |-> "result", inst |-> r.inst]
  OBVIOUS
<1>3. Prefix(s) /\ w.kind = "result"
  BY <1>0, PrefixWhole, PrefixPopped
<1>4. /\ stack' = IF "push" \in After(r) THEN Append(s, w) ELSE s
      /\ UNCHANGED <<visits, file, edits, foreign, want, undisturbed, current, added>>
  BY <1>0, ReturnFacts
<1>5. PICK x \in Panes, y \in {Idle, LoadTask(r.inst)} :
                /\ x = Followed(r, inst[r.inst])
                /\ inst' = [inst EXCEPT ![r.inst] = x]
                /\ task' = [task EXCEPT ![t] = y]
                /\ y = Idle <=> ~("reload" \in After(r) /\ Scr(r.inst).load = "async")
  BY <1>0, ReturnFacts
<1>6. EndStep(t, r, x, y, s, w)
  BY <1>2, <1>3, <1>4, <1>5 DEF EndStep
<1> QED BY <1>1, <1>5, <1>6

\* A step of a task inside its call.
TaskStep(t, r, x) ==
    /\ r = task[t] /\ r \in Jobs /\ r.inst \in 1..Len(inst) /\ r.inst \in Opens /\ JobFits(r) /\ r # Idle
    /\ x \in Jobs /\ x.inst = r.inst /\ task' = [task EXCEPT ![t] = x]
    /\ UNCHANGED <<visits, stack, inst, undisturbed, stray, added>>

LEMMA BuildStep ==
    ASSUME BaseInv, NEW t \in Tasks, Build(t)
    PROVE  \E r, x :
             /\ TaskStep(t, r, x) /\ UNCHANGED <<file, want, current>>
             /\ r.pc = "build" /\ r.carries \in {"fresh", "now"} /\ x.pc = "call" /\ x.carries = r.carries
             /\ r.carries = "now" => x.data = inst[r.inst].work /\ x.edits = inst[r.inst].set
             /\ r.carries # "now" => x.data = Over(r.data, file[Obj(r.inst)]) /\ x.edits = r.edits
<1>0. TypeInv /\ TasksInv
  BY DEF BaseInv
<1> PICK r : r = task[t]
  OBVIOUS
<1>1. r.pc = "build" /\ task[t].pc \in Phases
  BY DEF Build, At, Phases
<1>2. /\ r \in Jobs /\ JobFits(r) /\ r.inst \in 1..Len(inst) /\ Obj(r.inst) \in Opens
      /\ inst[r.inst] \in Panes /\ r.inst \in Opens /\ r # Idle
  BY <1>0, <1>1, JobAt
<1>3. r.carries \in {"fresh", "now"}
  BY <1>1, <1>2 DEF JobFits
<1>4. PICK x : x = IF r.carries = "now"
                   THEN [r EXCEPT !.pc = "call", !.data = inst[r.inst].work, !.edits = inst[r.inst].set]
                   ELSE [r EXCEPT !.pc = "call", !.data = Over(r.data, file[Obj(r.inst)])]
  OBVIOUS
<1>5. Over(r.data, file[Obj(r.inst)]) \in Contents
  <2>1. r.data \in Partial /\ file[Obj(r.inst)] \in Contents
    BY <1>0, <1>2 DEF Jobs, TypeInv
  <2> QED BY <2>1, OverFacts
<1>6. /\ x \in Jobs /\ x.pc = "call" /\ x.inst = r.inst /\ x.carries = r.carries
      /\ r.carries = "now" => x.data = inst[r.inst].work /\ x.edits = inst[r.inst].set
      /\ r.carries # "now" => x.data = Over(r.data, file[Obj(r.inst)]) /\ x.edits = r.edits
  BY <1>2, <1>4, <1>5, PartialFacts DEF Jobs, Panes, Phases
<1>7. /\ task' = [task EXCEPT ![t] = x]
      /\ UNCHANGED <<visits, stack, inst, file, want, undisturbed, current, stray, added>>
  BY <1>4 DEF Build, history
<1>8. TaskStep(t, r, x)
  BY <1>2, <1>6, <1>7 DEF TaskStep
<1> QED BY <1>1, <1>3, <1>6, <1>7, <1>8

LEMMA ReadStep ==
    ASSUME BaseInv, NEW t \in Tasks, Read(t)
    PROVE  \E r, x :
             /\ TaskStep(t, r, x) /\ UNCHANGED <<file, want, current>>
             /\ r.pc = "read" /\ x.pc = "show" /\ x.edits = r.edits /\ x.carries = r.carries
             /\ x.data = file[Obj(r.inst)]
<1>0. TypeInv /\ TasksInv
  BY DEF BaseInv
<1> PICK r : r = task[t]
  OBVIOUS
<1>1. r.pc = "read" /\ task[t].pc \in Phases
  BY DEF Read, At, Phases
<1>2. r \in Jobs /\ JobFits(r) /\ r.inst \in 1..Len(inst) /\ Obj(r.inst) \in Opens /\ r.inst \in Opens /\ r # Idle
  BY <1>0, <1>1, JobAt
<1>3. PICK x : x = [r EXCEPT !.pc = "show", !.data = file[Obj(r.inst)]]
  OBVIOUS
<1>4. file[Obj(r.inst)] \in Contents
  BY <1>0, <1>2 DEF TypeInv
<1>5. /\ x \in Jobs /\ x.pc = "show" /\ x.inst = r.inst /\ x.carries = r.carries
      /\ x.data = file[Obj(r.inst)] /\ x.edits = r.edits
  BY <1>2, <1>3, <1>4, PartialFacts DEF Jobs, Phases
<1>6. task' = [task EXCEPT ![t] = x]
  <2>1. task \in [Tasks -> {Idle} \cup Jobs]
    BY <1>0 DEF TypeInv
  <2>2. task' = [task EXCEPT ![t].pc = "show", ![t].data = file[Obj(task[t].inst)]]
    BY DEF Read
  <2> QED BY <1>3, <2>1, <2>2
<1>7. UNCHANGED <<visits, stack, inst, file, want, undisturbed, current, stray, added>>
  BY DEF Read, history
<1>8. TaskStep(t, r, x)
  BY <1>2, <1>5, <1>6, <1>7 DEF TaskStep
<1> QED BY <1>1, <1>5, <1>7, <1>8

\* What the reply to r, which is x then, does to the object f.
Replied(f, r, x) ==
    /\ file' = file \/ (r.carries # "side" /\ file' = [file EXCEPT ![f] = Over(r.data, file[f])])
    /\ x.pc = "ok" /\ r.carries # "side" => file' = [file EXCEPT ![f] = Over(r.data, file[f])]
    /\ want' = [want EXCEPT ![f] = [it \in Items |->
            IF it \in r.edits THEN (IF x.pc = "ok" THEN Over(r.data, file[f])[it] ELSE Unknown)
            ELSE want[f][it]]]
    /\ x.pc = "ok" => current' = [current EXCEPT ![f] = @ /\ ~Leaves(r)]
    /\ x.pc # "ok" => current' = [current EXCEPT ![f] = @ /\ file' = file]

LEMMA ReplyStep ==
    ASSUME BaseInv, NEW t \in Tasks, Reply(t)
    PROVE  \E r, x : \E f \in Opens :
             /\ TaskStep(t, r, x) /\ f = Obj(r.inst)
             /\ r.pc = "call" /\ x.pc \in {"ok", "refused", "raised"}
             /\ x.data = r.data /\ x.edits = r.edits /\ x.carries = r.carries /\ x.ok = r.ok
             /\ Replied(f, r, x)
<1>0. TypeInv /\ TasksInv
  BY DEF BaseInv
<1> PICK r : r = task[t]
  OBVIOUS
<1> PICK f : f = Obj(r.inst)
  OBVIOUS
<1>1. /\ r.pc = "call" /\ r \in Jobs /\ JobFits(r) /\ f \in Opens
      /\ UNCHANGED <<visits, stack, inst, edits, foreign, undisturbed, stray, added>>
  BY <1>0, ReplyFacts
<1>2. PICK e \in {"ok", "refused", "raised"} :
        /\ task' = [task EXCEPT ![t] = [r EXCEPT !.pc = e]]
        /\ file' = file \/ (r.carries # "side" /\ file' = [file EXCEPT ![f] = Over(r.data, file[f])])
        /\ e = "ok" /\ r.carries # "side" => file' = [file EXCEPT ![f] = Over(r.data, file[f])]
        /\ want' = [want EXCEPT ![f] = [it \in Items |->
             IF it \in r.edits THEN (IF e = "ok" THEN Over(r.data, file[f])[it] ELSE Unknown)
             ELSE want[f][it]]]
        /\ e = "ok" => current' = [current EXCEPT ![f] = @ /\ ~Leaves(r)]
        /\ e # "ok" => current' = [current EXCEPT ![f] = @ /\ file' = file]
  BY <1>0, ReplyFacts
<1>3. PICK x : x = [r EXCEPT !.pc = e]
  OBVIOUS
<1>4. /\ x \in Jobs /\ x.pc = e /\ x.inst = r.inst /\ x.carries = r.carries
      /\ x.data = r.data /\ x.edits = r.edits /\ x.ok = r.ok
  BY <1>1, <1>3 DEF Jobs, Phases
<1>5. r.inst \in 1..Len(inst) /\ r.inst \in Opens /\ r # Idle
  BY <1>0, <1>1, OperationOf
<1>6. TaskStep(t, r, x)
  BY <1>1, <1>2, <1>3, <1>4, <1>5 DEF TaskStep
<1>7. Replied(f, r, x)
  BY <1>2, <1>4 DEF Replied
<1>8. f = Obj(r.inst) /\ r.pc = "call" /\ f \in Opens /\ x.data = r.data /\ x.edits = r.edits
      /\ x.carries = r.carries /\ x.ok = r.ok /\ x.pc \in {"ok", "refused", "raised"}
  BY <1>1, <1>2, <1>4
<1> QED BY <1>6, <1>7, <1>8

\* What a step of the open screen's user leaves of the stack.
LEMMA ActsOpen ==
    ASSUME NEW i, OpenAt(i), Len(stack') = 2, stack'[2] = stack[2]
    PROVE  /\ OpenAt(i)' /\ \A j : OpenAt(j)' => OpenAt(j)
           /\ \A kind : ~Reviewed(kind)'
<1>1. Len(stack') >= 2 /\ ~(Len(stack') >= 3)
  OBVIOUS
<1> QED BY <1>1 DEF OpenAt, OpenIn, Reviewed

\* The i-th screen is opened on the object f, and shows x at first.
OpenStep(i, f, x) ==
    /\ i = Len(inst) + 1 /\ i \in Opens /\ f = Obj(i) /\ f \in Opens /\ x \in Panes
    /\ Len(inst') = i /\ inst'[i] = x
    /\ \A j \in 1..Len(inst) : inst'[j] = inst[j] /\ j # i
    /\ OpenAt(i)' /\ (\A j : OpenAt(j)' => j = i) /\ ~Reviewed("work")' /\ ~Reviewed("diff")'
    /\ x.set = {} /\ NoteOverlap(f)
    /\ UNCHANGED <<visits, file, want, stray, added>>
    /\ \/ task' = task /\ x.loaded /\ x.view = Seen(i) /\ x.work = Seen(i)
       \/ ~x.loaded /\ \E u \in Tasks : task[u] = Idle /\ task' = [task EXCEPT ![u] = LoadTask(i)]

LEMMA OpenFacts == ASSUME BaseInv, Open PROVE \E i, f, x : OpenStep(i, f, x)
<1> PICK i : i = Len(inst) + 1
  OBVIOUS
<1> PICK f : f = Obj(i)
  OBVIOUS
<1>0. TypeInv /\ StackInv
  BY DEF BaseInv
<1>1. /\ stack \in Seq(Frames) /\ inst \in Seq(Panes) /\ visits \in Seq(DOMAIN Screen)
      /\ Len(inst) \in Nat /\ Len(visits) \in Nat /\ Len(inst) < Len(visits)
  BY <1>0, ScreensAssumption DEF TypeInv, Open
<1>2. i \in Opens /\ i \in Nat /\ f \in Opens
  <2>1. i \in Opens /\ i \in Nat
    BY <1>1 DEF Opens
  <2> QED BY <1>0, <2>1, ObjFacts
<1>3. Blank \in Contents /\ Seen(i) \in Contents
  BY <1>0, <1>2, SeenType
<1>4. PICK x \in Panes :
        /\ inst' = Append(inst, x) /\ x.set = {}
        /\ Scr(i).load # "async" => x.loaded /\ x.view = Seen(i) /\ x.work = Seen(i)
        /\ Scr(i).load = "async" => ~x.loaded
  <2>1. CASE Scr(i).load = "async"
    BY <1>3, <2>1, FieldsType DEF Open
  <2>2. CASE Scr(i).load # "async"
    BY <1>3, <2>2, FieldsType DEF Open
  <2> QED BY <2>1, <2>2
<1>5. /\ UNCHANGED <<visits, file, edits, foreign, want, stray, added>>
      /\ stack' = Append(stack, [kind |-> "screen", inst |-> i])
      /\ IF Scr(i).load = "async" THEN NewTask(LoadTask(i)) ELSE UNCHANGED task
      /\ NoteOverlap(f) /\ Top = Root
  BY DEF Open
<1>6. /\ Len(inst') = i /\ inst'[i] = x
      /\ \A j \in 1..Len(inst) : inst'[j] = inst[j] /\ j # i
  BY <1>1, <1>4
<1>7. Len(stack) = 1
  <2>2. Len(stack) \in Nat /\ Len(stack) >= 1
    BY <1>0, <1>1 DEF StackInv, StackFits
  <2>3. ASSUME Len(stack) # 1 PROVE FALSE
    <3>1. Len(stack) \in 2..Len(stack)
      BY <2>2, <2>3, AboveOne
    <3>2. FrameFits(stack, Len(stack), Len(inst))
      BY <1>0, <3>1 DEF StackInv, StackFits
    <3> QED BY <1>5, <3>2 DEF FrameFits, Top, Root
  <2> QED BY <2>3
<1>8. Len(stack') = 2 /\ stack'[2] = [kind |-> "screen", inst |-> i]
  <2>1. Len(stack') = Len(stack) + 1
    BY <1>1, <1>5
  <2>2. 2 = Len(stack) + 1
    BY <1>7
  <2> QED BY <1>1, <1>5, <2>1, <2>2, AppendLast
<1>9. OpenAt(i)' /\ (\A j : OpenAt(j)' => j = i) /\ ~Reviewed("work")' /\ ~Reviewed("diff")'
  <2>1. Len(stack') >= 2 /\ ~(Len(stack') >= 3)
    BY <1>8
  <2>2. stack'[2].kind = "screen" /\ stack'[2].inst = i
    BY <1>8
  <2> QED BY <2>1, <2>2 DEF OpenAt, OpenIn, Reviewed
<1>10. \/ task' = task /\ x.loaded /\ x.view = Seen(i) /\ x.work = Seen(i)
       \/ ~x.loaded /\ \E u \in Tasks : task[u] = Idle /\ task' = [task EXCEPT ![u] = LoadTask(i)]
  BY <1>4, <1>5, NewTaskFacts
<1>11. x \in Panes /\ x.set = {}
  BY <1>4
<1>12. OpenStep(i, f, x)
  BY <1>2, <1>5, <1>6, <1>9, <1>10, <1>11 DEF OpenStep
<1> QED BY <1>12

LEMMA SoleNext == ASSUME BaseInv, SoleInv, [ScrNext]_scrVars PROVE SoleInv'
<1>0. TypeInv /\ StackInv
  BY DEF BaseInv
<1>1. CASE Open
  <2>1. PICK i, f, x : OpenStep(i, f, x)
    BY <1>1, OpenFacts
  <2>2. LoadTask(i) # Idle /\ LoadTask(i).inst = i
    BY <1>0, <2>1, LoadTaskType DEF OpenStep, Opens, LoadTask
  <2>3. \/ task' = task
        \/ \E u \in Tasks : \E z : task[u] = Idle /\ z # Idle /\ z.inst = i /\ task' = [task EXCEPT ![u] = z]
    BY <2>1, <2>2 DEF OpenStep
  <2>4. /\ visits' = visits /\ f \in Opens /\ NoteOverlap(f) /\ Obj(i) = f /\ OpenAt(i)'
        /\ \A j : OpenAt(j)' /\ Obj(j) # f => OpenAt(j) /\ j \in 1..Len(inst)
    BY <2>1 DEF OpenStep
  <2> QED BY <2>3, <2>4, SoleBegins
<1>2. ASSUME NEW i, NEW op, NEW E, NEW D, UserBegins(i, op, E, D) PROVE SoleInv'
  <2>1. /\ visits' = visits /\ NoteOverlap(Obj(i)) /\ i \in Opens /\ OpenAt(i) /\ i \in 1..Len(inst)
        /\ Len(stack') = 2 /\ stack'[2] = stack[2] /\ NewTask(Job(i, op, E, D))
    BY <1>2 DEF UserBegins, UserActs, Begin
  <2>2. Obj(i) \in Opens
    BY <1>0, <2>1, ObjFacts
  <2> PICK z : z = Job(i, op, E, D)
    OBVIOUS
  <2>3. z # Idle /\ z.inst = i
    BY <1>0, <1>2, JobFacts, JobNotIdle DEF Job
  <2>4. \E u \in Tasks : \E y : task[u] = Idle /\ y # Idle /\ y.inst = i /\ task' = [task EXCEPT ![u] = y]
    BY <2>1, <2>3, NewTaskFacts
  <2>5. OpenAt(i)' /\ \A j : OpenAt(j)' => j = i
    BY <2>1, ActsOpen, OneOpen
  <2>6. \A j : OpenAt(j)' /\ Obj(j) # Obj(i) => OpenAt(j) /\ j \in 1..Len(inst)
    BY <2>5
  <2> QED BY <2>1, <2>2, <2>4, <2>5, <2>6, SoleBegins
<1>3. CASE Looks
  <2>1. UNCHANGED <<visits, inst, task, undisturbed, current>>
    BY <1>3 DEF Looks, history
  <2>2. ASSUME NEW j, OpenAt(j)' PROVE OpenAt(j)
    <3>1. CASE Prefix(stack')
      <4> PICK w : w = [kind |-> "help"]
        OBVIOUS
      <4> QED BY <1>0, <2>2, <3>1, OpenBefore
    <3>2. ASSUME NEW w, AskedFrame(w), stack' = Append(stack, w) PROVE OpenAt(j)
      <4>1. w.kind # "screen"
        BY <3>2 DEF AskedFrame
      <4> QED BY <1>0, <2>2, <3>2, <4>1, PrefixWhole, OpenBefore
    <3> QED BY <1>3, <3>1, <3>2 DEF Looks
  <2> QED BY <2>1, <2>2, SoleKept
<1>4. ASSUME NEW i, NEW x, EditStep(i, x) PROVE SoleInv'
  <2>1. /\ UNCHANGED <<visits, task, undisturbed, current>> /\ OpenAt(i)
        /\ Len(stack') = 2 /\ stack'[2] = stack[2]
    BY <1>4 DEF EditStep
  <2>2. \A j : OpenAt(j)' => OpenAt(j)
    BY <2>1, ActsOpen
  <2>3. Len(inst') = Len(inst)
    BY <1>0, <1>4, PaneSet DEF EditStep
  <2> QED BY <2>1, <2>2, <2>3, SoleKept
<1>5. ASSUME NEW t \in Tasks, NEW r, NEW x, TaskStep(t, r, x),
             \A f \in Opens : current'[f] => current[f]
      PROVE  SoleInv'
  <2>1. /\ UNCHANGED <<visits, stack, inst, undisturbed>> /\ task' = [task EXCEPT ![t] = x]
        /\ x.inst = task[t].inst /\ task[t] # Idle
    BY <1>5 DEF TaskStep
  <2>2. \A u \in Tasks : \/ task'[u] \in {task[u], Idle}
                         \/ task[u] # Idle /\ task'[u].inst = task[u].inst
    BY <1>0, <2>1, TaskSet
  <2>3. \A j : OpenAt(j)' => OpenAt(j)
    BY <2>1 DEF OpenAt, OpenIn
  <2> QED BY <1>5, <2>1, <2>2, <2>3, SoleKept
<1>6. ASSUME NEW t \in Tasks, NEW r, NEW x, NEW y, NEW s, NEW w, EndStep(t, r, x, y, s, w) PROVE SoleInv'
  <2>1. /\ UNCHANGED <<visits, undisturbed, current>> /\ task' = [task EXCEPT ![t] = y]
        /\ y = Idle \/ y.inst = task[t].inst
        /\ task[t] # Idle /\ Prefix(s) /\ w.kind # "screen" /\ (stack' = s \/ stack' = Append(s, w))
        /\ r.inst \in 1..Len(inst) /\ x \in Panes /\ inst' = [inst EXCEPT ![r.inst] = x]
    BY <1>6 DEF EndStep, LoadTask
  <2>2. \A u \in Tasks : \/ task'[u] \in {task[u], Idle}
                         \/ task[u] # Idle /\ task'[u].inst = task[u].inst
    BY <1>0, <2>1, TaskSet
  <2>3. \A j : OpenAt(j)' => OpenAt(j)
    BY <1>0, <2>1, OpenBefore
  <2>4. Len(inst') = Len(inst)
    BY <1>0, <2>1, PaneSet
  <2> QED BY <2>1, <2>2, <2>3, <2>4, SoleKept
<1>7. ASSUME NEW f \in Opens, Foreign(f) PROVE SoleInv'
  <2>1. UNCHANGED <<visits, stack, inst, task>>
    BY <1>0, <1>7, ForeignFacts
  <2>2. \A g \in Opens : undisturbed'[g] \/ current'[g] => undisturbed[g] \/ current[g]
    BY <1>0, <1>7 DEF Foreign, TypeInv
  <2>3. \A j : OpenAt(j)' => OpenAt(j)
    BY <2>1 DEF OpenAt, OpenIn
  <2> QED BY <2>1, <2>2, <2>3, SoleKept
<1>8. CASE UNCHANGED scrVars
  <2>1. UNCHANGED <<visits, stack, inst, task, undisturbed, current>>
    BY <1>8 DEF scrVars
  <2>2. \A j : OpenAt(j)' => OpenAt(j)
    BY <2>1 DEF OpenAt, OpenIn
  <2> QED BY <2>1, <2>2, SoleKept
<1>9. ASSUME NEW t \in Tasks, Build(t) \/ Read(t) PROVE SoleInv'
  <2>1. PICK r, x : TaskStep(t, r, x) /\ current' = current
    BY <1>9, BuildStep, ReadStep
  <2> QED BY <1>5, <2>1
<1>10. ASSUME NEW t \in Tasks, Reply(t) PROVE SoleInv'
  <2>1. PICK r, x, f : TaskStep(t, r, x) /\ f \in Opens /\ Replied(f, r, x)
    BY <1>10, ReplyStep
  <2>2. \A g \in Opens : current'[g] => current[g]
    <3>1. \/ current' = [current EXCEPT ![f] = @ /\ ~Leaves(r)]
          \/ current' = [current EXCEPT ![f] = @ /\ file' = file]
      BY <2>1 DEF Replied
    <3> QED BY <1>0, <2>1, <3>1 DEF TypeInv
  <2> QED BY <1>5, <2>1, <2>2
<1>11. ASSUME NEW t \in Tasks, Show(t) \/ Return(t) \/ NothingToDo(t) PROVE SoleInv'
  BY <1>6, <1>11, ShowEnds, ReturnEnds, NothingEnds
<1>12. ASSUME NEW i, UserStages(i) PROVE SoleInv'
  BY <1>4, <1>12, StageEdits
<1>13. CASE Undo
  BY <1>4, <1>13, UndoEdits
<1>14. CASE ScrNext
  BY <1>1, <1>2, <1>3, <1>7, <1>9, <1>10, <1>11, <1>12, <1>13, <1>14, NextCases
<1> QED BY <1>8, <1>14

-----------------------------------------------------------------------------
(* No save undoes another. *)

LEMMA JobOn ==
    ASSUME BaseInv, NEW f, NEW t \in Tasks, NEW r \in JobsOn(f, t)
    PROVE  /\ r = task[t] /\ r # Idle /\ r \in Jobs /\ JobFits(r)
           /\ r.inst \in 1..Len(inst) /\ r.inst \in Opens /\ Obj(r.inst) = f
<1>1. r = task[t] /\ r # Idle /\ Obj(r.inst) = f
  BY DEF JobsOn, JobOf
<1>2. r \in Jobs /\ JobFits(r)
  BY <1>1 DEF BaseInv, TypeInv, TasksInv, JobOf
<1>3. r.pc \in Phases
  BY <1>2 DEF Jobs
<1> QED BY <1>1, <1>2, <1>3, JobAt DEF BaseInv

LEMMA LoadedUnless ==
    ASSUME BaseInv, NEW i \in 1..Len(inst), NEW f, f = Obj(i),
           \A t \in Tasks : \A r \in JobsOn(f, t) : r.pc \notin {"read", "show"}
    PROVE  inst[i].loaded
<1> SUFFICES ASSUME ~inst[i].loaded PROVE FALSE
  OBVIOUS
<1>1. PICK t \in Tasks : \E r \in JobOf(t) : r.inst = i /\ r.pc \in {"read", "show"}
  BY DEF BaseInv, LoadInv
<1>2. PICK r \in JobOf(t) : r.inst = i /\ r.pc \in {"read", "show"}
  BY <1>1
<1>3. r \in JobsOn(f, t)
  BY <1>2 DEF JobsOn
<1> QED BY <1>2, <1>3

LEMMA LoadedFree ==
    ASSUME BaseInv, NEW i \in 1..Len(inst), NEW f, f = Obj(i), Free(f) PROVE inst[i].loaded
<1>1. \A t \in Tasks : \A r \in JobsOn(f, t) : r.pc \notin {"read", "show"}
  BY DEF Free
<1> QED BY <1>1, LoadedUnless

\* A step that does nothing to the object f.
LEMMA KeepsSame ==
    ASSUME BaseInv, visits' = visits, NEW f, Keeps(f), want'[f] = want[f], file'[f] = file[f],
           \A t \in Tasks : JobsOn(f, t)' = JobsOn(f, t),
           \A j \in 1..Len(inst) : Obj(j) = f => inst'[j] = inst[j],
           \A j \in 1..Len(inst') : OpenAt(j)' /\ Obj(j) = f =>
               OpenAt(j) /\ j \in 1..Len(inst) /\ (ReviewKeeps(j) => ReviewKeeps(j)')
    PROVE  Keeps(f)'
<1>0. (\A j : Obj(j)' = Obj(j)) /\ (\A j, kinds : Has(j, kinds)' = Has(j, kinds))
  BY VisitsSame
<1>1. Fits(want[f], file[f], {})'
  BY DEF Keeps, Fits
<1>2. ASSUME NEW t \in Tasks, NEW r \in JobsOn(f, t)' PROVE TaskKeeps(f, r)'
  <2>1. r \in JobsOn(f, t)
    BY <1>2
  <2>2. r.inst \in 1..Len(inst) /\ Obj(r.inst) = f /\ TaskKeeps(f, r)
    BY <2>1, JobOn DEF Keeps
  <2>3. inst'[r.inst] = inst[r.inst]
    BY <2>2
  <2> QED BY <2>2, <2>3 DEF TaskKeeps, Fits
<1>3. ASSUME NEW j \in 1..Len(inst'), OpenAt(j)', Obj(j)' = f PROVE ScreenKeeps(f, j)'
  <2>1. OpenAt(j) /\ j \in 1..Len(inst) /\ (ReviewKeeps(j) => ReviewKeeps(j)') /\ Obj(j) = f
    BY <1>0, <1>3
  <2>2. ScreenKeeps(f, j) /\ inst'[j] = inst[j]
    BY <2>1 DEF Keeps
  <2>3. Free(f)' = Free(f)
    BY DEF Free
  <2>4. ViewKeeps(f, j) => ViewKeeps(f, j)'
    BY <2>2, <2>3 DEF ViewKeeps, Fits
  <2>5. CopyKeeps(f, j) => CopyKeeps(f, j)'
    BY <2>2 DEF CopyKeeps, Fits
  <2> QED BY <1>0, <2>1, <2>2, <2>4, <2>5 DEF ScreenKeeps
<1> QED BY <1>1, <1>2, <1>3 DEF Keeps

LEMMA KeepLooks == ASSUME BaseInv, SoleInv, KeepInv, Looks PROVE KeepInv'
<1>0. TypeInv /\ StackInv
  BY DEF BaseInv
<1>1. UNCHANGED <<visits, inst, file, task, want, undisturbed>>
  BY DEF Looks, history
<1>2. Opens' = Opens /\ \A f : Resetting(f)' = Resetting(f)
  BY <1>1, VisitsSame
<1>3. ASSUME NEW j, OpenAt(j)' PROVE OpenAt(j) /\ (ReviewKeeps(j) => ReviewKeeps(j)')
  <2>1. CASE Prefix(stack')
    <3> PICK w : w = [kind |-> "help"]
      OBVIOUS
    <3>1. OpenAt(j)
      BY <1>0, <1>3, <2>1, OpenBefore
    <3>2. Reviewed("work")' => Reviewed("work") /\ stack'[3] = stack[3]
      BY <1>0, <2>1, ReviewBefore
    <3> QED BY <1>1, <3>1, <3>2 DEF ReviewKeeps
  <2>2. ASSUME Len(stack) = 2, NEW w \in Frames, AskedFrame(w), stack' = Append(stack, w)
        PROVE  OpenAt(j) /\ (ReviewKeeps(j) => ReviewKeeps(j)')
    <3>1. w.kind # "screen" /\ OpenAt(w.inst)
      BY <2>2 DEF AskedFrame
    <3>2. OpenAt(j)
      BY <1>0, <1>3, <2>2, <3>1, PrefixWhole, OpenBefore
    <3>3. w.inst = j
      BY <3>1, <3>2, OneOpen
    <3>4. stack'[3] = w
      <4>1. 3 = Len(stack) + 1 /\ stack \in Seq(Frames)
        BY <1>0, <2>2 DEF TypeInv
      <4>2. Append(stack, w)[3] = w
        BY <4>1, AppendLast
      <4>3. stack' = Append(stack, w)
        BY <2>2
      <4> QED BY <4>2, <4>3
    <3>5. ReviewKeeps(j)'
      <4> SUFFICES ASSUME w.kind = "modal", w.op.carries = "work"
                   PROVE  w.data = inst[j].work /\ w.edits = inst[j].set
        BY <1>1, <3>4 DEF ReviewKeeps, Reviewed
      <4> QED BY <2>2, <3>3 DEF AskedFrame, Edited
    <3> QED BY <3>2, <3>5
  <2> QED BY <2>1, <2>2 DEF Looks
<1> SUFFICES ASSUME NEW f \in Opens, undisturbed'[f], ~Resetting(f) PROVE Keeps(f)'
  BY <1>2 DEF KeepInv
<1>4. Keeps(f)
  BY <1>1 DEF KeepInv
<1>5. \A t \in Tasks : JobsOn(f, t)' = JobsOn(f, t)
  BY <1>1, JobsSame
<1> QED BY <1>1, <1>3, <1>4, <1>5, KeepsSame

LEMMA KeepForeign == ASSUME BaseInv, SoleInv, KeepInv, NEW g \in Opens, Foreign(g) PROVE KeepInv'
<1>0. TypeInv /\ StackInv
  BY DEF BaseInv
<1>1. UNCHANGED <<visits, stack, inst, task>>
  BY <1>0, ForeignFacts
<1>2. Opens' = Opens /\ (\A f : Resetting(f)' = Resetting(f)) /\ (\A j : Obj(j)' = Obj(j))
      /\ \A j, kinds : Has(j, kinds)' = Has(j, kinds)
  BY <1>1, VisitsSame
<1> SUFFICES ASSUME NEW f \in Opens, undisturbed'[f], ~Resetting(f) PROVE Keeps(f)'
  BY <1>2 DEF KeepInv
<1>3. PICK it \in Items : /\ file' = [file EXCEPT ![g] = [file[g] EXCEPT ![it] = 1 - file[g][it]]]
                          /\ want' = [want EXCEPT ![g] = [want[g] EXCEPT ![it] = 1 - file[g][it]]]
  BY <1>0, ForeignFacts
<1>4. /\ file \in [Opens -> Contents] /\ want \in [Opens -> [Items -> {0, 1, Unknown}]]
      /\ undisturbed \in [Opens -> BOOLEAN]
  BY <1>0 DEF TypeInv
<1>5. undisturbed[f]
  BY <1>4 DEF Foreign
<1>6. Keeps(f)
  BY <1>5 DEF KeepInv
<1>7. \A t \in Tasks : JobsOn(f, t)' = JobsOn(f, t)
  BY <1>1, JobsSame
<1>8. \A j : OpenAt(j)' => OpenAt(j) /\ (ReviewKeeps(j) => ReviewKeeps(j)')
  BY <1>1 DEF OpenAt, OpenIn, ReviewKeeps, Reviewed
<1>9. CASE f # g
  <2>1. want'[f] = want[f] /\ file'[f] = file[f]
    BY <1>3, <1>4, <1>9
  <2> QED BY <1>1, <1>6, <1>7, <1>8, <2>1, KeepsSame
<1>10. CASE f = g
  <2>1. On(f) = {} /\ \A i \in {i \in 1..Len(inst) : IsOpen(i) /\ Obj(i) = f} : ~Cached(i)
    BY <1>4, <1>10 DEF Foreign
  <2>2. \A t \in Tasks : JobsOn(f, t)' = {}
    BY <1>0, <1>7, <2>1, OnFree DEF Free
  <2>3. Fits(want[f], file[f], {})'
    <3>1. /\ file'[f] = [file[f] EXCEPT ![it] = 1 - file[f][it]]
          /\ want'[f] = [want[f] EXCEPT ![it] = 1 - file[f][it]]
      BY <1>3, <1>4, <1>10
    <3>2. file[f] \in [Items -> Vals] /\ want[f] \in [Items -> {0, 1, Unknown}]
      BY <1>4 DEF Contents
    <3>3. Fits(want[f], file[f], {})
      BY <1>6 DEF Keeps
    <3>4. ASSUME NEW z \in Items PROVE want'[f][z] \in {Unknown, file'[f][z]}
      <4>1. CASE z = it
        BY <3>1, <3>2, <4>1
      <4>2. CASE z # it
        BY <3>1, <3>2, <3>3, <4>2 DEF Fits
      <4> QED BY <4>1, <4>2
    <3>5. DOMAIN file'[f] = Items
      BY <3>1, <3>2
    <3> QED BY <3>4, <3>5 DEF Fits
  <2>4. ASSUME NEW j \in 1..Len(inst'), OpenAt(j)', Obj(j)' = f PROVE ScreenKeeps(f, j)'
    <3>1. j \in 1..Len(inst) /\ IsOpen(j) /\ Obj(j) = f
      BY <1>0, <1>1, <1>2, <1>8, <2>4, OpenIsOpen
    <3>2. ~Cached(j)
      BY <2>1, <3>1
    <3>3. ~Has(j, {"view"})' /\ ~Has(j, {"work", "now"})'
      BY <1>2, <3>2 DEF Cached, Has
    <3> QED BY <3>3 DEF ScreenKeeps
  <2> QED BY <2>2, <2>3, <2>4 DEF Keeps
<1> QED BY <1>9, <1>10

LEMMA KeepingFacts ==
    ASSUME TypeInv, NEW i \in Opens, NEW op \in Ops(Scr(i))
    PROVE  /\ Has(i, {"work", "now"}) => op.carries \in Silent \cup {"work", "now"}
           /\ Has(i, {"work"}) =>
                /\ Scr(i).load # "async" /\ op.carries # "read" /\ "reload" \notin op.ok \cup op.bad
           /\ Has(i, {"view"}) /\ op.carries \notin Silent =>
                op.carries # "diff" /\ op.ok \cap {"reload", "sent", "shown"} # {}
BY ScrFacts, KeepingAssumption DEF Has

LEMMA SoleJob ==
    ASSUME NEW f, Sole(f), NEW t \in Tasks, NEW r, r \in JobsOn(f, t), NEW u \in Tasks, NEW q \in JobsOn(f, u)
    PROVE  u = t /\ q = r
BY DEF Sole, JobsOn, JobOf

LEMMA KeepEdits == ASSUME BaseInv, SoleInv, KeepInv, NEW i, NEW x, EditStep(i, x) PROVE KeepInv'
<1>0. TypeInv /\ StackInv
  BY DEF BaseInv
<1>1. /\ UNCHANGED <<visits, file, task, want, undisturbed>> /\ OpenAt(i) /\ i \in 1..Len(inst)
      /\ i \in Opens /\ x \in Panes /\ inst' = [inst EXCEPT ![i] = x]
      /\ Len(stack') = 2 /\ stack'[2] = stack[2]
      /\ x.view = inst[i].view /\ x.loaded = inst[i].loaded /\ inst[i].set \subseteq x.set
      /\ \A it \in Items \ x.set : x.work[it] \in {inst[i].work[it], inst[i].view[it]}
  BY DEF EditStep
<1>2. /\ Opens' = Opens /\ (\A f : Resetting(f)' = Resetting(f)) /\ (\A j : Obj(j)' = Obj(j))
      /\ \A j, kinds : Has(j, kinds)' = Has(j, kinds)
  BY <1>1, VisitsSame
<1>3. Len(inst') = Len(inst) /\ \A j \in 1..Len(inst) : inst'[j] = IF j = i THEN x ELSE inst[j]
  BY <1>0, <1>1, PaneSet
<1>4. (\A j : OpenAt(j)' => OpenAt(j)) /\ ~Reviewed("work")'
  BY <1>1, ActsOpen
<1> SUFFICES ASSUME NEW f \in Opens, undisturbed'[f], ~Resetting(f) PROVE Keeps(f)'
  BY <1>2 DEF KeepInv
<1>5. Keeps(f) /\ Sole(f)
  BY <1>1 DEF KeepInv, SoleInv
<1>6. (\A t \in Tasks : JobsOn(f, t)' = JobsOn(f, t)) /\ Free(f)' = Free(f)
  BY <1>1, JobsSame
<1>7. CASE Obj(i) # f
  <2>1. \A j \in 1..Len(inst) : Obj(j) = f => inst'[j] = inst[j]
    BY <1>3, <1>7
  <2>2. \A j \in 1..Len(inst') : OpenAt(j)' /\ Obj(j) = f =>
               OpenAt(j) /\ j \in 1..Len(inst) /\ (ReviewKeeps(j) => ReviewKeeps(j)')
    BY <1>3, <1>4 DEF ReviewKeeps
  <2> QED BY <1>1, <1>5, <1>6, <2>1, <2>2, KeepsSame
<1>8. CASE Obj(i) = f
  <2>1. ScreenKeeps(f, i)
    BY <1>1, <1>5, <1>8 DEF Keeps
  <2>2. inst[i] \in Panes
    BY <1>0, <1>1 DEF TypeInv
  <2>3. ASSUME Has(i, {"work", "now"}), inst[i].loaded
        PROVE  Fits(want[f], x.work, x.set) /\ Fits(want[f], x.view, x.set)
    <3>1. Fits(want[f], inst[i].work, inst[i].set) /\ Fits(want[f], inst[i].view, inst[i].set)
      BY <2>1, <2>3 DEF ScreenKeeps, CopyKeeps
    <3>2. DOMAIN x.work = Items /\ DOMAIN x.view = Items /\ DOMAIN inst[i].work = Items /\ DOMAIN inst[i].view = Items
      BY <1>1, <2>2 DEF Panes, Contents
    <3>3. ASSUME NEW it \in Items \ x.set
          PROVE  want[f][it] \in {Unknown, inst[i].work[it]} /\ want[f][it] \in {Unknown, inst[i].view[it]}
      BY <1>1, <3>1, <3>2 DEF Fits
    <3> QED BY <1>1, <3>2, <3>3 DEF Fits
  <2>4. ASSUME NEW t \in Tasks, NEW r \in JobsOn(f, t)' PROVE TaskKeeps(f, r)'
    <3>1. r \in JobsOn(f, t)
      BY <1>6, <2>4
    <3>2. r.inst = i /\ TaskKeeps(f, r)
      BY <1>1, <1>5, <1>8, <3>1 DEF Sole, Keeps
    <3>3. inst'[i] = x
      BY <1>1, <1>3
    <3>4. ASSUME r.pc = "build", r.carries = "now" PROVE Fits(want[f], x.work, x.set)
      <4>1. JobFits(r)
        BY <3>1, JobOn
      <4>2. Has(i, {"work", "now"})
        BY <3>2, <3>4, <4>1 DEF JobFits, Has
      <4>3. \A u \in Tasks : \A q \in JobsOn(f, u) : q.pc \notin {"read", "show"}
        BY <1>5, <3>1, <3>4, SoleJob
      <4>4. inst[i].loaded
        BY <1>1, <1>8, <4>3, LoadedUnless
      <4> QED BY <2>3, <4>2, <4>4
    <3> QED BY <1>1, <3>2, <3>3, <3>4 DEF TaskKeeps
  <2>5. ASSUME NEW j \in 1..Len(inst'), OpenAt(j)', Obj(j)' = f PROVE ScreenKeeps(f, j)'
    <3>1. j = i
      BY <1>1, <1>4, <2>5, OneOpen
    <3>2. inst'[j] = x
      BY <1>1, <1>3, <3>1
    <3>3. Has(j, {"view"}) => ViewKeeps(f, j)'
      <4>1. Has(j, {"view"}) => ViewKeeps(f, i)
        BY <2>1, <3>1 DEF ScreenKeeps
      <4> QED BY <1>1, <1>6, <3>1, <3>2, <4>1 DEF ViewKeeps
    <3>4. Has(j, {"work", "now"}) => CopyKeeps(f, j)'
      <4> SUFFICES ASSUME Has(j, {"work", "now"}) PROVE CopyKeeps(f, j)'
        OBVIOUS
      <4>1. \A t \in Tasks : \A r \in JobsOn(f, t) : r.edits \subseteq inst[i].set
        BY <2>1, <3>1 DEF ScreenKeeps, CopyKeeps
      <4>2. \A t \in Tasks : \A r \in JobsOn(f, t)' : r.edits \subseteq x.set
        BY <1>1, <1>6, <4>1
      <4>3. x.loaded => Fits(want[f], x.work, x.set) /\ Fits(want[f], x.view, x.set)
        BY <1>1, <2>3, <3>1
      <4> QED BY <1>1, <3>2, <4>2, <4>3 DEF CopyKeeps
    <3> QED BY <1>2, <1>4, <3>3, <3>4 DEF ScreenKeeps, ReviewKeeps
  <2>6. Fits(want[f], file[f], {})'
    BY <1>1, <1>5 DEF Keeps
  <2> QED BY <2>4, <2>5, <2>6 DEF Keeps
<1> QED BY <1>7, <1>8

\* A file somebody else has written is not one of those SavedKept speaks of.
HandInv == \A f \in Opens : f \in byhand => ~undisturbed[f]

LEMMA HandKept ==
    ASSUME HandInv, visits' = visits, byhand' \subseteq byhand,
           \A f \in Opens : undisturbed'[f] => undisturbed[f]
    PROVE  HandInv'
BY VisitsSame DEF HandInv

LEMMA HandNext == ASSUME BaseInv, HandInv, [ScrNext]_scrVars PROVE HandInv'
<1>0. TypeInv /\ undisturbed \in [Opens -> BOOLEAN]
  BY DEF BaseInv, TypeInv
<1>1. ASSUME UNCHANGED <<visits, byhand, undisturbed>> PROVE HandInv'
  BY <1>1, HandKept
<1>2. ASSUME NEW f, NoteOverlap(f), UNCHANGED <<visits, byhand>> PROVE HandInv'
  <2>1. \A g \in Opens : undisturbed'[g] => undisturbed[g]
    BY <1>0, <1>2 DEF NoteOverlap
  <2> QED BY <1>2, <2>1, HandKept
<1>3. CASE Open
  BY <1>2, <1>3 DEF Open
<1>4. CASE Looks \/ Undo
  BY <1>1, <1>4 DEF Looks, Undo, history
<1>5. ASSUME NEW i, UserStages(i) PROVE HandInv'
  BY <1>1, <1>5 DEF UserStages, UserActs, Stage
<1>6. ASSUME NEW i, NEW op, NEW E, NEW D, UserBegins(i, op, E, D) PROVE HandInv'
  BY <1>2, <1>6 DEF UserBegins, UserActs, Begin
<1>7. ASSUME NEW t \in Tasks, Build(t) \/ NothingToDo(t) \/ Return(t) \/ Read(t) \/ Show(t) PROVE HandInv'
  BY <1>1, <1>7 DEF Build, NothingToDo, Return, Read, Show, history
<1>8. ASSUME NEW t \in Tasks, Reply(t) PROVE HandInv'
  <2>1. UNCHANGED <<visits, undisturbed>> /\ (Effect(t) \/ UNCHANGED <<file, byhand>>)
    BY <1>8 DEF Reply
  <2>2. byhand' \subseteq byhand
    BY <2>1 DEF Effect
  <2> QED BY <2>1, <2>2, HandKept
<1>9. ASSUME NEW g \in Opens, Foreign(g) PROVE HandInv'
  <2>1. visits' = visits /\ byhand' = byhand \cup {h \in {g} : Handwritten(h)}
    BY <1>9 DEF Foreign
  <2>2. /\ \A f \in Opens : undisturbed'[f] => undisturbed[f]
        /\ undisturbed'[g] => ~Handwritten(g)
    BY <1>0, <1>9 DEF Foreign
  <2> QED BY <2>1, <2>2, VisitsSame DEF HandInv
<1>10. CASE UNCHANGED scrVars
  BY <1>1, <1>10 DEF scrVars
<1>11. CASE ScrNext
  BY <1>3, <1>4, <1>5, <1>6, <1>7, <1>8, <1>9, <1>11, NextCases
<1> QED BY <1>10, <1>11

LEMMA KeepOpen == ASSUME BaseInv, SoleInv, HandInv, KeepInv, Open PROVE KeepInv'
<1>0. TypeInv
  BY DEF BaseInv
<1>1. PICK i, g, x : OpenStep(i, g, x)
  BY OpenFacts
<1>2. /\ UNCHANGED <<visits, file, want>> /\ NoteOverlap(g) /\ g = Obj(i) /\ g \in Opens /\ x \in Panes
      /\ i \in Opens /\ x.set = {}
      /\ OpenAt(i)' /\ (\A j : OpenAt(j)' => j = i) /\ ~Reviewed("work")'
      /\ inst'[i] = x /\ \A j \in 1..Len(inst) : inst'[j] = inst[j]
  BY <1>1 DEF OpenStep
<1>3. /\ Opens' = Opens /\ (\A f : Resetting(f)' = Resetting(f)) /\ (\A j : Obj(j)' = Obj(j))
      /\ \A j, kinds : Has(j, kinds)' = Has(j, kinds)
  BY <1>2, VisitsSame
<1> SUFFICES ASSUME NEW f \in Opens, undisturbed'[f], ~Resetting(f) PROVE Keeps(f)'
  BY <1>3 DEF KeepInv
<1>4. Keeps(f) /\ (f = g => Free(f))
  BY <1>0, <1>2, OverlapFacts DEF KeepInv
<1>5. CASE f # g
  <2>1. \A t \in Tasks : JobsOn(f, t)' = JobsOn(f, t)
    <3>1. CASE task' = task
      BY <1>2, <3>1, JobsSame
    <3>2. ASSUME NEW u \in Tasks, task[u] = Idle, task' = [task EXCEPT ![u] = LoadTask(i)], NEW t \in Tasks
          PROVE  JobsOn(f, t)' = JobsOn(f, t)
      <4>1. CASE t # u
        <5>1. task'[t] = task[t]
          BY <1>0, <3>2, <4>1, TaskSet
        <5> QED BY <1>2, <5>1, JobsElsewhere
      <4>2. CASE t = u
        <5>1. task'[t] = LoadTask(i)
          BY <1>0, <3>2, <4>2, TaskSet
        <5>2. Obj(LoadTask(i).inst) # f
          BY <1>2, <1>5 DEF LoadTask
        <5>3. JobsOn(f, t)' = {}
          BY <1>2, <5>1, <5>2, JobsHere
        <5>4. JobsOn(f, t) = {}
          BY <3>2, <4>2 DEF JobsOn, JobOf
        <5> QED BY <5>3, <5>4
      <4> QED BY <4>1, <4>2
    <3> QED BY <1>1, <3>1, <3>2 DEF OpenStep
  <2> QED BY <1>2, <1>4, <1>5, <2>1, KeepsSame
<1>6. CASE f = g
  <2>1. Fits(want[f], file[f], {}) /\ Free(f)
    BY <1>4, <1>6 DEF Keeps
  <2>2. Fits(want[f], file[f], {})'
    BY <1>2, <2>1
  <2>3. CASE task' = task /\ x.loaded /\ x.view = Seen(i) /\ x.work = Seen(i)
    <3>0. Seen(i) = file[f]
      <4>1. undisturbed[f]
        BY <1>0, <1>2 DEF NoteOverlap, TypeInv
      <4> QED BY <1>2, <1>6, <4>1 DEF HandInv, Seen
    <3>1. \A t \in Tasks : JobsOn(f, t)' = {}
      BY <1>2, <2>1, <2>3, JobsSame DEF Free
    <3>2. Fits(want[f], x.view, {}) /\ Fits(want[f], x.work, {}) /\ x.set = {}
      BY <1>2, <2>1, <2>3, <3>0
    <3>3. ASSUME NEW j \in 1..Len(inst'), OpenAt(j)' PROVE ScreenKeeps(f, j)'
      <4>1. inst'[j] = x
        BY <1>2, <3>3
      <4>2. Fits(want[f], inst[j].view, {})' /\ Fits(want[f], inst[j].view, inst[j].set)'
            /\ Fits(want[f], inst[j].work, inst[j].set)'
        BY <1>2, <3>2, <4>1
      <4>3. ViewKeeps(f, j)' /\ CopyKeeps(f, j)' /\ ReviewKeeps(j)'
        BY <1>2, <3>1, <4>2 DEF ViewKeeps, CopyKeeps, ReviewKeeps
      <4> QED BY <4>3 DEF ScreenKeeps
    <3> QED BY <2>2, <3>1, <3>3 DEF Keeps
  <2>4. ASSUME ~x.loaded, NEW u \in Tasks, task' = [task EXCEPT ![u] = LoadTask(i)] PROVE Keeps(f)'
    <3> PICK y : y = LoadTask(i)
      OBVIOUS
    <3>1. y.pc = "read" /\ y.edits = {}
      BY DEF LoadTask
    <3>2. ASSUME NEW t \in Tasks, NEW r \in JobsOn(f, t)' PROVE r = y
      <4>1. task'[t] = IF t = u THEN y ELSE task[t]
        BY <1>0, <2>4, TaskSet
      <4>2. CASE t = u
        <5>1. task'[t] = y
          BY <4>1, <4>2
        <5>2. JobsOn(f, t)' = {y} \/ JobsOn(f, t)' = {}
          BY <1>2, <5>1, JobsHere
        <5> QED BY <3>2, <5>2
      <4>3. CASE t # u
        <5>1. task'[t] = task[t]
          BY <4>1, <4>3
        <5>2. JobsOn(f, t)' = JobsOn(f, t)
          BY <1>2, <5>1, JobsElsewhere
        <5> QED BY <2>1, <3>2, <5>2 DEF Free
      <4> QED BY <4>2, <4>3
    <3>3. ASSUME NEW t \in Tasks, NEW r \in JobsOn(f, t)' PROVE TaskKeeps(f, r)'
      <4>1. r.pc = "read"
        BY <3>1, <3>2, <3>3
      <4> QED BY <4>1 DEF TaskKeeps
    <3>4. ~Free(f)'
      <4>1. task'[u] = y /\ y # Idle /\ Obj(y.inst) = f
        BY <1>0, <1>2, <1>6, <2>4, TaskSet, LoadTaskType DEF LoadTask, Opens
      <4>2. JobsOn(f, u)' = {y}
        BY <1>2, <4>1, JobsHere
      <4> QED BY <4>2 DEF Free
    <3>5. ASSUME NEW j \in 1..Len(inst'), OpenAt(j)' PROVE ScreenKeeps(f, j)'
      <4>1. inst'[j] = x
        BY <1>2, <3>5
      <4>2. \A t \in Tasks : \A r \in JobsOn(f, t)' : r.pc = "read" /\ r.edits = {}
        BY <3>1, <3>2
      <4>3. ViewKeeps(f, j)'
        BY <3>4, <4>2 DEF ViewKeeps
      <4>4. CopyKeeps(f, j)'
        BY <2>4, <4>1, <4>2 DEF CopyKeeps
      <4> QED BY <1>2, <4>3, <4>4 DEF ScreenKeeps, ReviewKeeps
    <3> QED BY <2>2, <3>3, <3>5 DEF Keeps
  <2> QED BY <1>1, <1>6, <2>3, <2>4 DEF OpenStep
<1> QED BY <1>5, <1>6

\* The tasks on an object after a step of task t, and after one begins.
Moves(t, r, y) ==
    /\ r = task[t] /\ r # Idle /\ visits' = visits
    /\ (y = Idle \/ y.inst = r.inst) /\ task' = [task EXCEPT ![t] = y]
LEMMA StepJobs ==
    ASSUME BaseInv, NEW t \in Tasks, NEW r, NEW y, Moves(t, r, y), NEW f
    PROVE  /\ Obj(r.inst) # f => \A u \in Tasks : JobsOn(f, u)' = JobsOn(f, u)
           /\ Obj(r.inst) = f => r \in JobsOn(f, t)
           /\ Obj(r.inst) = f /\ Sole(f) => \A u \in Tasks : \A q \in JobsOn(f, u)' : q = y /\ y # Idle
           /\ Obj(r.inst) = f /\ y # Idle => ~Free(f)'
<1>0. TypeInv /\ r = task[t] /\ r # Idle /\ visits' = visits
      /\ (y = Idle \/ y.inst = r.inst) /\ task' = [task EXCEPT ![t] = y]
  BY DEF BaseInv, Moves
<1>1. task'[t] = y /\ \A u \in Tasks : u # t => task'[u] = task[u]
  BY <1>0, TaskSet
<1>2. ASSUME NEW u \in Tasks, u # t PROVE JobsOn(f, u)' = JobsOn(f, u)
  <2>1. task'[u] = task[u]
    BY <1>1, <1>2
  <2> QED BY <1>0, <2>1, JobsElsewhere
<1>3. Obj(r.inst) = f => r \in JobsOn(f, t)
  BY <1>0 DEF JobsOn, JobOf
<1>4. Obj(r.inst) # f => JobsOn(f, t) = {}
  BY <1>0 DEF JobsOn, JobOf
<1>5. /\ y # Idle /\ Obj(y.inst) = f => JobsOn(f, t)' = {y}
      /\ ~(y # Idle /\ Obj(y.inst) = f) => JobsOn(f, t)' = {}
  BY <1>0, <1>1, JobsHere
<1>6. ASSUME Obj(r.inst) # f, NEW u \in Tasks PROVE JobsOn(f, u)' = JobsOn(f, u)
  <2>1. JobsOn(f, t)' = {} /\ JobsOn(f, t) = {}
    BY <1>0, <1>4, <1>5, <1>6
  <2> QED BY <1>2, <2>1
<1>7. ASSUME Obj(r.inst) = f, Sole(f), NEW u \in Tasks, NEW q \in JobsOn(f, u)' PROVE q = y /\ y # Idle
  <2>1. u = t
    BY <1>2, <1>3, <1>7 DEF Sole
  <2> QED BY <1>5, <1>7, <2>1
<1>8. ASSUME Obj(r.inst) = f, y # Idle PROVE ~Free(f)'
  BY <1>0, <1>5, <1>8 DEF Free
<1> QED BY <1>3, <1>6, <1>7, <1>8

LEMMA BeginJobs ==
    ASSUME BaseInv, NEW t \in Tasks, task[t] = Idle, visits' = visits,
           NEW y, y # Idle, task' = [task EXCEPT ![t] = y], NEW f
    PROVE  /\ Obj(y.inst) # f => \A u \in Tasks : JobsOn(f, u)' = JobsOn(f, u)
           /\ Obj(y.inst) = f /\ Free(f) => \A u \in Tasks : \A q \in JobsOn(f, u)' : q = y
           /\ Obj(y.inst) = f => ~Free(f)'
<1>0. TypeInv
  BY DEF BaseInv
<1>1. task'[t] = y /\ \A u \in Tasks : u # t => task'[u] = task[u]
  BY <1>0, TaskSet
<1>2. ASSUME NEW u \in Tasks, u # t PROVE JobsOn(f, u)' = JobsOn(f, u)
  <2>1. task'[u] = task[u]
    BY <1>1, <1>2
  <2> QED BY <2>1, JobsElsewhere
<1>3. JobsOn(f, t) = {}
  BY DEF JobsOn, JobOf
<1>4. /\ Obj(y.inst) = f => JobsOn(f, t)' = {y}
      /\ Obj(y.inst) # f => JobsOn(f, t)' = {}
  BY <1>1, JobsHere
<1>5. ASSUME Obj(y.inst) # f, NEW u \in Tasks PROVE JobsOn(f, u)' = JobsOn(f, u)
  BY <1>2, <1>3, <1>4, <1>5
<1>6. ASSUME Obj(y.inst) = f, Free(f), NEW u \in Tasks, NEW q \in JobsOn(f, u)' PROVE q = y
  BY <1>2, <1>4, <1>6 DEF Free
<1>7. ASSUME Obj(y.inst) = f PROVE ~Free(f)'
  BY <1>4, <1>7 DEF Free
<1> QED BY <1>5, <1>6, <1>7

LEMMA KeepBegins ==
    ASSUME BaseInv, SoleInv, KeepInv, NEW i, NEW op, NEW E, NEW D, UserBegins(i, op, E, D) PROVE KeepInv'
<1>0. TypeInv /\ StackInv
  BY DEF BaseInv
<1>1. /\ UNCHANGED <<visits, file, want, inst>> /\ OpenAt(i) /\ i \in 1..Len(inst) /\ i \in Opens
      /\ Len(stack') = 2 /\ stack'[2] = stack[2] /\ op \in Ops(Scr(i)) /\ Sends(i, op, E, D)
      /\ NoteOverlap(Obj(i)) /\ NewTask(Job(i, op, E, D))
  BY DEF UserBegins, UserActs, Begin
<1>2. /\ Opens' = Opens /\ (\A f : Resetting(f)' = Resetting(f)) /\ (\A j : Obj(j)' = Obj(j))
      /\ \A j, kinds : Has(j, kinds)' = Has(j, kinds)
  BY <1>1, VisitsSame
<1>3. (\A j : OpenAt(j)' => OpenAt(j)) /\ ~Reviewed("work")'
  BY <1>1, ActsOpen
<1>4. PICK u \in Tasks : task[u] = Idle /\ task' = [task EXCEPT ![u] = Job(i, op, E, D)]
  BY <1>1, NewTaskFacts
<1> PICK y : y = Job(i, op, E, D)
  OBVIOUS
<1>5. /\ y # Idle /\ JobFits(y) /\ y.inst = i /\ y.edits = E /\ y.data = D /\ y.carries = op.carries
      /\ y.pc = IF op.carries \in {"fresh", "now"} THEN "build"
                ELSE IF op.carries = "read" THEN "read" ELSE "call"
      /\ E \in SUBSET Items /\ D \in Partial
  BY <1>0, JobFacts, JobNotIdle DEF Job
<1>6. task' = [task EXCEPT ![u] = y]
  BY <1>4
<1> SUFFICES ASSUME NEW f \in Opens, undisturbed'[f], ~Resetting(f) PROVE Keeps(f)'
  BY <1>2 DEF KeepInv
<1>7. Keeps(f) /\ (f = Obj(i) => Free(f))
  <2>1. Obj(i) \in Opens
    BY <1>0, <1>1, ObjFacts
  <2> QED BY <1>0, <1>1, <2>1, OverlapFacts DEF KeepInv
<1>8. CASE f # Obj(i)
  <2>1. \A t \in Tasks : JobsOn(f, t)' = JobsOn(f, t)
    <3>1. Obj(y.inst) # f /\ y # Idle /\ visits' = visits /\ task[u] = Idle
      BY <1>1, <1>4, <1>5, <1>8
    <3> QED BY <1>6, <3>1, BeginJobs
  <2>2. \A j \in 1..Len(inst') : OpenAt(j)' /\ Obj(j) = f =>
               OpenAt(j) /\ j \in 1..Len(inst) /\ (ReviewKeeps(j) => ReviewKeeps(j)')
    BY <1>1, <1>3 DEF ReviewKeeps
  <2> QED BY <1>1, <1>7, <2>1, <2>2, KeepsSame
<1>9. CASE f = Obj(i)
  <2>1. Free(f) /\ ScreenKeeps(f, i) /\ inst[i].loaded /\ inst[i] \in Panes
    BY <1>0, <1>1, <1>7, <1>9, LoadedFree DEF Keeps, TypeInv
  <2>2. Has(i, {"view"}) => Fits(want[f], inst[i].view, {})
    BY <2>1 DEF ScreenKeeps, ViewKeeps
  <2>3. Has(i, {"work", "now"}) =>
           Fits(want[f], inst[i].work, inst[i].set) /\ Fits(want[f], inst[i].view, inst[i].set) /\ ReviewKeeps(i)
    BY <2>1 DEF ScreenKeeps, CopyKeeps
  <2>4. (\A t \in Tasks : \A q \in JobsOn(f, t)' : q = y) /\ ~Free(f)'
    BY <1>1, <1>4, <1>5, <1>6, <1>9, <2>1, BeginJobs
  <2>5. op.carries \notin {"stage", "form"}
    <3>1. op.carries # "form"
      BY <1>1, <1>9 DEF Resetting, Resets
    <3> QED BY <1>1, <3>1 DEF Sends
  <2>6. y.pc = "call" => Fits(want[f], D, E)
    <3>1. CASE op.carries \in {"one", "diff", "side"}
      <4>1. DOMAIN D \ E = {}
        <5>1. op.carries = "side" => D = Nothing
          BY <1>1 DEF Sends
        <5>2. op.carries # "side" => DOMAIN D = E
          BY <1>5, <3>1 DEF JobFits, Picked
        <5> QED BY <5>1, <5>2, PartialFacts
      <4> QED BY <4>1 DEF Fits
    <3>2. CASE op.carries = "view"
      <4>1. PICK it \in Items, v \in Vals : E = {it} /\ D = [inst[i].view EXCEPT ![it] = v]
        BY <1>1, <3>2 DEF Sends
      <4>2. Fits(want[f], inst[i].view, {}) /\ inst[i].view \in [Items -> Vals]
        BY <1>1, <2>1, <2>2, <3>2 DEF Has, Panes, Contents
      <4> QED BY <4>1, <4>2 DEF Fits
    <3>3. CASE op.carries = "work"
      <4>1. Has(i, {"work", "now"})
        BY <1>1, <3>3 DEF Has
      <4>2. E = inst[i].set /\ D = inst[i].work
        <5>1. CASE Len(stack) = 3 /\ stack[3].kind = "modal" /\ stack[3].op = op /\ E = stack[3].edits
                   /\ D = stack[3].data
          <6>1. Reviewed("work")
            BY <3>3, <5>1 DEF Reviewed
          <6> QED BY <2>3, <4>1, <5>1, <6>1 DEF ReviewKeeps
        <5> QED BY <1>1, <3>3, <5>1 DEF Sends
      <4> QED BY <2>3, <4>1, <4>2
    <3>4. CASE op.carries \in {"fresh", "now", "read"}
      BY <1>5, <3>4
    <3> QED BY <1>1, <2>5, <3>1, <3>2, <3>3, <3>4 DEF Sends
  <2>7. TaskKeeps(f, y)'
    <3>1. y.pc \in {"build", "read", "call"} /\ (y.pc = "build" /\ y.carries = "now" => op.carries = "now")
      BY <1>5
    <3>2. op.carries = "now" => Fits(want[f], inst[i].work, inst[i].set)
      BY <1>1, <2>3 DEF Has
    <3> QED BY <1>1, <1>5, <2>6, <3>1, <3>2 DEF TaskKeeps
  <2>8. ASSUME NEW j \in 1..Len(inst'), OpenAt(j)', Obj(j)' = f PROVE ScreenKeeps(f, j)'
    <3>1. j = i
      BY <1>1, <1>3, <2>8, OneOpen
    <3>2. Has(i, {"view"}) => ViewKeeps(f, j)'
      <4>1. \A t \in Tasks : \A q \in JobsOn(f, t)' : q.pc # "ok"
        BY <1>5, <2>4
      <4> QED BY <1>1, <2>2, <2>4, <3>1, <4>1 DEF ViewKeeps
    <3>3. Has(i, {"work", "now"}) => CopyKeeps(f, j)'
      <4> SUFFICES ASSUME Has(i, {"work", "now"}) PROVE CopyKeeps(f, j)'
        OBVIOUS
      <4>1. op.carries \in Silent \cup {"work", "now"}
        BY <1>0, <1>1, KeepingFacts
      <4>2. E \subseteq inst[i].set
        <5>1. CASE op.carries \in {"side", "read", "now"}
          BY <1>1, <5>1 DEF Sends
        <5>2. CASE op.carries = "work"
          <6>1. CASE Len(stack) = 3 /\ stack[3].kind = "modal" /\ stack[3].op = op /\ E = stack[3].edits
            <7>1. Reviewed("work")
              BY <5>2, <6>1 DEF Reviewed
            <7> QED BY <2>3, <6>1, <7>1 DEF ReviewKeeps
          <6> QED BY <1>1, <5>2, <6>1 DEF Sends
        <5> QED BY <2>5, <4>1, <5>1, <5>2 DEF Silent
      <4>3. \A t \in Tasks : \A q \in JobsOn(f, t)' : q.edits \subseteq inst[i].set
        BY <1>5, <2>4, <4>2
      <4> QED BY <1>1, <2>3, <3>1, <4>3 DEF CopyKeeps
    <3> QED BY <1>2, <1>3, <3>1, <3>2, <3>3 DEF ScreenKeeps, ReviewKeeps
  <2>9. Fits(want[f], file[f], {})'
    BY <1>1, <1>7 DEF Keeps
  <2> QED BY <2>4, <2>7, <2>8, <2>9 DEF Keeps
<1> QED BY <1>8, <1>9

\* A step of a task inside its call, on its own object and on another.
LEMMA KeepsOther ==
    ASSUME BaseInv, NEW t \in Tasks, NEW r, NEW x, TaskStep(t, r, x), NEW f, Keeps(f), Obj(r.inst) # f,
           want'[f] = want[f], file'[f] = file[f]
    PROVE  Keeps(f)'
<1>1. /\ UNCHANGED <<visits, stack, inst>> /\ r = task[t] /\ r # Idle /\ x.inst = r.inst
      /\ task' = [task EXCEPT ![t] = x]
  BY DEF TaskStep
<1>2. \A u \in Tasks : JobsOn(f, u)' = JobsOn(f, u)
  <2>1. Moves(t, r, x)
    BY <1>1 DEF Moves
  <2>3. /\ Obj(r.inst) # f => \A u \in Tasks : JobsOn(f, u)' = JobsOn(f, u)
        /\ Obj(r.inst) = f => r \in JobsOn(f, t)
        /\ Obj(r.inst) = f /\ Sole(f) => \A u \in Tasks : \A q \in JobsOn(f, u)' : q = x /\ x # Idle
        /\ Obj(r.inst) = f /\ x # Idle => ~Free(f)'
    BY SMTT(30), <2>1, StepJobs
  <2> QED BY <2>3
<1>3. \A j : OpenAt(j)' => OpenAt(j) /\ (ReviewKeeps(j) => ReviewKeeps(j)')
  BY <1>1 DEF OpenAt, OpenIn, ReviewKeeps, Reviewed
<1> QED BY <1>1, <1>2, <1>3, KeepsSame

LEMMA KeepsStep ==
    ASSUME BaseInv, NEW t \in Tasks, NEW r, NEW x, TaskStep(t, r, x), NEW f, Keeps(f), Sole(f), Obj(r.inst) = f,
           Fits(want'[f], file'[f], {}), TaskKeeps(f, x)',
           \A i : i = r.inst /\ Has(i, {"view"}) /\ ViewKeeps(f, i) =>
               /\ x.pc \in {"build", "call", "refused", "raised"} => Fits(want'[f], inst[i].view, {})
               /\ x.pc = "ok" => Fits(want'[f], inst[i].view, x.edits),
           \A i : i = r.inst /\ Has(i, {"work", "now"}) /\ CopyKeeps(f, i) =>
               /\ inst[i].loaded => /\ Fits(want'[f], inst[i].work, inst[i].set)
                                    /\ Fits(want'[f], inst[i].view, inst[i].set)
               /\ x.edits \subseteq inst[i].set
    PROVE  Keeps(f)'
<1>1. /\ UNCHANGED <<visits, stack, inst>> /\ r = task[t] /\ r # Idle /\ x.inst = r.inst
      /\ task' = [task EXCEPT ![t] = x] /\ x \in Jobs
  BY DEF TaskStep
<1>2. x # Idle
  BY <1>1, JobNotIdle
<1>3. (\A u \in Tasks : \A q \in JobsOn(f, u)' : q = x) /\ ~Free(f)' /\ r \in JobsOn(f, t)
  <2>1. Moves(t, r, x)
    BY <1>1 DEF Moves
  <2>3. /\ Obj(r.inst) # f => \A u \in Tasks : JobsOn(f, u)' = JobsOn(f, u)
        /\ Obj(r.inst) = f => r \in JobsOn(f, t)
        /\ Obj(r.inst) = f /\ Sole(f) => \A u \in Tasks : \A q \in JobsOn(f, u)' : q = x /\ x # Idle
        /\ Obj(r.inst) = f /\ x # Idle => ~Free(f)'
    BY <2>1, StepJobs
  <2> QED BY <1>2, <2>3
<1>4. (\A j : Obj(j)' = Obj(j)) /\ \A j, kinds : Has(j, kinds)' = Has(j, kinds)
  BY <1>1, VisitsSame
<1>5. ASSUME NEW j \in 1..Len(inst'), OpenAt(j)', Obj(j)' = f PROVE ScreenKeeps(f, j)'
  <2>1. OpenAt(j) /\ j \in 1..Len(inst) /\ Obj(j) = f
    BY <1>1, <1>4, <1>5 DEF OpenAt, OpenIn
  <2>2. ScreenKeeps(f, j) /\ r.inst = j
    BY <1>3, <2>1 DEF Keeps, Sole
  <2>3. Has(j, {"view"}) => ViewKeeps(f, j)'
    <3> SUFFICES ASSUME Has(j, {"view"}) PROVE ViewKeeps(f, j)'
      OBVIOUS
    <3>1. /\ x.pc \in {"build", "call", "refused", "raised"} => Fits(want'[f], inst[j].view, {})
          /\ x.pc = "ok" => Fits(want'[f], inst[j].view, x.edits)
      BY <2>2 DEF ScreenKeeps
    <3> QED BY <1>1, <1>3, <3>1 DEF ViewKeeps
  <2>4. Has(j, {"work", "now"}) => CopyKeeps(f, j)'
    <3> SUFFICES ASSUME Has(j, {"work", "now"}) PROVE CopyKeeps(f, j)'
      OBVIOUS
    <3>1. /\ inst[j].loaded => /\ Fits(want'[f], inst[j].work, inst[j].set)
                               /\ Fits(want'[f], inst[j].view, inst[j].set)
          /\ x.edits \subseteq inst[j].set
      BY <2>2 DEF ScreenKeeps
    <3> QED BY <1>1, <1>3, <3>1 DEF CopyKeeps
  <2>5. ReviewKeeps(j) => ReviewKeeps(j)'
    BY <1>1 DEF ReviewKeeps, Reviewed
  <2> QED BY <1>4, <2>2, <2>3, <2>4, <2>5 DEF ScreenKeeps
<1>6. \A u \in Tasks : \A q \in JobsOn(f, u)' : TaskKeeps(f, q)'
  BY <1>3
<1> QED BY <1>5, <1>6 DEF Keeps

LEMMA KeepBuild == ASSUME BaseInv, SoleInv, KeepInv, NEW t \in Tasks, Build(t) PROVE KeepInv'
<1>0. TypeInv
  BY DEF BaseInv
<1>1. PICK r, x :
             /\ TaskStep(t, r, x) /\ UNCHANGED <<file, want, current>>
             /\ r.pc = "build" /\ r.carries \in {"fresh", "now"} /\ x.pc = "call" /\ x.carries = r.carries
             /\ r.carries = "now" => x.data = inst[r.inst].work /\ x.edits = inst[r.inst].set
             /\ r.carries # "now" => x.data = Over(r.data, file[Obj(r.inst)]) /\ x.edits = r.edits
  BY BuildStep
<1>2. /\ UNCHANGED <<visits, undisturbed, inst>> /\ r = task[t] /\ r # Idle /\ r \in Jobs /\ JobFits(r)
  BY <1>1 DEF TaskStep
<1>3. Opens' = Opens /\ (\A f : Resetting(f)' = Resetting(f))
  BY <1>2, VisitsSame
<1> SUFFICES ASSUME NEW f \in Opens, undisturbed'[f], ~Resetting(f) PROVE Keeps(f)'
  BY <1>3 DEF KeepInv
<1>4. Keeps(f) /\ Sole(f)
  BY <1>2 DEF KeepInv, SoleInv
<1>5. CASE Obj(r.inst) # f
  BY <1>1, <1>4, <1>5, KeepsOther
<1>6. CASE Obj(r.inst) = f
  <2>1. r \in JobsOn(f, t)
    BY <1>2, <1>6 DEF JobsOn, JobOf
  <2>2. Fits(want[f], file[f], {}) /\ TaskKeeps(f, r)
    BY <1>4, <2>1 DEF Keeps
  <2>3. Fits(want[f], x.data, x.edits)
    <3>1. CASE r.carries = "now"
      BY <1>1, <2>2, <3>1 DEF TaskKeeps
    <3>2. CASE r.carries = "fresh"
      <4>1. x.data = Over(r.data, file[f]) /\ x.edits = r.edits /\ DOMAIN r.data = r.edits
        BY <1>1, <1>2, <1>6, <3>2 DEF JobFits, Picked
      <4>2. /\ r.data \in Partial /\ file[f] \in Contents
        BY <1>0, <1>2 DEF Jobs, TypeInv
      <4>3. /\ Over(r.data, file[f]) \in Contents
            /\ \A it \in Items : Over(r.data, file[f])[it] = IF it \in DOMAIN r.data THEN r.data[it] ELSE file[f][it]
        BY <4>2, OverFacts
      <4>4. DOMAIN file[f] = Items /\ DOMAIN Over(r.data, file[f]) = Items
        BY <4>2, <4>3 DEF Contents
      <4> QED BY <2>2, <4>1, <4>3, <4>4 DEF Fits
    <3> QED BY <1>1, <3>1, <3>2
  <2>4. TaskKeeps(f, x)'
    BY <1>1, <2>3 DEF TaskKeeps
  <2>5. Fits(want'[f], file'[f], {})
    BY <1>1, <2>2
  <2>6. \A i : i = r.inst /\ Has(i, {"view"}) /\ ViewKeeps(f, i) =>
               /\ x.pc \in {"build", "call", "refused", "raised"} => Fits(want'[f], inst[i].view, {})
               /\ x.pc = "ok" => Fits(want'[f], inst[i].view, x.edits)
    BY <1>1, <2>1 DEF ViewKeeps
  <2>7. \A i : i = r.inst /\ Has(i, {"work", "now"}) /\ CopyKeeps(f, i) =>
               /\ inst[i].loaded => /\ Fits(want'[f], inst[i].work, inst[i].set)
                                    /\ Fits(want'[f], inst[i].view, inst[i].set)
               /\ x.edits \subseteq inst[i].set
    BY <1>1, <2>1 DEF CopyKeeps
  <2> QED BY <1>1, <1>4, <1>6, <2>4, <2>5, <2>6, <2>7, KeepsStep
<1> QED BY <1>5, <1>6

LEMMA KeepRead == ASSUME BaseInv, SoleInv, KeepInv, NEW t \in Tasks, Read(t) PROVE KeepInv'
<1>1. PICK r, x :
             /\ TaskStep(t, r, x) /\ UNCHANGED <<file, want, current>>
             /\ r.pc = "read" /\ x.pc = "show" /\ x.edits = r.edits /\ x.carries = r.carries
             /\ x.data = file[Obj(r.inst)]
  BY ReadStep
<1>2. /\ UNCHANGED <<visits, undisturbed, inst>> /\ r = task[t] /\ r # Idle
  BY <1>1 DEF TaskStep
<1>3. Opens' = Opens /\ (\A f : Resetting(f)' = Resetting(f))
  BY <1>2, VisitsSame
<1> SUFFICES ASSUME NEW f \in Opens, undisturbed'[f], ~Resetting(f) PROVE Keeps(f)'
  BY <1>3 DEF KeepInv
<1>4. Keeps(f) /\ Sole(f)
  BY <1>2 DEF KeepInv, SoleInv
<1>5. CASE Obj(r.inst) # f
  BY <1>1, <1>4, <1>5, KeepsOther
<1>6. CASE Obj(r.inst) = f
  <2>1. r \in JobsOn(f, t)
    BY <1>2, <1>6 DEF JobsOn, JobOf
  <2>2. Fits(want[f], file[f], {}) /\ Fits(want'[f], file'[f], {})
    BY <1>1, <1>4 DEF Keeps
  <2>3. TaskKeeps(f, x)'
    BY <1>1, <1>6, <2>2 DEF TaskKeeps
  <2>4. \A i : i = r.inst /\ Has(i, {"view"}) /\ ViewKeeps(f, i) =>
               /\ x.pc \in {"build", "call", "refused", "raised"} => Fits(want'[f], inst[i].view, {})
               /\ x.pc = "ok" => Fits(want'[f], inst[i].view, x.edits)
    BY <1>1
  <2>5. \A i : i = r.inst /\ Has(i, {"work", "now"}) /\ CopyKeeps(f, i) =>
               /\ inst[i].loaded => /\ Fits(want'[f], inst[i].work, inst[i].set)
                                    /\ Fits(want'[f], inst[i].view, inst[i].set)
               /\ x.edits \subseteq inst[i].set
    BY <1>1, <2>1 DEF CopyKeeps
  <2> QED BY <1>1, <1>4, <1>6, <2>2, <2>3, <2>4, <2>5, KeepsStep
<1> QED BY <1>5, <1>6

LEMMA KeepReply == ASSUME BaseInv, SoleInv, KeepInv, NEW t \in Tasks, Reply(t) PROVE KeepInv'
<1>0. TypeInv
  BY DEF BaseInv
<1>1. PICK r, x, g :
             /\ TaskStep(t, r, x) /\ g = Obj(r.inst) /\ g \in Opens
             /\ r.pc = "call" /\ x.pc \in {"ok", "refused", "raised"}
             /\ x.data = r.data /\ x.edits = r.edits /\ x.carries = r.carries
             /\ Replied(g, r, x)
  BY ReplyStep
<1>2. /\ UNCHANGED <<visits, undisturbed, inst>> /\ r = task[t] /\ r # Idle /\ r \in Jobs /\ JobFits(r)
  BY <1>1 DEF TaskStep
<1>3. Opens' = Opens /\ (\A f : Resetting(f)' = Resetting(f))
  BY <1>2, VisitsSame
<1>4. file \in [Opens -> Contents] /\ want \in [Opens -> [Items -> {0, 1, Unknown}]]
  BY <1>0 DEF TypeInv
<1> SUFFICES ASSUME NEW f \in Opens, undisturbed'[f], ~Resetting(f) PROVE Keeps(f)'
  BY <1>3 DEF KeepInv
<1>5. Keeps(f) /\ Sole(f)
  BY <1>2 DEF KeepInv, SoleInv
<1>6. CASE g # f
  <2>1. want'[f] = want[f]
    BY <1>1, <1>4, <1>6 DEF Replied
  <2>2. file'[f] = file[f]
    BY <1>1, <1>4, <1>6 DEF Replied
  <2> QED BY <1>1, <1>5, <1>6, <2>1, <2>2, KeepsOther
<1>7. CASE g = f
  <2>1. r \in JobsOn(f, t)
    BY <1>1, <1>2, <1>7 DEF JobsOn, JobOf
  <2>2. Fits(want[f], file[f], {}) /\ Fits(want[f], r.data, r.edits)
    BY <1>1, <1>5, <2>1 DEF Keeps, TaskKeeps
  <2> PICK c : c = Over(r.data, file[f])
    OBVIOUS
  <2>3. r.data \in Partial /\ file[f] \in Contents /\ DOMAIN r.data \subseteq Items
    BY <1>2, <1>4, PartialFacts DEF Jobs
  <2>4. /\ c \in Contents
        /\ \A it \in Items : c[it] = IF it \in DOMAIN r.data THEN r.data[it] ELSE file[f][it]
    BY <2>3, OverFacts
  <2>5. \A it \in Items : want'[f][it] = IF it \in r.edits THEN (IF x.pc = "ok" THEN c[it] ELSE Unknown)
                                         ELSE want[f][it]
    BY <1>1, <1>4, <1>7 DEF Replied
  <2>6. DOMAIN file[f] = Items /\ DOMAIN c = Items
    BY <2>3, <2>4 DEF Contents
  <2>7. \A it \in Items \ r.edits : want[f][it] \in {Unknown, c[it]}
    BY <2>2, <2>4, <2>6 DEF Fits
  <2>8. Fits(want'[f], c, {})
    BY <2>5, <2>6, <2>7 DEF Fits
  <2>9. x.pc # "ok" => Fits(want'[f], file[f], {})
    BY <2>2, <2>5, <2>6 DEF Fits
  <2>10. Fits(want'[f], file'[f], {})
    <3>1. CASE file' = file
      <4>1. CASE x.pc = "ok"
        <5>1. r.carries = "side" \/ file' = [file EXCEPT ![f] = c]
          BY <1>1, <1>7, <4>1 DEF Replied
        <5>2. CASE r.carries = "side"
          <6>1. r.edits = {}
            BY <1>2, <5>2 DEF JobFits
          <6> QED BY <2>2, <2>5, <2>6, <3>1, <6>1 DEF Fits
        <5>3. CASE file' = [file EXCEPT ![f] = c]
          BY <1>4, <2>8, <5>3
        <5> QED BY <5>1, <5>2, <5>3
      <4>2. CASE x.pc # "ok"
        BY <2>9, <3>1, <4>2
      <4> QED BY <4>1, <4>2
    <3>2. CASE file' = [file EXCEPT ![f] = c]
      BY <1>4, <2>8, <3>2
    <3> QED BY <1>1, <1>7, <3>1, <3>2 DEF Replied
  <2>11. Fits(want'[f], r.data, r.edits) /\ Fits(want'[f], r.data, {})
    <3>1. \A it \in DOMAIN r.data : c[it] = r.data[it]
      BY <2>3, <2>4
    <3> QED BY <2>3, <2>6, <2>8, <3>1 DEF Fits
  <2>12. TaskKeeps(f, x)'
    BY <1>1, <2>11 DEF TaskKeeps
  <2>13. ASSUME NEW i, i = r.inst, Has(i, {"view"}), ViewKeeps(f, i)
         PROVE  /\ x.pc \in {"build", "call", "refused", "raised"} => Fits(want'[f], inst[i].view, {})
                /\ x.pc = "ok" => Fits(want'[f], inst[i].view, x.edits)
    <3>1. Fits(want[f], inst[i].view, {})
      BY <1>1, <2>1, <2>13 DEF ViewKeeps
    <3>2. DOMAIN inst[i].view = Items
      <4>1. inst[i] \in Panes
        BY <1>0, <1>1, <2>13 DEF TypeInv, TaskStep
      <4> QED BY <4>1 DEF Panes, Contents
    <3> QED BY <1>1, <2>5, <3>1, <3>2 DEF Fits
  <2>14. ASSUME NEW i, i = r.inst, Has(i, {"work", "now"}), CopyKeeps(f, i)
         PROVE  /\ inst[i].loaded => /\ Fits(want'[f], inst[i].work, inst[i].set)
                                     /\ Fits(want'[f], inst[i].view, inst[i].set)
                /\ x.edits \subseteq inst[i].set
    <3>1. r.edits \subseteq inst[i].set
      BY <2>1, <2>14 DEF CopyKeeps
    <3>2. DOMAIN inst[i].view = Items /\ DOMAIN inst[i].work = Items
      <4>1. inst[i] \in Panes
        BY <1>0, <1>1, <2>14 DEF TypeInv, TaskStep
      <4> QED BY <4>1 DEF Panes, Contents
    <3>3. \A it \in Items \ inst[i].set : want'[f][it] = want[f][it]
      BY <2>5, <3>1
    <3> QED BY <1>1, <2>14, <3>1, <3>2, <3>3 DEF Fits, CopyKeeps
  <2> QED BY <1>1, <1>5, <1>7, <2>10, <2>12, <2>13, <2>14, KeepsStep
<1> QED BY <1>6, <1>7

LEMMA StepElsewhere ==
    ASSUME BaseInv, NEW t \in Tasks, NEW r, NEW y, Moves(t, r, y), NEW f, Obj(r.inst) # f, NEW u \in Tasks
    PROVE  JobsOn(f, u)' = JobsOn(f, u)
<1>1. /\ Obj(r.inst) # f => \A v \in Tasks : JobsOn(f, v)' = JobsOn(f, v)
      /\ Obj(r.inst) = f => r \in JobsOn(f, t)
      /\ Obj(r.inst) = f /\ Sole(f) => \A v \in Tasks : \A q \in JobsOn(f, v)' : q = y /\ y # Idle
      /\ Obj(r.inst) = f /\ y # Idle => ~Free(f)'
  BY SMTT(30), StepJobs
<1> QED BY <1>1

\* The end of a call or of a load.
LEMMA EndFacts ==
    ASSUME BaseInv, NEW t \in Tasks, NEW r, NEW x, NEW y, NEW s, NEW w, EndStep(t, r, x, y, s, w)
    PROVE  /\ Moves(t, r, y) /\ Len(inst') = Len(inst)
           /\ \A j \in 1..Len(inst) : inst'[j] = IF j = r.inst THEN x ELSE inst[j]
           /\ \A j : OpenAt(j)' => OpenAt(j)
           /\ \A kind : Reviewed(kind)' => Reviewed(kind) /\ stack'[3] = stack[3]
<1>0. TypeInv
  BY DEF BaseInv
<1>1. /\ r = task[t] /\ r # Idle /\ r.inst \in 1..Len(inst) /\ x \in Panes /\ inst' = [inst EXCEPT ![r.inst] = x]
      /\ y \in {Idle, LoadTask(r.inst)} /\ task' = [task EXCEPT ![t] = y] /\ visits' = visits
      /\ Prefix(s) /\ w.kind = "result" /\ (stack' = s \/ stack' = Append(s, w))
  BY DEF EndStep
<1>2. Moves(t, r, y)
  <2>1. y = Idle \/ y.inst = r.inst
    BY <1>1 DEF LoadTask
  <2> QED BY <1>1, <2>1 DEF Moves
<1>3. Len(inst') = Len(inst) /\ \A j \in 1..Len(inst) : inst'[j] = IF j = r.inst THEN x ELSE inst[j]
  BY <1>0, <1>1, PaneSet
<1>4. ASSUME NEW j, OpenAt(j)' PROVE OpenAt(j)
  <2>1. w.kind # "screen"
    BY <1>1
  <2> QED BY <1>0, <1>1, <1>4, <2>1, OpenBefore
<1>5. ASSUME NEW kind, Reviewed(kind)' PROVE Reviewed(kind) /\ stack'[3] = stack[3]
  <2>1. ~(w.kind = "modal" /\ w.op.carries = kind)
    BY <1>1
  <2> QED BY <1>0, <1>1, <1>5, <2>1, ReviewBefore
<1> QED BY <1>2, <1>3, <1>4, <1>5

LEMMA KeepsElsewhere ==
    ASSUME BaseInv, NEW t \in Tasks, NEW r, NEW x, NEW y, NEW s, NEW w, EndStep(t, r, x, y, s, w),
           NEW f, Keeps(f), Obj(r.inst) # f
    PROVE  Keeps(f)'
<1>1. /\ Moves(t, r, y) /\ Len(inst') = Len(inst)
      /\ \A j \in 1..Len(inst) : inst'[j] = IF j = r.inst THEN x ELSE inst[j]
      /\ \A j : OpenAt(j)' => OpenAt(j)
      /\ \A kind : Reviewed(kind)' => Reviewed(kind) /\ stack'[3] = stack[3]
  BY EndFacts
<1>2. UNCHANGED <<visits, file, want>>
  BY DEF EndStep
<1>3. \A u \in Tasks : JobsOn(f, u)' = JobsOn(f, u)
  BY <1>1, StepElsewhere
<1>4. \A j \in 1..Len(inst) : Obj(j) = f => inst'[j] = inst[j]
  BY <1>1
<1>5. ASSUME NEW j \in 1..Len(inst'), OpenAt(j)', Obj(j) = f
      PROVE  OpenAt(j) /\ j \in 1..Len(inst) /\ (ReviewKeeps(j) => ReviewKeeps(j)')
  <2>1. OpenAt(j) /\ j \in 1..Len(inst) /\ inst'[j] = inst[j]
    BY <1>1, <1>4, <1>5
  <2>2. Reviewed("work")' => Reviewed("work") /\ stack'[3] = stack[3]
    BY <1>1
  <2> QED BY <2>1, <2>2 DEF ReviewKeeps
<1> QED BY <1>2, <1>3, <1>4, <1>5, KeepsSame

\* What the fields of its screen must be then.
EndKeeps(f, r, x, y) ==
    OpenAt(r.inst) =>
        /\ Has(r.inst, {"view"}) /\ y = Idle => Fits(want[f], x.view, {})
        /\ Has(r.inst, {"work", "now"}) /\ x.loaded =>
             Fits(want[f], x.work, x.set) /\ Fits(want[f], x.view, x.set)
        /\ Has(r.inst, {"work", "now"}) /\ Reviewed("work") =>
             x.work = inst[r.inst].work /\ x.set = inst[r.inst].set

LEMMA KeepsEnd ==
    ASSUME BaseInv, NEW t \in Tasks, NEW r, NEW x, NEW y, NEW s, NEW w, EndStep(t, r, x, y, s, w),
           NEW f, Keeps(f), Sole(f), Obj(r.inst) = f, EndKeeps(f, r, x, y)
    PROVE  Keeps(f)'
<1>1. /\ Moves(t, r, y) /\ Len(inst') = Len(inst)
      /\ \A j \in 1..Len(inst) : inst'[j] = IF j = r.inst THEN x ELSE inst[j]
      /\ \A j : OpenAt(j)' => OpenAt(j)
      /\ \A kind : Reviewed(kind)' => Reviewed(kind) /\ stack'[3] = stack[3]
  BY EndFacts
<1>2. UNCHANGED <<visits, file, want>> /\ y \in {Idle, LoadTask(r.inst)}
  BY DEF EndStep
<1>3. /\ Obj(r.inst) # f => \A u \in Tasks : JobsOn(f, u)' = JobsOn(f, u)
      /\ Obj(r.inst) = f => r \in JobsOn(f, t)
      /\ Obj(r.inst) = f /\ Sole(f) => \A u \in Tasks : \A q \in JobsOn(f, u)' : q = y /\ y # Idle
      /\ Obj(r.inst) = f /\ y # Idle => ~Free(f)'
  BY <1>1, StepJobs
<1>4. ASSUME NEW u \in Tasks, NEW q \in JobsOn(f, u)' PROVE q.pc = "read" /\ q.edits = {}
  <2>1. q = LoadTask(r.inst)
    BY <1>2, <1>3, <1>4
  <2> QED BY <2>1 DEF LoadTask
<1>5. \A u \in Tasks : \A q \in JobsOn(f, u)' : TaskKeeps(f, q)'
  BY <1>4 DEF TaskKeeps
<1>6. Fits(want[f], file[f], {})'
  BY <1>2 DEF Keeps
<1>7. (\A j : Obj(j)' = Obj(j)) /\ \A j, kinds : Has(j, kinds)' = Has(j, kinds)
  BY <1>2, VisitsSame
<1>8. ASSUME NEW j \in 1..Len(inst'), OpenAt(j)', Obj(j)' = f PROVE ScreenKeeps(f, j)'
  <2>1. OpenAt(j) /\ j \in 1..Len(inst) /\ Obj(j) = f
    BY <1>1, <1>7, <1>8
  <2>2. ScreenKeeps(f, j) /\ r.inst = j
    BY <1>3, <2>1 DEF Keeps, Sole
  <2>3. inst'[j] = x
    BY <1>1, <2>1, <2>2
  <2>4. Has(j, {"view"}) => ViewKeeps(f, j)'
    <3> SUFFICES ASSUME Has(j, {"view"}) PROVE ViewKeeps(f, j)'
      OBVIOUS
    <3>1. Free(f)' => Fits(want[f], x.view, {})
      BY <1>3, <2>1, <2>2 DEF EndKeeps
    <3> QED BY <1>2, <1>4, <2>3, <3>1 DEF ViewKeeps
  <2>5. Has(j, {"work", "now"}) => CopyKeeps(f, j)'
    <3> SUFFICES ASSUME Has(j, {"work", "now"}) PROVE CopyKeeps(f, j)'
      OBVIOUS
    <3>1. x.loaded => Fits(want[f], x.work, x.set) /\ Fits(want[f], x.view, x.set)
      BY <2>1, <2>2 DEF EndKeeps
    <3> QED BY <1>2, <1>4, <2>3, <3>1 DEF CopyKeeps
  <2>6. Has(j, {"work", "now"}) => ReviewKeeps(j)'
    <3> SUFFICES ASSUME Has(j, {"work", "now"}), Reviewed("work")'
                 PROVE  stack'[3].data = inst'[j].work /\ stack'[3].edits = inst'[j].set
      BY DEF ReviewKeeps
    <3>1. Reviewed("work") /\ stack'[3] = stack[3]
      BY <1>1
    <3>2. x.work = inst[j].work /\ x.set = inst[j].set
      BY <2>1, <2>2, <3>1 DEF EndKeeps
    <3>3. ReviewKeeps(j)
      BY <2>2 DEF ScreenKeeps
    <3> QED BY <2>3, <3>1, <3>2, <3>3 DEF ReviewKeeps
  <2> QED BY <1>7, <2>4, <2>5, <2>6 DEF ScreenKeeps
<1> QED BY <1>5, <1>6, <1>8 DEF Keeps

LEMMA ReviewHas ==
    ASSUME BaseInv, NEW i, OpenAt(i), NEW kind, Reviewed(kind) PROVE Has(i, {kind}) /\ i \in Opens
<1>1. StackFits(stack, Len(inst)) /\ Len(stack) \in Nat /\ Len(stack) >= 3
  BY DEF BaseInv, StackInv, TypeInv, Reviewed
<1>2. stack[3].kind = "modal" /\ stack[3].op.carries = kind
  BY DEF Reviewed
<1>3. 3 \in 2..Len(stack) /\ 2 \in 2..Len(stack)
  BY <1>1
<1>4. FrameFits(stack, 3, Len(inst)) /\ FrameFits(stack, 2, Len(inst))
  BY <1>1, <1>3 DEF StackFits
<1>5. stack[3].op \in Ops(Scr(stack[3].inst)) /\ stack[3].inst = i /\ i \in 1..Len(inst)
  BY <1>2, <1>4 DEF FrameFits, OpenAt, OpenIn
<1>6. i \in Opens
  <2>1. Len(inst) \in Nat /\ Len(visits) \in Nat /\ Len(inst) <= Len(visits)
    BY ScreensAssumption DEF BaseInv, TypeInv
  <2> QED BY <1>5, <2>1 DEF Opens
<1> QED BY <1>2, <1>5, <1>6 DEF Has

LEMMA KeepShow == ASSUME BaseInv, SoleInv, KeepInv, NEW t \in Tasks, Show(t) PROVE KeepInv'
<1>0. TypeInv
  BY DEF BaseInv
<1>1. PICK r, x, s, w : /\ EndStep(t, r, x, Idle, s, w) /\ r.pc = "show" /\ r.data \in Contents
                        /\ x = Fields(r.data, TRUE)
  BY ShowEnds
<1>2. UNCHANGED <<visits, undisturbed>> /\ r = task[t] /\ r # Idle /\ JobFits(r) /\ r.inst \in Opens
  BY <1>1 DEF EndStep
<1>3. Opens' = Opens /\ (\A f : Resetting(f)' = Resetting(f))
  BY <1>2, VisitsSame
<1> SUFFICES ASSUME NEW f \in Opens, undisturbed'[f], ~Resetting(f) PROVE Keeps(f)'
  BY <1>3 DEF KeepInv
<1>4. Keeps(f) /\ Sole(f)
  BY <1>2 DEF KeepInv, SoleInv
<1>5. CASE Obj(r.inst) # f
  BY <1>1, <1>4, <1>5, KeepsElsewhere
<1>6. CASE Obj(r.inst) = f
  <2>1. r \in JobsOn(f, t)
    BY <1>2, <1>6 DEF JobsOn, JobOf
  <2>2. Fits(want[f], r.data, {})
    BY <1>1, <1>4, <2>1 DEF Keeps, TaskKeeps
  <2>3. x.view = r.data /\ x.work = r.data /\ x.set = {}
    BY <1>1 DEF Fields
  <2>4. ASSUME OpenAt(r.inst), Reviewed("work") PROVE FALSE
    <3>1. Has(r.inst, {"work"})
      BY <2>4, ReviewHas
    <3>2. PICK op \in Ops(Scr(r.inst)) : op.carries = "work"
      BY <3>1 DEF Has
    <3>3. \A o \in Ops(Scr(r.inst)) : Scr(r.inst).load # "async" /\ o.carries # "read"
      BY <1>0, <1>2, <3>1, KeepingFacts
    <3>4. r.carries = "read"
      BY <1>1, <1>2 DEF JobFits
    <3> QED BY <1>2, <3>2, <3>3, <3>4 DEF JobFits
  <2>5. EndKeeps(f, r, x, Idle)
    BY <2>2, <2>3, <2>4 DEF EndKeeps
  <2> QED BY <1>1, <1>4, <1>6, <2>5, KeepsEnd
<1> QED BY <1>5, <1>6

\* What the reply makes of the fields of a screen.
LEMMA FollowedFacts ==
    ASSUME BaseInv, NEW r \in Jobs, r.inst \in Opens, JobFits(r), r.pc \in {"ok", "refused", "raised"},
           NEW p \in Panes, NEW x, x = Followed(r, p)
    PROVE  \/ /\ "reload" \in After(r) /\ Scr(r.inst).load # "async"
              /\ x.view = file[Obj(r.inst)] /\ x.work = file[Obj(r.inst)] /\ x.set = {}
           \/ /\ "sent" \in After(r) /\ r.carries = "work" /\ x.view = r.data
              /\ x.work = p.work /\ x.set = p.set /\ x.loaded = p.loaded
           \/ /\ "working" \in After(r) /\ r.carries = "diff" /\ x.view = p.work
              /\ x.work = p.work /\ x.set = p.set /\ x.loaded = p.loaded
           \/ /\ "shown" \in After(r) /\ r.carries \in {"one", "fresh", "view"}
              /\ x.set = p.set /\ x.loaded = p.loaded
              /\ x.view = Over([it \in r.edits |-> r.data[it]], p.view)
              /\ x.work = Over([it \in r.edits |-> r.data[it]], p.work)
           \/ /\ x = p /\ ~("reload" \in After(r) /\ Scr(r.inst).load # "async")
              /\ After(r) \cap {"sent", "working", "shown"} = {}
<1>0. TypeInv
  BY DEF BaseInv
<1>1. PICK op : /\ op \in Ops(Scr(r.inst)) /\ op.carries = r.carries /\ op.ok = r.ok /\ op.bad = r.bad
  BY DEF JobFits
<1>2. After(r) \subseteq op.ok \cup op.bad
  BY <1>1 DEF After
<1>3. /\ "sent" \in After(r) => r.carries = "work"
      /\ "working" \in After(r) => r.carries = "diff"
      /\ "shown" \in After(r) => r.carries \in {"one", "fresh", "view"}
  BY <1>0, <1>1, <1>2, OpFacts
<1>4. CASE "reload" \in After(r) /\ Scr(r.inst).load # "async"
  <2>1. x = Fields(file[Obj(r.inst)], TRUE)
    BY <1>4 DEF Followed
  <2>2. x.view = file[Obj(r.inst)] /\ x.work = file[Obj(r.inst)] /\ x.set = {}
    BY <2>1 DEF Fields
  <2> QED BY <1>4, <2>2
<1>5. CASE ~("reload" \in After(r) /\ Scr(r.inst).load # "async")
  <2>1. CASE "sent" \in After(r)
    <3>1. x = [p EXCEPT !.view = r.data]
      BY <1>5, <2>1 DEF Followed
    <3> QED BY <1>3, <2>1, <3>1 DEF Panes
  <2>2. CASE "sent" \notin After(r) /\ "working" \in After(r)
    <3>1. x = [p EXCEPT !.view = p.work]
      BY <1>5, <2>2 DEF Followed
    <3> QED BY <1>3, <2>2, <3>1 DEF Panes
  <2>3. CASE "sent" \notin After(r) /\ "working" \notin After(r) /\ "shown" \in After(r)
    <3> PICK e : e = [it \in r.edits |-> r.data[it]]
      OBVIOUS
    <3>1. x = [p EXCEPT !.view = Over(e, p.view), !.work = Over(e, p.work)]
      BY <1>5, <2>3 DEF Followed
    <3>2. /\ x.view = Over(e, p.view) /\ x.work = Over(e, p.work) /\ x.set = p.set /\ x.loaded = p.loaded
      BY <3>1 DEF Panes
    <3> QED BY <1>3, <2>3, <3>2
  <2>4. CASE "sent" \notin After(r) /\ "working" \notin After(r) /\ "shown" \notin After(r)
    <3>1. x = p
      BY <1>5, <2>4 DEF Followed
    <3> QED BY <1>5, <2>4, <3>1
  <2> QED BY <2>1, <2>2, <2>3, <2>4
<1> QED BY <1>4, <1>5

\* What an operation that shows the new value does to what is shown.
LEMMA ShownFacts ==
    ASSUME NEW r \in Jobs, JobFits(r), r.pc \in {"ok", "refused", "raised"}, r.carries \in {"one", "fresh", "view"},
           NEW c \in Contents, NEW z, z = Over([it \in r.edits |-> r.data[it]], c)
    PROVE  /\ r.edits \subseteq DOMAIN r.data /\ DOMAIN z = Items
           /\ \A it \in Items : z[it] = IF it \in r.edits THEN r.data[it] ELSE c[it]
<1>1. r.edits \in SUBSET Items
  BY DEF Jobs
<1>2. r.edits \subseteq DOMAIN r.data
  <2>1. CASE r.carries = "one"
    BY <2>1 DEF JobFits, Picked
  <2>2. CASE r.carries \in {"fresh", "view"}
    BY <1>1, <2>2 DEF JobFits, Whole, Contents
  <2> QED BY <2>1, <2>2
<1> QED BY <1>1, <1>2 DEF Over

LEMMA KeepNothing == ASSUME BaseInv, SoleInv, KeepInv, NEW t \in Tasks, NothingToDo(t) PROVE KeepInv'
<1>1. PICK r, x, s, w : /\ EndStep(t, r, x, Idle, s, w) /\ r.pc = "build" /\ x = inst[r.inst]
  BY NothingEnds
<1>2. UNCHANGED <<visits, undisturbed>> /\ r = task[t] /\ r # Idle /\ r.inst \in 1..Len(inst)
  BY <1>1 DEF EndStep
<1>3. Opens' = Opens /\ (\A f : Resetting(f)' = Resetting(f))
  BY <1>2, VisitsSame
<1> SUFFICES ASSUME NEW f \in Opens, undisturbed'[f], ~Resetting(f) PROVE Keeps(f)'
  BY <1>3 DEF KeepInv
<1>4. Keeps(f) /\ Sole(f)
  BY <1>2 DEF KeepInv, SoleInv
<1>5. CASE Obj(r.inst) # f
  BY <1>1, <1>4, <1>5, KeepsElsewhere
<1>6. CASE Obj(r.inst) = f
  <2>1. r \in JobsOn(f, t)
    BY <1>2, <1>6 DEF JobsOn, JobOf
  <2>2. OpenAt(r.inst) => ScreenKeeps(f, r.inst)
    BY <1>2, <1>4, <1>6 DEF Keeps
  <2>3. EndKeeps(f, r, x, Idle)
    BY <1>1, <2>1, <2>2 DEF EndKeeps, ScreenKeeps, ViewKeeps, CopyKeeps
  <2> QED BY <1>1, <1>4, <1>6, <2>3, KeepsEnd
<1> QED BY <1>5, <1>6

LEMMA KeepReturn == ASSUME BaseInv, SoleInv, KeepInv, NEW t \in Tasks, Return(t) PROVE KeepInv'
<1>0. TypeInv
  BY DEF BaseInv
<1>1. PICK r, x, y, s, w : /\ EndStep(t, r, x, y, s, w) /\ r.pc \in {"ok", "refused", "raised"}
                           /\ x = Followed(r, inst[r.inst])
                           /\ y = Idle <=> ~("reload" \in After(r) /\ Scr(r.inst).load = "async")
  BY ReturnEnds
<1>2. /\ UNCHANGED <<visits, undisturbed>> /\ r = task[t] /\ r # Idle /\ JobFits(r) /\ r.inst \in Opens /\ r \in Jobs
      /\ r.inst \in 1..Len(inst)
  BY <1>1 DEF EndStep
<1>3. Opens' = Opens /\ (\A f : Resetting(f)' = Resetting(f))
  BY <1>2, VisitsSame
<1> SUFFICES ASSUME NEW f \in Opens, undisturbed'[f], ~Resetting(f) PROVE Keeps(f)'
  BY <1>3 DEF KeepInv
<1>4. Keeps(f) /\ Sole(f)
  BY <1>2 DEF KeepInv, SoleInv
<1>5. CASE Obj(r.inst) # f
  BY <1>1, <1>4, <1>5, KeepsElsewhere
<1>6. CASE Obj(r.inst) = f
  <2>1. r \in JobsOn(f, t)
    BY <1>2, <1>6 DEF JobsOn, JobOf
  <2>2. Fits(want[f], r.data, {}) /\ Fits(want[f], file[f], {})
    BY <1>1, <1>4, <2>1 DEF Keeps, TaskKeeps
  <2> PICK i : i = r.inst
    OBVIOUS
  <2> PICK p : p = inst[i]
    OBVIOUS
  <2>3. p \in Panes /\ i \in Opens
    BY <1>0, <1>2 DEF TypeInv
  <2>4. PICK op : op \in Ops(Scr(i)) /\ op.carries = r.carries /\ op.ok = r.ok /\ op.bad = r.bad
    BY <1>1, <1>2 DEF JobFits
  <2>5. After(r) \subseteq op.ok \cup op.bad /\ (r.pc = "ok" => After(r) = op.ok)
    BY <2>4 DEF After
  <2>6. r.carries \notin {"stage", "read"} /\ (r.carries = "side" => r.edits = {})
    BY <1>1, <1>2 DEF JobFits
  <2>7. ASSUME OpenAt(i) PROVE ScreenKeeps(f, i)
    BY <1>2, <1>4, <1>6, <2>7 DEF Keeps
  <2>8. \/ /\ "reload" \in After(r) /\ Scr(r.inst).load # "async"
           /\ x.view = file[Obj(r.inst)] /\ x.work = file[Obj(r.inst)] /\ x.set = {}
        \/ /\ "sent" \in After(r) /\ r.carries = "work" /\ x.view = r.data
           /\ x.work = p.work /\ x.set = p.set /\ x.loaded = p.loaded
        \/ /\ "working" \in After(r) /\ r.carries = "diff" /\ x.view = p.work
           /\ x.work = p.work /\ x.set = p.set /\ x.loaded = p.loaded
        \/ /\ "shown" \in After(r) /\ r.carries \in {"one", "fresh", "view"}
           /\ x.set = p.set /\ x.loaded = p.loaded
           /\ x.view = Over([it \in r.edits |-> r.data[it]], p.view)
           /\ x.work = Over([it \in r.edits |-> r.data[it]], p.work)
        \/ /\ x = p /\ ~("reload" \in After(r) /\ Scr(r.inst).load # "async")
           /\ After(r) \cap {"sent", "working", "shown"} = {}
    BY <1>1, <1>2, <2>3, FollowedFacts
  <2>9. ASSUME OpenAt(i), Has(i, {"view"}), y = Idle PROVE Fits(want[f], x.view, {})
    <3>1. /\ r.pc # "ok" => Fits(want[f], p.view, {})
          /\ r.pc = "ok" => Fits(want[f], p.view, r.edits)
      BY <1>1, <2>1, <2>7, <2>9 DEF ScreenKeeps, ViewKeeps
    <3>2. r.carries \notin Silent => r.carries # "diff" /\ op.ok \cap {"reload", "sent", "shown"} # {}
      BY <1>0, <2>3, <2>4, <2>9, KeepingFacts
    <3>3. CASE "shown" \in After(r) /\ r.carries \in {"one", "fresh", "view"}
               /\ x.view = Over([it \in r.edits |-> r.data[it]], p.view)
      <4>1. p.view \in Contents /\ DOMAIN p.view = Items
        BY <2>3 DEF Panes, Contents
      <4>2. /\ r.edits \subseteq DOMAIN r.data /\ DOMAIN x.view = Items
            /\ \A it \in Items : x.view[it] = IF it \in r.edits THEN r.data[it] ELSE p.view[it]
        BY <1>1, <1>2, <3>3, <4>1, ShownFacts
      <4>3. ASSUME NEW it \in Items PROVE want[f][it] \in {Unknown, x.view[it]}
        <5>1. CASE it \in r.edits
          BY <2>2, <4>2, <5>1 DEF Fits
        <5>2. CASE it \notin r.edits
          BY <3>1, <4>1, <4>2, <5>2 DEF Fits
        <5> QED BY <5>1, <5>2
      <4> QED BY <4>2, <4>3 DEF Fits
    <3>4. CASE /\ x = p /\ ~("reload" \in After(r) /\ Scr(r.inst).load # "async")
               /\ After(r) \cap {"sent", "working", "shown"} = {}
      <4>1. CASE r.pc # "ok"
        BY <3>1, <3>4, <4>1
      <4>2. CASE r.pc = "ok"
        <5>1. "reload" \notin op.ok
          BY <1>1, <2>5, <2>9, <3>4, <4>2
        <5>2. r.carries \in Silent
          BY <2>5, <3>2, <3>4, <4>2, <5>1
        <5>3. r.edits = {}
          BY <2>6, <5>2 DEF Silent
        <5> QED BY <3>1, <3>4, <4>2, <5>3
      <4> QED BY <4>1, <4>2
    <3>5. CASE "working" \in After(r) /\ r.carries = "diff"
      BY <3>2, <3>5 DEF Silent
    <3>6. CASE x.view = file[Obj(r.inst)] \/ x.view = r.data
      BY <1>6, <2>2, <3>6
    <3> QED BY <2>8, <3>3, <3>4, <3>5, <3>6
  <2>10. ASSUME OpenAt(i), Has(i, {"work", "now"}), x.loaded
         PROVE  Fits(want[f], x.work, x.set) /\ Fits(want[f], x.view, x.set)
    <3>1. r.carries \in {"side", "work", "now"}
      BY <1>0, <2>3, <2>4, <2>6, <2>10, KeepingFacts DEF Silent
    <3>2. p.loaded => Fits(want[f], p.work, p.set) /\ Fits(want[f], p.view, p.set)
      BY <2>7, <2>10 DEF ScreenKeeps, CopyKeeps
    <3>3. CASE x.view = file[Obj(r.inst)] /\ x.work = file[Obj(r.inst)] /\ x.set = {}
      BY <1>6, <2>2, <3>3
    <3>4. CASE x.view = r.data /\ x.work = p.work /\ x.set = p.set /\ x.loaded = p.loaded
      <4>1. Fits(want[f], r.data, p.set)
        BY <2>2 DEF Fits
      <4> QED BY <2>10, <3>2, <3>4, <4>1
    <3>5. CASE x = p
      BY <2>10, <3>2, <3>5
    <3> QED BY <2>8, <3>1, <3>3, <3>4, <3>5
  <2>11. ASSUME OpenAt(i), Has(i, {"work", "now"}), Reviewed("work") PROVE x.work = p.work /\ x.set = p.set
    <3>1. r.carries \in {"side", "work", "now"}
      BY <1>0, <2>3, <2>4, <2>6, <2>11, KeepingFacts DEF Silent
    <3>2. Has(i, {"work"})
      BY <2>11, ReviewHas
    <3>3. "reload" \notin op.ok \cup op.bad
      BY <1>0, <2>3, <2>4, <3>2, KeepingFacts
    <3> QED BY <2>5, <2>8, <3>1, <3>3
  <2>12. EndKeeps(f, r, x, y)
    BY <2>9, <2>10, <2>11 DEF EndKeeps
  <2> QED BY <1>1, <1>4, <1>6, <2>12, KeepsEnd
<1> QED BY <1>5, <1>6

LEMMA KeepBegin == ASSUME ScrInit PROVE KeepInv
<1>1. ASSUME NEW f \in Opens PROVE Keeps(f)
  <2>1. /\ want[f] = [it \in Items |-> Unknown] /\ file[f] = [it \in Items |-> 0] /\ Len(inst) = 0
    BY <1>1 DEF ScrInit
  <2>2. \A t \in Tasks : JobsOn(f, t) = {}
    BY DEF ScrInit, JobsOn, JobOf
  <2>3. Fits(want[f], file[f], {})
    BY <2>1 DEF Fits
  <2> QED BY <2>1, <2>2, <2>3 DEF Keeps
<1> QED BY <1>1 DEF KeepInv

LEMMA KeepNext == ASSUME BaseInv, SoleInv, HandInv, KeepInv, [ScrNext]_scrVars PROVE KeepInv'
<1>0. TypeInv /\ StackInv
  BY DEF BaseInv
<1>1. CASE UNCHANGED scrVars
  <2>1. Prefix(stack') /\ UNCHANGED <<visits, inst, file, task, edits, foreign, byhand, history>>
    BY <1>0, <1>1, PrefixWhole DEF scrVars, history, Prefix
  <2>2. Looks
    BY <2>1 DEF Looks
  <2> QED BY <2>2, KeepLooks
<1>2. ASSUME NEW i, UserStages(i) PROVE KeepInv'
  BY <1>2, StageEdits, KeepEdits
<1>3. CASE Undo
  BY <1>3, UndoEdits, KeepEdits
<1>4. CASE ScrNext
  BY <1>2, <1>3, <1>4, NextCases, KeepOpen, KeepBegins, KeepLooks, KeepForeign, KeepBuild, KeepNothing,
     KeepRead, KeepReply, KeepShow, KeepReturn
<1> QED BY <1>1, <1>4

LEMMA SoleBegin == ASSUME ScrInit PROVE SoleInv
<1>1. \A f, t : t \in Tasks => JobsOn(f, t) = {}
  BY DEF ScrInit, JobsOn, JobOf
<1> QED BY <1>1 DEF SoleInv, Sole

LEMMA SoleAlways == ScrSpec => []SoleInv
<1>1. ScrInit => SoleInv
  BY SoleBegin
<1>2. BaseInv /\ SoleInv /\ [ScrNext]_scrVars => SoleInv'
  BY SoleNext
<1> QED BY <1>1, <1>2, BaseAlways, PTL DEF ScrSpec

LEMMA HandAlways == ScrSpec => []HandInv
<1>1. ScrInit => HandInv
  BY DEF ScrInit, HandInv
<1>2. BaseInv /\ HandInv /\ [ScrNext]_scrVars => HandInv'
  BY HandNext
<1> QED BY <1>1, <1>2, BaseAlways, PTL DEF ScrSpec

\* Whatever the screens, and as long as they are used one save at a time, what
\* a save reported as done, and what was edited outside GeST before a save
\* began, is still there after any number of later saves.
THEOREM SavesKept == ScrSpec => []SavedKept
<1>1. ScrInit => KeepInv
  BY KeepBegin
<1>2. BaseInv /\ SoleInv /\ HandInv /\ KeepInv /\ [ScrNext]_scrVars => KeepInv'
  BY KeepNext
<1>3. ASSUME BaseInv, KeepInv PROVE SavedKept
  <2> SUFFICES ASSUME NEW f \in Opens, undisturbed[f], \A i \in Opens : Obj(i) = f => ~Resets(i),
                      NEW it \in Items
               PROVE  want[f][it] \in {Unknown, file[f][it]}
    BY DEF SavedKept
  <2>1. ~Resetting(f)
    BY DEF Resetting
  <2>2. Fits(want[f], file[f], {})
    BY <1>3, <2>1 DEF KeepInv, Keeps
  <2>3. file[f] \in Contents
    BY <1>3 DEF BaseInv, TypeInv
  <2>4. DOMAIN file[f] = Items
    BY <2>3 DEF Contents
  <2> QED BY <2>2, <2>4 DEF Fits
<1>4. BaseInv /\ KeepInv => SavedKept
  BY <1>3
<1> QED BY <1>1, <1>2, <1>4, BaseAlways, SoleAlways, HandAlways, PTL DEF ScrSpec

-----------------------------------------------------------------------------
(* A settled screen shows what is there. *)

LEMMA ShowingFacts ==
    ASSUME TypeInv, NEW i \in Opens, Scr(i).truth, NEW op \in Ops(Scr(i))
    PROVE  /\ op.bad \cap {"sent", "working"} = {}
           /\ TakesWorking(i) => /\ Scr(i).load # "async" /\ op.carries \in {"stage", "diff"}
                                 /\ "reload" \notin op.ok \cup op.bad
BY ScrFacts, ShowingAssumption DEF TakesWorking

LEMMA ShowsNow ==
    ASSUME visits' = visits, NEW i, NEW f, f = Obj(i),
           Free(f)' => inst'[i].view = file'[f],
           \A t \in Tasks : \A r \in JobsOn(f, t)' : TaskShows(i, r)',
           ReviewShows(i)'
    PROVE  Shows(i)'
<1>1. Obj(i)' = f
  BY VisitsSame
<1>2. Free(Obj(i))' => inst'[i].view = file'[Obj(i)']
  BY <1>1 DEF Free, JobsOn
<1>3. \A t \in Tasks : \A r \in JobsOn(Obj(i), t)' : TaskShows(i, r)'
  BY <1>1 DEF JobsOn
<1> QED BY <1>2, <1>3 DEF Shows

\* A step that touches neither the object nor the screen.
LEMMA ShowsSame ==
    ASSUME visits' = visits, NEW i, NEW f, f = Obj(i), Shows(i), inst'[i] = inst[i], file'[f] = file[f],
           \A t \in Tasks : JobsOn(f, t)' = JobsOn(f, t),
           ReviewShows(i) => ReviewShows(i)'
    PROVE  Shows(i)'
<1>1. Obj(i)' = f /\ TakesWorking(i)' = TakesWorking(i)
  BY VisitsSame
<1>2. Free(f)' = Free(f)
  BY DEF Free
<1>3. Free(f)' => inst'[i].view = file'[f]
  BY <1>2 DEF Shows
<1>4. ASSUME NEW t \in Tasks, NEW r \in JobsOn(f, t)' PROVE TaskShows(i, r)'
  <2>1. TaskShows(i, r)
    BY <1>4 DEF Shows
  <2> QED BY <1>1, <2>1 DEF TaskShows, Over
<1>5. ReviewShows(i)'
  BY DEF Shows
<1> QED BY <1>3, <1>4, <1>5, ShowsNow

LEMMA HonestBefore ==
    ASSUME visits' = visits, NEW i, Honest(i)', OpenAt(i), current'[Obj(i)] => current[Obj(i)],
           ~stray' => ~stray, added \subseteq added'
    PROVE  Honest(i)
<1>1. /\ Obj(i)' = Obj(i) /\ TakesWorking(i)' = TakesWorking(i) /\ KeepsRefused(i)' = KeepsRefused(i)
      /\ Scr(i)' = Scr(i)
  BY VisitsSame
<1> QED BY <1>1 DEF Honest

LEMMA HonestFacts ==
    ASSUME BaseInv, SoleInv, ShowInv, NEW i \in 1..Len(inst), Honest(i)
    PROVE  /\ OpenAt(i) /\ i \in Opens /\ Obj(i) \in Opens /\ Sole(Obj(i)) /\ Shows(i) /\ Scr(i).truth
           /\ ~KeepsRefused(i) /\ inst[i] \in Panes
           /\ \A t \in Tasks : \A r \in JobsOn(Obj(i), t) : r.inst = i
<1>0. TypeInv /\ Len(inst) \in Nat /\ Len(visits) \in Nat /\ Len(inst) <= Len(visits)
  BY ScreensAssumption DEF BaseInv, TypeInv
<1>1. i \in Opens
  BY <1>0 DEF Opens
<1>2. Obj(i) \in Opens
  BY <1>0, <1>1, ObjFacts
<1>3. Sole(Obj(i)) /\ Shows(i) /\ OpenAt(i)
  BY <1>2 DEF SoleInv, Honest, ShowInv
<1>4. inst[i] \in Panes
  BY <1>0 DEF TypeInv
<1> QED BY <1>1, <1>2, <1>3, <1>4 DEF Sole, Honest

LEMMA ShowLooks == ASSUME BaseInv, SoleInv, ShowInv, Looks PROVE ShowInv'
<1>0. TypeInv /\ StackInv
  BY DEF BaseInv
<1>1. UNCHANGED <<visits, inst, file, task, current, stray, added>>
  BY DEF Looks, history
<1> SUFFICES ASSUME NEW i \in 1..Len(inst), Honest(i)' PROVE Shows(i)'
  BY <1>1 DEF ShowInv
<1>2. OpenAt(i)'
  BY DEF Honest
<1>3. OpenAt(i) /\ (ReviewShows(i) => ReviewShows(i)')
  <2>0. TakesWorking(i)' = TakesWorking(i)
    BY <1>1, VisitsSame
  <2>1. CASE Prefix(stack')
    <3> PICK w : w = [kind |-> "help"]
      OBVIOUS
    <3>1. OpenAt(i)
      BY <1>0, <1>2, <2>1, OpenBefore
    <3>2. Reviewed("diff")' => Reviewed("diff") /\ stack'[3] = stack[3]
      BY <1>0, <2>1, ReviewBefore
    <3> QED BY <1>1, <2>0, <3>1, <3>2 DEF ReviewShows
  <2>2. ASSUME Len(stack) = 2, NEW w \in Frames, AskedFrame(w), stack' = Append(stack, w)
        PROVE  OpenAt(i) /\ (ReviewShows(i) => ReviewShows(i)')
    <3>1. w.kind # "screen" /\ OpenAt(w.inst)
      BY <2>2 DEF AskedFrame
    <3>2. OpenAt(i)
      BY <1>0, <1>2, <2>2, <3>1, PrefixWhole, OpenBefore
    <3>3. w.inst = i
      BY <3>1, <3>2, OneOpen
    <3>4. stack'[3] = w
      <4>1. 3 = Len(stack) + 1 /\ stack \in Seq(Frames)
        BY <1>0, <2>2 DEF TypeInv
      <4>2. Append(stack, w)[3] = w
        BY <4>1, AppendLast
      <4>3. stack' = Append(stack, w)
        BY <2>2
      <4> QED BY <4>2, <4>3
    <3>5. ReviewShows(i)'
      <4> SUFFICES ASSUME w.kind = "modal", w.op.carries = "diff"
                   PROVE  w.data = inst[i].work /\ \A it \in Items \ w.edits : inst[i].view[it] = inst[i].work[it]
        BY <1>1, <3>4 DEF ReviewShows, Reviewed
      <4>1. w.data = inst[i].work /\ w.edits = Staged(i)
        BY <2>2, <3>3 DEF AskedFrame, Edited
      <4> QED BY <4>1 DEF Staged
    <3> QED BY <3>2, <3>5
  <2> QED BY <2>1, <2>2 DEF Looks
<1>4. Honest(i)
  BY <1>1, <1>3, HonestBefore
<1>5. Shows(i)
  BY <1>4 DEF ShowInv
<1> PICK f : f = Obj(i)
  OBVIOUS
<1>7. \A t \in Tasks : JobsOn(f, t)' = JobsOn(f, t)
  BY <1>1, JobsSame
<1> QED BY <1>1, <1>3, <1>5, <1>7, ShowsSame

LEMMA ShowForeign == ASSUME BaseInv, SoleInv, ShowInv, NEW g \in Opens, Foreign(g) PROVE ShowInv'
<1>0. TypeInv /\ StackInv
  BY DEF BaseInv
<1>1. UNCHANGED <<visits, stack, inst, task>>
  BY <1>0, ForeignFacts
<1>2. UNCHANGED <<stray, added>>
  BY DEF Foreign
<1>3. file \in [Opens -> Contents] /\ current \in [Opens -> BOOLEAN]
  BY <1>0 DEF TypeInv
<1> SUFFICES ASSUME NEW i \in 1..Len(inst), Honest(i)' PROVE Shows(i)'
  BY <1>1 DEF ShowInv
<1> PICK f : f = Obj(i)
  OBVIOUS
<1>4. OpenAt(i) /\ current'[f]
  BY <1>1, VisitsSame DEF Honest, OpenAt, OpenIn
<1>5. f # g
  <2> SUFFICES ASSUME f = g PROVE FALSE
    OBVIOUS
  <2>1. {j \in 1..Len(inst) : IsOpen(j) /\ Obj(j) = f} = {}
    BY <1>3, <1>4 DEF Foreign
  <2>2. IsOpen(i)
    BY <1>0, <1>4, OpenIsOpen
  <2> QED BY <2>1, <2>2
<1>6. file'[f] = file[f] /\ (current'[f] => current[f])
  <2>1. f \in Opens
    <3>1. Len(inst) \in Nat /\ Len(visits) \in Nat /\ Len(inst) <= Len(visits)
      BY <1>0, ScreensAssumption DEF TypeInv
    <3>2. i \in Opens
      BY <3>1 DEF Opens
    <3> QED BY <1>0, <3>2, ObjFacts
  <2> QED BY <1>0, <1>3, <1>5, <2>1, ForeignFacts DEF Foreign
<1>7. Honest(i)
  BY <1>1, <1>2, <1>4, <1>6, HonestBefore
<1>8. Shows(i)
  BY <1>7 DEF ShowInv
<1>9. \A t \in Tasks : JobsOn(f, t)' = JobsOn(f, t)
  BY <1>1, JobsSame
<1>10. ReviewShows(i)' = ReviewShows(i)
  BY <1>1, VisitsSame DEF ReviewShows, Reviewed
<1> QED BY <1>1, <1>6, <1>8, <1>9, <1>10, ShowsSame

LEMMA ShowOpen == ASSUME BaseInv, SoleInv, ShowInv, Open PROVE ShowInv'
<1>0. TypeInv
  BY DEF BaseInv
<1>1. PICK i, f, x : OpenStep(i, f, x)
  BY OpenFacts
<1>2. /\ UNCHANGED <<visits, file>> /\ NoteOverlap(f) /\ f = Obj(i) /\ f \in Opens /\ i \in Opens
      /\ (\A j : OpenAt(j)' => j = i) /\ ~Reviewed("diff")' /\ inst'[i] = x
  BY <1>1 DEF OpenStep
<1>3. Obj(i)' = f
  BY <1>2, VisitsSame
<1> SUFFICES ASSUME NEW j \in 1..Len(inst'), Honest(j)' PROVE Shows(j)'
  BY DEF ShowInv
<1>4. j = i
  BY <1>2 DEF Honest
<1>5. current'[f]
  <2>1. current'[Obj(j)']
    BY DEF Honest
  <2> QED BY <1>3, <1>4, <2>1
<1>6. Free(f)
  BY <1>0, <1>2, <1>5, OverlapFacts
<1>7. ReviewShows(i)'
  BY <1>2 DEF ReviewShows
<1>8. CASE task' = task /\ x.view = Seen(i)
  <2>1. \A t \in Tasks : JobsOn(f, t)' = {}
    BY <1>2, <1>6, <1>8, JobsSame DEF Free
  <2>2. inst'[i].view = file'[f]
    <3>1. Scr(i).truth
      BY <1>2, <1>4, VisitsSame DEF Honest
    <3>2. Seen(i) = file[f]
      BY <1>0, <1>2, <3>1, ScrFacts, MarkedAssumption DEF Seen
    <3> QED BY <1>2, <1>8, <3>2
  <2>3. Shows(i)'
    BY <1>2, <1>7, <2>1, <2>2, ShowsNow
  <2> QED BY <1>4, <2>3
<1>9. ASSUME NEW u \in Tasks, task[u] = Idle, task' = [task EXCEPT ![u] = LoadTask(i)] PROVE Shows(j)'
  <2> PICK y : y = LoadTask(i)
    OBVIOUS
  <2>1. y.pc = "read" /\ y.carries = "read" /\ y.inst = i /\ y # Idle
    BY <1>0, <1>2, LoadTaskType DEF LoadTask, Opens
  <2>2. Obj(y.inst) = f
    BY <1>2, <2>1
  <2>3. task' = [task EXCEPT ![u] = y]
    BY <1>9
  <2>4. (\A t \in Tasks : \A q \in JobsOn(f, t)' : q = y) /\ ~Free(f)'
    BY <1>2, <1>6, <1>9, <2>1, <2>2, <2>3, BeginJobs
  <2>5. \A t \in Tasks : \A q \in JobsOn(f, t)' : q.pc = "read" /\ q.carries = "read"
    BY <2>1, <2>4
  <2>6. \A t \in Tasks : \A q \in JobsOn(f, t)' : TaskShows(i, q)'
    BY <2>5 DEF TaskShows
  <2>7. Shows(i)'
    BY <1>2, <1>7, <2>4, <2>6, ShowsNow
  <2> QED BY <1>4, <2>7
<1> QED BY <1>1, <1>8, <1>9 DEF OpenStep

LEMMA ShowEdits == ASSUME BaseInv, SoleInv, ShowInv, NEW i, NEW x, EditStep(i, x) PROVE ShowInv'
<1>0. TypeInv
  BY DEF BaseInv
<1>1. /\ UNCHANGED <<visits, file, task, current, stray>> /\ OpenAt(i) /\ i \in 1..Len(inst)
      /\ i \in Opens /\ x \in Panes /\ inst' = [inst EXCEPT ![i] = x]
      /\ Len(stack') = 2 /\ stack'[2] = stack[2] /\ x.view = inst[i].view /\ NoteAdded(i)
  BY DEF EditStep
<1>2. Len(inst') = Len(inst) /\ \A j \in 1..Len(inst) : inst'[j] = IF j = i THEN x ELSE inst[j]
  BY <1>0, <1>1, PaneSet
<1>3. (\A j : OpenAt(j)' => OpenAt(j)) /\ ~Reviewed("diff")'
  BY <1>1, ActsOpen
<1>4. added \subseteq added'
  BY <1>1 DEF NoteAdded
<1> SUFFICES ASSUME NEW j \in 1..Len(inst), Honest(j)' PROVE Shows(j)'
  BY <1>2 DEF ShowInv
<1>5. j = i
  <2>1. OpenAt(j)
    BY <1>3 DEF Honest
  <2> QED BY <1>1, <2>1, OneOpen
<1>6. Honest(i) /\ Honest(i)'
  <2>1. Honest(i)'
    BY <1>5
  <2> QED BY <1>1, <1>4, <2>1, HonestBefore
<1> PICK f : f = Obj(i)
  OBVIOUS
<1>7. Shows(i) /\ \A t \in Tasks : \A r \in JobsOn(f, t) : r.inst = i
  BY <1>1, <1>6, HonestFacts
<1>8. (\A t \in Tasks : JobsOn(f, t)' = JobsOn(f, t)) /\ Free(f)' = Free(f)
  BY <1>1, JobsSame
<1>9. inst'[i].view = inst[i].view
  BY <1>1, <1>2
<1>10. Obj(i)' = f /\ TakesWorking(i)' = TakesWorking(i)
  BY <1>1, VisitsSame
<1>11. ASSUME NEW t \in Tasks, NEW r \in JobsOn(f, t)' PROVE TaskShows(i, r)'
  <2>1. r \in JobsOn(f, t) /\ TaskShows(i, r) /\ r.inst = i
    BY <1>7, <1>8, <1>11 DEF Shows
  <2>2. r = task[t] /\ r.pc # "idle"
    BY <2>1, JobOn, JobNotIdle
  <2>3. i \in added'
    BY <1>1, <2>1, <2>2 DEF NoteAdded, Active
  <2>4. ~TakesWorking(i)
    BY <1>6, <1>10, <2>3 DEF Honest
  <2> QED BY <1>1, <1>9, <1>10, <2>1, <2>4 DEF TaskShows, Over
<1>12. Free(f)' => inst'[i].view = file'[f]
  BY <1>1, <1>7, <1>8, <1>9 DEF Shows
<1>13. ReviewShows(i)'
  BY <1>3 DEF ReviewShows
<1>14. Shows(i)'
  BY <1>1, <1>11, <1>12, <1>13, ShowsNow
<1> QED BY <1>5, <1>14

LEMMA ShowBegins ==
    ASSUME BaseInv, SoleInv, ShowInv, NEW i, NEW op, NEW E, NEW D, UserBegins(i, op, E, D) PROVE ShowInv'
<1>0. TypeInv /\ StackInv
  BY DEF BaseInv
<1>1. /\ UNCHANGED <<visits, file, inst, stray, added>> /\ OpenAt(i) /\ i \in 1..Len(inst) /\ i \in Opens
      /\ Len(stack') = 2 /\ stack'[2] = stack[2] /\ op \in Ops(Scr(i)) /\ Sends(i, op, E, D)
      /\ NoteOverlap(Obj(i)) /\ NewTask(Job(i, op, E, D))
  BY DEF UserBegins, UserActs, Begin
<1>2. (\A j : OpenAt(j)' => OpenAt(j)) /\ ~Reviewed("diff")'
  BY <1>1, ActsOpen
<1>3. PICK u \in Tasks : task[u] = Idle /\ task' = [task EXCEPT ![u] = Job(i, op, E, D)]
  BY <1>1, NewTaskFacts
<1> PICK y : y = Job(i, op, E, D)
  OBVIOUS
<1>4. /\ y # Idle /\ JobFits(y) /\ y.inst = i /\ y.edits = E /\ y.data = D /\ y.carries = op.carries
      /\ y.pc \in {"build", "call", "read"} /\ E \in SUBSET Items /\ D \in Partial
  BY <1>0, JobFacts, JobNotIdle DEF Job
<1>5. task' = [task EXCEPT ![u] = y]
  BY <1>3
<1> PICK f : f = Obj(i)
  OBVIOUS
<1>6. Obj(i)' = f /\ TakesWorking(i)' = TakesWorking(i) /\ f \in Opens
  BY <1>0, <1>1, VisitsSame, ObjFacts
<1> SUFFICES ASSUME NEW j \in 1..Len(inst), Honest(j)' PROVE Shows(j)'
  BY <1>1 DEF ShowInv
<1>7. j = i
  <2>1. OpenAt(j)
    BY <1>2 DEF Honest
  <2> QED BY <1>1, <2>1, OneOpen
<1>8. Honest(i)'
  BY <1>7
<1>9. current'[f]
  BY <1>6, <1>8 DEF Honest
<1>10. Free(f) /\ current[f]
  BY <1>0, <1>1, <1>6, <1>9, OverlapFacts
<1>11. Honest(i)
  BY <1>1, <1>8, <1>10, HonestBefore
<1>12. Shows(i) /\ Scr(i).truth /\ inst[i] \in Panes
  BY <1>1, <1>11, HonestFacts
<1>13. inst[i].view = file[f] /\ ReviewShows(i)
  BY <1>10, <1>12 DEF Shows
<1>14. inst[i].view \in Contents /\ inst[i].work \in Contents /\ DOMAIN inst[i].work = Items
       /\ DOMAIN inst[i].view = Items
  BY <1>12 DEF Panes, Contents
<1>15. (\A t \in Tasks : \A q \in JobsOn(f, t)' : q = y) /\ ~Free(f)'
  <2>1. Obj(y.inst) = f /\ visits' = visits
    BY <1>1, <1>4
  <2> QED BY <1>3, <1>4, <1>5, <1>10, <2>1, BeginJobs
<1>16. y.carries \in {"one", "fresh", "view"} => \A it \in DOMAIN D \ E : D[it] = inst[i].view[it]
  <2>1. CASE y.carries \in {"one", "fresh"}
    <3>1. PICK it \in Items, v \in Vals : E = {it} /\ D = [z \in {it} |-> v]
      BY <1>1, <1>4, <2>1 DEF Sends
    <3> QED BY <3>1
  <2>2. CASE y.carries = "view"
    <3>1. PICK it \in Items, v \in Vals : E = {it} /\ D = [inst[i].view EXCEPT ![it] = v]
      BY <1>1, <1>4, <2>2 DEF Sends
    <3> QED BY <1>14, <3>1
  <2> QED BY <2>1, <2>2
<1>17. ASSUME TakesWorking(i), y.pc = "call" PROVE Over(D, inst[i].view) = inst[i].work
  <2>1. op.carries = "diff"
    <3>1. op.carries \in {"stage", "diff"}
      BY <1>0, <1>1, <1>12, <1>17, ShowingFacts
    <3> QED BY <1>4, <3>1 DEF JobFits
  <2>2. /\ Len(stack) = 3 /\ stack[3].kind = "modal" /\ stack[3].op = op /\ E = stack[3].edits
        /\ D = [it \in E |-> stack[3].data[it]]
    BY <1>1, <2>1 DEF Sends
  <2>3. Reviewed("diff")
    BY <2>1, <2>2 DEF Reviewed
  <2>4. stack[3].data = inst[i].work /\ \A it \in Items \ E : inst[i].view[it] = inst[i].work[it]
    BY <1>13, <1>17, <2>2, <2>3 DEF ReviewShows
  <2>5. /\ Over(D, inst[i].view) \in Contents
        /\ \A it \in Items : Over(D, inst[i].view)[it] = IF it \in DOMAIN D THEN D[it] ELSE inst[i].view[it]
    BY <1>4, <1>14, OverFacts
  <2>6. \A it \in Items : Over(D, inst[i].view)[it] = inst[i].work[it]
    BY <2>2, <2>4, <2>5
  <2> QED BY <1>14, <2>5, <2>6 DEF Contents
<1>18. TaskShows(i, y)'
  <2>1. /\ inst' = inst /\ file' = file /\ y.pc \notin {"ok", "show"}
    BY <1>1, <1>4
  <2> QED BY <1>4, <1>6, <1>13, <1>16, <1>17, <2>1 DEF TaskShows, Over
<1>19. \A t \in Tasks : \A q \in JobsOn(f, t)' : TaskShows(i, q)'
  BY <1>15, <1>18
<1>20. ReviewShows(i)'
  BY <1>2 DEF ReviewShows
<1>21. Shows(i)'
  BY <1>1, <1>15, <1>19, <1>20, ShowsNow
<1> QED BY <1>7, <1>21

LEMMA StepHere ==
    ASSUME BaseInv, NEW t \in Tasks, NEW r, NEW y, Moves(t, r, y), NEW f, Obj(r.inst) = f, Sole(f)
    PROVE  /\ r \in JobsOn(f, t) /\ (y # Idle => ~Free(f)')
           /\ \A u \in Tasks : \A q \in JobsOn(f, u)' : q = y /\ y # Idle
<1>1. /\ Obj(r.inst) # f => \A u \in Tasks : JobsOn(f, u)' = JobsOn(f, u)
      /\ Obj(r.inst) = f => r \in JobsOn(f, t)
      /\ Obj(r.inst) = f /\ Sole(f) => \A u \in Tasks : \A q \in JobsOn(f, u)' : q = y /\ y # Idle
      /\ Obj(r.inst) = f /\ y # Idle => ~Free(f)'
  BY StepJobs
<1> QED BY <1>1

\* A step of a task inside its call: what must hold of its own screen.
LEMMA ShowsStep ==
    ASSUME BaseInv, SoleInv, ShowInv, NEW t \in Tasks, NEW r, NEW x, TaskStep(t, r, x),
           \A f \in Opens : current'[f] => current[f],
           \A f \in Opens : Obj(r.inst) # f => file'[f] = file[f],
           \A i \in 1..Len(inst) :
               i = r.inst /\ Honest(i) /\ current'[Obj(i)] /\ TaskShows(i, r) => TaskShows(i, x)'
    PROVE  ShowInv'
<1>1. /\ UNCHANGED <<visits, stack, inst, stray, added>> /\ r = task[t] /\ r # Idle /\ x.inst = r.inst
      /\ task' = [task EXCEPT ![t] = x] /\ x \in Jobs
  BY DEF TaskStep
<1>2. Moves(t, r, x) /\ x # Idle
  BY <1>1, JobNotIdle DEF Moves
<1> SUFFICES ASSUME NEW i \in 1..Len(inst), Honest(i)' PROVE Shows(i)'
  BY <1>1 DEF ShowInv
<1> PICK f : f = Obj(i)
  OBVIOUS
<1>3. Obj(i)' = f /\ f \in Opens
  <2>1. TypeInv /\ Len(inst) \in Nat /\ Len(visits) \in Nat /\ Len(inst) <= Len(visits)
    BY ScreensAssumption DEF BaseInv, TypeInv
  <2>2. i \in Opens
    BY <2>1 DEF Opens
  <2> QED BY <1>1, <2>1, <2>2, VisitsSame, ObjFacts
<1>4. OpenAt(i) /\ current'[f]
  BY <1>1, <1>3 DEF Honest, OpenAt, OpenIn
<1>5. Honest(i)
  BY <1>1, <1>3, <1>4, HonestBefore
<1>6. Shows(i) /\ Sole(f) /\ \A u \in Tasks : \A q \in JobsOn(f, u) : q.inst = i
  BY <1>5, HonestFacts
<1>7. ReviewShows(i)' = ReviewShows(i)
  BY <1>1, VisitsSame DEF ReviewShows, Reviewed
<1>8. CASE Obj(r.inst) # f
  <2>1. \A u \in Tasks : JobsOn(f, u)' = JobsOn(f, u)
    BY <1>2, <1>8, StepElsewhere
  <2>2. file'[f] = file[f]
    BY <1>3, <1>8
  <2> QED BY <1>1, <1>6, <1>7, <2>1, <2>2, ShowsSame
<1>9. CASE Obj(r.inst) = f
  <2>1. r \in JobsOn(f, t) /\ ~Free(f)' /\ \A u \in Tasks : \A q \in JobsOn(f, u)' : q = x
    BY <1>2, <1>6, <1>9, StepHere
  <2>2. r.inst = i /\ TaskShows(i, r)
    BY <1>6, <1>9, <2>1 DEF Shows
  <2>3. TaskShows(i, x)'
    BY <1>4, <1>5, <2>2
  <2>4. (\A u \in Tasks : \A q \in JobsOn(f, u)' : TaskShows(i, q)') /\ ~Free(f)'
    BY <1>2, <1>6, <1>9, <2>1, <2>3
  <2>5. ReviewShows(i)'
    BY <1>6, <1>7 DEF Shows
  <2> QED BY <1>1, <2>4, <2>5, ShowsNow
<1> QED BY <1>8, <1>9

\* The tasks of a screen that takes over its staged copy.
LEMMA WorkingJob ==
    ASSUME BaseInv, NEW r, JobFits(r), r.inst \in Opens, Scr(r.inst).truth, TakesWorking(r.inst)
    PROVE  r.carries = "diff" /\ "reload" \notin After(r)
<1>0. TypeInv
  BY DEF BaseInv
<1>1. PICK o \in Ops(Scr(r.inst)) : "working" \in o.ok
  BY DEF TakesWorking
<1>2. Scr(r.inst).load # "async"
  BY <1>0, ShowingFacts
<1>3. PICK op : op \in Ops(Scr(r.inst)) /\ op.carries = r.carries /\ op.ok = r.ok /\ op.bad = r.bad
  BY <1>2 DEF JobFits
<1>4. op.carries \in {"stage", "diff"} /\ "reload" \notin op.ok \cup op.bad
  BY <1>0, <1>3, ShowingFacts
<1> QED BY <1>3, <1>4 DEF JobFits, After

LEMMA ShowBuild == ASSUME BaseInv, SoleInv, ShowInv, NEW t \in Tasks, Build(t) PROVE ShowInv'
<1>0. TypeInv
  BY DEF BaseInv
<1>1. PICK r, x :
             /\ TaskStep(t, r, x) /\ UNCHANGED <<file, want, current>>
             /\ r.pc = "build" /\ r.carries \in {"fresh", "now"} /\ x.pc = "call" /\ x.carries = r.carries
             /\ r.carries = "now" => x.data = inst[r.inst].work /\ x.edits = inst[r.inst].set
             /\ r.carries # "now" => x.data = Over(r.data, file[Obj(r.inst)]) /\ x.edits = r.edits
  BY BuildStep
<1>2. /\ UNCHANGED <<visits, inst>> /\ r \in Jobs /\ JobFits(r) /\ r.inst \in Opens
  BY <1>1 DEF TaskStep
<1>3. ASSUME NEW i \in 1..Len(inst), i = r.inst, Honest(i), TaskShows(i, r) PROVE TaskShows(i, x)'
  <2> PICK f : f = Obj(i)
    OBVIOUS
  <2>1. Obj(i)' = f /\ TakesWorking(i)' = TakesWorking(i) /\ f \in Opens
    BY <1>0, <1>2, <1>3, VisitsSame, ObjFacts
  <2>2. inst[i].view = file[f] /\ file[f] \in Contents
    BY <1>0, <1>1, <1>3, <2>1 DEF TaskShows, TypeInv
  <2>3. ~TakesWorking(i)
    BY <1>1, <1>2, <1>3, WorkingJob DEF Honest
  <2>4. r.carries = "fresh" => \A it \in DOMAIN x.data \ x.edits : x.data[it] = inst[i].view[it]
    <3> SUFFICES ASSUME r.carries = "fresh" PROVE \A it \in DOMAIN x.data \ x.edits : x.data[it] = inst[i].view[it]
      OBVIOUS
    <3>1. x.data = Over(r.data, file[f]) /\ x.edits = r.edits /\ DOMAIN r.data = r.edits
      BY <1>1, <1>2, <1>3 DEF JobFits, Picked
    <3>2. r.data \in Partial
      BY <1>2 DEF Jobs
    <3>3. /\ x.data \in Contents
          /\ \A it \in Items : x.data[it] = IF it \in DOMAIN r.data THEN r.data[it] ELSE file[f][it]
      BY <2>2, <3>1, <3>2, OverFacts
    <3>4. DOMAIN x.data = Items
      BY <3>3 DEF Contents
    <3> QED BY <2>2, <3>1, <3>3, <3>4
  <2> QED BY <1>1, <1>2, <2>1, <2>2, <2>3, <2>4 DEF TaskShows
<1> QED BY <1>1, <1>3, ShowsStep

LEMMA ShowRead == ASSUME BaseInv, SoleInv, ShowInv, NEW t \in Tasks, Read(t) PROVE ShowInv'
<1>1. PICK r, x :
             /\ TaskStep(t, r, x) /\ UNCHANGED <<file, want, current>>
             /\ r.pc = "read" /\ x.pc = "show" /\ x.edits = r.edits /\ x.carries = r.carries
             /\ x.data = file[Obj(r.inst)]
  BY ReadStep
<1>2. visits' = visits
  BY <1>1 DEF TaskStep
<1>3. ASSUME NEW i, i = r.inst PROVE TaskShows(i, x)'
  <2>1. Obj(i)' = Obj(i)
    BY <1>2, VisitsSame
  <2>2. x.data = file'[Obj(i)']
    BY <1>1, <1>3, <2>1
  <2> QED BY <1>1, <2>2 DEF TaskShows
<1> QED BY <1>1, <1>3, ShowsStep

LEMMA ShowReply == ASSUME BaseInv, SoleInv, ShowInv, NEW t \in Tasks, Reply(t) PROVE ShowInv'
<1>0. TypeInv
  BY DEF BaseInv
<1>1. PICK r, x, f :
             /\ TaskStep(t, r, x) /\ f = Obj(r.inst) /\ f \in Opens
             /\ r.pc = "call" /\ x.pc \in {"ok", "refused", "raised"}
             /\ x.data = r.data /\ x.edits = r.edits /\ x.carries = r.carries /\ x.ok = r.ok
             /\ Replied(f, r, x)
  BY ReplyStep
<1>2. /\ UNCHANGED <<visits, inst>> /\ r \in Jobs /\ JobFits(r)
  BY <1>1 DEF TaskStep
<1>3. file \in [Opens -> Contents] /\ current \in [Opens -> BOOLEAN]
  BY <1>0 DEF TypeInv
<1>4. \A g \in Opens : current'[g] => current[g]
  <2>1. \/ current' = [current EXCEPT ![f] = @ /\ ~Leaves(r)]
        \/ current' = [current EXCEPT ![f] = @ /\ file' = file]
    BY <1>1 DEF Replied
  <2> QED BY <1>1, <1>3, <2>1
<1>5. \A g \in Opens : Obj(r.inst) # g => file'[g] = file[g]
  BY <1>1, <1>3 DEF Replied
<1>6. ASSUME NEW i \in 1..Len(inst), i = r.inst, Honest(i), current'[Obj(i)], TaskShows(i, r) PROVE TaskShows(i, x)'
  <2>1. Obj(i)' = f /\ TakesWorking(i)' = TakesWorking(i)
    BY <1>1, <1>2, <1>6, VisitsSame
  <2>2. inst[i].view = file[f]
    BY <1>1, <1>6 DEF TaskShows
  <2>3. x.pc \in {"refused", "raised"} => inst[i].view = file'[f]
    <3> SUFFICES ASSUME x.pc # "ok" PROVE file' = file
      BY <2>2
    <3> QED BY <1>1, <1>3, <1>6 DEF Replied
  <2>4. x.pc = "ok" => file'[f] = IF x.carries = "side" THEN inst[i].view ELSE Over(x.data, inst[i].view)
    BY <1>1, <1>3, <2>2 DEF Replied
  <2>5. /\ r.carries \in {"one", "fresh", "view"} => \A it \in DOMAIN r.data \ r.edits : r.data[it] = inst[i].view[it]
        /\ TakesWorking(i) => Over(r.data, inst[i].view) = inst[i].work
    BY <1>1, <1>6 DEF TaskShows
  <2>6. TakesWorking(i)' => (Over(x.data, inst[i].view) = inst[i].work)'
    BY <1>1, <1>2, <2>1, <2>5 DEF Over
  <2>7. x.pc = "ok" => file'[f] = IF x.carries = "side" THEN inst'[i].view ELSE Over(x.data, inst[i].view)'
    BY <1>2, <2>4 DEF Over
  <2>8. x.pc = "ok" => ~Leaves(x)
    <3> SUFFICES ASSUME x.pc = "ok" PROVE ~Leaves(x)
      OBVIOUS
    <3>1. ~Leaves(r)
      BY <1>1, <1>3, <1>6 DEF Replied
    <3> QED BY <1>1, <3>1 DEF Leaves
  <2> QED BY <1>1, <1>2, <2>1, <2>3, <2>5, <2>6, <2>7, <2>8 DEF TaskShows, Leaves
<1> QED BY <1>1, <1>4, <1>5, <1>6, ShowsStep

\* What must hold of the fields of the screen whose call or load ends.
EndShows(i, r, x, y) ==
    /\ y = Idle => x.view = file[Obj(i)]
    /\ TakesWorking(i) => x.work = inst[i].work /\ x.view \in {inst[i].work, inst[i].view}

LEMMA ShowsEnd ==
    ASSUME BaseInv, SoleInv, ShowInv, NEW t \in Tasks, NEW r, NEW x, NEW y, NEW s, NEW w,
           EndStep(t, r, x, y, s, w), ~stray' => ~stray,
           \A i \in 1..Len(inst) :
               i = r.inst /\ Honest(i) /\ OpenAt(i)' /\ ~stray' /\ TaskShows(i, r) => EndShows(i, r, x, y)
    PROVE  ShowInv'
<1>1. /\ Moves(t, r, y) /\ Len(inst') = Len(inst)
      /\ \A j \in 1..Len(inst) : inst'[j] = IF j = r.inst THEN x ELSE inst[j]
      /\ \A j : OpenAt(j)' => OpenAt(j)
      /\ \A kind : Reviewed(kind)' => Reviewed(kind) /\ stack'[3] = stack[3]
  BY EndFacts
<1>2. UNCHANGED <<visits, file, current, added>> /\ y \in {Idle, LoadTask(r.inst)}
  BY DEF EndStep
<1> SUFFICES ASSUME NEW i \in 1..Len(inst), Honest(i)' PROVE Shows(i)'
  BY <1>1 DEF ShowInv
<1> PICK f : f = Obj(i)
  OBVIOUS
<1>3. OpenAt(i) /\ OpenAt(i)' /\ ~stray'
  BY <1>1 DEF Honest
<1>4. Honest(i)
  BY <1>2, <1>3, HonestBefore
<1>5. Shows(i) /\ Sole(f) /\ \A u \in Tasks : \A q \in JobsOn(f, u) : q.inst = i
  BY <1>4, HonestFacts
<1>6. Reviewed("diff")' => Reviewed("diff") /\ stack'[3] = stack[3]
  BY <1>1
<1>7. TakesWorking(i)' = TakesWorking(i)
  BY <1>2, VisitsSame
<1>8. CASE Obj(r.inst) # f
  <2>1. \A u \in Tasks : JobsOn(f, u)' = JobsOn(f, u)
    BY <1>1, <1>8, StepElsewhere
  <2>2. inst'[i] = inst[i] /\ file'[f] = file[f]
    BY <1>1, <1>2, <1>8
  <2>3. ReviewShows(i) => ReviewShows(i)'
    BY <1>6, <1>7, <2>2 DEF ReviewShows
  <2> QED BY <1>2, <1>5, <2>1, <2>2, <2>3, ShowsSame
<1>9. CASE Obj(r.inst) = f
  <2>1. Moves(t, r, y)
    BY <1>1
  <2>2. /\ r \in JobsOn(f, t) /\ (y # Idle => ~Free(f)')
        /\ \A u \in Tasks : \A q \in JobsOn(f, u)' : q = y /\ y # Idle
    BY <1>5, <1>9, <2>1, StepHere
  <2>3. r.inst = i /\ TaskShows(i, r)
    BY <1>5, <2>2 DEF Shows
  <2>4. EndShows(i, r, x, y)
    BY <1>3, <1>4, <2>3
  <2>5. inst'[i] = x
    BY <1>1, <2>3
  <2>6. Free(f)' => inst'[i].view = file'[f]
    BY <1>2, <2>2, <2>4, <2>5 DEF EndShows
  <2>7. ASSUME NEW u \in Tasks, NEW q \in JobsOn(f, u)' PROVE TaskShows(i, q)'
    <3>1. q = LoadTask(r.inst)
      BY <1>2, <2>2, <2>7
    <3>2. q.pc = "read" /\ q.carries = "read"
      BY <3>1 DEF LoadTask
    <3> QED BY <3>2 DEF TaskShows
  <2>8. ReviewShows(i)'
    <3> SUFFICES ASSUME TakesWorking(i), Reviewed("diff")'
                 PROVE  /\ stack'[3].data = x.work
                        /\ \A it \in Items \ stack'[3].edits : x.view[it] = x.work[it]
      BY <1>7, <2>5 DEF ReviewShows
    <3>1. Reviewed("diff") /\ stack'[3] = stack[3]
      BY <1>6
    <3>2. x.work = inst[i].work /\ x.view \in {inst[i].work, inst[i].view}
      BY <2>4 DEF EndShows
    <3>3. ReviewShows(i)
      BY <1>5 DEF Shows
    <3> QED BY <3>1, <3>2, <3>3 DEF ReviewShows
  <2> QED BY <1>2, <2>6, <2>7, <2>8, ShowsNow
<1> QED BY <1>8, <1>9

LEMMA ShowShow == ASSUME BaseInv, SoleInv, ShowInv, NEW t \in Tasks, Show(t) PROVE ShowInv'
<1>1. PICK r, x, s, w : /\ EndStep(t, r, x, Idle, s, w) /\ r.pc = "show" /\ r.data \in Contents
                        /\ x = Fields(r.data, TRUE) /\ stray' = stray
  BY ShowEnds
<1>2. JobFits(r) /\ r.inst \in Opens
  BY <1>1 DEF EndStep
<1>3. ASSUME NEW i \in 1..Len(inst), i = r.inst, Honest(i), TaskShows(i, r) PROVE EndShows(i, r, x, Idle)
  <2>1. r.data = file[Obj(i)]
    BY <1>1, <1>3 DEF TaskShows
  <2>2. x.view = r.data
    BY <1>1 DEF Fields
  <2>3. r.carries = "read"
    BY <1>1, <1>2 DEF JobFits
  <2>4. ~TakesWorking(i)
    BY <1>2, <1>3, <2>3, WorkingJob DEF Honest
  <2> QED BY <2>1, <2>2, <2>4 DEF EndShows
<1> QED BY <1>1, <1>3, ShowsEnd

LEMMA ShowNothing == ASSUME BaseInv, SoleInv, ShowInv, NEW t \in Tasks, NothingToDo(t) PROVE ShowInv'
<1>1. PICK r, x, s, w : /\ EndStep(t, r, x, Idle, s, w) /\ r.pc = "build" /\ x = inst[r.inst] /\ stray' = stray
  BY NothingEnds
<1>2. ASSUME NEW i \in 1..Len(inst), i = r.inst, TaskShows(i, r) PROVE EndShows(i, r, x, Idle)
  BY <1>1, <1>2 DEF TaskShows, EndShows
<1> QED BY <1>1, <1>2, ShowsEnd

LEMMA AppendTwo == ASSUME NEW S, NEW s \in Seq(S), Len(s) = 1, NEW w PROVE Append(s, w)[2] = w
<1>1. \A n \in Nat : n = Len(s) + 1 => Append(s, w)[n] = w
  BY AppendLast
<1>2. Len(s) + 1 = 2
  OBVIOUS
<1> QED BY <1>1, <1>2

LEMMA NoneOpen ==
    ASSUME NEW p \in Seq(Frames), Len(p) = 1, NEW w, w.kind = "result", stack' = p \/ stack' = Append(p, w), NEW i
    PROVE  ~OpenAt(i)'
<1> SUFFICES ASSUME OpenIn(stack', i) PROVE FALSE
  BY DEF OpenAt
<1>1. Len(stack') >= 2 /\ stack'[2].kind = "screen"
  BY DEF OpenIn
<1>2. stack' # p
  BY <1>1
<1>4. Append(p, w)[2] = w
  BY AppendTwo
<1> QED BY <1>1, <1>2, <1>4

\* A task that pops its own screen leaves it.
LEMMA PopLeaves ==
    ASSUME BaseInv, NEW t \in Tasks, Return(t), "pop" \in After(task[t]), ~stray', NEW i
    PROVE  ~OpenAt(i)'
<1>0. TypeInv /\ StackInv
  BY DEF BaseInv
<1>1. Top.kind = "screen" /\ Top.inst = task[t].inst
  BY DEF Return
<1>2. Len(stack) = 2 /\ stack \in Seq(Frames)
  BY <1>0, <1>1, TopScreen DEF TypeInv
<1> PICK w : w = [kind |-> "result", inst |-> task[t].inst]
  OBVIOUS
<1> PICK p : p = Popped(stack)
  OBVIOUS
<1>3. Len(p) = 1 /\ p \in Seq(Frames) /\ w.kind = "result"
  BY <1>2 DEF Popped
<1>4. stack' = p \/ stack' = Append(p, w)
  BY DEF Return
<1> QED BY <1>3, <1>4, NoneOpen

LEMMA ShowReturn == ASSUME BaseInv, SoleInv, ShowInv, NEW t \in Tasks, Return(t) PROVE ShowInv'
<1>0. TypeInv
  BY DEF BaseInv
<1>1. PICK r, x, y, s, w : /\ EndStep(t, r, x, y, s, w) /\ r.pc \in {"ok", "refused", "raised"}
                           /\ x = Followed(r, inst[r.inst])
                           /\ y = Idle <=> ~("reload" \in After(r) /\ Scr(r.inst).load = "async")
  BY ReturnEnds
<1>2. r = task[t] /\ JobFits(r) /\ r.inst \in Opens /\ r \in Jobs /\ r.inst \in 1..Len(inst)
  BY <1>1 DEF EndStep
<1>3. ~stray' => ~stray
  BY DEF Return
<1>4. ASSUME NEW i \in 1..Len(inst), i = r.inst, Honest(i), OpenAt(i)', ~stray', TaskShows(i, r)
      PROVE  EndShows(i, r, x, y)
  <2>0. Scr(i).truth /\ i \in Opens /\ ~KeepsRefused(i)
    BY <1>2, <1>4 DEF Honest
  <2>1. "pop" \notin After(r)
    BY <1>2, <1>4, PopLeaves
  <2> PICK p : p = inst[i]
    OBVIOUS
  <2> PICK c : c = file[Obj(i)]
    OBVIOUS
  <2>2. p \in Panes /\ p.view \in Contents /\ DOMAIN p.view = Items
    <3>1. p \in Panes
      BY <1>0, <1>4 DEF TypeInv
    <3> QED BY <3>1 DEF Panes, Contents
  <2>3. c \in Contents /\ DOMAIN c = Items
    <3>1. Obj(i) \in Opens
      BY <1>0, <2>0, ObjFacts
    <3>2. c \in Contents
      BY <1>0, <3>1 DEF TypeInv
    <3> QED BY <3>2 DEF Contents
  <2>4. PICK op : op \in Ops(Scr(i)) /\ op.carries = r.carries /\ op.ok = r.ok /\ op.bad = r.bad
    BY <1>1, <1>2, <1>4 DEF JobFits
  <2>5. /\ r.pc = "ok" => After(r) = op.ok
        /\ r.pc # "ok" => After(r) \subseteq op.bad
    BY <2>4 DEF After
  <2>6. /\ r.pc = "ok" => ~Leaves(r)
        /\ op.bad \cap {"sent", "working"} = {}
    BY <1>0, <1>4, <2>0, <2>4, ShowingFacts DEF TaskShows
  <2>7. r.pc # "ok" => After(r) \cap {"sent", "working", "shown"} = {}
    BY <2>0, <2>4, <2>5, <2>6 DEF KeepsRefused
  <2>8. /\ r.pc # "ok" => p.view = c
        /\ r.pc = "ok" => c = IF r.carries = "side" THEN p.view ELSE Over(r.data, p.view)
        /\ r.carries \in {"one", "fresh", "view"} /\ r.pc = "ok" =>
             \A it \in DOMAIN r.data \ r.edits : r.data[it] = p.view[it]
        /\ TakesWorking(i) /\ r.pc = "ok" => Over(r.data, p.view) = p.work
    BY <1>1, <1>4 DEF TaskShows
  <2>9. \/ /\ "reload" \in After(r) /\ Scr(r.inst).load # "async"
           /\ x.view = file[Obj(r.inst)] /\ x.work = file[Obj(r.inst)] /\ x.set = {}
        \/ /\ "sent" \in After(r) /\ r.carries = "work" /\ x.view = r.data
           /\ x.work = p.work /\ x.set = p.set /\ x.loaded = p.loaded
        \/ /\ "working" \in After(r) /\ r.carries = "diff" /\ x.view = p.work
           /\ x.work = p.work /\ x.set = p.set /\ x.loaded = p.loaded
        \/ /\ "shown" \in After(r) /\ r.carries \in {"one", "fresh", "view"}
           /\ x.set = p.set /\ x.loaded = p.loaded
           /\ x.view = Over([it \in r.edits |-> r.data[it]], p.view)
           /\ x.work = Over([it \in r.edits |-> r.data[it]], p.work)
        \/ /\ x = p /\ ~("reload" \in After(r) /\ Scr(r.inst).load # "async")
           /\ After(r) \cap {"sent", "working", "shown"} = {}
    BY <1>1, <1>2, <1>4, <2>2, FollowedFacts
  <2>10. ASSUME TakesWorking(i) PROVE x.work = p.work /\ x.view \in {p.work, p.view}
    <3>1. r.carries = "diff" /\ "reload" \notin After(r)
      BY <1>2, <1>4, <2>0, <2>10, WorkingJob
    <3> QED BY <2>9, <3>1
  <2>11. r.data \in Partial
    BY <1>2 DEF Jobs
  <2>12. /\ Over(r.data, p.view) \in Contents
         /\ \A it \in Items : Over(r.data, p.view)[it] = IF it \in DOMAIN r.data THEN r.data[it] ELSE p.view[it]
    BY <2>2, <2>11, OverFacts
  <2>13. ASSUME y = Idle PROVE x.view = c
    <3>1. CASE "sent" \in After(r) /\ r.carries = "work" /\ x.view = r.data
      <4>1. r.pc = "ok" /\ r.data \in Contents
        BY <1>2, <2>7, <3>1 DEF JobFits, Whole
      <4>2. c = Over(r.data, p.view) /\ DOMAIN r.data = Items
        BY <2>8, <3>1, <4>1 DEF Contents
      <4>3. \A it \in Items : c[it] = r.data[it]
        BY <2>12, <4>2
      <4> QED BY <2>3, <3>1, <4>1, <4>3 DEF Contents
    <3>2. CASE "working" \in After(r) /\ r.carries = "diff" /\ x.view = p.work
      <4>1. r.pc = "ok"
        BY <2>7, <3>2
      <4>2. TakesWorking(i)
        BY <2>4, <2>5, <3>2, <4>1 DEF TakesWorking
      <4> QED BY <2>8, <3>2, <4>1, <4>2
    <3>3. CASE "shown" \in After(r) /\ r.carries \in {"one", "fresh", "view"}
               /\ x.view = Over([it \in r.edits |-> r.data[it]], p.view)
      <4>1. r.pc = "ok"
        BY <2>7, <3>3
      <4>2. /\ r.edits \subseteq DOMAIN r.data /\ DOMAIN x.view = Items
            /\ \A it \in Items : x.view[it] = IF it \in r.edits THEN r.data[it] ELSE p.view[it]
        BY <1>1, <1>2, <2>2, <3>3, ShownFacts
      <4>3. c = Over(r.data, p.view)
        BY <2>8, <3>3, <4>1
      <4>4. ASSUME NEW it \in Items PROVE c[it] = x.view[it]
        <5>1. CASE it \in r.edits
          BY <2>12, <4>2, <4>3, <5>1
        <5>2. CASE it \in DOMAIN r.data \ r.edits
          BY <2>8, <2>12, <3>3, <4>1, <4>2, <4>3, <5>2
        <5>3. CASE it \notin DOMAIN r.data
          BY <2>12, <4>2, <4>3, <5>3
        <5> QED BY <5>1, <5>2, <5>3
      <4>5. c = [it \in Items |-> c[it]] /\ x.view = [it \in Items |-> x.view[it]]
        <5>1. c = [it \in Items |-> c[it]]
          BY <2>3 DEF Contents
        <5>2. x.view = [it \in Items |-> x.view[it]]
          BY <3>3 DEF Over
        <5> QED BY <5>1, <5>2
      <4> QED BY <4>4, <4>5
    <3>4. CASE x = p /\ ~("reload" \in After(r) /\ Scr(r.inst).load # "async")
               /\ After(r) \cap {"sent", "working", "shown"} = {}
      <4>1. CASE r.pc # "ok"
        BY <2>8, <3>4, <4>1
      <4>2. CASE r.pc = "ok"
        <5>1. op.ok \cap {"reload", "sent", "working", "shown", "pop"} = {}
          BY <1>1, <2>1, <2>5, <2>13, <3>4, <4>2
        <5>2. r.carries \in Silent
          BY <2>4, <2>6, <4>2, <5>1 DEF Leaves
        <5>3. r.carries = "side"
          BY <1>2, <4>2, <5>2 DEF JobFits, Silent
        <5> QED BY <2>8, <3>4, <4>2, <5>3
      <4> QED BY <4>1, <4>2
    <3>5. CASE x.view = file[Obj(r.inst)]
      BY <1>4, <3>5
    <3> QED BY <2>9, <3>1, <3>2, <3>3, <3>4, <3>5
  <2> QED BY <2>10, <2>13 DEF EndShows
<1> QED BY <1>1, <1>3, <1>4, ShowsEnd

LEMMA ShowNext == ASSUME BaseInv, SoleInv, ShowInv, [ScrNext]_scrVars PROVE ShowInv'
<1>0. TypeInv /\ StackInv
  BY DEF BaseInv
<1>1. CASE UNCHANGED scrVars
  <2>1. Prefix(stack') /\ UNCHANGED <<visits, inst, file, task, edits, foreign, byhand, history>>
    BY <1>0, <1>1, PrefixWhole DEF scrVars, history, Prefix
  <2>2. Looks
    BY <2>1 DEF Looks
  <2> QED BY <2>2, ShowLooks
<1>2. ASSUME NEW i, UserStages(i) PROVE ShowInv'
  BY <1>2, StageEdits, ShowEdits
<1>3. CASE Undo
  BY <1>3, UndoEdits, ShowEdits
<1>4. CASE ScrNext
  BY <1>2, <1>3, <1>4, NextCases, ShowOpen, ShowBegins, ShowLooks, ShowForeign, ShowBuild, ShowNothing,
     ShowRead, ShowReply, ShowShow, ShowReturn
<1> QED BY <1>1, <1>4

LEMMA WellFormed == ASSUME BaseInv PROVE ScrTypeOK
<1>0. TypeInv /\ StackInv /\ StackFits(stack, Len(inst)) /\ stack \in Seq(Frames) /\ Len(stack) \in Nat
  BY DEF BaseInv, StackInv, TypeInv
<1>1. Len(stack) >= 1 /\ stack[1] = Root /\ \A k \in 2..Len(stack) : stack[k].inst \in 1..Len(inst)
  BY <1>0 DEF StackFits, FrameFits
<1>2. ASSUME NEW k \in 1..Len(stack), stack[k].kind = "screen" PROVE k = 2
  <2>1. k # 1
    BY <1>1, <1>2 DEF Root
  <2>2. k \in 2..Len(stack)
    BY <1>0, <2>1
  <2> QED BY <1>0, <1>2, <2>2 DEF StackFits, FrameFits
<1>3. ASSUME NEW i \in 1..Len(inst) PROVE inst[i].view \in Contents /\ inst[i].work \in Contents
  <2>1. inst[i] \in Panes
    BY <1>0 DEF TypeInv
  <2> QED BY <2>1 DEF Panes
<1>4. TaskRecords \subseteq {"idle", "build", "call", "ok", "refused", "raised", "read", "show"}
  <2> SUFFICES ASSUME NEW t \in Tasks
               PROVE  task[t].pc \in {"idle", "build", "call", "ok", "refused", "raised", "read", "show"}
    BY DEF TaskRecords
  <2>1. task[t] \in {Idle} \cup Jobs
    BY <1>0 DEF TypeInv
  <2> QED BY <2>1 DEF Idle, Jobs, Phases
<1>5. file \in [Opens -> Contents] /\ edits \in 0..MaxEdits /\ foreign \in 0..MaxForeign
  BY <1>0 DEF TypeInv
<1> QED BY <1>1, <1>2, <1>3, <1>4, <1>5 DEF ScrTypeOK

LEMMA ShowBegin == ASSUME ScrInit PROVE ShowInv
BY DEF ScrInit, ShowInv

\* Whatever the screens, their state is well formed, and one that is open,
\* loaded and has no call under way shows what is really there.
THEOREM ScreensTrue == ScrSpec => []ScreensInv
<1>1. ScrInit => ShowInv
  BY ShowBegin
<1>2. BaseInv /\ SoleInv /\ ShowInv /\ [ScrNext]_scrVars => ShowInv'
  BY ShowNext
<1>3. ASSUME BaseInv, ShowInv PROVE ScreensInv
  <2>1. TypeInv /\ StackInv
    BY <1>3 DEF BaseInv
  <2>2. ASSUME NEW i \in 1..Len(inst), Settled(i), i \in added => ~TakesWorking(i)
        PROVE  inst[i].view = file[Obj(i)]
    <3>1. OpenAt(i)
      BY <2>1, <2>2, OpenIsOpen DEF Settled
    <3>2. Honest(i)
      BY <2>2, <3>1 DEF Settled, Honest
    <3>3. Free(Obj(i))
      BY <2>1, <2>2, OnFree DEF Settled
    <3> QED BY <1>3, <3>2, <3>3 DEF ShowInv, Shows
  <2> QED BY <1>3, <2>2, WellFormed DEF ScreensInv, ShownIsTrue
<1>4. BaseInv /\ ShowInv => ScreensInv
  BY <1>3
<1> QED BY <1>1, <1>2, <1>4, BaseAlways, SoleAlways, PTL DEF ScrSpec

=============================================================================
