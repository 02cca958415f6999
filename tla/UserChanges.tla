----------------------------- MODULE UserChanges -----------------------------
(***************************************************************************)
(* Users & Groups: changes are staged (gest/core/users/pending.py) and      *)
(* replayed against the backend when the user says OK                       *)
(* (gest/tui/screens/users.py).  The screen, its dialogues, the lists it    *)
(* loads and the replay run as tasks of one asyncio loop.                   *)
(***************************************************************************)
EXTENDS Naturals, Sequences, FiniteSets, SequencesExt

CONSTANTS Users, Groups,   \* the names in play
          MaxStages,       \* changes staged in a behaviour
          MaxApplies,      \* times OK or Save is chosen
          MaxFaults        \* backend calls and connections that fail by themselves

ASSUME UsersAssumption == {MaxStages, MaxApplies, MaxFaults} \subseteq Nat

VARIABLES accounts,        \* /etc/passwd, /etc/group, /etc/shadow, useradd -D
          pending,         \* PendingChanges._ops
          uview,           \* the tab
          rows,            \* _order, and the tab it was read for
          loads,           \* _load tasks under way, by tab
          ustack,          \* what is above the main menu
          apply,           \* the _apply tasks
          stages, faults,
          \* history, for the properties only
          meanwhile,       \* operations staged while an _apply was under way
          raced            \* loads of both tabs were under way together

userVars == <<accounts, pending, uview, rows, loads, ustack, apply, stages,
              faults, meanwhile, raced>>

Order == <<"add_group", "add_user", "mod_user", "set_member", "set_password",
           "set_defaults", "del_user", "del_group">>
Kinds == ToSet(Order)
UserKinds == {"add_user", "mod_user", "del_user", "set_password"}
Tabs == {"users", "groups", "defaults", "auth"}
EditTabs == {"users", "groups", "defaults"}
NoName == "none"

\* An operation: user and group name what it touches, groups are the form's
\* extra groups, add tells the two directions of set_member.
UserOp(k, u, gs) == [kind |-> k, user |-> u, group |-> NoName, groups |-> gs, add |-> TRUE]
GroupOp(k, g) == [kind |-> k, user |-> NoName, group |-> g, groups |-> {}, add |-> TRUE]
MemberOp(g, u, a) == [kind |-> "set_member", user |-> u, group |-> g, groups |-> {}, add |-> a]
DefaultsOp == GroupOp("set_defaults", NoName)

-----------------------------------------------------------------------------
(* PendingChanges *)

\* The operations of ops that are in K, in their order.
Keep(ops, K) ==
    FlattenSeq([i \in 1..Len(ops) |-> IF ops[i] \in K THEN <<ops[i]>> ELSE <<>>])
SameKey(o, op) == o.kind = op.kind /\ o.user = op.user /\ o.group = op.group
\* Mutant: nothing is replaced.
Stage_appends(op) == Append(pending, op)
Stage(op) == Append(Keep(pending, {o \in ToSet(pending) : ~SameKey(o, op)}), op)
TouchesUser(o, u) == o.kind \in UserKinds \cup {"set_member"} /\ o.user = u
TouchesGroup(o, g) == o.kind \in {"add_group", "del_group", "set_member"} /\ o.group = g
Without(Touches(_, _), n) == Keep(pending, {o \in ToSet(pending) : ~Touches(o, n)})
\* Mutant: replay in the order the changes were made.
Ordered_asStaged(ops) == ops
\* sorted() is stable: by kind, then as staged.
Ordered(ops) ==
    FlattenSeq([k \in 1..Len(Order) |-> Keep(ops, {o \in ToSet(ops) : o.kind = Order[k]})])
Staged(kind) == {o \in ToSet(pending) : o.kind = kind}

-----------------------------------------------------------------------------
(* The account tools behind the backend (external: see ServiceRegistry).    *)

Accepts(a, o) ==
    CASE o.kind = "add_user" -> o.user \notin a.users /\ o.groups \subseteq a.groups
      [] o.kind = "mod_user" -> o.user \in a.users /\ o.groups \subseteq a.groups
      [] o.kind = "add_group" -> o.group \notin a.groups
      [] o.kind = "del_group" -> o.group \in a.groups
      [] o.kind = "set_member" -> /\ o.user \in a.users /\ o.group \in a.groups
                                  /\ o.add \/ <<o.group, o.user>> \in a.members
      [] o.kind = "set_defaults" -> TRUE
      [] OTHER -> o.user \in a.users
Effect(a, o) ==
    CASE o.kind = "add_user" -> [a EXCEPT !.users = @ \cup {o.user},
                                          !.members = @ \cup (o.groups \X {o.user})]
      \* usermod -G replaces the memberships; a blank field changes none.
      [] o.kind = "mod_user" -> [a EXCEPT !.members =
             IF o.groups = {} THEN @
             ELSE {m \in @ : m[2] # o.user} \cup (o.groups \X {o.user})]
      [] o.kind = "set_member" -> [a EXCEPT !.members =
             IF o.add THEN @ \cup {<<o.group, o.user>>} ELSE @ \ {<<o.group, o.user>>}]
      [] o.kind = "set_password" -> [a EXCEPT !.changed = @ \cup {o.user}]
      [] o.kind = "set_defaults" -> [a EXCEPT !.changed = @ \cup {NoName}]
      [] o.kind = "add_group" -> [a EXCEPT !.groups = @ \cup {o.group}]
      [] o.kind = "del_group" -> [a EXCEPT !.groups = @ \ {o.group},
                                           !.members = {m \in @ : m[1] # o.group}]
      [] o.kind = "del_user" -> [a EXCEPT !.users = @ \ {o.user}, !.changed = @ \ {o.user},
                                          !.members = {m \in @ : m[2] # o.user}]

-----------------------------------------------------------------------------
(* The screen.  Keys reach it only while it is on top.                      *)

OnTop(w) == ustack # <<>> /\ Last(ustack).is = w
Push(w) == ustack' = Append(ustack, w)
Pop(s) == IF s = <<>> THEN s ELSE Front(s)
\* _load reads the tab it is started on; any tab but users reads the groups.
ListOf(v) == IF v = "users" THEN "users" ELSE "groups"
Loading(v) ==
    LET l == ListOf(v) IN
    /\ loads' = [loads EXCEPT ![l] = IF @ = 2 THEN 2 ELSE @ + 1]
    /\ raced' = (raced \/ \E m \in {"users", "groups"} \ {l} : loads[m] > 0)
Done == [pc |-> "end", then |-> "stay", ops |-> <<>>, done |-> 0, failed |-> 0,
         base |-> <<>>, alone |-> FALSE]
Active == {t \in 1..Len(apply) : apply[t].pc # "end"}

UsersInit ==
    /\ accounts \in [users : SUBSET Users, groups : {{}} \cup {{g} : g \in Groups},
                     members : {{}}, changed : {{}}]
    /\ pending = <<>> /\ uview = "users"
    /\ rows = [of |-> "users", names |-> {}]
    /\ loads = [users |-> 1, groups |-> 0]
    /\ ustack = <<[is |-> "screen"]>>
    /\ apply = <<>>
    /\ stages = 0 /\ faults = 0
    /\ meanwhile = {} /\ raced = FALSE

\* _load ends: the list replaces whatever is shown.
Shown(l) == IF l = "users"
            THEN accounts.users \cup {o.user : o \in Staged("add_user")}
            ELSE accounts.groups \cup {o.group : o \in Staged("add_group")}
ShowRows(l) ==
    /\ loads[l] > 0
    /\ rows' = [of |-> l, names |-> Shown(l)]
    /\ loads' = [loads EXCEPT ![l] = @ - 1]
    /\ UNCHANGED <<accounts, pending, uview, ustack, apply, stages, faults, meanwhile, raced>>

\* _current: a row has the focus.
Current == IF uview \in {"users", "groups"} THEN rows.names ELSE {}

\* A key that opens a form, or stages without one.  The row is read now.
Forms ==
    CASE uview = "users" ->
           {[is |-> "form", kind |-> "add_user", name |-> NoName]}
           \cup {[is |-> "form", kind |-> k, name |-> n] :
                   k \in {"mod_user", "set_password"}, n \in Current}
           \cup {[is |-> "form", kind |-> "del_user", name |-> n] :
                   n \in {m \in Current : ~\E o \in ToSet(pending) : TouchesUser(o, m)}}
      [] uview = "groups" ->
           {[is |-> "form", kind |-> "add_group", name |-> NoName]}
           \cup {[is |-> "form", kind |-> "set_member", name |-> n] : n \in Current}
           \cup {[is |-> "form", kind |-> "del_group", name |-> n] :
                   n \in {m \in Current : ~\E o \in ToSet(pending) : TouchesGroup(o, m)}}
      [] uview = "defaults" -> {[is |-> "form", kind |-> "set_defaults", name |-> NoName]}
      [] OTHER -> {}
OpenForm ==
    /\ OnTop("screen") /\ stages < MaxStages
    /\ \E f \in Forms : Push(f)
    /\ UNCHANGED <<accounts, pending, uview, rows, loads, apply, stages, faults,
                   meanwhile, raced>>

\* What the open form can stage.  Editing a user that is only staged edits
\* its add_user; the names typed are the user's.
Ops(f) ==
    CASE f.kind = "add_user" -> {UserOp("add_user", u, gs) : u \in Users, gs \in SUBSET Groups}
      [] f.kind = "mod_user" ->
           {UserOp(IF \E o \in Staged("add_user") : o.user = f.name
                   THEN "add_user" ELSE "mod_user", f.name, gs) : gs \in SUBSET Groups}
      [] f.kind = "add_group" -> {GroupOp("add_group", g) : g \in Groups}
      [] f.kind = "set_member" -> {MemberOp(f.name, u, a) : u \in Users, a \in BOOLEAN}
      [] f.kind = "del_group" -> {GroupOp("del_group", f.name)}
      [] f.kind = "set_defaults" -> {DefaultsOp}
      [] OTHER -> {UserOp(f.kind, f.name, {})}
SaveForm ==
    /\ OnTop("form")
    /\ \E op \in Ops(Last(ustack)) :
         /\ pending' = Stage(op)
         /\ meanwhile' = IF Active = {} THEN meanwhile \ {op} ELSE meanwhile \cup {op}
    /\ ustack' = Pop(ustack)
    /\ stages' = stages + 1
    /\ IF uview = "defaults" THEN UNCHANGED <<loads, raced>> ELSE Loading(uview)
    /\ UNCHANGED <<accounts, uview, rows, apply, faults>>
Cancel ==
    /\ ustack # <<>> /\ Last(ustack).is \in {"form", "guard", "discard"}
    /\ ustack' = Pop(ustack)
    /\ UNCHANGED <<accounts, pending, uview, rows, loads, apply, stages, faults,
                   meanwhile, raced>>

\* d on a marked row: drop its changes.
Unstage ==
    /\ OnTop("screen")
    /\ \/ /\ uview = "users"
          /\ \E n \in Current : /\ \E o \in ToSet(pending) : TouchesUser(o, n)
                                /\ pending' = Without(TouchesUser, n)
          /\ Loading(uview)
       \/ /\ uview = "groups"
          /\ \E n \in Current : /\ \E o \in ToSet(pending) : TouchesGroup(o, n)
                                /\ pending' = Without(TouchesGroup, n)
          /\ Loading(uview)
       \/ /\ uview = "defaults" /\ Staged("set_defaults") # {}
          /\ pending' = Keep(pending, {o \in ToSet(pending) : o.kind # "set_defaults"})
          /\ UNCHANGED <<loads, raced>>
    /\ UNCHANGED <<accounts, uview, rows, ustack, apply, stages, faults, meanwhile>>

\* Mutant: the list is not read again.
DoSwitch_stale(v) == uview' = v /\ UNCHANGED <<loads, raced>>
DoSwitch(v) ==
    /\ uview' = v
    /\ IF v \in {"users", "groups"} THEN Loading(v) ELSE UNCHANGED <<loads, raced>>
\* left, right and g; leaving the editable tabs with staged changes asks.
Switch(v) ==
    /\ OnTop("screen") /\ v # uview
    /\ IF uview \in EditTabs /\ v \notin EditTabs /\ pending # <<>>
       THEN Push([is |-> "guard", then |-> "auth"]) /\ UNCHANGED <<uview, loads, raced>>
       ELSE DoSwitch(v) /\ UNCHANGED ustack
    /\ UNCHANGED <<accounts, pending, rows, apply, stages, faults, meanwhile>>

\* Mutant: Esc does not ask.
Leave_drops ==
    /\ OnTop("screen")
    /\ ustack' = Pop(ustack)
    /\ UNCHANGED <<accounts, pending, uview, rows, loads, apply, stages, faults,
                   meanwhile, raced>>
\* Esc.
Leave ==
    /\ OnTop("screen")
    /\ ustack' = IF pending = <<>> THEN Pop(ustack)
                 ELSE Append(ustack, [is |-> "guard", then |-> "leave"])
    /\ UNCHANGED <<accounts, pending, uview, rows, loads, apply, stages, faults,
                   meanwhile, raced>>

\* F9: ask, then clear; "Discard" in the guard clears and goes on.
AskDiscard ==
    /\ OnTop("screen") /\ pending # <<>>
    /\ Push([is |-> "discard"])
    /\ UNCHANGED <<accounts, pending, uview, rows, loads, apply, stages, faults,
                   meanwhile, raced>>
Discard ==
    /\ OnTop("discard")
    /\ ustack' = Pop(ustack) /\ pending' = <<>>
    /\ Loading(uview)
    /\ UNCHANGED <<accounts, uview, rows, apply, stages, faults, meanwhile>>
GuardDiscard ==
    /\ OnTop("guard") /\ pending' = <<>>
    /\ IF Last(ustack).then = "leave"
       THEN ustack' = Pop(Pop(ustack)) /\ UNCHANGED <<uview, loads, raced>>
       ELSE ustack' = Pop(ustack) /\ DoSwitch("auth")
    /\ UNCHANGED <<accounts, rows, apply, stages, faults, meanwhile>>

\* F10 and the OK button; Save in the guard closes it and goes on afterwards.
Schedule(then) ==
    /\ Len(apply) < MaxApplies
    /\ apply' = Append([t \in 1..Len(apply) |-> [apply[t] EXCEPT !.alone = FALSE]],
                       [pc |-> "start", then |-> then, ops |-> <<>>, done |-> 0,
                        failed |-> 0, base |-> accounts, alone |-> Active = {}])
Accept ==
    /\ OnTop("screen") /\ Schedule("stay")
    /\ UNCHANGED <<accounts, pending, uview, rows, loads, ustack, stages, faults,
                   meanwhile, raced>>
GuardSave ==
    /\ OnTop("guard") /\ Schedule(Last(ustack).then)
    /\ ustack' = Pop(ustack)
    /\ UNCHANGED <<accounts, pending, uview, rows, loads, stages, faults, meanwhile, raced>>

-----------------------------------------------------------------------------
(* _apply *)

At(t, pc) == t \in 1..Len(apply) /\ apply[t].pc = pc

\* Mutant: without a connection everything staged is dropped.
Connect_clears(t) ==
    /\ At(t, "start") /\ faults < MaxFaults
    /\ pending' = <<>> /\ faults' = faults + 1
    /\ apply' = [apply EXCEPT ![t].pc = "proceed", ![t].failed = 1]
    /\ UNCHANGED <<accounts, uview, rows, loads, ustack, stages, meanwhile, raced>>
\* Nothing staged, or no connection: notify and return, staged changes stay.
\* Otherwise the operations are sorted into a list of their own.
Connect(t) ==
    /\ At(t, "start")
    /\ \/ /\ pending = <<>> \/ faults < MaxFaults
          /\ apply' = [apply EXCEPT ![t].pc = "proceed", ![t].failed = 1]
          /\ faults' = IF pending = <<>> THEN faults ELSE faults + 1
       \/ /\ pending # <<>>
          /\ apply' = [apply EXCEPT ![t].pc = "run", ![t].ops = Ordered(pending),
                                    ![t].base = accounts]
          /\ UNCHANGED faults
    /\ UNCHANGED <<accounts, pending, uview, rows, loads, ustack, stages, meanwhile, raced>>

\* _apply_op: a failure is counted and the next operation runs.
ApplyOp(t) ==
    LET r == apply[t]
        o == r.ops[r.done + 1]
    IN
    /\ At(t, "run") /\ r.done < Len(r.ops)
    /\ \/ /\ Accepts(accounts, o)
          /\ accounts' = Effect(accounts, o)
          /\ apply' = [apply EXCEPT ![t].done = @ + 1]
          /\ UNCHANGED faults
       \/ /\ ~Accepts(accounts, o) \/ faults < MaxFaults
          /\ apply' = [apply EXCEPT ![t].done = @ + 1, ![t].failed = @ + 1,
                                    ![t].alone = @ /\ ~Accepts(accounts, o)]
          /\ faults' = IF Accepts(accounts, o) THEN faults + 1 ELSE faults
          /\ UNCHANGED accounts
    /\ UNCHANGED <<pending, uview, rows, loads, ustack, stages, meanwhile, raced>>

\* Everything staged is forgotten; what ran is reported; the list is loaded.
Report(t) ==
    /\ At(t, "run") /\ apply[t].done = Len(apply[t].ops)
    /\ pending' = <<>>
    /\ apply' = [apply EXCEPT ![t].pc = "proceed"]
    /\ Loading(uview)
    /\ UNCHANGED <<accounts, uview, rows, ustack, stages, faults, meanwhile>>

\* save_then: proceed() whatever became of the apply, on whatever is on top.
Proceed(t) ==
    LET then == apply[t].then IN
    /\ At(t, "proceed")
    /\ apply' = [apply EXCEPT ![t] = Done]
    /\ ustack' = IF then = "leave" THEN Pop(ustack) ELSE ustack
    /\ IF then = "auth" THEN DoSwitch("auth") ELSE UNCHANGED <<uview, loads, raced>>
    /\ UNCHANGED <<accounts, pending, rows, stages, faults, meanwhile>>

UsersNext ==
    \/ OpenForm \/ SaveForm \/ Cancel \/ Unstage \/ Leave \/ AskDiscard \/ Discard
    \/ GuardDiscard \/ Accept \/ GuardSave
    \/ \E v \in Tabs : Switch(v)
    \/ \E l \in {"users", "groups"} : ShowRows(l)
    \/ \E t \in 1..Len(apply) : Connect(t) \/ ApplyOp(t) \/ Report(t) \/ Proceed(t)
UsersSpec == UsersInit /\ [][UsersNext]_userVars

-----------------------------------------------------------------------------
(* Properties.                                                              *)

\* Staged operations have one entry per kind and name, and the counters stay
\* within their bounds.
UsersTypeOK ==
    /\ \A o \in ToSet(pending) : o.kind \in Kinds /\ o.groups \subseteq Groups
    /\ \A i, j \in 1..Len(pending) : SameKey(pending[i], pending[j]) => i = j
    /\ uview \in Tabs /\ rows.of \in {"users", "groups"}
    /\ loads \in [{"users", "groups"} -> 0..2]
    /\ \A t \in 1..Len(apply) : apply[t].done \in 0..Len(apply[t].ops)
    /\ stages \in 0..MaxStages /\ faults \in 0..MaxFaults
    /\ accounts.users \subseteq Users /\ accounts.groups \subseteq Groups
    /\ accounts.members \subseteq accounts.groups \X accounts.users

\* The change an operation asks for is there.
Visible(a, o) ==
    CASE o.kind \in {"add_user", "mod_user"} ->
           o.user \in a.users /\ o.groups \X {o.user} \subseteq a.members
      [] o.kind = "set_member" -> (<<o.group, o.user>> \in a.members) = o.add
      [] o.kind = "set_password" -> o.user \in a.changed
      [] o.kind = "set_defaults" -> NoName \in a.changed
      [] o.kind = "add_group" -> o.group \in a.groups
      [] o.kind = "del_group" -> o.group \notin a.groups
      [] o.kind = "del_user" -> o.user \notin a.users
\* Replaying operations as the screen does: what is refused is skipped.
Replay(a, ops) ==
    FoldLeft(LAMBDA b, o : IF Accepts(b, o) THEN Effect(b, o) ELSE b, a, ops)
Works(a, ops) == LET b == Replay(a, ops) IN \A o \in ToSet(ops) : Visible(b, o)
Orders(ops) == {[i \in 1..Len(ops) |-> ops[p[i]]] :
                  p \in {q \in [1..Len(ops) -> 1..Len(ops)] : ToSet(q) = 1..Len(ops)}}

\* Whatever was staged, in whatever order: if there is any order in which all
\* of it can take effect, then an OK that meets no fault and no second OK
\* ends with all of it in effect.
AllInEffect ==
    \A t \in 1..Len(apply) :
        At(t, "run") /\ apply[t].done = Len(apply[t].ops) /\ apply[t].alone
        /\ (\E p \in Orders(apply[t].ops) : Works(apply[t].base, p))
            => \A o \in ToSet(apply[t].ops) : Visible(accounts, o)

\* A task takes a staged change off the list only after trying it -- or when
\* it was staged while that task was under way.
TriedOrKept ==
    apply' # apply =>
         \A o \in ToSet(pending) \ ToSet(pending') :
            \/ o \in meanwhile
            \/ \E t \in Active : o \in ToSet(apply[t].ops) /\ apply[t].done = Len(apply[t].ops)

\* The screen closes over staged changes only after Save was chosen and the
\* backend could not be reached, or a change was staged behind the Save.
NotDroppedOnLeave ==
    ustack # <<>> /\ ustack' = <<>> /\ pending' # <<>> =>
         \E t \in Active : apply[t].then = "leave"
                          /\ (apply[t].failed > 0 \/ meanwhile # {})

\* With no load under way the list is the one of the tab -- provided the
\* lists of the two tabs were never being loaded together.
RightList ==
    (\A l \in {"users", "groups"} : loads[l] = 0) /\ ~raced /\ uview \in {"users", "groups"}
        => rows.of = uview

\* The list and the accounts, at every step.
UsersInv == UsersTypeOK /\ AllInEffect /\ RightList
\* A staged change leaves the list when it was tried or when the user, asked,
\* agreed to drop it.
StagedSafe == [][TriedOrKept /\ NotDroppedOnLeave]_userVars
=============================================================================
