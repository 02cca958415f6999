------------------------------ MODULE Software ------------------------------
(***************************************************************************)
(* Package management in the text frontend: the package list with its marks *)
(* (SoftwareScreen, Selection), the four flows that end in emerge (Accept,  *)
(* System Update, Clean Up, Sync), their loading screens, reviews and runs, *)
(* and the accept mode that lets a resolved plan start by itself            *)
(* (AutoAccept).                                                            *)
(*                                                                          *)
(* The screens live on the stack of tui/runtime.App and their coroutines go *)
(* on below whatever is pushed over them: a plan resolves, a countdown      *)
(* lapses and a run ends while a help text or the log is on top.  The       *)
(* coroutines of a screen that was popped touch nothing any more, so they   *)
(* are dropped with it.                                                     *)
(*                                                                          *)
(* External: emerge, as a function on what is installed (sys); the search,  *)
(* category and file views are one view that lists every package.           *)
(***************************************************************************)
EXTENDS Naturals, Sequences, FiniteSets, SequencesExt

CONSTANTS Pkgs,            \* packages
          Requires,        \* <<p, q>>: p needs q
          MaxFlows,        \* flows opened
          MaxMarkings,     \* keys that change a mark or a choice to keep
          MaxAsides,       \* help texts and logs opened over a screen
          MaxTroubles      \* plans, authorisations and commands that fail

ASSUME RequiresAssumption == Requires \subseteq Pkgs \X Pkgs

VARIABLES sys,             \* installed packages, those with an update, @world
          worldCache,      \* reader._world_atoms: its lru_cache
          mode,            \* prefs.accept_mode
          stack,           \* App._stack
          selection,       \* Selection._marks
          view,            \* SoftwareScreen._view
          shown,           \* _cps, _installed and _upgradable_cps
          reading,         \* loads of the list under way, each with its view
          untold,          \* history: a change the list was not told of
          used             \* flows, markings, asides and troubles so far

softVars == <<sys, worldCache, mode, stack, selection, view, shown, reading, untold, used>>

MarkNames == {"install", "binpkg", "binpref", "remove"}
Views == {"installed", "upgradable", "world", "search"}
Flows == {"accept", "update", "cleanup", "sync"}
NoCache == {"none"}
Titles == {"Completed", "Failed", "Not started"}

Use(what) == used' = [used EXCEPT ![what] = @ + 1]
Can(what) == used[what] < (CASE what = "flows" -> MaxFlows [] what = "markings" -> MaxMarkings
                              [] what = "asides" -> MaxAsides [] what = "troubles" -> MaxTroubles)

-----------------------------------------------------------------------------
(* emerge.                                                                   *)

Needs(ps) == {q \in Pkgs : \E p \in ps : <<p, q>> \in Requires}
Orphans(s) == s.inst \ (s.world \cup Needs(s.world))
\* What `emerge --depclean atoms` agrees to remove.
Removable(s, atoms) == {p \in atoms \cap s.inst : p \notin Needs(s.inst \ atoms)}

Op(kind, atoms) == [kind |-> kind, atoms |-> atoms]
Targets(o, s) == CASE o.kind \in {"install", "binpkg", "binpref"} ->
                        o.atoms \cup (Needs(o.atoms) \ s.inst)
                   [] o.kind = "remove" -> Removable(s, o.atoms)
                   [] o.kind = "depclean" -> Orphans(s)
                   [] o.kind = "update" -> s.old
                   [] o.kind = "sync" -> s.inst
\* A command that fails half way has done a part of it, dependencies first.
Parts(o, s) == {part \in SUBSET Targets(o, s) :
                    o.kind \in {"install", "binpkg", "binpref"} =>
                        Needs(part) \subseteq part \cup s.inst}
After(o, part, s) ==
    CASE o.kind \in {"install", "binpkg", "binpref"} ->
           [inst |-> s.inst \cup part, old |-> s.old \ part, world |-> s.world \cup (part \cap o.atoms)]
      [] o.kind \in {"remove", "depclean"} ->
           [inst |-> s.inst \ part, old |-> s.old \ part, world |-> s.world \ part]
      [] o.kind = "update" -> [s EXCEPT !.old = @ \ part]
      [] o.kind = "sync" -> [s EXCEPT !.old = @ \cup part]

-----------------------------------------------------------------------------
(* The stack.  One kind of record for every screen: is names it, flow and   *)
(* ops what it is about; st is its stage; plan, kept and drawn (kept as the *)
(* rows show it) belong to reviews; flag is _timer_running and counting the *)
(* countdown's coroutine; ret is _return_to; tell says what _on_done        *)
(* reloads; codes are the exit codes so far and title how the run ended;     *)
(* spent is history: the user has stopped the countdown of this screen, or *)
(* a run was started from it.                                               *)

NoPlan == [ok |-> FALSE, items |-> {}]
Frame(is, flow, ops) ==
    [is |-> is, flow |-> flow, ops |-> ops, st |-> "ready", plan |-> NoPlan,
     kept |-> {}, drawn |-> {}, flag |-> FALSE, counting |-> FALSE,
     ret |-> FALSE, tell |-> "nobody", codes |-> <<>>, title |-> "", spent |-> FALSE]
Menu == Frame("menu", "none", <<>>)

Top == Last(stack)
Depth == Len(stack)
IsTop(is) == Top.is = is
PopOf(s) == IF Len(s) > 1 THEN Front(s) ELSE s
Over(f) == Append(stack, f)
Instead(f) == Append(Front(stack), f)
AtTop(f) == [stack EXCEPT ![Depth] = f]
Has(is) == \E i \in 1..Depth : stack[i].is = is

-----------------------------------------------------------------------------
(* The package list.                                                         *)

World == IF worldCache = NoCache THEN sys.world ELSE worldCache
RowsOf(v, s, world) == CASE v = "installed" -> s.inst [] v = "upgradable" -> s.old
                         [] v = "world" -> s.inst \cap world [] v = "search" -> Pkgs
\* reader.list_installed and its kin: @world comes from the cache, and is
\* cached.  Only the views made from the installed list renew the flags.
Fill(v) == /\ shown' = [rows |-> RowsOf(v, sys, World), inst |-> RowsOf(v, sys, World) \cap sys.inst,
                        ups |-> IF v = "search" THEN shown.ups ELSE sys.old]
           /\ worldCache' = IF v = "search" THEN worldCache ELSE World
Forget_not == worldCache' = worldCache
Forget == worldCache' = NoCache

Read == \E i \in 1..Len(reading) :
            /\ Fill(reading[i]) /\ reading' = RemoveAt(reading, i)
            /\ UNCHANGED <<sys, mode, stack, selection, view, untold, used>>
SwitchView(v) ==
    /\ IsTop("software") /\ Can("markings") /\ Use("markings")
    /\ view' = v /\ reading' = Append(reading, v)
    /\ UNCHANGED <<sys, worldCache, mode, stack, selection, shown, untold>>

Unmarked == [p \in Pkgs |-> "none"]
SpaceCycle == [none |-> "install", install |-> "binpkg", binpkg |-> "remove",
               remove |-> "none", binpref |-> "install"]
Marks(new) == /\ IsTop("software") /\ Can("markings") /\ Use("markings")
              /\ selection' = new
              /\ UNCHANGED <<sys, worldCache, mode, stack, view, shown, reading, untold>>
CycleMark == \E p \in shown.rows : Marks([selection EXCEPT ![p] = SpaceCycle[@]])
MarkAs(m) == \E p \in shown.rows : Marks([selection EXCEPT ![p] = IF @ = m THEN "none" ELSE m])
ClearMarks == selection # Unmarked /\ Marks(Unmarked)

Atoms(m) == {p \in Pkgs : selection[p] = m}
Planned(kind, atoms) == IF atoms = {} THEN <<>> ELSE <<Op(kind, atoms)>>
Plans(inst, pkg, pref, rem) == Planned("install", inst) \o Planned("binpkg", pkg)
                                   \o Planned("binpref", pref) \o Planned("remove", rem)
Open(f) == /\ Can("flows") /\ Use("flows") /\ stack' = Over([f EXCEPT !.st = "work"])
           /\ UNCHANGED <<sys, worldCache, mode, selection, view, shown, reading, untold>>
\* F10: the marks, or the row under the cursor.  Enter: that row alone.
AcceptMarked ==
    /\ IsTop("software") /\ selection # Unmarked
    /\ Open(Frame("loading", "accept",
                  Plans(Atoms("install"), Atoms("binpkg"), Atoms("binpref"), Atoms("remove"))))
AcceptRow == \E p \in shown.rows :
    /\ IsTop("software") /\ Open(Frame("loading", "accept", Plans({p}, {}, {}, {})))
OpenFlow(flow) ==
    /\ IsTop("menu") \/ (IsTop("software") /\ flow # "cleanup")
    /\ Open(Frame("loading", flow, <<Op(IF flow = "cleanup" THEN "depclean" ELSE flow, {})>>))
\* SoftwareLoadingScreen: refreshes the opted-in repositories, reads the
\* installed packages and gives way to the list, unless it is not on top.
OpenSoftware == IsTop("menu") /\ Open(Frame("starting", "none", <<>>))
Started == \E i \in 1..Depth, fresh \in SUBSET sys.inst :
    /\ stack[i].is = "starting" /\ stack[i].st = "work"
    /\ sys' = [sys EXCEPT !.old = @ \cup fresh]
    /\ IF i = Depth
       THEN /\ stack' = Instead(Frame("software", "none", <<>>))
            /\ selection' = Unmarked /\ view' = "installed"
            /\ shown' = [rows |-> sys.inst, inst |-> sys.inst, ups |-> sys'.old]
            /\ worldCache' = World /\ untold' = (World # sys.world)
       ELSE /\ stack' = [stack EXCEPT ![i].st = "ready"]
            /\ UNCHANGED <<worldCache, selection, view, shown, untold>>
    /\ UNCHANGED <<mode, reading, used>>

-----------------------------------------------------------------------------
(* Starting a run, by a key or by the accept mode.                           *)

RunFrame(f, ops, tell) == [Frame("run", f.flow, ops) EXCEPT !.st = "work", !.tell = tell, !.ret = f.ret]
Selected(f) == f.plan.items \ f.kept
\* _clean: every orphan selected is a bare depclean, else the atoms.
CleanOps(f) == IF Selected(f) = f.plan.items THEN <<Op("depclean", {})>>
               ELSE <<Op("remove", Selected(f))>>

\* _auto_apply of a loading screen: the run takes its place.
Launch(f) == stack' = Instead(RunFrame(f, f.ops, IF f.flow = "accept" THEN "list" ELSE "nobody"))
\* _apply, _update, _clean, _sync of a review.  A proposal gives its place to
\* the run even if resolving it reported problems; the others stay below.
MayApply(f) == CASE f.flow = "accept" -> f.plan.items # {}
                 [] f.flow = "update" -> f.plan.ok /\ f.plan.items # {}
                 [] f.flow = "cleanup" -> Selected(f) # {}
                 [] f.flow = "sync" -> f.plan.items # {}
ApplyReview(f) ==
    stack' = IF ~MayApply(f) THEN AtTop(f)
             ELSE IF f.flow = "accept" THEN Instead(RunFrame(f, f.ops, "list"))
             ELSE Append(AtTop([f EXCEPT !.spent = TRUE]),
                         [RunFrame(f, IF f.flow = "cleanup" THEN CleanOps(f) ELSE f.ops,
                                   IF f.flow = "sync" THEN "nobody" ELSE "review")
                          EXCEPT !.plan = f.plan, !.kept = f.kept, !.drawn = f.drawn])
AutoApply(f) == IF f.is = "loading" THEN Launch(f) ELSE ApplyReview(f)
ReviewOf(f) == [Frame("review", f.flow, f.ops) EXCEPT !.plan = f.plan]
Only == UNCHANGED <<sys, worldCache, mode, selection, view, shown, reading, untold>>

\* The items of a plan: what emerge --pretend lists.  preview_install_many
\* lists an atom that is installed already (a reinstall).
Items(f) == IF f.flow = "sync" THEN {"tree"}
            ELSE UNION {Targets(o, sys) : o \in Range(f.ops)}
Resolved(f, ok) == [f EXCEPT !.st = "ready", !.plan = [ok |-> ok, items |-> IF ok \/ f.flow = "accept" THEN Items(f) ELSE {}]]
\* _run of a loading screen: only the top screen hands over or applies; one
\* that is covered when its plan is ready stays where it is.
Resolve == \E i \in 1..Depth, ok \in BOOLEAN :
    /\ stack[i].is = "loading" /\ stack[i].st = "work"
    /\ ~ok => Can("troubles") /\ stack[i].flow # "sync"
    /\ IF ok THEN UNCHANGED used ELSE Use("troubles")
    /\ LET f == Resolved(stack[i], ok)
           byHand == ~ok \/ f.plan.items = {} \/ mode = "manual"
       IN  CASE ~byHand /\ mode = "timer" ->
                  stack' = [stack EXCEPT ![i] = [f EXCEPT !.flag = TRUE, !.counting = TRUE]]
             [] i # Depth /\ (byHand \/ mode = "immediate") -> stack' = [stack EXCEPT ![i] = f]
             [] i = Depth /\ byHand -> stack' = Instead(ReviewOf(f))
             [] i = Depth /\ ~byHand /\ mode = "immediate" -> Launch(f)
    /\ Only

\* The countdown's coroutine ends: it was stopped, it applies, or its screen
\* is not on top (then _timer_running stays set).
Lapse == \E i \in 1..Depth :
    /\ stack[i].counting
    /\ IF stack[i].flag /\ i = Depth
       THEN AutoApply([stack[i] EXCEPT !.flag = FALSE, !.counting = FALSE])
       ELSE stack' = [stack EXCEPT ![i].counting = FALSE]
    /\ Only /\ UNCHANGED used

-----------------------------------------------------------------------------
(* Keys.                                                                     *)

Key == Only /\ UNCHANGED used
Waiting(f) == f.is \in {"loading", "review"} /\ f.flag
\* AutoAccept._auto_key.
ApplyNow == Waiting(Top) /\ AutoApply([Top EXCEPT !.flag = FALSE]) /\ Key
StopCountdown ==
    /\ Waiting(Top)
    /\ stack' = IF IsTop("loading") THEN Instead(ReviewOf(Top))
                ELSE AtTop([Top EXCEPT !.flag = FALSE, !.spent = TRUE])
    /\ Key
\* F10 on a review with no countdown, and its Accept button at any time: the
\* action row acts before _auto_key and leaves the countdown running.
AcceptReview == IsTop("review") /\ MayApply(Top) /\ ApplyReview(Top) /\ Key
\* Space, a and n on the Clean Up review; the row under the cursor is any.
Keep == /\ IsTop("review") /\ Top.flow = "cleanup" /\ Can("markings")
        /\ \E k \in {Top.kept \ {p} : p \in Top.plan.items} \cup {Top.kept \cup {p} : p \in Top.plan.items}
                     \cup {{}, Top.plan.items} :
              stack' = AtTop([Top EXCEPT !.flag = FALSE, !.spent = @ \/ Top.flag, !.kept = k, !.drawn = k])
        /\ Only /\ Use("markings")
\* r: a reload.  The Clean Up review forgets what to keep at once and draws
\* its rows again when the new plan is there.
Reloading(f) == [f EXCEPT !.st = "work", !.kept = {}]
Rescan == /\ IsTop("review") /\ Top.flow \in {"update", "cleanup"} /\ Can("markings")
          /\ stack' = AtTop([Reloading(Top) EXCEPT !.flag = FALSE, !.spent = @ \/ Top.flag])
          /\ Only /\ Use("markings")
Rescanned == \E i \in 1..Depth :
    /\ stack[i].is = "review" /\ stack[i].st = "work"
    /\ stack' = [stack EXCEPT ![i] = [Resolved(stack[i], TRUE) EXCEPT !.drawn = stack[i].kept]]
    /\ Key
Help == /\ Top.is \in {"starting", "loading", "review", "run"} /\ Can("asides") /\ Use("asides")
        /\ stack' = Over(Frame("aside", "none", <<>>)) /\ Only
ViewLog == /\ IsTop("run") /\ Can("asides") /\ Use("asides")
           /\ stack' = Over(Frame("aside", "none", <<>>)) /\ Only

\* Esc; Cancel on a review.  A run is left when it is done, and one reached
\* from an uninstall only through its completion dialogue.
Modal(f) == [Frame("modal", f.flow, f.ops) EXCEPT !.ret = f.ret, !.codes = f.codes, !.title = f.title]
LeaveRun_plain(f) == PopOf(stack)
LeaveRun(f) == IF f.ret THEN Over(Modal(f)) ELSE PopOf(stack)
Escape == /\ \/ Top.is \in {"starting", "review", "modal", "aside", "software"}
             \/ IsTop("loading") /\ ~Top.flag
             \/ IsTop("run") /\ Top.st # "work"
          /\ stack' = IF IsTop("run") THEN LeaveRun(Top) ELSE PopOf(stack)
          /\ reading' = IF IsTop("software") THEN <<>> ELSE reading
          /\ UNCHANGED <<sys, worldCache, mode, selection, view, shown, untold, used>>

\* The buttons of a result.  Back pops the dialogue and the screen below it.
Back == IsTop("modal") /\ ~Top.ret /\ stack' = PopOf(PopOf(stack)) /\ Key
ModalLog == /\ IsTop("modal") /\ Can("asides") /\ Use("asides")
            /\ stack' = Instead(Frame("aside", "none", <<>>)) /\ Only
MainMenu == /\ IsTop("modal") /\ stack' = <<Menu>> /\ reading' = <<>>
            /\ UNCHANGED <<sys, worldCache, mode, selection, view, shown, untold, used>>
\* _after without the marks, and refresh_packages.
TellList == Forget /\ reading' = Append(reading, view) /\ untold' = FALSE
PackageManager ==
    /\ IsTop("modal") /\ Top.ret
    /\ stack' = SubSeq(stack, 1, Max({i \in 1..Depth : stack[i].is \in {"menu", "software"}}))
    /\ TellList
    /\ UNCHANGED <<sys, mode, selection, view, shown, used>>

-----------------------------------------------------------------------------
(* A run: RunScreen._run and SyncRunScreen._run.                             *)

\* _on_done, when there is an exit code.
OnDone(f, i, s) == IF f.tell = "review" THEN [s EXCEPT ![i - 1] = Reloading(@)] ELSE s
\* _finish and _present_result.  A sync that failed before it came to any
\* repository has none to call failed.
TitleOf(f, code) == IF code = 0 THEN {"Completed"}
                    ELSE IF f.flow = "sync" THEN {"Completed", "Failed"} ELSE {"Failed"}
Uninstalled(f, code) == f.flow = "accept" /\ code = 0 /\ Last(f.ops).kind = "remove"
Overall_last(codes) == Last(codes)
Overall(codes) == IF \E k \in 1..Len(codes) : codes[k] # 0 THEN 1 ELSE 0
Ended(i, f, code) ==
    \E t \in TitleOf(f, code) :
        LET g == [f EXCEPT !.st = IF Uninstalled(f, code) THEN "check" ELSE "done", !.title = t]
            s == OnDone(f, i, [stack EXCEPT ![i] = g])
        IN  stack' = IF Uninstalled(f, code) THEN s ELSE Append(s, Modal(g))

\* _run_one: an operation is refused, fails half way or succeeds.  A failure
\* does not keep the later operations from running.
Refused == \E i \in 1..Depth :
    /\ stack[i].is = "run" /\ stack[i].st = "work" /\ Can("troubles") /\ Use("troubles")
    /\ LET g == [stack[i] EXCEPT !.st = "done", !.title = "Not started"]
       IN  stack' = Append([stack EXCEPT ![i] = g], Modal(g))
    /\ untold' = (untold \/ stack[i].codes # <<>>)
    /\ UNCHANGED <<sys, worldCache, mode, selection, view, shown, reading>>
Emerge == \E i \in 1..Depth, code \in {0, 1} :
    /\ stack[i].is = "run" /\ stack[i].st = "work"
    /\ IF code = 0 THEN UNCHANGED used ELSE Can("troubles") /\ Use("troubles")
    /\ LET f == [stack[i] EXCEPT !.codes = Append(@, code)]
           o == f.ops[Len(f.codes)]
           last == Len(f.codes) = Len(f.ops)
       IN  /\ \E part \in IF code = 0 /\ o.kind # "sync" THEN {Targets(o, sys)} ELSE Parts(o, sys) :
                  sys' = After(o, part, sys)
           /\ IF last THEN Ended(i, f, Overall(f.codes)) ELSE stack' = [stack EXCEPT ![i] = f]
           /\ IF last /\ f.tell = "list"
              THEN selection' = Unmarked /\ TellList
              ELSE /\ UNCHANGED <<selection, worldCache, reading>>
                   /\ untold' = (untold \/ (sys' # sys /\ f.tell # "list" /\ ~f.ret))
    /\ UNCHANGED <<mode, view, shown>>

\* _housekeep after an uninstall: Clean Up takes the place of the run and
\* follows the accept mode at once; with no orphans the result is shown, and
\* nothing is if another screen is on top.
Housekept == \E i \in 1..Depth, ok \in BOOLEAN :
    /\ stack[i].is = "run" /\ stack[i].st = "check"
    /\ IF ok THEN UNCHANGED used ELSE Can("troubles") /\ Use("troubles")
    /\ LET done == [stack[i] EXCEPT !.st = "done"]
           c == [Frame("review", "cleanup", <<Op("depclean", {})>>) EXCEPT
                    !.plan = [ok |-> TRUE, items |-> Orphans(sys)], !.ret = TRUE]
           timed == [c EXCEPT !.flag = TRUE, !.counting = TRUE]
       IN  stack' = CASE i # Depth -> [stack EXCEPT ![i] = done]
                      [] i = Depth /\ ~(ok /\ Orphans(sys) # {}) -> Append(AtTop(done), Modal(done))
                      [] i = Depth /\ ok /\ Orphans(sys) # {} ->
                           CASE mode = "manual" -> Instead(c) [] mode = "timer" -> Instead(timed)
                             [] mode = "immediate" ->
                                  Append(Instead([c EXCEPT !.spent = TRUE]),
                                         [RunFrame(c, CleanOps(c), "review") EXCEPT !.plan = c.plan])
    /\ Only

SoftInit ==
    /\ sys \in {s \in [inst : SUBSET Pkgs, old : SUBSET Pkgs, world : SUBSET Pkgs] :
                    s.old \subseteq s.inst /\ s.world \subseteq s.inst /\ Needs(s.inst) \subseteq s.inst}
    /\ worldCache = NoCache /\ mode \in {"manual", "timer", "immediate"} /\ stack = <<Menu>>
    /\ selection = Unmarked /\ view = "installed"
    /\ shown = [rows |-> {}, inst |-> {}, ups |-> {}] /\ reading = <<>> /\ untold = FALSE
    /\ used = [flows |-> 0, markings |-> 0, asides |-> 0, troubles |-> 0]
SoftKeys ==
    \/ \E v \in Views : SwitchView(v)
    \/ \E m \in MarkNames : MarkAs(m)
    \/ CycleMark \/ ClearMarks \/ AcceptMarked \/ AcceptRow
    \/ \E flow \in Flows \ {"accept"} : OpenFlow(flow)
    \/ OpenSoftware \/ ApplyNow \/ StopCountdown \/ AcceptReview \/ Keep \/ Rescan
    \/ Help \/ ViewLog \/ Escape \/ Back \/ ModalLog \/ MainMenu \/ PackageManager
SoftTasks == Read \/ Started \/ Resolve \/ Lapse \/ Rescanned \/ Refused \/ Emerge \/ Housekept
SoftNext == SoftKeys \/ SoftTasks
\* With the list read before the next key: two loads of different views that
\* overlap end in either order, and the later one stays.
SoftSettled == (reading = <<>> /\ SoftKeys) \/ SoftTasks

SoftSpec == SoftInit /\ [][SoftNext]_softVars
SettledSpec == SoftInit /\ [][SoftSettled]_softVars

-----------------------------------------------------------------------------
(* Properties.                                                               *)

\* Types, and: a run that ends "Completed" had every command succeed, and
\* what it was asked for is so: the atoms are installed, what was to go is
\* gone or still needed, nothing is left to update or to clean up
\* (RunScreen._run, _finish; AcceptRunScreen._housekeep).  Sync is left out:
\* it also says so when emerge fails before the first repository.
SoftTypeOK ==
    /\ sys \in [inst : SUBSET Pkgs, old : SUBSET Pkgs, world : SUBSET Pkgs]
    /\ stack[1] = Menu /\ \A i \in 2..Depth : stack[i].is # "menu"
    /\ Cardinality({i \in 1..Depth : stack[i].is = "run" /\ stack[i].st = "work"}) <= 1
    /\ shown.inst \subseteq shown.rows /\ selection \in [Pkgs -> MarkNames \cup {"none"}]
Done(o) == CASE o.kind \in {"install", "binpkg", "binpref"} -> o.atoms \cup Needs(o.atoms) \subseteq sys.inst
             [] o.kind = "remove" -> o.atoms \cap sys.inst \subseteq Needs(sys.inst)
             [] o.kind = "depclean" -> Orphans(sys) = {}
             [] o.kind = "update" -> sys.old = {}
CompletedIsTrue ==
    LET f == Top IN f.is = "modal" /\ f.title = "Completed" /\ f.flow # "sync" =>
        Len(f.codes) = Len(f.ops) /\ \A k \in 1..Len(f.ops) : f.codes[k] = 0 /\ Done(f.ops[k])
SoftInv == SoftTypeOK /\ CompletedIsTrue

\* A countdown starts a run only from a review whose countdown the user has
\* not stopped and that has not started a run before: one question, at most
\* one run (AutoAccept._auto_countdown, and the completion dialogue, which
\* never goes back to a review whose countdown the Accept button left on).
ByItself == /\ IsTop("review") /\ Top.counting /\ Len(stack') = Depth + 1
            /\ Last(stack').is = "run" /\ ~stack'[Depth].counting
AskedOnly == [][ByItself => ~Top.spent]_stack

\* When the package list is on top and no load of it is under way, its rows,
\* installed marks and update flags are those of the system: every Accept
\* that ended and every Clean Up that followed an uninstall was told to it,
\* and the cached @world was renewed (_after, refresh_packages,
\* invalidate_caches).  The search views keep older update flags, and runs
\* that tell nobody are set aside (untold).
ListTrue ==
    IsTop("software") /\ reading = <<>> /\ ~untold =>
        /\ shown.rows = RowsOf(view, sys, sys.world) /\ shown.inst = shown.rows \cap sys.inst
        /\ view # "search" => shown.ups = sys.old

\* "F10 accept: clean up the marked packages", where a tick marks a package
\* for removal: no Clean Up run removes a package its review showed as kept.
RemovesTheMarked ==
    \A i \in 1..Depth :
        LET f == stack[i] IN f.is = "run" /\ f.flow = "cleanup" /\ f.tell = "review" =>
            f.drawn \cap (IF f.ops[1].kind = "depclean" THEN f.plan.items ELSE f.ops[1].atoms) = {}
=============================================================================
