----------------------------- MODULE MCScreens -----------------------------
(* Model checking of the screens.  Every screen and module is opened alone,  *)
(* one of each kind: screens whose writing operations carry the same and     *)
(* react alike differ in names only.  A few urwid screens are also opened    *)
(* twice in a row, so that a task of the first visit outlives it, and the    *)
(* ones whose tasks touch the stack come before a transactional one.         *)
EXTENDS Screens, ScreenRegistry

All == TuiScreens \cup QtModules
Writes(s) == {<<op.carries, op.ok, op.bad>> : op \in {o \in Ops(s) : o.carries # "read"}}
Kind(s) == <<Writes(s), s.load, s.asks, s.blocks, s.truth, s.marked>>
Explored == {CHOOSE s \in All : Kind(s) = k : k \in {Kind(s) : s \in All}}
MCScreen == [n \in {s.name : s \in All} |-> CHOOSE s \in All : s.name = n]
Pairs == {<<"hostname", "hostname">>, <<"hosts", "hosts">>, <<"services", "services">>,
          <<"sshd", "sshd">>, <<"hostname", "sshd">>, <<"wifi", "firewalld">>}
MCVisits == {<<s.name>> : s \in Explored} \cup Pairs

\* Edits outside GeST are explored on one screen at a time.
ForeignAlone == foreign' # foreign => Len(visits) = 1
Opened(kind) == Len(stack') > Len(stack) /\ stack'[Len(stack')].kind = kind
\* The help window matters only under a task that pops or pushes.
HelpMatters == Opened("help") => \E t \in Active : task[t].ok \cap {"pop", "push"} # {}
\* A screen that stages is also taken through a second edit and save, when the
\* first save has ended.
Stages(s) == \E op \in Ops(s) : op.carries \in {"work", "now", "diff"}
TwoRounds == edits >= 2 /\ (edits' > edits \/ Opened("modal")) =>
                Len(visits) = 1 /\ Stages(Scr(1)) /\ foreign = 0 /\ Active = {}
OneRound == foreign' > foreign => edits <= 2
Next == ScrNext /\ HelpMatters /\ ForeignAlone /\ TwoRounds /\ OneRound
Spec == ScrInit /\ [][Next]_scrVars /\ \A t \in Tasks : WF_scrVars(Step(t))
=============================================================================
