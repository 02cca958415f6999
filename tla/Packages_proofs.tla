--------------------------- MODULE Packages_proofs ---------------------------
(***************************************************************************)
(* Proofs about package management: the screens of Software, their runs and *)
(* the list they report to, and the commits of PackageSets.                 *)
(*                                                                          *)
(* The argument about the screens is one of where each of them can be on    *)
(* the stack.  Shape says which screen may be above which, that what was    *)
(* opened from the list is right above it, that there is a review below a   *)
(* run that tells one, and what is above a review whose countdown was       *)
(* overtaken.  A step of the stack puts, pushes, swaps, covers or cuts, and *)
(* for each of the five one lemma says that it keeps the shape and (Moves)  *)
(* that runs stay as far as they were and that a run that owes the list its *)
(* changes is not lost while the list is there.  What the actions do beside *)
(* the stack is then a matter of a few fields.                              *)
(***************************************************************************)
EXTENDS MCSoftware, FiniteSetTheorems, TLAPS

Things == Pkgs \cup {"tree"}
Installs == {"install", "binpkg", "binpref"}
Kinds == Installs \cup {"remove", "depclean", "update", "sync"}
OpSet == [kind : Kinds, atoms : SUBSET Pkgs]
ScreenKinds == {"menu", "starting", "software", "loading", "review", "run", "aside", "modal"}
Frames == [is : ScreenKinds,
           flow : Flows \cup {"none"}, ops : Seq(OpSet),
           st : {"ready", "work", "check", "done"},
           plan : [ok : BOOLEAN, items : SUBSET Things],
           kept : SUBSET Things, drawn : SUBSET Things,
           flag : BOOLEAN, counting : BOOLEAN, ret : BOOLEAN,
           tell : {"nobody", "list", "review"}, codes : Seq({0, 1}),
           title : Titles \cup {""}, spent : BOOLEAN]
Systems0 == [inst : SUBSET Pkgs, old : SUBSET Pkgs, world : SUBSET Pkgs]

\* The commands of a flow: a list of installs with an uninstall at its end,
\* over different packages, or a single command.
OpsFit(flow, ops) ==
    /\ Len(ops) > 0
    /\ flow # "sync" => \A k \in 1..Len(ops) : ops[k].kind # "sync"
    /\ \A l \in 1..Len(ops) : \A k \in 1..l - 1 :
          /\ ops[k].kind \in Installs /\ ops[l].kind \in Installs \cup {"remove"}
          /\ ops[k].atoms \cap ops[l].atoms = {}
AllZero(f) == \A k \in 1..Len(f.codes) : f.codes[k] = 0

\* A screen by itself.
RunFits(f) ==
    /\ Len(f.codes) <= Len(f.ops)
    /\ f.title = "Completed" /\ f.flow # "sync" => Len(f.codes) = Len(f.ops) /\ AllZero(f)
    /\ f.is = "run" => /\ f.st \in {"work", "check", "done"}
                       /\ f.st = "work" => Len(f.codes) < Len(f.ops) /\ f.title = ""
                       /\ f.st = "check" => f.flow = "accept"
                       /\ f.tell = "list" <=> f.flow = "accept"
                       /\ f.ret => f.flow = "cleanup"
ReviewFits(f) ==
    /\ f.flag => f.ret
    /\ f.ret => f.flow = "cleanup"
Fits(f) ==
    /\ f.is \in {"loading", "review", "run", "modal"} => OpsFit(f.flow, f.ops)
    /\ f.is \in {"run", "modal"} => RunFits(f)
    /\ f.is = "review" => ReviewFits(f)
    /\ f.is = "loading" => ~f.ret
    /\ f.flag \/ f.counting => f.is \in {"loading", "review"}
    /\ f.is \in {"loading", "review"} /\ f.flow = "cleanup" => f.plan.items \subseteq Pkgs

\* Two screens of the stack, g somewhere above f.
Above(f, g) ==
    /\ f.is = "menu" => g.is # "menu"
    /\ f.is \in {"starting", "loading"} => g.is = "aside"
    /\ f.is = "software" => g.is \in {"loading", "review", "run", "aside", "modal"}
    /\ f.is = "review" => g.is \in {"run", "aside", "modal"}
    /\ f.is \in {"run", "aside"} => g.is \in {"aside", "modal"}
    /\ f.is # "modal"
    /\ f.is = "run" /\ g.is = "modal" => f.st # "work" /\ g.ret = f.ret

\* A screen in its place: the list is below what was opened from it, a
\* review below the run that will tell it, and a review whose countdown was
\* overtaken below a run that does not go back to it.
Listing(s) == Len(s) > 1 /\ s[2].is = "software"
FromList(f) == f.is \in {"loading", "review", "run"} /\ f.flow = "accept"
Returns(f) == f.is \in {"review", "run", "modal"} /\ f.ret
Overtaken(f) == f.is = "review" /\ f.spent /\ f.flag
Placed(s, i) ==
    /\ FromList(s[i]) => i = 3 /\ Listing(s)
    /\ Returns(s[i]) => Listing(s)
    /\ s[i].is = "run" /\ s[i].tell = "review" => i > 1 /\ s[i - 1].is = "review"
    /\ Overtaken(s[i]) => i < Len(s) /\ s[i + 1].is = "run" /\ s[i + 1].ret
Shape(s) ==
    /\ s \in Seq(Frames) /\ Len(s) > 0 /\ s[1] = Menu
    /\ \A i \in 1..Len(s) : Fits(s[i])
    /\ \A j \in 1..Len(s) : \A i \in 1..j - 1 : Above(s[i], s[j])
    /\ \A i \in 1..Len(s) : Placed(s, i)

\* What a step of the stack alone keeps: runs and dialogues of the new stack
\* are as far as they were or have done nothing, and a run that owes the list
\* its changes stays as long as the list does.
Owes(f) == f.is = "run" /\ (f.ret \/ (f.tell = "list" /\ f.st = "work" /\ f.codes # <<>>))
Debt(s) == \E i \in 1..Len(s) : Owes(s[i])
Same(f, g) == g.is \in {"run", "modal"} /\ g.flow = f.flow /\ g.ops = f.ops /\ g.codes = f.codes
Copies(s, t) == \A j \in 1..Len(t) : t[j].is \in {"run", "modal"} =>
                    t[j].codes = <<>> \/ \E i \in 1..Len(s) : Same(t[j], s[i])
Follows(s, t) == Shape(t) /\ Copies(s, t)
Keeps(s, t) == Listing(t) => Listing(s) /\ (Debt(s) => Debt(t))
Moves(s, t) == Follows(s, t) /\ Keeps(s, t)

-----------------------------------------------------------------------------
(* Steps of the stack.                                                       *)

\* A screen changes where it is.
Alike(f, g) == /\ g.is = f.is /\ g.flow = f.flow /\ g.ret = f.ret /\ g.tell = f.tell
               /\ g.is = "run" /\ g.st = "work" => f.st = "work"
PutsShape(s, i, f, t) ==
    /\ t = [s EXCEPT ![i] = f]
    /\ Shape(s) /\ i \in 2..Len(s) /\ f \in Frames /\ Fits(f) /\ Alike(s[i], f)
    /\ Overtaken(f) => Overtaken(s[i]) \/ (i < Len(s) /\ s[i + 1].is = "run" /\ s[i + 1].ret)
LEMMA PutShape ==
  ASSUME NEW s, NEW p, NEW f, NEW t, PutsShape(s, p, f, t)
  PROVE  /\ Shape(t) /\ Len(t) = Len(s) /\ t[p] = f
         /\ Listing(t) <=> Listing(s)
         /\ \A j \in 1..Len(s) : j # p => t[j] = s[j]
<1>1. s \in Seq(Frames) /\ Len(s) \in Nat /\ p \in 2..Len(s) /\ f \in Frames /\ t = [s EXCEPT ![p] = f]
  BY DEF PutsShape, Shape
<1>2. t \in Seq(Frames) /\ Len(t) = Len(s) /\ t[p] = f /\ \A j \in 1..Len(s) : j # p => t[j] = s[j]
  BY <1>1
<1>3. \A j \in 1..Len(s) : t[j].is = s[j].is /\ t[j].ret = s[j].ret /\ t[j].flow = s[j].flow /\ t[j].tell = s[j].tell
                           /\ (t[j].is = "run" /\ t[j].st = "work" => s[j].st = "work")
  BY <1>1, <1>2 DEF PutsShape, Alike
<1>4. Listing(t) <=> Listing(s)
  BY <1>1, <1>2, <1>3 DEF Listing
<1>5. t[1] = Menu
  BY <1>1, <1>2 DEF PutsShape, Shape
<1>6. \A j \in 1..Len(t) : Fits(t[j])
  BY <1>1, <1>2 DEF PutsShape, Shape
<1>7. \A j \in 1..Len(t) : \A k \in 1..j - 1 : Above(t[k], t[j])
  <2> SUFFICES ASSUME NEW j \in 1..Len(t), NEW k \in 1..j - 1 PROVE Above(t[k], t[j])
    OBVIOUS
  <2>1. Above(s[k], s[j])
    BY <1>1, <1>2 DEF PutsShape, Shape
  <2>2. j \in 1..Len(s) /\ k \in 1..Len(s)
    BY <1>1, <1>2
  <2> QED
    BY <2>1, <2>2, <1>3 DEF Above
<1>8. \A j \in 1..Len(t) : Placed(t, j)
  <2> SUFFICES ASSUME NEW j \in 1..Len(t) PROVE Placed(t, j)
    OBVIOUS
  <2>1. Placed(s, j) /\ j \in 1..Len(s)
    BY <1>1, <1>2 DEF PutsShape, Shape
  <2>2. FromList(t[j]) => FromList(s[j])
    BY <2>1, <1>3 DEF FromList
  <2>3. Returns(t[j]) => Returns(s[j])
    BY <2>1, <1>3 DEF Returns
  <2>4. t[j].is = "run" /\ t[j].tell = "review" => j > 1 /\ t[j - 1].is = "review"
    <3> SUFFICES ASSUME t[j].is = "run", t[j].tell = "review" PROVE j > 1 /\ t[j - 1].is = "review"
      OBVIOUS
    <3>1. j > 1 /\ s[j - 1].is = "review"
      BY <2>1, <1>3 DEF Placed
    <3>2. j - 1 \in 1..Len(s)
      BY <3>1, <2>1, <1>1
    <3> QED
      BY <3>1, <3>2, <1>3
  <2>5. Overtaken(t[j]) => j < Len(t) /\ t[j + 1].is = "run" /\ t[j + 1].ret
    <3> SUFFICES ASSUME Overtaken(t[j]) PROVE j < Len(t) /\ t[j + 1].is = "run" /\ t[j + 1].ret
      OBVIOUS
    <3>1. j < Len(s) /\ s[j + 1].is = "run" /\ s[j + 1].ret
      <4>1. CASE j = p
        BY <4>1, <2>1, <1>2 DEF PutsShape, Placed
      <4>2. CASE j # p
        BY <4>2, <2>1, <1>2 DEF Placed
      <4> QED
        BY <4>1, <4>2
    <3>2. j + 1 \in 1..Len(s)
      BY <3>1, <2>1, <1>1
    <3> QED
      BY <3>1, <3>2, <1>2, <1>3
  <2> QED
    BY <2>1, <2>2, <2>3, <2>4, <2>5, <1>4 DEF Placed
<1>9. t \in Seq(Frames) /\ Len(t) > 0
  BY <1>1, <1>2
<1>10. Shape(t)
  BY <1>5, <1>6, <1>7, <1>8, <1>9 DEF Shape
<1> QED
  BY <1>2, <1>4, <1>10

\* A screen goes over the others.
PushesShape(s, f, t) ==
    /\ t = Append(s, f)
    /\ Shape(s) /\ f \in Frames /\ Fits(f)
    /\ \A i \in 1..Len(s) : Above(s[i], f)
    /\ FromList(f) => Len(s) = 2 /\ Listing(s)
    /\ Returns(f) => Listing(s)
    /\ f.is = "run" /\ f.tell = "review" => s[Len(s)].is = "review"
    /\ ~Overtaken(f)
LEMMA PushShape ==
  ASSUME NEW s, NEW f, NEW t, PushesShape(s, f, t)
  PROVE  /\ Shape(t) /\ Len(t) = Len(s) + 1 /\ t[Len(s) + 1] = f
         /\ Listing(s) => Listing(t)
         /\ \A j \in 1..Len(s) : t[j] = s[j]
<1>1. s \in Seq(Frames) /\ Len(s) \in Nat /\ Len(s) > 0 /\ f \in Frames /\ t = Append(s, f)
  BY DEF PushesShape, Shape
<1>2. t \in Seq(Frames) /\ Len(t) = Len(s) + 1 /\ t[Len(t)] = f /\ t[Len(s) + 1] = f /\ \A j \in 1..Len(s) : t[j] = s[j]
  BY <1>1
<1>4. Listing(s) => Listing(t)
  BY <1>1, <1>2 DEF Listing
<1>5. t[1] = Menu
  BY <1>1, <1>2 DEF PushesShape, Shape
<1>6. \A j \in 1..Len(t) : Fits(t[j])
  BY <1>1, <1>2 DEF PushesShape, Shape
<1>7. \A j \in 1..Len(t) : \A k \in 1..j - 1 : Above(t[k], t[j])
  <2> SUFFICES ASSUME NEW j \in 1..Len(t), NEW k \in 1..j - 1 PROVE Above(t[k], t[j])
    OBVIOUS
  <2>1. k \in 1..Len(s) /\ t[k] = s[k]
    BY <1>1, <1>2
  <2>2. CASE j \in 1..Len(s)
    BY <2>1, <2>2, <1>1, <1>2 DEF PushesShape, Shape
  <2>3. CASE j = Len(s) + 1
    BY <2>1, <2>3, <1>2 DEF PushesShape
  <2> QED
    BY <2>2, <2>3, <1>1, <1>2
<1>8. \A j \in 1..Len(t) : Placed(t, j)
  <2> SUFFICES ASSUME NEW j \in 1..Len(t) PROVE Placed(t, j)
    OBVIOUS
  <2>2. CASE j \in 1..Len(s)
    <3>1. Placed(s, j) /\ t[j] = s[j]
      BY <2>2, <1>2 DEF PushesShape, Shape
    <3>2. j > 1 => t[j - 1] = s[j - 1]
      BY <2>2, <1>1, <1>2
    <3>3. j < Len(s) => j < Len(t) /\ t[j + 1] = s[j + 1]
      BY <2>2, <1>1, <1>2
    <3> QED
      BY <3>1, <3>2, <3>3, <1>4, <2>2, <1>1 DEF Placed
  <2>3. CASE j = Len(s) + 1
    <3>1. t[j] = f /\ t[j - 1] = s[Len(s)] /\ j > 1
      BY <2>3, <1>1, <1>2
    <3>2. FromList(t[j]) => j = 3 /\ Listing(t)
      <4>1. FromList(t[j]) => Len(s) = 2 /\ Listing(s)
        BY <3>1 DEF PushesShape
      <4>2. Len(s) = 2 => j = 3
        BY <2>3
      <4> QED
        BY <4>1, <4>2, <1>4
    <3>3. Returns(t[j]) => Listing(t)
      BY <3>1, <1>4 DEF PushesShape
    <3>4. t[j].is = "run" /\ t[j].tell = "review" => t[j - 1].is = "review"
      BY <3>1 DEF PushesShape
    <3>5. ~Overtaken(t[j])
      BY <3>1 DEF PushesShape
    <3> QED
      BY <3>1, <3>2, <3>3, <3>4, <3>5 DEF Placed
  <2> QED
    BY <2>2, <2>3, <1>1, <1>2
<1>9. Shape(t)
  BY <1>1, <1>2, <1>5, <1>6, <1>7, <1>8 DEF Shape
<1> QED
  BY <1>2, <1>4, <1>9

\* The top goes.
CutsShape(s, k, t) == t = SubSeq(s, 1, k) /\ Shape(s) /\ k \in 1..Len(s) /\ ~Overtaken(s[k])
LEMMA CutShape ==
  ASSUME NEW s, NEW k, NEW t, CutsShape(s, k, t)
  PROVE  /\ Shape(t) /\ Len(t) = k
         /\ Listing(s) /\ k > 1 => Listing(t)
         /\ Listing(t) => Listing(s)
         /\ \A j \in 1..k : t[j] = s[j]
<1>1. s \in Seq(Frames) /\ Len(s) \in Nat /\ Len(s) > 0 /\ k \in 1..Len(s) /\ t = SubSeq(s, 1, k)
  BY DEF CutsShape, Shape
<1>2. t \in Seq(Frames) /\ Len(t) = k /\ \A j \in 1..k : t[j] = s[j]
  BY <1>1
<1>4. (Listing(s) /\ k > 1 => Listing(t)) /\ (Listing(t) => Listing(s))
  BY <1>1, <1>2 DEF Listing
<1>5. t[1] = Menu
  BY <1>1, <1>2 DEF CutsShape, Shape
<1>6. \A j \in 1..Len(t) : Fits(t[j])
  BY <1>1, <1>2 DEF CutsShape, Shape
<1>7. \A j \in 1..Len(t) : \A i \in 1..j - 1 : Above(t[i], t[j])
  <2> SUFFICES ASSUME NEW j \in 1..Len(t), NEW i \in 1..j - 1 PROVE Above(t[i], t[j])
    OBVIOUS
  <2>1. i \in 1..k /\ j \in 1..k /\ j \in 1..Len(s)
    BY <1>1, <1>2
  <2> QED
    BY <2>1, <1>2 DEF CutsShape, Shape
<1>8. \A j \in 1..Len(t) : Placed(t, j)
  <2> SUFFICES ASSUME NEW j \in 1..Len(t) PROVE Placed(t, j)
    OBVIOUS
  <2>1. Placed(s, j) /\ t[j] = s[j] /\ j \in 1..k
    BY <1>1, <1>2 DEF CutsShape, Shape
  <2>2. j > 1 => t[j - 1] = s[j - 1]
    BY <2>1, <1>1, <1>2
  <2>3. j < k => j < Len(t) /\ t[j + 1] = s[j + 1]
    BY <2>1, <1>1, <1>2
  <2>4. k = 1 => ~FromList(t[j]) /\ ~Returns(t[j])
    <3>1. k = 1 => j = 1
      BY <2>1
    <3>2. Menu.is = "menu"
      BY DEF Menu, Frame
    <3> QED
      BY <3>1, <3>2, <1>5 DEF FromList, Returns
  <2>5. j = k => ~Overtaken(t[j])
    BY <2>1 DEF CutsShape
  <2> QED
    BY <2>1, <2>2, <2>3, <2>4, <2>5, <1>4, <1>1 DEF Placed
<1>9. Shape(t)
  BY <1>1, <1>2, <1>5, <1>6, <1>7, <1>8 DEF Shape
<1> QED
  BY <1>2, <1>4, <1>9

RestType ==
    /\ sys \in Systems0 /\ selection \in [Pkgs -> MarkNames \cup {"none"}]
    /\ shown.rows \subseteq Pkgs /\ shown.inst \subseteq shown.rows
    /\ mode \in {"manual", "timer", "immediate"} /\ view \in Views /\ reading \in Seq(Views)
ShapeInv == Shape(stack) /\ RestType

\* What was done.
Honest(f) == f.is \in {"run", "modal"} /\ f.flow # "sync" /\ AllZero(f) =>
                 \A k \in 1..Len(f.codes) : Done(f.ops[k])
HonestInv == \A i \in 1..Len(stack) : Honest(stack[i])

\* What the list knows.
Match == /\ shown.rows = RowsOf(view, sys, sys.world) /\ shown.inst = shown.rows \cap sys.inst
         /\ view # "search" => shown.ups = sys.old
ReadInv == /\ \A i \in 1..Len(reading) : reading[i] = view
           /\ reading # <<>> => Listing(stack)
KnownInv == Listing(stack) /\ ~untold /\ ~Debt(stack) => World = sys.world /\ (reading = <<>> => Match)
ListInv == ReadInv /\ KnownInv

\* Another screen takes the place of the top.
SwapsShape(s, f, t) ==
    /\ t = Append(Front(s), f)
    /\ Shape(s) /\ Len(s) > 1 /\ f \in Frames /\ Fits(f) /\ ~Overtaken(s[Len(s) - 1])
    /\ \A i \in 1..Len(s) - 1 : Above(s[i], f)
    /\ FromList(f) => Len(s) = 3 /\ Listing(s)
    /\ Returns(f) => Listing(s) /\ Len(s) > 2
    /\ f.is = "run" /\ f.tell = "review" => s[Len(s) - 1].is = "review"
    /\ ~Overtaken(f)
LEMMA SwapShape ==
  ASSUME NEW s, NEW f, NEW t, SwapsShape(s, f, t)
  PROVE  /\ Shape(t) /\ Len(t) = Len(s) /\ t[Len(s)] = f
         /\ Listing(s) /\ Len(s) > 2 => Listing(t)
         /\ Listing(t) /\ f.is # "software" => Listing(s) /\ Len(s) > 2
         /\ \A j \in 1..Len(s) - 1 : t[j] = s[j]
<1> DEFINE n == Len(s)
           r == SubSeq(s, 1, n - 1)
<1>1. t = Append(r, f) /\ s \in Seq(Frames) /\ n \in Nat /\ n > 1 /\ n - 1 \in 1..Len(s) /\ f \in Frames
  BY DEF SwapsShape, Shape, Front
<1>2. CutsShape(s, n - 1, r)
  BY <1>1 DEF SwapsShape, CutsShape
<1>3. /\ Shape(r) /\ Len(r) = n - 1
      /\ Listing(s) /\ n - 1 > 1 => Listing(r)
      /\ Listing(r) => Listing(s)
      /\ \A j \in 1..n - 1 : r[j] = s[j]
  BY ZenonT(60), <1>2, CutShape
<1> HIDE DEF r
<1>4. PushesShape(r, f, t)
  <2>1. Shape(r) /\ f \in Frames /\ Fits(f) /\ ~Overtaken(f)
    BY <1>3 DEF SwapsShape
  <2>2. \A i \in 1..Len(r) : Above(r[i], f)
    BY <1>3 DEF SwapsShape
  <2>3. FromList(f) => Len(r) = 2 /\ Listing(r)
    <3>1. n = 3 => Len(r) = 2 /\ n - 1 > 1
      BY <1>3
    <3> QED
      BY <3>1, <1>3 DEF SwapsShape
  <2>4. Returns(f) => Listing(r)
    <3>1. n > 2 => n - 1 > 1
      BY <1>1
    <3> QED
      BY <3>1, <1>3 DEF SwapsShape
  <2>5. f.is = "run" /\ f.tell = "review" => r[Len(r)].is = "review"
    BY <1>1, <1>3 DEF SwapsShape
  <2> QED
    BY <2>1, <2>2, <2>3, <2>4, <2>5, <1>1 DEF PushesShape
<1>5. /\ Shape(t) /\ Len(t) = Len(r) + 1 /\ t[Len(r) + 1] = f
      /\ Listing(r) => Listing(t)
      /\ \A j \in 1..Len(r) : t[j] = r[j]
  BY <1>4, PushShape
<1>6. Len(t) = n /\ t[n] = f /\ \A j \in 1..n - 1 : t[j] = s[j]
  BY <1>5, <1>3, <1>1
<1>7. Listing(s) /\ n > 2 => Listing(t)
  BY <1>6, <1>1 DEF Listing
<1>8. Listing(t) /\ f.is # "software" => Listing(s) /\ n > 2
  BY <1>6, <1>1 DEF Listing
<1> QED
  BY <1>5, <1>6, <1>7, <1>8

LEMMA SameSeq ==
  ASSUME NEW s \in Seq(Frames), NEW t \in Seq(Frames), Len(s) = Len(t), \A j \in 1..Len(t) : s[j] = t[j]
  PROVE  s = t
OBVIOUS

\* A run goes over the review it was started from.
CoversShape(s, f, g, t) ==
    /\ t = Append([s EXCEPT ![Len(s)] = f], g)
    /\ Shape(s) /\ Len(s) > 1 /\ f \in Frames /\ g \in Frames /\ Fits(f) /\ Fits(g)
    /\ s[Len(s)].is = "review" /\ Alike(s[Len(s)], f)
    /\ g.is = "run" /\ g.ret = f.ret /\ ~FromList(g)
LEMMA CoverShape ==
  ASSUME NEW s, NEW f, NEW g, NEW t, CoversShape(s, f, g, t)
  PROVE  /\ Shape(t) /\ Len(t) = Len(s) + 1 /\ t[Len(s)] = f /\ t[Len(s) + 1] = g
         /\ Listing(t) <=> Listing(s)
         /\ \A j \in 1..Len(s) - 1 : t[j] = s[j]
<1> DEFINE n == Len(s)
           w == [s EXCEPT ![n] = f]
           r == Append(s, g)
<1>1. s \in Seq(Frames) /\ n \in Nat /\ n > 1 /\ f \in Frames /\ g \in Frames /\ n = Len(s)
  BY DEF CoversShape, Shape
<1>w. w \in Seq(Frames) /\ Len(w) = n /\ w[n] = f /\ t = Append(w, g) /\ \A j \in 1..n : j # n => w[j] = s[j]
  BY <1>1 DEF CoversShape
<1>2. PushesShape(s, g, r)
  <2>1. \A i \in 1..n : Above(s[i], g)
    <3> SUFFICES ASSUME NEW i \in 1..n PROVE Above(s[i], g)
      OBVIOUS
    <3>1. CASE i = n
      BY <3>1 DEF CoversShape, Above
    <3>2. CASE i # n
      <4>1. Above(s[i], s[n])
        BY <3>2, <1>1 DEF CoversShape, Shape
      <4> QED
        BY <4>1 DEF CoversShape, Above
    <3> QED
      BY <3>1, <3>2
  <2>2. Returns(g) => Listing(s)
    <3>1. Placed(s, n)
      BY <1>1 DEF CoversShape, Shape
    <3> QED
      BY <3>1 DEF CoversShape, Alike, Returns, Placed
  <2> QED
    BY <2>1, <2>2 DEF CoversShape, PushesShape, Overtaken
<1>3. /\ Shape(r) /\ Len(r) = Len(s) + 1 /\ r[Len(s) + 1] = g
      /\ Listing(s) => Listing(r)
      /\ \A j \in 1..Len(s) : r[j] = s[j]
  BY <1>2, PushShape
<1>4. Shape(s) /\ Fits(f) /\ s[n].is = "review" /\ Alike(s[n], f) /\ g.is = "run" /\ g.ret = f.ret
  BY DEF CoversShape
<1> HIDE DEF r, n, w
<1>5. t = [r EXCEPT ![n] = f]
  <2> DEFINE u == [r EXCEPT ![n] = f]
  <2>1. t \in Seq(Frames) /\ Len(t) = n + 1 /\ t[n + 1] = g /\ \A j \in 1..n : t[j] = w[j]
    BY <1>w, <1>1
  <2>2. r \in Seq(Frames) /\ n \in 1..Len(r) /\ Len(r) = n + 1 /\ r[n + 1] = g /\ \A j \in 1..n : r[j] = s[j]
    BY <1>1, <1>3 DEF Shape
  <2>3. u \in Seq(Frames) /\ Len(u) = Len(r) /\ u[n] = f /\ \A j \in 1..Len(r) : j # n => u[j] = r[j]
    BY <2>2, <1>1
  <2> HIDE DEF u
  <2>4. \A j \in 1..Len(u) : t[j] = u[j]
    BY <2>1, <2>2, <2>3, <1>w, <1>1
  <2>5. t = u
    BY <2>1, <2>2, <2>3, <2>4, SameSeq
  <2> QED
    BY <2>5 DEF u
<1>6. PutsShape(r, n, f, t)
  <2>1. n \in 2..Len(r) /\ r[n] = s[n] /\ r[n + 1] = g /\ n < Len(r)
    BY <1>1, <1>3
  <2>3. Overtaken(f) => g.ret
    BY <1>4 DEF Alike, Overtaken, Fits, ReviewFits
  <2> QED
    BY <2>1, <2>3, <1>1, <1>3, <1>4, <1>5 DEF PutsShape
<1>7. /\ Shape(t) /\ Len(t) = Len(r) /\ t[n] = f
      /\ Listing(t) <=> Listing(r)
      /\ \A j \in 1..Len(r) : j # n => t[j] = r[j]
  BY <1>6, PutShape
<1>8. Len(t) = n + 1 /\ t[n + 1] = g /\ \A j \in 1..n - 1 : t[j] = s[j]
  BY <1>7, <1>3, <1>1
<1>9. Listing(r) => Listing(s)
  BY <1>3, <1>1 DEF Listing
<1> QED
  BY <1>1, <1>3, <1>7, <1>8, <1>9

-----------------------------------------------------------------------------
(* What they keep.                                                           *)

Active(f) == f.is \in {"run", "modal"}
LEMMA SelfSame == ASSUME NEW f, Active(f) PROVE Same(f, f)
BY DEF Same, Active

Puts(s, i, f, t) == PutsShape(s, i, f, t) /\ (Active(f) => Same(f, s[i]))
LEMMA PutMoves ==
  ASSUME NEW s, NEW p, NEW f, NEW t, Puts(s, p, f, t)
  PROVE  Follows(s, t) /\ ((Owes(s[p]) => Owes(f)) => Keeps(s, t))
<1>1. PutsShape(s, p, f, t) /\ p \in 2..Len(s) /\ s \in Seq(Frames) /\ (Active(f) => Same(f, s[p]))
  BY DEF Puts, PutsShape, Shape
<1>2. /\ Shape(t) /\ Len(t) = Len(s) /\ t[p] = f
      /\ Listing(t) <=> Listing(s)
      /\ \A j \in 1..Len(s) : j # p => t[j] = s[j]
  BY <1>1, PutShape
<1>3. Copies(s, t)
  <2> SUFFICES ASSUME NEW j \in 1..Len(t), t[j].is \in {"run", "modal"}
               PROVE  \E i \in 1..Len(s) : Same(t[j], s[i])
    BY DEF Copies
  <2>1. CASE j = p
    BY <2>1, <1>1, <1>2 DEF Active
  <2>2. CASE j # p
    BY <2>2, <1>2, SelfSame DEF Active
  <2> QED
    BY <2>1, <2>2
<1>4. ASSUME Owes(s[p]) => Owes(f), Debt(s) PROVE Debt(t)
  <2>1. PICK i \in 1..Len(s) : Owes(s[i])
    BY <1>4 DEF Debt
  <2>2. Owes(t[i])
    BY <2>1, <1>2, <1>4
  <2> QED
    BY <2>1, <2>2, <1>2 DEF Debt
<1> QED
  BY <1>2, <1>3, <1>4 DEF Follows, Keeps

New(s, f) == Active(f) => f.codes = <<>> \/ \E i \in 1..Len(s) : Same(f, s[i])
Pushes(s, f, t) == PushesShape(s, f, t) /\ New(s, f) /\ f.is # "software"
LEMMA PushMoves ==
  ASSUME NEW s, NEW f, NEW t, Pushes(s, f, t)
  PROVE  Moves(s, t)
<1>1. PushesShape(s, f, t) /\ New(s, f) /\ f.is # "software" /\ s \in Seq(Frames) /\ Len(s) \in Nat
  BY DEF Pushes, PushesShape, Shape
<1>2. /\ Shape(t) /\ Len(t) = Len(s) + 1 /\ t[Len(s) + 1] = f
      /\ Listing(s) => Listing(t)
      /\ \A j \in 1..Len(s) : t[j] = s[j]
  BY <1>1, PushShape
<1>3. Copies(s, t)
  <2> SUFFICES ASSUME NEW j \in 1..Len(t), t[j].is \in {"run", "modal"}
               PROVE  t[j].codes = <<>> \/ \E i \in 1..Len(s) : Same(t[j], s[i])
    BY DEF Copies
  <2>1. CASE j = Len(s) + 1
    BY <2>1, <1>1, <1>2 DEF Active, New
  <2>2. CASE j \in 1..Len(s)
    BY <2>2, <1>2, SelfSame DEF Active
  <2> QED
    BY <2>1, <2>2, <1>1, <1>2
<1>4. Debt(s) => Debt(t)
  BY <1>1, <1>2 DEF Debt
<1>5. Listing(t) => Listing(s)
  BY <1>1, <1>2 DEF Listing
<1> QED
  BY <1>2, <1>3, <1>4, <1>5 DEF Moves, Follows, Keeps

Swaps(s, f, t) == SwapsShape(s, f, t) /\ (Active(f) => f.codes = <<>>)
LEMMA SwapMoves ==
  ASSUME NEW s, NEW f, NEW t, Swaps(s, f, t)
  PROVE  Follows(s, t) /\ (f.is # "software" /\ ~Owes(s[Len(s)]) => Keeps(s, t))
<1>1. SwapsShape(s, f, t) /\ (Active(f) => f.codes = <<>>) /\ s \in Seq(Frames) /\ Len(s) \in Nat /\ Len(s) > 1
  BY DEF Swaps, SwapsShape, Shape
<1>2. /\ Shape(t) /\ Len(t) = Len(s) /\ t[Len(s)] = f
      /\ Listing(s) /\ Len(s) > 2 => Listing(t)
      /\ Listing(t) /\ f.is # "software" => Listing(s) /\ Len(s) > 2
      /\ \A j \in 1..Len(s) - 1 : t[j] = s[j]
  BY <1>1, SwapShape
<1>3. Copies(s, t)
  <2> SUFFICES ASSUME NEW j \in 1..Len(t), t[j].is \in {"run", "modal"}
               PROVE  t[j].codes = <<>> \/ \E i \in 1..Len(s) : Same(t[j], s[i])
    BY DEF Copies
  <2>1. CASE j = Len(s)
    BY <2>1, <1>1, <1>2 DEF Active
  <2>2. CASE j \in 1..Len(s) - 1
    <3>1. j \in 1..Len(s) /\ t[j] = s[j]
      BY <2>2, <1>1, <1>2
    <3> QED
      BY <3>1, SelfSame DEF Active
  <2> QED
    BY <2>1, <2>2, <1>1, <1>2
<1>4. ASSUME ~Owes(s[Len(s)]), Debt(s) PROVE Debt(t)
  <2>1. PICK i \in 1..Len(s) : Owes(s[i])
    BY <1>4 DEF Debt
  <2>2. i \in 1..Len(s) - 1
    BY <2>1, <1>4, <1>1
  <2>3. Owes(t[i]) /\ i \in 1..Len(t)
    BY <2>1, <2>2, <1>2
  <2> QED
    BY <2>3 DEF Debt
<1> QED
  BY <1>2, <1>3, <1>4 DEF Follows, Keeps

Covers(s, f, g, t) == CoversShape(s, f, g, t) /\ g.codes = <<>>
LEMMA CoverMoves ==
  ASSUME NEW s, NEW f, NEW g, NEW t, Covers(s, f, g, t)
  PROVE  Moves(s, t)
<1>1. CoversShape(s, f, g, t) /\ g.codes = <<>> /\ s \in Seq(Frames) /\ Len(s) \in Nat /\ Len(s) > 1
      /\ s[Len(s)].is = "review" /\ f.is = "review"
  BY DEF Covers, CoversShape, Shape, Alike
<1>2. /\ Shape(t) /\ Len(t) = Len(s) + 1 /\ t[Len(s)] = f /\ t[Len(s) + 1] = g
      /\ Listing(t) <=> Listing(s)
      /\ \A j \in 1..Len(s) - 1 : t[j] = s[j]
  BY <1>1, CoverShape
<1>3. Copies(s, t)
  <2> SUFFICES ASSUME NEW j \in 1..Len(t), t[j].is \in {"run", "modal"}
               PROVE  t[j].codes = <<>> \/ \E i \in 1..Len(s) : Same(t[j], s[i])
    BY DEF Copies
  <2>1. CASE j = Len(s) + 1
    BY <2>1, <1>1, <1>2
  <2>2. CASE j = Len(s)
    BY <2>2, <1>1, <1>2
  <2>3. CASE j \in 1..Len(s) - 1
    <3>1. j \in 1..Len(s) /\ t[j] = s[j]
      BY <2>3, <1>1, <1>2
    <3> QED
      BY <3>1, SelfSame DEF Active
  <2> QED
    BY <2>1, <2>2, <2>3, <1>1, <1>2
<1>4. ASSUME Debt(s) PROVE Debt(t)
  <2>1. PICK i \in 1..Len(s) : Owes(s[i])
    BY <1>4 DEF Debt
  <2>2. i # Len(s)
    BY <2>1, <1>1 DEF Owes
  <2>3. i \in 1..Len(s) - 1
    BY <2>1, <2>2, <1>1
  <2>4. Owes(t[i]) /\ i \in 1..Len(t)
    BY <2>1, <2>3, <1>1, <1>2
  <2> QED
    BY <2>4 DEF Debt
<1> QED
  BY <1>2, <1>3, <1>4 DEF Moves, Follows, Keeps

Cuts(s, k, t) == CutsShape(s, k, t) /\ (k = 1 \/ \A j \in k + 1..Len(s) : ~Owes(s[j]))
LEMMA CutMoves ==
  ASSUME NEW s, NEW k, NEW t, Cuts(s, k, t)
  PROVE  Moves(s, t)
<1>1. CutsShape(s, k, t) /\ s \in Seq(Frames) /\ Len(s) \in Nat /\ k \in 1..Len(s)
  BY DEF Cuts, CutsShape, Shape
<1>2. /\ Shape(t) /\ Len(t) = k
      /\ Listing(s) /\ k > 1 => Listing(t)
      /\ Listing(t) => Listing(s)
      /\ \A j \in 1..k : t[j] = s[j]
  BY <1>1, CutShape
<1>3. Copies(s, t)
  <2> SUFFICES ASSUME NEW j \in 1..Len(t), t[j].is \in {"run", "modal"}
               PROVE  \E i \in 1..Len(s) : Same(t[j], s[i])
    BY DEF Copies
  <2>1. j \in 1..Len(s) /\ t[j] = s[j]
    BY <1>1, <1>2
  <2> QED
    BY <2>1, SelfSame DEF Active
<1>4. ASSUME Debt(s), Listing(t) PROVE Debt(t)
  <2>1. PICK i \in 1..Len(s) : Owes(s[i])
    BY <1>4 DEF Debt
  <2>2. k # 1
    BY <1>2, <1>4 DEF Listing
  <2>3. i \notin k + 1..Len(s)
    BY <2>1, <2>2 DEF Cuts
  <2>4. i \in 1..k
    BY <2>1, <2>3, <1>1
  <2> QED
    BY <2>1, <2>4, <1>2 DEF Debt
<1> QED
  BY <1>2, <1>3, <1>4 DEF Moves, Follows, Keeps

LEMMA FollowTwice ==
  ASSUME NEW s, NEW t, NEW u, Follows(s, t), Follows(t, u)
  PROVE  Follows(s, u)
<1> SUFFICES ASSUME NEW j \in 1..Len(u), u[j].is \in {"run", "modal"}, u[j].codes # <<>>
             PROVE  \E i \in 1..Len(s) : Same(u[j], s[i])
  BY DEF Follows, Copies
<1>1. PICK i \in 1..Len(t) : Same(u[j], t[i])
  BY DEF Follows, Copies
<1>2. t[i].is \in {"run", "modal"} /\ t[i].codes # <<>>
  BY <1>1 DEF Same
<1>3. PICK k \in 1..Len(s) : Same(t[i], s[k])
  BY <1>2 DEF Follows, Copies
<1> QED
  BY <1>1, <1>3 DEF Same

LEMMA MoveTwice ==
  ASSUME NEW s, NEW t, NEW u, Moves(s, t), Moves(t, u)
  PROVE  Moves(s, u)
BY FollowTwice DEF Moves, Keeps

-----------------------------------------------------------------------------
(* Screens.                                                                  *)

Fresh(f, is, flow, ops) ==
    /\ f \in Frames
    /\ f.is = is /\ f.flow = flow /\ f.ops = ops /\ f.st = "ready" /\ f.kept = {} /\ f.drawn = {}
    /\ f.flag = FALSE /\ f.counting = FALSE /\ f.ret = FALSE /\ f.tell = "nobody" /\ f.codes = <<>>
    /\ f.title = "" /\ f.spent = FALSE /\ f.plan = NoPlan
LEMMA FrameFacts ==
  ASSUME NEW is \in ScreenKinds, NEW flow \in Flows \cup {"none"}, NEW ops \in Seq(OpSet)
  PROVE  Fresh(Frame(is, flow, ops), is, flow, ops)
<1>1. NoPlan \in [ok : BOOLEAN, items : SUBSET Things]
  BY DEF NoPlan
<1>2. <<>> \in Seq({0, 1})
  OBVIOUS
<1> QED
  BY <1>1, <1>2 DEF Frame, Frames, Titles, Fresh

LEMMA OneOp ==
  ASSUME NEW flow, NEW o \in OpSet, flow # "sync" => o.kind # "sync"
  PROVE  <<o>> \in Seq(OpSet) /\ OpsFit(flow, <<o>>)
BY DEF OpsFit

LEMMA OpFacts ==
  ASSUME NEW kind \in Kinds, NEW atoms \in SUBSET Pkgs
  PROVE  Op(kind, atoms) \in OpSet /\ Op(kind, atoms).kind = kind /\ Op(kind, atoms).atoms = atoms
BY DEF Op, OpSet

\* Where a screen is.
At(s, i) == Shape(s) /\ i \in 1..Len(s)
LEMMA Place ==
  ASSUME NEW s, NEW i, At(s, i)
  PROVE  /\ s \in Seq(Frames) /\ Len(s) \in Nat /\ Len(s) > 0 /\ i \in 1..Len(s)
         /\ s[i] \in Frames /\ Fits(s[i]) /\ Placed(s, i) /\ (i = Len(s) => ~Overtaken(s[i]))
         /\ s[i].is = "menu" <=> i = 1
         /\ \A k \in 1..i - 1 : Above(s[k], s[i])
         /\ \A k \in i + 1..Len(s) : Above(s[i], s[k])
<1>1. s \in Seq(Frames) /\ Len(s) \in Nat /\ Len(s) > 0 /\ i \in 1..Len(s) /\ s[i] \in Frames
  BY DEF At, Shape
<1>2. Fits(s[i]) /\ Placed(s, i) /\ \A k \in 1..i - 1 : Above(s[k], s[i])
  BY DEF At, Shape
<1>3. i = Len(s) => ~Overtaken(s[i])
  BY <1>1, <1>2 DEF Placed
<1>4. Menu.is = "menu"
  BY DEF Menu, Frame
<1>5. s[i].is = "menu" <=> i = 1
  <2>1. i # 1 => Above(s[1], s[i])
    BY <1>1, <1>2
  <2>2. s[1] = Menu
    BY DEF At, Shape
  <2> QED
    BY <2>1, <2>2, <1>4 DEF Above
<1>6. \A k \in i + 1..Len(s) : Above(s[i], s[k])
  <2> SUFFICES ASSUME NEW k \in i + 1..Len(s) PROVE Above(s[i], s[k])
    OBVIOUS
  <2>1. k \in 1..Len(s) /\ i \in 1..k - 1
    BY <1>1
  <2> QED
    BY <2>1 DEF At, Shape
<1> QED
  BY <1>1, <1>2, <1>3, <1>5, <1>6

\* The list, or the screen that loads it, is the second.
LEMMA SecondOnly ==
  ASSUME NEW s, NEW i, At(s, i), s[i].is \in {"software", "starting"}
  PROVE  i = 2
<1>1. /\ s \in Seq(Frames) /\ Len(s) \in Nat /\ i \in 1..Len(s) /\ i # 1
      /\ \A k \in 1..i - 1 : Above(s[k], s[i])
  BY Place
<1>2. ASSUME i # 2 PROVE FALSE
  <2>1. 2 \in 1..i - 1 /\ 2 \in 1..Len(s)
    BY <1>1, <1>2
  <2>2. Above(s[2], s[i])
    BY <2>1, <1>1
  <2>3. At(s, 2)
    BY <2>1 DEF At
  <2>4. s[2].is # "menu" /\ s[2] \in Frames
    BY <2>3, Place
  <2> QED
    BY <2>2, <2>4 DEF Above, Frames, ScreenKinds
<1> QED
  BY <1>1, <1>2

\* There is one run.
LEMMA RunOnly ==
  ASSUME NEW s, NEW i, At(s, i), s[i].is = "run", NEW j \in 1..Len(s), j # i
  PROVE  /\ s[j].is # "run"
         /\ s[i].st = "work" => s[j].is # "modal"
         /\ s[j].is = "modal" => j = Len(s) /\ s[j].ret = s[i].ret
         /\ j > i => s[j].is \in {"aside", "modal"}
         /\ j < i => s[j].is \in {"menu", "software", "review"}
<1>1. At(s, j) /\ Len(s) \in Nat /\ i \in 1..Len(s)
  BY Place DEF At
<1>2. CASE j < i
  <2>1. Above(s[j], s[i])
    BY <1>1, <1>2, Place
  <2>2. s[j] \in Frames
    BY <1>1, Place
  <2>3. s[j].is \in {"menu", "software", "review"}
    BY <2>1, <2>2 DEF Above, Frames, ScreenKinds
  <2> QED
    BY <2>3, <1>2, <1>1
<1>3. CASE j > i
  <2>1. Above(s[i], s[j])
    BY <1>1, <1>3, Place
  <2>2. s[j].is \in {"aside", "modal"} /\ (s[j].is = "modal" => s[i].st # "work" /\ s[j].ret = s[i].ret)
    BY <2>1 DEF Above
  <2>3. s[j].is = "modal" => j = Len(s)
    <3> SUFFICES ASSUME j # Len(s) PROVE s[j].is # "modal"
      OBVIOUS
    <3>0. \A k \in j + 1..Len(s) : Above(s[j], s[k])
      BY <1>1, Place
    <3>1. Above(s[j], s[j + 1])
      BY <3>0, <1>1
    <3> QED
      BY <3>1 DEF Above
  <2> QED
    BY <2>2, <2>3, <1>3, <1>1
<1> QED
  BY <1>1, <1>2, <1>3

-----------------------------------------------------------------------------
(* Opening a flow.                                                           *)

LEMMA PlannedFacts ==
  ASSUME NEW kind \in Installs \cup {"remove"}, NEW atoms \in SUBSET Pkgs
  PROVE  LET q == Planned(kind, atoms)
         IN  /\ q \in Seq(OpSet) /\ Len(q) \in {0, 1} /\ (Len(q) = 0 <=> atoms = {})
             /\ Len(q) = 1 => q[1].kind = kind /\ q[1].atoms = atoms
<1>1. Op(kind, atoms) \in OpSet /\ Op(kind, atoms).kind = kind /\ Op(kind, atoms).atoms = atoms
  BY OpFacts DEF Installs, Kinds
<1>2. CASE atoms = {}
  BY <1>2 DEF Planned
<1>3. CASE atoms # {}
  <2>1. Planned(kind, atoms) = <<Op(kind, atoms)>>
    BY <1>3 DEF Planned
  <2> QED
    BY <1>1, <1>3, <2>1
<1> QED
  BY <1>2, <1>3

\* A list of commands followed by one over other packages.
Ordered(ops, last) ==
    /\ ops \in Seq(OpSet)
    /\ \A l \in 1..Len(ops) : ops[l].kind \in last
    /\ \A l \in 1..Len(ops) : \A k \in 1..l - 1 : ops[k].kind \in Installs /\ ops[k].atoms \cap ops[l].atoms = {}
Apart(ops, atoms) == \A l \in 1..Len(ops) : ops[l].kind \in Installs /\ ops[l].atoms \cap atoms = {}
LEMMA OneMore ==
  ASSUME NEW ops, NEW kind \in Installs \cup {"remove"}, NEW atoms \in SUBSET Pkgs,
         Ordered(ops, Installs \cup {"remove"}), Apart(ops, atoms)
  PROVE  LET u == ops \o Planned(kind, atoms)
         IN  /\ Ordered(u, Installs \cup {"remove"}) /\ (Len(u) = 0 <=> Len(ops) = 0 /\ atoms = {})
             /\ \A b \in SUBSET Pkgs : kind \in Installs /\ Apart(ops, b) /\ atoms \cap b = {} => Apart(u, b)
<1> DEFINE q == Planned(kind, atoms)
           u == ops \o q
<1>1. /\ q \in Seq(OpSet) /\ Len(q) \in {0, 1} /\ (Len(q) = 0 <=> atoms = {})
      /\ Len(q) = 1 => q[1].kind = kind /\ q[1].atoms = atoms
  BY PlannedFacts
<1> HIDE DEF q
<1>2. ops \in Seq(OpSet) /\ Len(ops) \in Nat
  BY DEF Ordered
<1>3. u \in Seq(OpSet) /\ Len(u) = Len(ops) + Len(q) /\ (\A l \in 1..Len(ops) : u[l] = ops[l])
      /\ (Len(q) = 1 => u[Len(ops) + 1] = q[1])
  BY <1>1, <1>2
<1> HIDE DEF u
<1>4. \A l \in 1..Len(u) : l \in 1..Len(ops) \/ (l = Len(ops) + 1 /\ Len(q) = 1)
  <2>1. CASE Len(q) = 0
    BY <2>1, <1>2, <1>3
  <2>2. CASE Len(q) = 1
    BY <2>2, <1>2, <1>3
  <2> QED
    BY <2>1, <2>2, <1>1
<1>5. \A l \in 1..Len(u) : u[l].kind \in Installs \cup {"remove"}
  <2> SUFFICES ASSUME NEW l \in 1..Len(u) PROVE u[l].kind \in Installs \cup {"remove"}
    OBVIOUS
  <2>1. CASE l \in 1..Len(ops)
    BY <2>1, <1>3 DEF Ordered
  <2>2. CASE l = Len(ops) + 1 /\ Len(q) = 1
    BY <2>2, <1>1, <1>3
  <2> QED
    BY <2>1, <2>2, <1>4
<1>6. \A l \in 1..Len(u) : \A k \in 1..l - 1 : u[k].kind \in Installs /\ u[k].atoms \cap u[l].atoms = {}
  <2> SUFFICES ASSUME NEW l \in 1..Len(u), NEW k \in 1..l - 1
               PROVE  u[k].kind \in Installs /\ u[k].atoms \cap u[l].atoms = {}
    OBVIOUS
  <2>1. CASE l \in 1..Len(ops)
    <3>1. k \in 1..Len(ops)
      BY <2>1, <1>2
    <3> QED
      BY <2>1, <3>1, <1>3 DEF Ordered
  <2>2. CASE l = Len(ops) + 1 /\ Len(q) = 1
    <3>1. k \in 1..Len(ops)
      BY <2>2, <1>2
    <3>2. u[l].atoms = atoms
      BY <2>2, <1>1, <1>3
    <3> QED
      BY <3>1, <3>2, <1>3 DEF Apart
  <2> QED
    BY <2>1, <2>2, <1>4
<1>7. \A b \in SUBSET Pkgs : kind \in Installs /\ Apart(ops, b) /\ atoms \cap b = {} => Apart(u, b)
  <2> SUFFICES ASSUME NEW b \in SUBSET Pkgs, kind \in Installs, Apart(ops, b), atoms \cap b = {},
                      NEW l \in 1..Len(u)
               PROVE  u[l].kind \in Installs /\ u[l].atoms \cap b = {}
    BY DEF Apart
  <2>1. CASE l \in 1..Len(ops)
    BY <2>1, <1>3 DEF Apart
  <2>2. CASE l = Len(ops) + 1 /\ Len(q) = 1
    BY <2>2, <1>1, <1>3
  <2> QED
    BY <2>1, <2>2, <1>4
<1>8. Ordered(u, Installs \cup {"remove"})
  BY <1>3, <1>5, <1>6 DEF Ordered
<1>9. Len(u) = 0 <=> Len(ops) = 0 /\ atoms = {}
  BY <1>1, <1>2, <1>3
<1> QED
  BY <1>7, <1>8, <1>9 DEF u, q

LEMMA OrderedFits ==
  ASSUME NEW ops, Ordered(ops, Installs \cup {"remove"}), Len(ops) # 0
  PROVE  ops \in Seq(OpSet) /\ OpsFit("accept", ops)
<1>1. ops \in Seq(OpSet) /\ Len(ops) > 0
  BY DEF Ordered
<1>2. \A k \in 1..Len(ops) : ops[k].kind # "sync"
  BY DEF Ordered, Installs
<1>3. \A l \in 1..Len(ops) : \A k \in 1..l - 1 :
          /\ ops[k].kind \in Installs /\ ops[l].kind \in Installs \cup {"remove"}
          /\ ops[k].atoms \cap ops[l].atoms = {}
  BY DEF Ordered
<1> QED
  BY <1>1, <1>2, <1>3 DEF OpsFit

\* The commands of an Accept: over different packages, and none when nothing
\* is marked.
LEMMA PlansFit ==
  ASSUME NEW a \in SUBSET Pkgs, NEW b \in SUBSET Pkgs, NEW c \in SUBSET Pkgs, NEW d \in SUBSET Pkgs,
         a \cap b = {}, a \cap c = {}, a \cap d = {}, b \cap c = {}, b \cap d = {}, c \cap d = {},
         a \cup b \cup c \cup d # {}
  PROVE  Plans(a, b, c, d) \in Seq(OpSet) /\ OpsFit("accept", Plans(a, b, c, d))
<1> DEFINE none == <<>>
           p1 == none \o Planned("install", a)
           p2 == p1 \o Planned("binpkg", b)
           p3 == p2 \o Planned("binpref", c)
           p4 == p3 \o Planned("remove", d)
<1>1. Ordered(none, Installs \cup {"remove"}) /\ Len(none) = 0 /\ \A x \in SUBSET Pkgs : Apart(none, x)
  BY DEF Ordered, Apart
<1> HIDE DEF none
<1>2. /\ Ordered(p1, Installs \cup {"remove"}) /\ (Len(p1) = 0 <=> Len(none) = 0 /\ a = {})
      /\ \A x \in SUBSET Pkgs : "install" \in Installs /\ Apart(none, x) /\ a \cap x = {} => Apart(p1, x)
  BY <1>1, OneMore DEF Installs
<1> HIDE DEF p1
<1>3. Apart(p1, b) /\ Apart(p1, c) /\ Apart(p1, d)
  BY <1>1, <1>2 DEF Installs
<1>4. /\ Ordered(p2, Installs \cup {"remove"}) /\ (Len(p2) = 0 <=> Len(p1) = 0 /\ b = {})
      /\ \A x \in SUBSET Pkgs : "binpkg" \in Installs /\ Apart(p1, x) /\ b \cap x = {} => Apart(p2, x)
  BY <1>2, <1>3, OneMore DEF Installs
<1> HIDE DEF p2
<1>5. Apart(p2, c) /\ Apart(p2, d)
  BY <1>3, <1>4 DEF Installs
<1>6. /\ Ordered(p3, Installs \cup {"remove"}) /\ (Len(p3) = 0 <=> Len(p2) = 0 /\ c = {})
      /\ \A x \in SUBSET Pkgs : "binpref" \in Installs /\ Apart(p2, x) /\ c \cap x = {} => Apart(p3, x)
  BY <1>4, <1>5, OneMore DEF Installs
<1> HIDE DEF p3
<1>7. Apart(p3, d)
  BY <1>5, <1>6 DEF Installs
<1>8. /\ Ordered(p4, Installs \cup {"remove"}) /\ (Len(p4) = 0 <=> Len(p3) = 0 /\ d = {})
      /\ \A x \in SUBSET Pkgs : "remove" \in Installs /\ Apart(p3, x) /\ d \cap x = {} => Apart(p4, x)
  BY <1>6, <1>7, OneMore DEF Installs
<1> HIDE DEF p4
<1>9. Len(p4) # 0
  BY <1>1, <1>2, <1>4, <1>6, <1>8
<1>10. p4 = Plans(a, b, c, d)
  <2>1. Planned("install", a) \in Seq(OpSet)
    BY PlannedFacts DEF Installs
  <2>2. none \o Planned("install", a) = Planned("install", a)
    BY <2>1 DEF none
  <2> QED
    BY <2>2 DEF p4, p3, p2, p1, Plans
<1> QED
  BY <1>8, <1>9, <1>10, OrderedFits

\* A screen that only waits goes over the top one.
LEMMA OpenMoves ==
  ASSUME Shape(stack), NEW is \in {"loading", "starting"}, NEW flow \in Flows \cup {"none"}, NEW ops \in Seq(OpSet),
         is = "loading" => OpsFit(flow, ops),
         IsTop("menu") \/ (IsTop("software") /\ is = "loading"),
         is = "loading" /\ flow = "accept" => IsTop("software"),
         Open(Frame(is, flow, ops))
  PROVE  Moves(stack, stack')
<1> DEFINE g == Frame(is, flow, ops)
           f == [g EXCEPT !.st = "work"]
<1>0. is \in ScreenKinds
  BY DEF ScreenKinds
<1>1. Fresh(g, is, flow, ops)
  BY <1>0, FrameFacts
<1> HIDE DEF g
<1>2. f \in Frames /\ f.is = is /\ f.flow = flow /\ f.ops = ops /\ f.flag = FALSE /\ f.ret = FALSE
      /\ f.plan = NoPlan /\ f.counting = FALSE
  BY <1>1 DEF Frames, Fresh
<1> HIDE DEF f
<1>3. stack' = Append(stack, f)
  BY DEF Open, Over, f, g
<1>4. At(stack, Depth) /\ Depth \in Nat /\ stack[Depth].is \in {"menu", "software"}
      /\ (is # "loading" => stack[Depth].is = "menu")
      /\ (is = "loading" /\ flow = "accept" => stack[Depth].is = "software")
  BY DEF At, Shape, Depth, IsTop, Top, Last
<1>5. stack[Depth].is = "menu" => Depth = 1
  BY <1>4, Place
<1>6. stack[Depth].is = "software" => Depth = 2
  BY <1>4, SecondOnly
<1>7. \A i \in 1..Depth : Above(stack[i], f)
  <2> SUFFICES ASSUME NEW i \in 1..Depth PROVE Above(stack[i], f)
    OBVIOUS
  <2>1. i = Depth => stack[i].is \in {"menu", "software"} /\ (is # "loading" => stack[i].is = "menu")
    BY <1>4
  <2>2. i # Depth => i = 1
    BY <1>4, <1>5, <1>6
  <2>3. i = 1 => stack[i].is = "menu"
    <3>1. At(stack, i)
      BY DEF At, Depth
    <3> QED
      BY <3>1, Place
  <2> QED
    BY <2>1, <2>2, <2>3, <1>2 DEF Above
<1>8. Fits(f)
  <2>1. NoPlan.items = {}
    BY DEF NoPlan
  <2> QED
    BY <2>1, <1>2 DEF Fits
<1>9. FromList(f) => Depth = 2 /\ Listing(stack)
  <2>1. FromList(f) => stack[Depth].is = "software"
    BY <1>2, <1>4 DEF FromList
  <2>2. ASSUME stack[Depth].is = "software" PROVE Depth = 2 /\ Listing(stack)
    <3>1. Depth = 2
      BY <2>2, <1>6
    <3>2. Len(stack) = 2 /\ stack[2].is = "software"
      BY <3>1, <2>2 DEF Depth
    <3> QED
      BY <3>1, <3>2 DEF Listing
  <2> QED
    BY <2>1, <2>2
<1>10. ~Returns(f) /\ ~Overtaken(f) /\ f.is # "run" /\ f.is # "software" /\ ~Active(f)
  BY <1>2 DEF Returns, Overtaken, Active
<1>11. Pushes(stack, f, stack')
  BY <1>2, <1>3, <1>7, <1>8, <1>9, <1>10 DEF Pushes, PushesShape, New, Depth
<1> QED
  BY <1>11, PushMoves

LEMMA AcceptMarkedMoves ==
  ASSUME Shape(stack), RestType, AcceptMarked PROVE Moves(stack, stack')
<1> DEFINE ops == Plans(Atoms("install"), Atoms("binpkg"), Atoms("binpref"), Atoms("remove"))
<1>1. ops \in Seq(OpSet) /\ OpsFit("accept", ops)
  <2>1. \A m, k \in MarkNames : m # k => Atoms(m) \cap Atoms(k) = {}
    BY DEF Atoms
  <2>2. \A m \in MarkNames : Atoms(m) \in SUBSET Pkgs
    BY DEF Atoms
  <2>3. Atoms("install") \cup Atoms("binpkg") \cup Atoms("binpref") \cup Atoms("remove") # {}
    <3>1. selection \in [Pkgs -> MarkNames \cup {"none"}] /\ selection # [p \in Pkgs |-> "none"]
      BY DEF RestType, AcceptMarked, Unmarked
    <3>2. PICK p \in Pkgs : selection[p] # "none"
      BY <3>1
    <3>3. selection[p] \in MarkNames
      BY <3>1, <3>2
    <3> QED
      BY <3>3 DEF Atoms, MarkNames
  <2>4. "install" \in MarkNames /\ "binpkg" \in MarkNames /\ "binpref" \in MarkNames /\ "remove" \in MarkNames
    BY DEF MarkNames
  <2> QED
    BY <2>1, <2>2, <2>3, <2>4, PlansFit
<1> HIDE DEF ops
<1>2. IsTop("software") /\ Open(Frame("loading", "accept", ops))
  BY DEF AcceptMarked, ops
<1> QED
  BY <1>1, <1>2, OpenMoves DEF Flows

LEMMA AcceptRowMoves ==
  ASSUME Shape(stack), RestType, AcceptRow PROVE Moves(stack, stack')
<1>1. PICK p \in shown.rows : IsTop("software") /\ Open(Frame("loading", "accept", Plans({p}, {}, {}, {})))
  BY DEF AcceptRow
<1>2. {p} \in SUBSET Pkgs
  BY <1>1 DEF RestType
<1>3. Plans({p}, {}, {}, {}) \in Seq(OpSet) /\ OpsFit("accept", Plans({p}, {}, {}, {}))
  BY <1>2, PlansFit
<1> QED
  BY <1>1, <1>3, OpenMoves DEF Flows

LEMMA OpenFlowMoves ==
  ASSUME Shape(stack), NEW flow \in Flows \ {"accept"}, OpenFlow(flow) PROVE Moves(stack, stack')
<1> DEFINE o == Op(IF flow = "cleanup" THEN "depclean" ELSE flow, {})
<1>1. o \in OpSet /\ (flow # "sync" => o.kind # "sync")
  BY OpFacts DEF Flows, Kinds
<1> HIDE DEF o
<1>2. <<o>> \in Seq(OpSet) /\ OpsFit(flow, <<o>>)
  BY <1>1, OneOp
<1>3. (IsTop("menu") \/ IsTop("software")) /\ Open(Frame("loading", flow, <<o>>))
  BY DEF OpenFlow, o
<1> QED
  BY <1>2, <1>3, OpenMoves

LEMMA OpenSoftwareMoves ==
  ASSUME Shape(stack), OpenSoftware PROVE Moves(stack, stack')
<1>1. IsTop("menu") /\ Open(Frame("starting", "none", <<>>)) /\ <<>> \in Seq(OpSet)
  BY DEF OpenSoftware
<1> QED
  BY <1>1, OpenMoves

-----------------------------------------------------------------------------
(* Starting a run.                                                           *)

Starting(g, f, ops, tell) ==
    /\ g \in Frames /\ Fits(g)
    /\ g.is = "run" /\ g.flow = f.flow /\ g.ops = ops /\ g.st = "work" /\ g.tell = tell
    /\ g.ret = f.ret /\ g.codes = <<>> /\ g.title = ""
MayStart(f, ops, tell) ==
    /\ f \in Frames /\ ops \in Seq(OpSet) /\ OpsFit(f.flow, ops) /\ tell \in {"nobody", "list", "review"}
    /\ f.ret => f.flow = "cleanup"
    /\ tell = "list" <=> f.flow = "accept"
LEMMA RunFrameFacts ==
  ASSUME NEW f, NEW ops, NEW tell, MayStart(f, ops, tell)
  PROVE  /\ Starting(RunFrame(f, ops, tell), f, ops, tell)
         /\ Starting([RunFrame(f, ops, tell) EXCEPT !.plan = f.plan, !.kept = f.kept, !.drawn = f.drawn], f, ops, tell)
         /\ Starting([RunFrame(f, ops, tell) EXCEPT !.plan = f.plan], f, ops, tell)
<1> DEFINE h == Frame("run", f.flow, ops)
           g == RunFrame(f, ops, tell)
<1>1. /\ f \in Frames /\ f.flow \in Flows \cup {"none"} /\ f.ret \in BOOLEAN
      /\ f.plan \in [ok : BOOLEAN, items : SUBSET Things] /\ f.kept \in SUBSET Things /\ f.drawn \in SUBSET Things
  BY DEF MayStart, Frames
<1>2. ops \in Seq(OpSet) /\ OpsFit(f.flow, ops) /\ Len(ops) \in Nat /\ Len(ops) > 0 /\ tell \in {"nobody", "list", "review"}
  BY DEF MayStart, OpsFit
<1>3. Fresh(h, "run", f.flow, ops)
  <2>1. "run" \in ScreenKinds
    BY DEF ScreenKinds
  <2> QED
    BY <2>1, <1>1, <1>2, FrameFacts
<1> HIDE DEF h
<1>4. g = [h EXCEPT !.st = "work", !.tell = tell, !.ret = f.ret]
  BY DEF RunFrame, h
<1>5. /\ g \in Frames /\ g.is = "run" /\ g.flow = f.flow /\ g.ops = ops /\ g.st = "work" /\ g.tell = tell
      /\ g.ret = f.ret /\ g.codes = <<>> /\ g.title = "" /\ g.flag = FALSE /\ g.counting = FALSE
  BY ZenonT(60), <1>1, <1>2, <1>3, <1>4 DEF Fresh, Frames
<1> HIDE DEF g
<1>6. ASSUME NEW k, k \in Frames, k.is = "run", k.flow = f.flow, k.ops = ops, k.st = "work", k.tell = tell,
             k.ret = f.ret, k.codes = <<>>, k.title = "", k.flag = FALSE, k.counting = FALSE
      PROVE  Fits(k)
  <2>1. OpsFit(k.flow, k.ops)
    BY <1>2, <1>6
  <2>0. Len(<<>>) = 0
    OBVIOUS
  <2>2. Len(k.codes) = 0
    BY <1>6, <2>0
  <2>3. Len(k.codes) <= Len(k.ops) /\ Len(k.codes) < Len(k.ops)
    <3>1. k.ops = ops
      BY <1>6
    <3> QED
      BY <3>1, <2>2, <1>2
  <2>4. RunFits(k)
    BY <1>6, <2>3 DEF RunFits, MayStart
  <2> QED
    BY <2>1, <2>4, <1>6 DEF Fits
<1>7. Starting(g, f, ops, tell)
  BY <1>5, <1>6 DEF Starting
<1> DEFINE g2 == [g EXCEPT !.plan = f.plan, !.kept = f.kept, !.drawn = f.drawn]
           g3 == [g EXCEPT !.plan = f.plan]
<1>8. /\ g2 \in Frames /\ g2.is = "run" /\ g2.flow = f.flow /\ g2.ops = ops /\ g2.st = "work" /\ g2.tell = tell
      /\ g2.ret = f.ret /\ g2.codes = <<>> /\ g2.title = "" /\ g2.flag = FALSE /\ g2.counting = FALSE
  BY <1>1, <1>5 DEF Frames
<1>9. /\ g3 \in Frames /\ g3.is = "run" /\ g3.flow = f.flow /\ g3.ops = ops /\ g3.st = "work" /\ g3.tell = tell
      /\ g3.ret = f.ret /\ g3.codes = <<>> /\ g3.title = "" /\ g3.flag = FALSE /\ g3.counting = FALSE
  BY <1>1, <1>5 DEF Frames
<1> HIDE DEF g2, g3
<1>10. Starting(g2, f, ops, tell) /\ Starting(g3, f, ops, tell)
  BY <1>6, <1>8, <1>9 DEF Starting
<1> QED
  BY <1>7, <1>10 DEF g, g2, g3

LEMMA BelowTop ==
  ASSUME NEW s, Shape(s), Len(s) > 1, ~(s[Len(s)].is = "run" /\ s[Len(s)].ret)
  PROVE  ~Overtaken(s[Len(s) - 1])
<1>1. Len(s) \in Nat /\ Len(s) - 1 \in 1..Len(s)
  BY DEF Shape
<1>2. Placed(s, Len(s) - 1)
  BY <1>1 DEF Shape
<1>3. Len(s) - 1 + 1 = Len(s)
  BY <1>1
<1> QED
  BY <1>2, <1>3 DEF Placed

\* What is at the top, for a step that starts from there.
LEMMA TopPlace ==
  ASSUME Shape(stack)
  PROVE  /\ stack \in Seq(Frames) /\ Depth \in Nat /\ Depth > 0 /\ Depth = Len(stack) /\ Top = stack[Depth]
         /\ Top \in Frames /\ Fits(Top) /\ Placed(stack, Depth) /\ ~Overtaken(Top)
         /\ Top.is # "menu" => Depth > 1
         /\ \A i \in 1..Depth - 1 : Above(stack[i], Top)
<1>1. At(stack, Len(stack))
  BY DEF At, Shape
<1>2. Depth = Len(stack) /\ Top = stack[Depth]
  BY DEF Depth, Top, Last
<1> QED
  BY <1>1, <1>2, Place

\* A run takes the place of the loading screen or of the proposal at the top.
LEMMA ReplaceMoves ==
  ASSUME Shape(stack), NEW f, NEW tell \in {"list", "nobody"}, Alike(Top, f), MayStart(f, f.ops, tell),
         Top.is = "loading" \/ (Top.is = "review" /\ f.flow = "accept"),
         ~f.ret, stack' = Append(Front(stack), RunFrame(f, f.ops, tell))
  PROVE  Moves(stack, stack')
<1> DEFINE g == RunFrame(f, f.ops, tell)
<1>1. Starting(g, f, f.ops, tell)
  BY RunFrameFacts
<1> HIDE DEF g
<1>2. stack' = Append(Front(stack), g)
  BY DEF g
<1>3. /\ stack \in Seq(Frames) /\ Depth \in Nat /\ Depth = Len(stack) /\ Top = stack[Depth]
      /\ Placed(stack, Depth) /\ Depth > 1
      /\ \A i \in 1..Depth - 1 : Above(stack[i], Top)
  BY TopPlace
<1>4. ~Overtaken(stack[Len(stack) - 1])
  BY <1>3, BelowTop
<1>5. \A i \in 1..Len(stack) - 1 : Above(stack[i], g)
  <2> SUFFICES ASSUME NEW i \in 1..Len(stack) - 1 PROVE Above(stack[i], g)
    OBVIOUS
  <2>1. Above(stack[i], Top)
    BY <1>3
  <2> QED
    BY <2>1, <1>1 DEF Above, Starting
<1>6. FromList(g) => Len(stack) = 3 /\ Listing(stack)
  <2>1. FromList(g) => FromList(Top)
    BY <1>1 DEF FromList, Starting, Alike
  <2> QED
    BY <2>1, <1>3 DEF Placed
<1>7. ~Returns(g) /\ g.tell # "review" /\ ~Overtaken(g) /\ Active(g)
  BY <1>1 DEF Returns, Overtaken, Starting, Active
<1>8. Swaps(stack, g, stack')
  BY <1>1, <1>2, <1>3, <1>4, <1>5, <1>6, <1>7 DEF Swaps, SwapsShape, Starting
<1>9. ~Owes(stack[Len(stack)]) /\ g.is # "software"
  BY <1>1, <1>3 DEF Owes, Starting
<1> QED
  BY <1>8, <1>9, SwapMoves DEF Moves

LEMMA CleanOpsFit ==
  ASSUME NEW f \in Frames, f.flow = "cleanup", f.plan.items \subseteq Pkgs
  PROVE  CleanOps(f) \in Seq(OpSet) /\ OpsFit("cleanup", CleanOps(f))
<1>1. Op("depclean", {}) \in OpSet /\ Op("depclean", {}).kind = "depclean"
  BY OpFacts DEF Kinds
<1>2. Selected(f) \in SUBSET Pkgs
  BY DEF Selected
<1>3. Op("remove", Selected(f)) \in OpSet /\ Op("remove", Selected(f)).kind = "remove"
  BY <1>2, OpFacts DEF Kinds
<1>4. CASE Selected(f) = f.plan.items
  BY <1>1, <1>4, OneOp DEF CleanOps
<1>5. CASE Selected(f) # f.plan.items
  BY <1>3, <1>5, OneOp DEF CleanOps
<1> QED
  BY <1>4, <1>5

LEMMA LaunchMoves ==
  ASSUME Shape(stack), NEW f \in Frames, Fits(f), Alike(Top, f), Top.is = "loading", Launch(f)
  PROVE  Moves(stack, stack')
<1> DEFINE tell == IF f.flow = "accept" THEN "list" ELSE "nobody"
<1>1. f.is = "loading" /\ ~f.ret /\ OpsFit(f.flow, f.ops) /\ f.ops \in Seq(OpSet)
  BY DEF Fits, Alike, Frames
<1>2. MayStart(f, f.ops, tell) /\ tell \in {"list", "nobody"}
  BY <1>1 DEF MayStart
<1>3. stack' = Append(Front(stack), RunFrame(f, f.ops, tell))
  BY DEF Launch, Instead
<1> HIDE DEF tell
<1> QED
  BY <1>1, <1>2, <1>3, ReplaceMoves

LEMMA ApplyReviewMoves ==
  ASSUME Shape(stack), NEW f \in Frames, Fits(f), Alike(Top, f), Top.is = "review", ~Overtaken(f), ApplyReview(f)
  PROVE  Moves(stack, stack')
<1>1. /\ stack \in Seq(Frames) /\ Depth \in Nat /\ Depth = Len(stack) /\ Top = stack[Depth] /\ Depth > 1
  BY TopPlace
<1>2. f.is = "review" /\ OpsFit(f.flow, f.ops) /\ f.ops \in Seq(OpSet) /\ (f.ret => f.flow = "cleanup")
      /\ (f.flow = "cleanup" => f.plan.items \subseteq Pkgs)
  BY DEF Fits, ReviewFits, Alike, Frames
<1>3. CASE ~MayApply(f)
  <2>1. stack' = [stack EXCEPT ![Depth] = f]
    BY <1>3 DEF ApplyReview, AtTop
  <2>2. PutsShape(stack, Depth, f, stack')
    BY <2>1, <1>1 DEF PutsShape
  <2>3. ~Active(f) /\ ~Owes(stack[Depth])
    BY <1>2, <1>1 DEF Active, Owes
  <2> QED
    BY <2>2, <2>3, PutMoves DEF Puts, Moves
<1>4. CASE MayApply(f) /\ f.flow = "accept"
  <2>1. stack' = Append(Front(stack), RunFrame(f, f.ops, "list"))
    BY <1>4 DEF ApplyReview, Instead
  <2>2. MayStart(f, f.ops, "list") /\ ~f.ret
    BY <1>2, <1>4 DEF MayStart
  <2> QED
    BY <2>1, <2>2, <1>4, ReplaceMoves
<1>5. CASE MayApply(f) /\ f.flow # "accept"
  <2> DEFINE ops == IF f.flow = "cleanup" THEN CleanOps(f) ELSE f.ops
             tell == IF f.flow = "sync" THEN "nobody" ELSE "review"
             g == [RunFrame(f, ops, tell) EXCEPT !.plan = f.plan, !.kept = f.kept, !.drawn = f.drawn]
             h == [f EXCEPT !.spent = TRUE]
  <2>1. stack' = Append([stack EXCEPT ![Depth] = h], g)
    BY <1>5 DEF ApplyReview, AtTop
  <2>2. ops \in Seq(OpSet) /\ OpsFit(f.flow, ops)
    BY <1>2, CleanOpsFit
  <2>3. MayStart(f, ops, tell)
    BY <1>2, <1>5, <2>2 DEF MayStart
  <2>4. Starting(g, f, ops, tell)
    BY <2>3, RunFrameFacts
  <2>5. /\ h \in Frames /\ h.is = f.is /\ h.flow = f.flow /\ h.ret = f.ret /\ h.tell = f.tell /\ h.st = f.st
        /\ h.ops = f.ops /\ h.flag = f.flag /\ h.plan = f.plan /\ h.counting = f.counting
    BY DEF Frames
  <2> HIDE DEF g, h, ops, tell
  <2>6. Fits(h) /\ Alike(Top, h)
    BY <2>5, <1>2 DEF Fits, ReviewFits, Alike
  <2>7. ~FromList(g)
    BY <2>4, <1>5 DEF FromList, Starting
  <2>8. Covers(stack, h, g, stack')
    BY <2>1, <2>4, <2>5, <2>6, <2>7, <1>1 DEF Covers, CoversShape, Starting
  <2> QED
    BY <2>8, CoverMoves
<1> QED
  BY <1>3, <1>4, <1>5

LEMMA AutoApplyMoves ==
  ASSUME Shape(stack), NEW f \in Frames, Fits(f), Alike(Top, f), Top.is \in {"loading", "review"}, ~Overtaken(f),
         AutoApply(f)
  PROVE  Moves(stack, stack')
<1>1. f.is = Top.is
  BY DEF Alike
<1>2. CASE Top.is = "loading"
  BY <1>1, <1>2, LaunchMoves DEF AutoApply
<1>3. CASE Top.is = "review"
  BY <1>1, <1>3, ApplyReviewMoves DEF AutoApply
<1> QED
  BY <1>2, <1>3

\* A waiting screen with its flags changed.
Flagged(f, g) == /\ g \in Frames /\ f.is = g.is /\ f.flow = g.flow /\ f.ops = g.ops /\ f.ret = g.ret
                 /\ f.tell = g.tell /\ f.plan = g.plan /\ (g.flag => f.flag) /\ ~Overtaken(g)
LEMMA FlaggedFits ==
  ASSUME NEW f, NEW g, Flagged(f, g), Fits(f), f.is \in {"loading", "review"}
  PROVE  g \in Frames /\ Fits(g) /\ Alike(f, g) /\ ~Overtaken(g)
BY DEF Flagged, Fits, ReviewFits, Alike

LEMMA ApplyNowMoves ==
  ASSUME Shape(stack), ApplyNow PROVE Moves(stack, stack')
<1> DEFINE f == [Top EXCEPT !.flag = FALSE]
<1>1. Top \in Frames /\ Fits(Top) /\ Top.is \in {"loading", "review"}
  BY TopPlace DEF ApplyNow, Waiting
<1>2. Flagged(Top, f)
  BY <1>1 DEF Flagged, Frames, Overtaken
<1>3. AutoApply(f)
  BY DEF ApplyNow
<1> HIDE DEF f
<1> QED
  BY <1>1, <1>2, <1>3, FlaggedFits, AutoApplyMoves

LEMMA AcceptReviewMoves ==
  ASSUME Shape(stack), AcceptReview PROVE Moves(stack, stack')
<1>1. Top \in Frames /\ Fits(Top) /\ Top.is = "review" /\ ~Overtaken(Top) /\ ApplyReview(Top)
  BY TopPlace DEF AcceptReview, IsTop
<1>2. Alike(Top, Top)
  BY DEF Alike
<1> QED
  BY <1>1, <1>2, ApplyReviewMoves

LEMMA LapseMoves ==
  ASSUME Shape(stack), Lapse PROVE Moves(stack, stack')
<1>1. PICK i \in 1..Depth :
        /\ stack[i].counting
        /\ IF stack[i].flag /\ i = Depth
           THEN AutoApply([stack[i] EXCEPT !.flag = FALSE, !.counting = FALSE])
           ELSE stack' = [stack EXCEPT ![i].counting = FALSE]
  BY DEF Lapse
<1>2. At(stack, i)
  BY DEF At, Depth
<1>3. stack[i] \in Frames /\ Fits(stack[i]) /\ (stack[i].is = "menu" <=> i = 1) /\ stack \in Seq(Frames)
      /\ Len(stack) \in Nat
  BY <1>2, Place
<1>4. CASE stack[i].flag /\ i = Depth
  <2> DEFINE f == [stack[i] EXCEPT !.flag = FALSE, !.counting = FALSE]
  <2>1. Top = stack[i]
    BY <1>4, TopPlace
  <2>2. Top.is \in {"loading", "review"}
    BY <2>1, <1>1, <1>3 DEF Fits
  <2>3. Flagged(Top, f)
    BY <2>1, <1>3 DEF Flagged, Frames, Overtaken
  <2>4. AutoApply(f)
    BY <1>1, <1>4
  <2> HIDE DEF f
  <2> QED
    BY <2>1, <2>2, <2>3, <2>4, <1>3, FlaggedFits, AutoApplyMoves
<1>5. CASE ~(stack[i].flag /\ i = Depth)
  <2> DEFINE f == [stack[i] EXCEPT !.counting = FALSE]
  <2>1. stack' = [stack EXCEPT ![i] = f]
    BY <1>1, <1>5
  <2>2. /\ f \in Frames /\ f.is = stack[i].is /\ f.flow = stack[i].flow /\ f.ops = stack[i].ops /\ f.ret = stack[i].ret
        /\ f.tell = stack[i].tell /\ f.plan = stack[i].plan /\ f.flag = stack[i].flag /\ f.spent = stack[i].spent
        /\ f.counting = FALSE /\ f.st = stack[i].st /\ f.codes = stack[i].codes /\ f.title = stack[i].title
    BY <1>3 DEF Frames
  <2> HIDE DEF f
  <2>3. stack[i].is \in {"loading", "review"} /\ i \in 2..Len(stack)
    BY <1>1, <1>3 DEF Fits, Depth
  <2>4. Fits(f) /\ Alike(stack[i], f) /\ (Overtaken(f) => Overtaken(stack[i]))
    BY <2>2, <2>3, <1>3 DEF Fits, ReviewFits, Alike, Overtaken
  <2>5. ~Active(f) /\ ~Owes(stack[i])
    BY <2>2, <2>3 DEF Active, Owes
  <2>6. Puts(stack, i, f, stack')
    BY <2>1, <2>2, <2>3, <2>4, <2>5 DEF Puts, PutsShape
  <2> QED
    BY <2>5, <2>6, PutMoves DEF Moves
<1> QED
  BY <1>4, <1>5

-----------------------------------------------------------------------------
(* Plans and reviews.                                                        *)

LEMMA NeedsType == \A ps : Needs(ps) \subseteq Pkgs
BY DEF Needs

LEMMA TargetsType ==
  ASSUME NEW o \in OpSet, NEW s \in Systems0
  PROVE  Targets(o, s) \subseteq Pkgs
<1>1. o.atoms \subseteq Pkgs /\ s.inst \subseteq Pkgs /\ s.old \subseteq Pkgs /\ o.kind \in Kinds
  BY DEF OpSet, Systems0
<1>2. CASE o.kind \in Installs
  BY <1>1, <1>2, NeedsType DEF Targets, Installs
<1>3. CASE o.kind = "remove"
  BY <1>1, <1>3 DEF Targets, Removable
<1>4. CASE o.kind = "depclean"
  BY <1>1, <1>4 DEF Targets, Orphans
<1>5. CASE o.kind = "update"
  BY <1>1, <1>5 DEF Targets
<1>6. CASE o.kind = "sync"
  BY <1>1, <1>6 DEF Targets
<1> QED
  BY <1>1, <1>2, <1>3, <1>4, <1>5, <1>6 DEF Kinds

LEMMA ItemsType ==
  ASSUME NEW f \in Frames, sys \in Systems0
  PROVE  Items(f) \subseteq Things /\ (f.flow = "cleanup" => Items(f) \subseteq Pkgs)
<1>1. f.ops \in Seq(OpSet)
  BY DEF Frames
<1>2. \A o \in Range(f.ops) : o \in OpSet
  BY <1>1 DEF Range
<1>3. UNION {Targets(o, sys) : o \in Range(f.ops)} \subseteq Pkgs
  BY <1>2, TargetsType
<1> QED
  BY <1>3 DEF Items, Things

\* A plan arrives.
Planning(f, g) == /\ g \in Frames /\ g.is = f.is /\ g.flow = f.flow /\ g.ops = f.ops /\ g.ret = f.ret
                  /\ g.tell = f.tell /\ g.spent = f.spent
                  /\ (g.flow = "cleanup" => g.plan.items \subseteq Pkgs)
LEMMA ResolvedFacts ==
  ASSUME NEW f \in Frames, NEW ok \in BOOLEAN, sys \in Systems0
  PROVE  LET g == Resolved(f, ok) IN Planning(f, g) /\ g.flag = f.flag /\ g.counting = f.counting
<1> DEFINE plan == [ok |-> ok, items |-> IF ok \/ f.flow = "accept" THEN Items(f) ELSE {}]
<1>1. plan \in [ok : BOOLEAN, items : SUBSET Things] /\ (f.flow = "cleanup" => plan.items \subseteq Pkgs)
  BY ItemsType
<1>2. Resolved(f, ok) = [f EXCEPT !.st = "ready", !.plan = plan]
  BY DEF Resolved
<1> HIDE DEF plan
<1> QED
  BY <1>1, <1>2 DEF Planning, Frames

LEMMA PlanningFits ==
  ASSUME NEW f, NEW g, Planning(f, g), Fits(f), f.is \in {"loading", "review"}, f.is = "review" => (g.flag => f.flag)
  PROVE  Fits(g) /\ Alike(f, g) /\ ~Active(g) /\ ~Owes(f)
<1>1. g.is = f.is /\ g.flow = f.flow /\ g.ops = f.ops /\ g.ret = f.ret /\ g.tell = f.tell
      /\ (g.flow = "cleanup" => g.plan.items \subseteq Pkgs)
  BY DEF Planning
<1>2. Fits(g)
  BY <1>1 DEF Fits, ReviewFits
<1> QED
  BY <1>1, <1>2 DEF Alike, Active, Owes

\* A waiting screen is changed where it is.
LEMMA PlanningMoves ==
  ASSUME Shape(stack), NEW i \in 1..Len(stack), NEW g, Planning(stack[i], g), stack[i].is \in {"loading", "review"},
         stack[i].is = "review" => (g.flag => stack[i].flag), stack' = [stack EXCEPT ![i] = g]
  PROVE  Moves(stack, stack')
<1>1. At(stack, i)
  BY DEF At
<1>2. Fits(stack[i]) /\ stack \in Seq(Frames) /\ i \in 2..Len(stack)
  BY <1>1, Place
<1>3. Fits(g) /\ Alike(stack[i], g) /\ ~Active(g) /\ ~Owes(stack[i])
  BY <1>2, PlanningFits
<1>4. Overtaken(g) => Overtaken(stack[i])
  BY DEF Planning, Overtaken
<1>5. Puts(stack, i, g, stack')
  BY <1>2, <1>3, <1>4 DEF Puts, PutsShape, Planning
<1> QED
  BY <1>3, <1>5, PutMoves DEF Moves

LEMMA ReviewOfFacts ==
  ASSUME NEW f \in Frames
  PROVE  LET g == ReviewOf(f)
         IN  /\ g \in Frames /\ g.is = "review" /\ g.flow = f.flow /\ g.ops = f.ops /\ g.plan = f.plan
             /\ g.ret = FALSE /\ g.flag = FALSE /\ g.counting = FALSE /\ g.spent = FALSE
<1> DEFINE h == Frame("review", f.flow, f.ops)
<1>1. f.flow \in Flows \cup {"none"} /\ f.ops \in Seq(OpSet) /\ f.plan \in [ok : BOOLEAN, items : SUBSET Things]
  BY DEF Frames
<1>2. Fresh(h, "review", f.flow, f.ops)
  BY <1>1, FrameFacts DEF ScreenKinds
<1>3. ReviewOf(f) = [h EXCEPT !.plan = f.plan]
  BY DEF ReviewOf
<1> HIDE DEF h
<1> QED
  BY <1>1, <1>2, <1>3 DEF Fresh, Frames

\* The review takes the place of the loading screen.
LEMMA ReviewMoves ==
  ASSUME Shape(stack), Top.is = "loading", NEW f \in Frames, Fits(f), Alike(Top, f),
         stack' = Append(Front(stack), ReviewOf(f))
  PROVE  Moves(stack, stack')
<1> DEFINE g == ReviewOf(f)
<1>1. /\ g \in Frames /\ g.is = "review" /\ g.flow = f.flow /\ g.ops = f.ops /\ g.plan = f.plan
      /\ g.ret = FALSE /\ g.flag = FALSE /\ g.counting = FALSE /\ g.spent = FALSE
  BY ReviewOfFacts
<1> HIDE DEF g
<1>2. stack' = Append(Front(stack), g)
  BY DEF g
<1>3. /\ stack \in Seq(Frames) /\ Depth \in Nat /\ Depth = Len(stack) /\ Top = stack[Depth]
      /\ Placed(stack, Depth) /\ Depth > 1
      /\ \A i \in 1..Depth - 1 : Above(stack[i], Top)
  BY TopPlace
<1>4. ~Overtaken(stack[Len(stack) - 1])
  BY <1>3, BelowTop
<1>5. \A i \in 1..Len(stack) - 1 : Above(stack[i], g)
  <2> SUFFICES ASSUME NEW i \in 1..Len(stack) - 1 PROVE Above(stack[i], g)
    OBVIOUS
  <2>1. Above(stack[i], Top)
    BY <1>3
  <2> QED
    BY <2>1, <1>1 DEF Above
<1>6. FromList(g) => Len(stack) = 3 /\ Listing(stack)
  <2>1. FromList(g) => FromList(Top)
    BY <1>1 DEF FromList, Alike
  <2> QED
    BY <2>1, <1>3 DEF Placed
<1>7. ~Returns(g) /\ ~Overtaken(g) /\ ~Active(g)
  BY <1>1 DEF Returns, Overtaken, Active
<1>8. Fits(g)
  <2>1. f.is = "loading"
    BY DEF Alike
  <2> QED
    BY <2>1, <1>1 DEF Fits, ReviewFits
<1>9. Swaps(stack, g, stack')
  BY <1>1, <1>2, <1>3, <1>4, <1>5, <1>6, <1>7, <1>8 DEF Swaps, SwapsShape
<1>10. ~Owes(stack[Len(stack)]) /\ g.is # "software"
  BY <1>1, <1>3 DEF Owes
<1> QED
  BY <1>9, <1>10, SwapMoves DEF Moves

LEMMA ResolveMoves ==
  ASSUME Shape(stack), RestType, Resolve PROVE Moves(stack, stack')
<1>1. PICK i \in 1..Depth, ok \in BOOLEAN :
    /\ stack[i].is = "loading"
    /\ LET f == Resolved(stack[i], ok)
           byHand == ~ok \/ f.plan.items = {} \/ mode = "manual"
       IN  CASE ~byHand /\ mode = "timer" ->
                  stack' = [stack EXCEPT ![i] = [f EXCEPT !.flag = TRUE, !.counting = TRUE]]
             [] i # Depth /\ (byHand \/ mode = "immediate") -> stack' = [stack EXCEPT ![i] = f]
             [] i = Depth /\ byHand -> stack' = Instead(ReviewOf(f))
             [] i = Depth /\ ~byHand /\ mode = "immediate" -> Launch(f)
  BY ZenonT(60) DEF Resolve
<1> DEFINE f == Resolved(stack[i], ok)
           byHand == ~ok \/ f.plan.items = {} \/ mode = "manual"
           g == [f EXCEPT !.flag = TRUE, !.counting = TRUE]
<1>2. i \in 1..Len(stack) /\ At(stack, i)
  BY DEF At, Depth
<1>3. stack[i] \in Frames /\ Fits(stack[i])
  BY <1>2, Place
<1>4. Planning(stack[i], f) /\ f.flag = stack[i].flag
  BY <1>3, ResolvedFacts DEF RestType
<1>5. \/ stack' = [stack EXCEPT ![i] = g]
      \/ stack' = [stack EXCEPT ![i] = f]
      \/ i = Depth /\ stack' = Append(Front(stack), ReviewOf(f))
      \/ i = Depth /\ Launch(f)
  <2>1. mode \in {"manual", "timer", "immediate"}
    BY DEF RestType
  <2>2. CASE ~byHand /\ mode = "timer"
    BY <1>1, <2>2
  <2>3. CASE i # Depth /\ (byHand \/ mode = "immediate")
    BY <1>1, <2>3
  <2>4. CASE i = Depth /\ byHand
    BY <1>1, <2>4 DEF Instead
  <2>5. CASE i = Depth /\ ~byHand /\ mode = "immediate"
    BY <1>1, <2>5
  <2> QED
    BY <2>1, <2>2, <2>3, <2>4, <2>5
<1> HIDE DEF f
<1>6. Planning(stack[i], g)
  BY <1>4 DEF Planning, Frames
<1> HIDE DEF g
<1>7. CASE stack' = [stack EXCEPT ![i] = g]
  BY <1>1, <1>2, <1>6, <1>7, PlanningMoves
<1>8. CASE stack' = [stack EXCEPT ![i] = f]
  BY <1>1, <1>2, <1>4, <1>8, PlanningMoves
<1>9. Fits(f) /\ Alike(stack[i], f) /\ f \in Frames
  BY <1>1, <1>3, <1>4, PlanningFits DEF Planning
<1>10. i = Depth => Top = stack[i]
  BY TopPlace
<1>11. CASE i = Depth /\ stack' = Append(Front(stack), ReviewOf(f))
  BY <1>1, <1>9, <1>10, <1>11, ReviewMoves
<1>12. CASE i = Depth /\ Launch(f)
  BY <1>1, <1>9, <1>10, <1>12, LaunchMoves
<1> QED
  BY <1>5, <1>7, <1>8, <1>11, <1>12

LEMMA StopCountdownMoves ==
  ASSUME Shape(stack), StopCountdown PROVE Moves(stack, stack')
<1>1. Top \in Frames /\ Fits(Top) /\ Top = stack[Depth] /\ Depth = Len(stack) /\ Depth \in 1..Len(stack)
  BY TopPlace
<1>2. CASE Top.is = "loading"
  <2>1. stack' = Append(Front(stack), ReviewOf(Top)) /\ Alike(Top, Top)
    BY <1>2 DEF StopCountdown, IsTop, Instead, Alike
  <2> QED
    BY <2>1, <1>1, <1>2, ReviewMoves
<1>3. CASE Top.is = "review"
  <2> DEFINE g == [Top EXCEPT !.flag = FALSE, !.spent = TRUE]
  <2>1. stack' = [stack EXCEPT ![Depth] = g]
    BY <1>3 DEF StopCountdown, IsTop, AtTop
  <2>2. /\ g \in Frames /\ g.is = Top.is /\ g.flow = Top.flow /\ g.ops = Top.ops /\ g.ret = Top.ret /\ g.tell = Top.tell
        /\ g.plan = Top.plan /\ g.flag = FALSE /\ g.counting = Top.counting
    BY <1>1 DEF Frames
  <2> HIDE DEF g
  <2>3. Fits(g) /\ Alike(Top, g) /\ ~Overtaken(g) /\ ~Active(g) /\ ~Owes(Top)
    BY <2>2, <1>1, <1>3 DEF Fits, ReviewFits, Alike, Overtaken, Active, Owes
  <2>4. Depth \in 2..Len(stack)
    BY <1>1, <1>3, TopPlace
  <2>5. Puts(stack, Depth, g, stack')
    BY <2>1, <2>2, <2>3, <2>4, <1>1 DEF Puts, PutsShape
  <2> QED
    BY <2>3, <2>5, <1>1, PutMoves DEF Moves
<1> QED
  BY <1>2, <1>3 DEF StopCountdown, Waiting

\* The review at the top is changed and its countdown stopped.
LEMMA StoppedMoves ==
  ASSUME Shape(stack), Top.is = "review", NEW g \in Frames, g.is = Top.is, g.flow = Top.flow, g.ops = Top.ops,
         g.ret = Top.ret, g.tell = Top.tell, g.plan = Top.plan, g.flag = FALSE, g.counting = Top.counting,
         stack' = [stack EXCEPT ![Depth] = g]
  PROVE  Moves(stack, stack')
<1>1. Top \in Frames /\ Fits(Top) /\ Top = stack[Depth] /\ Depth = Len(stack) /\ Depth \in 2..Len(stack)
  BY TopPlace
<1>2. Fits(g) /\ Alike(Top, g) /\ ~Overtaken(g) /\ ~Active(g) /\ ~Owes(Top)
  BY <1>1 DEF Fits, ReviewFits, Alike, Overtaken, Active, Owes
<1>3. Puts(stack, Depth, g, stack')
  BY <1>1, <1>2 DEF Puts, PutsShape
<1> QED
  BY <1>1, <1>2, <1>3, PutMoves DEF Moves

LEMMA KeepMoves ==
  ASSUME Shape(stack), Keep PROVE Moves(stack, stack')
<1>1. Top \in Frames /\ Top.is = "review" /\ Top.flow = "cleanup"
  BY TopPlace DEF Keep, IsTop
<1>2. PICK k : /\ k \in {Top.kept \ {p} : p \in Top.plan.items} \cup {Top.kept \cup {p} : p \in Top.plan.items}
                         \cup {{}, Top.plan.items}
               /\ stack' = [stack EXCEPT ![Depth] =
                    [Top EXCEPT !.flag = FALSE, !.spent = @ \/ Top.flag, !.kept = k, !.drawn = k]]
  BY DEF Keep, AtTop
<1>3. k \in SUBSET Things
  <2>1. Top.kept \subseteq Things /\ Top.plan \in [ok : BOOLEAN, items : SUBSET Things]
    BY <1>1 DEF Frames
  <2>2. Top.plan.items \subseteq Things
    BY <2>1
  <2> QED
    BY <2>1, <2>2, <1>2
<1> DEFINE g == [Top EXCEPT !.flag = FALSE, !.spent = @ \/ Top.flag, !.kept = k, !.drawn = k]
<1>4. /\ g \in Frames /\ g.is = Top.is /\ g.flow = Top.flow /\ g.ops = Top.ops /\ g.ret = Top.ret /\ g.tell = Top.tell
      /\ g.plan = Top.plan /\ g.flag = FALSE /\ g.counting = Top.counting
  BY <1>1, <1>3 DEF Frames
<1>5. stack' = [stack EXCEPT ![Depth] = g]
  BY <1>2
<1> HIDE DEF g
<1> QED
  BY <1>1, <1>4, <1>5, StoppedMoves

LEMMA RescanMoves ==
  ASSUME Shape(stack), Rescan PROVE Moves(stack, stack')
<1>1. Top \in Frames /\ Top.is = "review"
  BY TopPlace DEF Rescan, IsTop
<1> DEFINE h == [Top EXCEPT !.st = "work", !.kept = {}]
           g == [h EXCEPT !.flag = FALSE, !.spent = @ \/ Top.flag]
<1>2. stack' = [stack EXCEPT ![Depth] = g]
  BY DEF Rescan, AtTop, Reloading
<1>3. /\ h \in Frames /\ h.is = Top.is /\ h.flow = Top.flow /\ h.ops = Top.ops /\ h.ret = Top.ret /\ h.tell = Top.tell
      /\ h.plan = Top.plan /\ h.flag = Top.flag /\ h.counting = Top.counting
  BY <1>1 DEF Frames
<1> HIDE DEF h
<1>4. /\ g \in Frames /\ g.is = Top.is /\ g.flow = Top.flow /\ g.ops = Top.ops /\ g.ret = Top.ret /\ g.tell = Top.tell
      /\ g.plan = Top.plan /\ g.flag = FALSE /\ g.counting = Top.counting
  BY ZenonT(40), <1>1, <1>3 DEF Frames
<1> HIDE DEF g
<1> QED
  BY <1>1, <1>2, <1>4, StoppedMoves

LEMMA RescannedMoves ==
  ASSUME Shape(stack), RestType, Rescanned PROVE Moves(stack, stack')
<1>1. PICK i \in 1..Depth :
        /\ stack[i].is = "review"
        /\ stack' = [stack EXCEPT ![i] = [Resolved(stack[i], TRUE) EXCEPT !.drawn = stack[i].kept]]
  BY DEF Rescanned
<1>2. i \in 1..Len(stack) /\ At(stack, i)
  BY DEF At, Depth
<1>3. stack[i] \in Frames /\ Fits(stack[i])
  BY <1>2, Place
<1> DEFINE h == Resolved(stack[i], TRUE)
           g == [h EXCEPT !.drawn = stack[i].kept]
<1>4. Planning(stack[i], h) /\ h.flag = stack[i].flag
  BY <1>3, ResolvedFacts DEF RestType
<1>5. stack' = [stack EXCEPT ![i] = g]
  BY <1>1
<1> HIDE DEF h
<1>6. Planning(stack[i], g) /\ g.flag = stack[i].flag
  BY <1>3, <1>4 DEF Planning, Frames
<1> HIDE DEF g
<1> QED
  BY <1>1, <1>2, <1>5, <1>6, PlanningMoves

-----------------------------------------------------------------------------
(* Keys that open and leave screens.                                         *)

LEMMA AsideFacts ==
  LET g == Frame("aside", "none", <<>>)
  IN  g \in Frames /\ g.is = "aside" /\ Fits(g) /\ ~Active(g) /\ ~FromList(g) /\ ~Returns(g) /\ ~Overtaken(g)
<1> DEFINE g == Frame("aside", "none", <<>>)
<1>0. "aside" \in ScreenKinds /\ "none" \in Flows \cup {"none"} /\ <<>> \in Seq(OpSet)
  BY DEF ScreenKinds
<1>1. Fresh(g, "aside", "none", <<>>)
  BY <1>0, FrameFacts
<1> HIDE DEF g
<1>2. g \in Frames /\ g.is = "aside" /\ g.flag = FALSE /\ g.counting = FALSE
  BY <1>1 DEF Fresh
<1>3. Fits(g) /\ ~Active(g) /\ ~FromList(g) /\ ~Returns(g) /\ ~Overtaken(g)
  BY <1>2 DEF Fits, Active, FromList, Returns, Overtaken
<1> QED
  BY <1>2, <1>3 DEF g

LEMMA AsideMoves ==
  ASSUME Shape(stack), Top.is \in {"starting", "loading", "review", "run"},
         stack' = Append(stack, Frame("aside", "none", <<>>))
  PROVE  Moves(stack, stack')
<1> DEFINE g == Frame("aside", "none", <<>>)
<1>1. g \in Frames /\ g.is = "aside" /\ Fits(g) /\ ~Active(g) /\ ~FromList(g) /\ ~Returns(g) /\ ~Overtaken(g)
  BY AsideFacts
<1> HIDE DEF g
<1>2. stack' = Append(stack, g)
  BY DEF g
<1>3. /\ Depth \in Nat /\ Depth = Len(stack) /\ Top = stack[Depth]
      /\ \A i \in 1..Depth - 1 : Above(stack[i], Top)
  BY TopPlace
<1>4. \A i \in 1..Len(stack) : Above(stack[i], g)
  <2> SUFFICES ASSUME NEW i \in 1..Len(stack) PROVE Above(stack[i], g)
    OBVIOUS
  <2>1. CASE i = Depth
    BY <2>1, <1>1, <1>3 DEF Above
  <2>2. CASE i # Depth
    <3>1. Above(stack[i], Top)
      BY <2>2, <1>3
    <3> QED
      BY <3>1, <1>1 DEF Above
  <2> QED
    BY <2>1, <2>2
<1>5. Pushes(stack, g, stack')
  BY <1>1, <1>2, <1>4 DEF Pushes, PushesShape, New
<1> QED
  BY <1>5, PushMoves

LEMMA HelpMoves == ASSUME Shape(stack), Help PROVE Moves(stack, stack')
<1>1. Top.is \in {"starting", "loading", "review", "run"} /\ stack' = Append(stack, Frame("aside", "none", <<>>))
  BY DEF Help, Over
<1> QED
  BY <1>1, AsideMoves

LEMMA ViewLogMoves == ASSUME Shape(stack), ViewLog PROVE Moves(stack, stack')
<1>1. Top.is = "run" /\ stack' = Append(stack, Frame("aside", "none", <<>>))
  BY DEF ViewLog, Over, IsTop
<1> QED
  BY <1>1, AsideMoves

LEMMA ModalLogMoves == ASSUME Shape(stack), ModalLog PROVE Moves(stack, stack')
<1> DEFINE g == Frame("aside", "none", <<>>)
<1>1. g \in Frames /\ g.is = "aside" /\ Fits(g) /\ ~Active(g) /\ ~FromList(g) /\ ~Returns(g) /\ ~Overtaken(g)
  BY AsideFacts
<1> HIDE DEF g
<1>2. stack' = Append(Front(stack), g) /\ Top.is = "modal"
  BY DEF g, ModalLog, IsTop, Instead
<1>3. /\ Depth \in Nat /\ Depth = Len(stack) /\ Top = stack[Depth] /\ Depth > 1
      /\ \A i \in 1..Depth - 1 : Above(stack[i], Top)
  BY <1>2, TopPlace
<1>4. ~Overtaken(stack[Len(stack) - 1])
  BY <1>2, <1>3, BelowTop
<1>5. \A i \in 1..Len(stack) - 1 : Above(stack[i], g)
  <2> SUFFICES ASSUME NEW i \in 1..Len(stack) - 1 PROVE Above(stack[i], g)
    OBVIOUS
  <2>1. Above(stack[i], Top)
    BY <1>3
  <2> QED
    BY <2>1, <1>1, <1>2 DEF Above
<1>6. Swaps(stack, g, stack')
  BY <1>1, <1>2, <1>3, <1>4, <1>5 DEF Swaps, SwapsShape
<1>7. ~Owes(stack[Len(stack)]) /\ g.is # "software"
  BY <1>1, <1>2, <1>3 DEF Owes
<1> QED
  BY <1>6, <1>7, SwapMoves DEF Moves

\* A result: the dialogue over a run that has ended.
ModalFits(f, g) == /\ g \in Frames /\ g.is = "modal" /\ g.flow = f.flow /\ g.ops = f.ops /\ g.ret = f.ret
                   /\ g.codes = f.codes /\ g.title = f.title /\ g.flag = FALSE /\ g.counting = FALSE
LEMMA ModalFacts ==
  ASSUME NEW f \in Frames PROVE ModalFits(f, Modal(f))
<1> DEFINE h == Frame("modal", f.flow, f.ops)
<1>1. /\ f.flow \in Flows \cup {"none"} /\ f.ops \in Seq(OpSet) /\ f.ret \in BOOLEAN /\ f.codes \in Seq({0, 1})
      /\ f.title \in Titles \cup {""}
  BY DEF Frames
<1>2. Fresh(h, "modal", f.flow, f.ops)
  BY <1>1, FrameFacts DEF ScreenKinds
<1>3. Modal(f) = [h EXCEPT !.ret = f.ret, !.codes = f.codes, !.title = f.title]
  BY DEF Modal
<1> HIDE DEF h
<1> QED
  BY ZenonT(40), <1>1, <1>2, <1>3 DEF Fresh, Frames, ModalFits

\* It goes over a run that has ended, whatever is above the run.
LEMMA ResultMoves ==
  ASSUME NEW s, NEW i, NEW t, At(s, i), s[i].is = "run", s[i].st # "work", s[Len(s)].is # "modal", t = Append(s, Modal(s[i]))
  PROVE  Moves(s, t) /\ Len(t) = Len(s) + 1
<1> DEFINE g == Modal(s[i])
<1>1. s[i] \in Frames /\ Fits(s[i]) /\ i \in 1..Len(s) /\ Len(s) \in Nat /\ s \in Seq(Frames) /\ Placed(s, i)
  BY Place
<1>2. ModalFits(s[i], g)
  BY <1>1, ModalFacts
<1> HIDE DEF g
<1>3. t = Append(s, g)
  BY DEF g
<1>4. Fits(g)
  BY <1>1, <1>2 DEF Fits, RunFits, ModalFits, AllZero
<1>5. \A j \in 1..Len(s) : Above(s[j], g)
  <2> SUFFICES ASSUME NEW j \in 1..Len(s) PROVE Above(s[j], g)
    OBVIOUS
  <2>1. CASE j = i
    BY <2>1, <1>2 DEF Above, ModalFits
  <2>2. CASE j # i
    <3>1. /\ s[j].is # "run" /\ (s[j].is = "modal" => j = Len(s))
          /\ (j > i => s[j].is \in {"aside", "modal"}) /\ (j < i => s[j].is \in {"menu", "software", "review"})
      BY <2>2, RunOnly
    <3>2. s[j].is \in {"aside", "menu", "software", "review"}
      BY <3>1, <2>2, <1>1
    <3> QED
      BY <3>2, <1>2 DEF Above, ModalFits
  <2> QED
    BY <2>1, <2>2
<1>6. ~FromList(g) /\ ~Overtaken(g) /\ g.is # "run" /\ g.is # "software"
  BY <1>2 DEF FromList, Overtaken, ModalFits
<1>7. Returns(g) => Listing(s)
  <2>1. Returns(g) => Returns(s[i])
    BY <1>2 DEF Returns, ModalFits
  <2> QED
    BY <2>1, <1>1 DEF Placed
<1>8. Same(g, s[i])
  BY <1>2 DEF Same, ModalFits
<1>9. Pushes(s, g, t)
  BY <1>1, <1>2, <1>3, <1>4, <1>5, <1>6, <1>7, <1>8 DEF Pushes, PushesShape, New, ModalFits, At
<1> QED
  BY <1>1, <1>3, <1>9, PushMoves

LEMMA PopMoves ==
  ASSUME NEW s, Shape(s), Len(s) > 1, ~Owes(s[Len(s)]), NEW t, t = SubSeq(s, 1, Len(s) - 1)
  PROVE  Moves(s, t)
<1>1. Len(s) \in Nat /\ Len(s) - 1 \in 1..Len(s)
  BY DEF Shape
<1>2. ~Overtaken(s[Len(s) - 1])
  BY BelowTop DEF Owes
<1>3. \A j \in Len(s) - 1 + 1..Len(s) : ~Owes(s[j])
  BY <1>1
<1>4. Cuts(s, Len(s) - 1, t)
  BY <1>1, <1>2, <1>3 DEF Cuts, CutsShape
<1> QED
  BY <1>4, CutMoves

LEMMA EscapeMoves ==
  ASSUME Shape(stack), Escape PROVE Moves(stack, stack')
<1>1. /\ Depth \in Nat /\ Depth = Len(stack) /\ Top = stack[Depth] /\ Top \in Frames /\ Depth \in 1..Len(stack)
      /\ Top.is # "menu" => Depth > 1
  BY TopPlace
<1>2. Top.is # "menu" /\ (Top.is = "run" => Top.st # "work")
  BY DEF Escape, IsTop
<1>3. CASE Top.is = "run" /\ Top.ret
  <2>1. stack' = Append(stack, Modal(stack[Depth]))
    BY <1>1, <1>3 DEF Escape, IsTop, LeaveRun, Over
  <2>2. At(stack, Depth)
    BY <1>1 DEF At
  <2> QED
    BY <2>1, <2>2, <1>1, <1>2, <1>3, ResultMoves
<1>4. CASE ~(Top.is = "run" /\ Top.ret)
  <2>1. stack' = PopOf(stack)
    BY <1>4 DEF Escape, IsTop, LeaveRun
  <2>2. stack' = SubSeq(stack, 1, Len(stack) - 1)
    BY <2>1, <1>1, <1>2 DEF PopOf, Front
  <2>3. ~Owes(stack[Len(stack)])
    BY <1>1, <1>2, <1>4 DEF Owes
  <2> QED
    BY <2>2, <2>3, <1>1, <1>2, PopMoves
<1> QED
  BY <1>3, <1>4

LEMMA BackMoves ==
  ASSUME Shape(stack), Back PROVE Moves(stack, stack')
<1> DEFINE r == SubSeq(stack, 1, Len(stack) - 1)
<1>1. Top.is = "modal" /\ ~Top.ret /\ stack' = PopOf(PopOf(stack))
  BY DEF Back, IsTop
<1>2. /\ Depth \in Nat /\ Depth = Len(stack) /\ Top = stack[Depth] /\ Depth > 1 /\ stack \in Seq(Frames)
      /\ \A i \in 1..Depth - 1 : Above(stack[i], Top)
  BY <1>1, TopPlace
<1>3. PopOf(stack) = r
  BY <1>2 DEF PopOf, Front
<1>4. Moves(stack, r)
  BY <1>1, <1>2, PopMoves DEF Owes
<1>5. Len(r) = Depth - 1 /\ r[Len(r)] = stack[Depth - 1]
  BY <1>2
<1> HIDE DEF r
<1>6. Shape(r)
  BY <1>4 DEF Moves, Follows
<1>7. CASE Len(r) > 1
  <2>1. Above(stack[Depth - 1], Top)
    BY <1>2
  <2>2. ~Owes(r[Len(r)])
    BY <2>1, <1>1, <1>5 DEF Above, Owes
  <2>3. stack' = SubSeq(r, 1, Len(r) - 1)
    BY <1>1, <1>3, <1>7 DEF PopOf, Front
  <2>4. Moves(r, stack')
    BY <2>2, <2>3, <1>6, <1>7, PopMoves
  <2> QED
    BY <2>4, <1>4, MoveTwice
<1>8. CASE ~(Len(r) > 1)
  BY <1>1, <1>3, <1>4, <1>8 DEF PopOf
<1> QED
  BY <1>7, <1>8

LEMMA MenuFacts == Menu \in Frames /\ Menu.is = "menu" /\ Fits(Menu)
<1>0. "menu" \in ScreenKinds /\ "none" \in Flows \cup {"none"} /\ <<>> \in Seq(OpSet)
  BY DEF ScreenKinds
<1>1. Fresh(Menu, "menu", "none", <<>>)
  BY <1>0, FrameFacts DEF Menu
<1>2. Menu \in Frames /\ Menu.is = "menu" /\ Menu.flag = FALSE /\ Menu.counting = FALSE
  BY <1>1 DEF Fresh
<1> QED
  BY <1>2 DEF Fits

LEMMA MenuShape == Shape(<<Menu>>) /\ ~Listing(<<Menu>>) /\ \A s : Copies(s, <<Menu>>)
<1>1. <<Menu>> \in Seq(Frames) /\ Len(<<Menu>>) = 1 /\ <<Menu>>[1] = Menu
  BY MenuFacts
<1>2. \A i \in 1..Len(<<Menu>>) : i = 1
  BY <1>1
<1>3. Placed(<<Menu>>, 1)
  BY <1>1, MenuFacts DEF Placed, FromList, Returns, Overtaken
<1>4. Shape(<<Menu>>)
  BY <1>1, <1>2, <1>3, MenuFacts DEF Shape
<1>5. ~Listing(<<Menu>>)
  BY <1>1 DEF Listing
<1>6. \A s : Copies(s, <<Menu>>)
  BY <1>1, <1>2, MenuFacts DEF Copies
<1> QED
  BY <1>4, <1>5, <1>6

LEMMA MainMenuMoves == ASSUME Shape(stack), MainMenu PROVE Moves(stack, stack') /\ ~Listing(stack')
<1>1. stack' = <<Menu>>
  BY DEF MainMenu
<1> QED
  BY <1>1, MenuShape DEF Moves, Follows, Keeps

LEMMA PackageManagerFollows ==
  ASSUME Shape(stack), PackageManager PROVE Follows(stack, stack') /\ Listing(stack) /\ Listing(stack')
<1> DEFINE S == {i \in 1..Depth : stack[i].is \in {"menu", "software"}}
<1>1. Top.is = "modal" /\ Top.ret /\ stack' = SubSeq(stack, 1, Max(S))
  BY DEF PackageManager, IsTop
<1>2. /\ Depth \in Nat /\ Depth = Len(stack) /\ Top = stack[Depth] /\ Depth > 1 /\ stack \in Seq(Frames)
      /\ Placed(stack, Depth)
  BY <1>1, TopPlace
<1>3. Listing(stack)
  BY <1>1, <1>2 DEF Placed, Returns
<1>4. 2 \in S /\ \A i \in S : i \in {1, 2}
  <2>1. 2 \in S
    BY <1>2, <1>3 DEF Listing
  <2>2. ASSUME NEW i \in S PROVE i \in {1, 2}
    <3>1. At(stack, i)
      BY <1>2 DEF At
    <3>2. CASE stack[i].is = "menu"
      BY <3>1, <3>2, Place
    <3>3. CASE stack[i].is = "software"
      BY <3>1, <3>3, SecondOnly
    <3> QED
      BY <3>2, <3>3
  <2> QED
    BY <2>1, <2>2
<1> HIDE DEF S
<1>5. Max(S) = 2
  <2>1. \A y \in S : 2 >= y
    BY <1>4
  <2>2. \A x \in S : (\A y \in S : x >= y) => x = 2
    BY <1>4
  <2> QED
    BY <1>4, <2>1, <2>2 DEF Max
<1>6. CutsShape(stack, 2, stack')
  BY <1>1, <1>2, <1>3, <1>5 DEF CutsShape, Overtaken, Listing
<1>7. /\ Shape(stack') /\ Len(stack') = 2 /\ Listing(stack')
      /\ \A j \in 1..2 : stack'[j] = stack[j]
  <2>1. PICK k : k = 2 /\ CutsShape(stack, k, stack')
    BY <1>6
  <2>0. CutsShape(stack, k, stack')
    BY <2>1
  <2>2. /\ Shape(stack') /\ Len(stack') = k
        /\ Listing(stack) /\ k > 1 => Listing(stack')
        /\ Listing(stack') => Listing(stack)
        /\ \A j \in 1..k : stack'[j] = stack[j]
    BY <2>0, CutShape
  <2>3. k > 1
    BY <2>1
  <2> QED
    BY <2>1, <2>2, <2>3, <1>3
<1>8. Copies(stack, stack')
  <2> SUFFICES ASSUME NEW j \in 1..2, stack[j].is \in {"run", "modal"} PROVE FALSE
    BY <1>7 DEF Copies
  <2>1. CASE j = 1
    BY <2>1, MenuFacts DEF Shape
  <2>2. CASE j = 2
    BY <2>2, <1>3 DEF Listing
  <2> QED
    BY <2>1, <2>2
<1> QED
  BY <1>3, <1>7, <1>8 DEF Follows

-----------------------------------------------------------------------------
(* Runs.                                                                     *)

\* The run goes on or ends: the same run with another stage.
RunsOn(s, i, g, t) ==
    /\ At(s, i) /\ s[i].is = "run" /\ s[i].st = "work"
    /\ g \in Frames /\ Fits(g) /\ Alike(s[i], g) /\ g.ops = s[i].ops /\ g.flow = s[i].flow /\ g.flag = FALSE
    /\ t = [s EXCEPT ![i] = g]
LEMMA RunGoesOn ==
  ASSUME NEW s, NEW i, NEW g, NEW t, RunsOn(s, i, g, t)
  PROVE  /\ At(t, i) /\ Len(t) = Len(s) /\ t[i] = g
         /\ Listing(t) <=> Listing(s)
         /\ \A j \in 1..Len(s) : j # i => t[j] = s[j] /\ ~Active(t[j])
<1>1. At(s, i) /\ s[i].is = "run" /\ s[i].st = "work" /\ g \in Frames /\ Fits(g) /\ Alike(s[i], g) /\ t = [s EXCEPT ![i] = g]
  BY DEF RunsOn
<1>2. i \in 2..Len(s) /\ Shape(s)
  BY <1>1, Place DEF At
<1>3. ~Overtaken(g)
  BY <1>1 DEF Alike, Overtaken
<1>4. PutsShape(s, i, g, t)
  BY <1>1, <1>2, <1>3 DEF PutsShape
<1>5. /\ Shape(t) /\ Len(t) = Len(s) /\ t[i] = g
      /\ Listing(t) <=> Listing(s)
      /\ \A j \in 1..Len(s) : j # i => t[j] = s[j]
  BY <1>4, PutShape
<1>6. \A j \in 1..Len(s) : j # i => ~Active(s[j])
  BY <1>1, RunOnly DEF Active
<1> QED
  BY <1>2, <1>5, <1>6 DEF At

\* A run that ended tells the review below it.
LEMMA ToldShape ==
  ASSUME NEW s, NEW i, At(s, i), s[i].is = "run", NEW f, f.tell = s[i].tell, NEW t, t = OnDone(f, i, s)
  PROVE  /\ At(t, i) /\ Len(t) = Len(s) /\ t[i] = s[i]
         /\ Listing(t) <=> Listing(s)
         /\ \A j \in 1..Len(s) : t[j].is = s[j].is
<1>1. s \in Seq(Frames) /\ Len(s) \in Nat /\ i \in 1..Len(s) /\ Placed(s, i)
  BY Place
<1>2. CASE f.tell = "review"
  <2>1. i > 1 /\ s[i - 1].is = "review" /\ i - 1 \in 1..Len(s) /\ At(s, i - 1)
    BY <1>1, <1>2 DEF Placed, At
  <2> DEFINE g == [s[i - 1] EXCEPT !.st = "work", !.kept = {}]
  <2>2. t = [s EXCEPT ![i - 1] = g]
    BY <1>2 DEF OnDone, Reloading
  <2>3. s[i - 1] \in Frames /\ Fits(s[i - 1]) /\ i - 1 \in 2..Len(s)
    BY <2>1, Place
  <2>4. /\ g \in Frames /\ g.is = s[i - 1].is /\ g.flow = s[i - 1].flow /\ g.ops = s[i - 1].ops /\ g.ret = s[i - 1].ret
        /\ g.tell = s[i - 1].tell /\ g.plan = s[i - 1].plan /\ g.flag = s[i - 1].flag /\ g.spent = s[i - 1].spent
        /\ g.counting = s[i - 1].counting
    BY <2>3 DEF Frames
  <2> HIDE DEF g
  <2>5. Fits(g) /\ Alike(s[i - 1], g) /\ (Overtaken(g) => Overtaken(s[i - 1]))
    BY <2>1, <2>3, <2>4 DEF Fits, ReviewFits, Alike, Overtaken
  <2>6. PutsShape(s, i - 1, g, t)
    BY <2>2, <2>3, <2>4, <2>5 DEF PutsShape, At
  <2> DEFINE p == i - 1
  <2>7. PutsShape(s, p, g, t) /\ p # i
    BY <2>6, <1>1
  <2> HIDE DEF p
  <2>8. /\ Shape(t) /\ Len(t) = Len(s) /\ t[p] = g
        /\ Listing(t) <=> Listing(s)
        /\ \A j \in 1..Len(s) : j # p => t[j] = s[j]
    BY <2>7, PutShape
  <2>9. g.is = s[p].is
    BY <2>4 DEF p
  <2> QED
    BY <2>7, <2>8, <2>9, <1>1 DEF At
<1>3. CASE f.tell # "review"
  BY <1>3 DEF OnDone
<1> QED
  BY <1>2, <1>3

LEMMA RefusedFollows ==
  ASSUME Shape(stack), Refused
  PROVE  Follows(stack, stack') /\ (Listing(stack') => Listing(stack)) /\ (untold' \/ (~untold /\ Keeps(stack, stack')))
<1>1. PICK i \in 1..Depth :
        /\ stack[i].is = "run" /\ stack[i].st = "work"
        /\ LET g == [stack[i] EXCEPT !.st = "done", !.title = "Not started"]
           IN  stack' = Append([stack EXCEPT ![i] = g], Modal(g))
        /\ untold' = (untold \/ stack[i].codes # <<>>)
  BY DEF Refused
<1> DEFINE g == [stack[i] EXCEPT !.st = "done", !.title = "Not started"]
           r == [stack EXCEPT ![i] = g]
<1>2. stack' = Append(r, Modal(g))
  BY <1>1
<1>3. At(stack, i)
  BY DEF At, Depth
<1>4. stack[i] \in Frames /\ Fits(stack[i]) /\ i \in 2..Len(stack)
  BY <1>1, <1>3, Place
<1>5. /\ g \in Frames /\ g.is = "run" /\ g.flow = stack[i].flow /\ g.ops = stack[i].ops /\ g.ret = stack[i].ret
      /\ g.tell = stack[i].tell /\ g.codes = stack[i].codes /\ g.st = "done" /\ g.title = "Not started"
      /\ g.flag = stack[i].flag /\ g.counting = stack[i].counting
  BY <1>1, <1>4 DEF Frames, Titles
<1> HIDE DEF g
<1>6. Fits(g) /\ Alike(stack[i], g) /\ g.flag = FALSE
  BY <1>1, <1>4, <1>5 DEF Fits, RunFits, Alike, Frames
<1>7. RunsOn(stack, i, g, r)
  BY <1>1, <1>3, <1>5, <1>6 DEF RunsOn
<1>8. /\ At(r, i) /\ Len(r) = Len(stack) /\ r[i] = g
      /\ Listing(r) <=> Listing(stack)
      /\ \A j \in 1..Len(stack) : j # i => r[j] = stack[j] /\ ~Active(r[j])
  BY <1>7, RunGoesOn
<1>9. Puts(stack, i, g, r)
  <2>1. Same(g, stack[i]) /\ ~Overtaken(g)
    BY <1>1, <1>5 DEF Same, Overtaken
  <2> QED
    BY <2>1, <1>3, <1>4, <1>5, <1>6 DEF Puts, PutsShape, At
<1>10. Follows(stack, r) /\ ((Owes(stack[i]) => Owes(g)) => Keeps(stack, r))
  BY <1>9, PutMoves
<1> HIDE DEF r
<1>11. r[Len(r)].is # "modal"
  <2>1. Len(r) \in 1..Len(stack)
    BY <1>4, <1>8
  <2>2. CASE Len(r) = i
    BY <2>2, <1>5, <1>8
  <2>3. CASE Len(r) # i
    BY <2>1, <2>3, <1>8 DEF Active
  <2> QED
    BY <2>2, <2>3
<1>12. Moves(r, stack')
  BY <1>2, <1>5, <1>8, <1>11, ResultMoves
<1>13. Follows(stack, stack')
  BY <1>10, <1>12, FollowTwice DEF Moves
<1>14. Listing(stack') => Listing(stack)
  BY <1>8, <1>12 DEF Moves, Keeps
<1>15. stack[i].codes = <<>> => Keeps(stack, stack')
  <2> SUFFICES ASSUME stack[i].codes = <<>> PROVE Keeps(stack, stack')
    OBVIOUS
  <2>1. Owes(stack[i]) => Owes(g)
    BY <1>5 DEF Owes
  <2>2. Keeps(stack, r)
    BY <2>1, <1>10
  <2> QED
    BY <2>2, <1>12 DEF Keeps, Moves
<1> QED
  BY <1>1, <1>13, <1>14, <1>15

EmergeAt(i, code) ==
    /\ stack[i].is = "run" /\ stack[i].st = "work"
    /\ LET f == [stack[i] EXCEPT !.codes = Append(@, code)]
           o == f.ops[Len(f.codes)]
           last == Len(f.codes) = Len(f.ops)
       IN  /\ \E done \in IF code = 0 /\ o.kind # "sync" THEN {Targets(o, sys)} ELSE Parts(o, sys) :
                  sys' = After(o, done, sys)
           /\ IF last THEN Ended(i, f, Overall(f.codes)) ELSE stack' = [stack EXCEPT ![i] = f]
           /\ IF last /\ f.tell = "list"
              THEN selection' = Unmarked /\ TellList
              ELSE /\ UNCHANGED <<selection, worldCache, reading>>
                   /\ untold' = (untold \/ (sys' # sys /\ f.tell # "list" /\ ~f.ret))
    /\ UNCHANGED <<mode, view, shown>>
LEMMA EmergeSome ==
  ASSUME Emerge PROVE \E i \in 1..Depth, code \in {0, 1} : EmergeAt(i, code)
BY ZenonT(40) DEF Emerge, EmergeAt

Stepped(f, code) == [f EXCEPT !.codes = Append(@, code)]

\* One more command of a run has ended.
Steps(f, g, code) ==
    /\ g \in Frames /\ g.is = "run" /\ g.flow = f.flow /\ g.ops = f.ops /\ g.st = "work" /\ g.ret = f.ret
    /\ g.tell = f.tell /\ g.title = "" /\ g.flag = FALSE /\ g.counting = FALSE
    /\ g.codes = Append(f.codes, code) /\ Len(g.codes) = Len(f.codes) + 1 /\ Len(g.codes) <= Len(g.ops)
    /\ Len(f.codes) \in Nat /\ Len(f.ops) \in Nat /\ g.codes # <<>>
    /\ Len(g.codes) # Len(g.ops) => Fits(g)
LEMMA SteppedFacts ==
  ASSUME NEW f \in Frames, Fits(f), f.is = "run", f.st = "work", NEW code \in {0, 1}
  PROVE  Steps(f, Stepped(f, code), code)
<1> DEFINE g == Stepped(f, code)
<1>1. /\ f.codes \in Seq({0, 1}) /\ f.ops \in Seq(OpSet) /\ f.flag \in BOOLEAN /\ f.counting \in BOOLEAN
  BY DEF Frames
<1>2. Len(f.codes) < Len(f.ops) /\ f.title = "" /\ f.flag = FALSE /\ f.counting = FALSE /\ RunFits(f) /\ OpsFit(f.flow, f.ops)
  BY <1>1 DEF Fits, RunFits
<1> DEFINE c == f.codes
           d == Append(c, code)
           n == f.ops
<1>3. c \in Seq({0, 1}) /\ n \in Seq(OpSet) /\ Len(c) < Len(n)
  BY <1>1, <1>2
<1>4. /\ g \in Frames /\ g.is = "run" /\ g.flow = f.flow /\ g.ops = n /\ g.st = "work" /\ g.ret = f.ret
      /\ g.tell = f.tell /\ g.title = "" /\ g.flag = FALSE /\ g.counting = FALSE
      /\ g.codes = d
  <2>1. d \in Seq({0, 1})
    BY <1>3
  <2> QED
    BY <2>1, <1>2 DEF Frames, Stepped
<1> HIDE DEF g, c, n
<1>5. /\ Len(c) \in Nat /\ Len(n) \in Nat /\ Len(d) = Len(c) + 1 /\ d # <<>> /\ Len(d) <= Len(n)
      /\ Len(d) # Len(n) => Len(d) < Len(n)
  BY <1>3
<1> HIDE DEF d
<1>6. ASSUME Len(g.codes) # Len(g.ops) PROVE Fits(g)
  <2>1. Len(g.codes) < Len(g.ops) /\ Len(g.codes) <= Len(g.ops)
    BY <1>4, <1>5, <1>6
  <2>2. RunFits(g)
    BY <2>1, <1>2, <1>4 DEF RunFits
  <2> QED
    BY <2>2, <1>2, <1>4 DEF Fits, n
<1>7. Steps(f, g, code)
  BY <1>4, <1>5, <1>6 DEF c, d, n, Steps
<1> QED
  BY <1>7 DEF g

\* The run that ended, with its title.
Ends(e, f, code, t, g) ==
    /\ Fits(e) /\ e.is = "run" /\ e.st = "work" /\ Steps(e, f, code) /\ Len(f.codes) = Len(f.ops)
    /\ t \in TitleOf(f, Overall(f.codes))
    /\ g = [f EXCEPT !.st = IF Uninstalled(f, Overall(f.codes)) THEN "check" ELSE "done", !.title = t]
Result(f, g) ==
    /\ g \in Frames /\ Fits(g) /\ g.is = "run" /\ g.st # "work" /\ g.flow = f.flow /\ g.ops = f.ops /\ g.ret = f.ret
    /\ g.tell = f.tell /\ g.codes = f.codes /\ g.flag = FALSE
LEMMA EndedFits ==
  ASSUME NEW f, NEW e, NEW code, NEW t, NEW g, Ends(e, f, code, t, g)
  PROVE  Result(f, g)
<1>1. /\ f \in Frames /\ f.is = "run" /\ f.flow = e.flow /\ f.ops = e.ops /\ f.ret = e.ret
      /\ f.tell = e.tell /\ f.flag = FALSE /\ f.counting = FALSE
      /\ Len(f.codes) <= Len(f.ops)
  BY DEF Steps, Ends
<1>2. t \in Titles /\ (t = "Completed" /\ f.flow # "sync" => Overall(f.codes) = 0)
  BY DEF TitleOf, Titles, Ends
<1>3. /\ g \in Frames /\ g.is = "run" /\ g.st \in {"check", "done"} /\ g.flow = f.flow /\ g.ops = f.ops /\ g.ret = f.ret
      /\ g.tell = f.tell /\ g.codes = f.codes /\ g.flag = FALSE /\ g.counting = FALSE /\ g.title = t
      /\ g.st = "check" => Uninstalled(f, Overall(f.codes))
  BY <1>1, <1>2 DEF Frames, Ends
<1>4. Uninstalled(f, Overall(f.codes)) => f.flow = "accept"
  BY DEF Uninstalled
<1>5. Overall(f.codes) = 0 => AllZero(f)
  BY DEF Overall, AllZero
<1>6. AllZero(f) => AllZero(g)
  BY <1>3 DEF AllZero
<1>7. RunFits(e) /\ OpsFit(e.flow, e.ops)
  BY DEF Fits, Ends
<1>8. /\ e.tell = "list" <=> e.flow = "accept"
      /\ e.ret => e.flow = "cleanup"
  BY <1>7 DEF RunFits, Ends
<1>9. RunFits(g)
  <2>1. Len(g.codes) = Len(g.ops) /\ Len(g.codes) <= Len(g.ops)
    BY <1>1, <1>3 DEF Ends
  <2>2. g.title = "Completed" /\ g.flow # "sync" => AllZero(g)
    BY <1>2, <1>3, <1>5, <1>6
  <2>3. g.tell = e.tell /\ g.flow = e.flow /\ g.ret = e.ret /\ (g.st = "check" => g.flow = "accept")
    BY <1>1, <1>3, <1>4
  <2> QED
    BY <2>1, <2>2, <2>3, <1>3, <1>8 DEF RunFits
<1>10. OpsFit(g.flow, g.ops)
  BY <1>1, <1>3, <1>7
<1> QED
  BY <1>3, <1>9, <1>10 DEF Fits, Result

\* What is on the stack after a command has ended: the run and its dialogue.
Emerged(i, code) ==
    /\ Shape(stack') /\ (Listing(stack') <=> Listing(stack))
    /\ i \in 1..Len(stack') /\ stack'[i].is = "run" /\ stack'[i].ret = stack[i].ret
    /\ \A j \in 1..Len(stack') : Active(stack'[j]) => Same(stack'[j], Stepped(stack[i], code))
    /\ Len(Stepped(stack[i], code).codes) # Len(stack[i].ops) => stack'[i] = Stepped(stack[i], code)
LEMMA EmergeShape ==
  ASSUME Shape(stack), NEW i \in 1..Depth, NEW code \in {0, 1}, EmergeAt(i, code)
  PROVE  Emerged(i, code) /\ Steps(stack[i], Stepped(stack[i], code), code)
<1> DEFINE e == stack[i]
           f == Stepped(e, code)
<1>1. /\ e.is = "run" /\ e.st = "work"
      /\ IF Len(f.codes) = Len(f.ops) THEN Ended(i, f, Overall(f.codes)) ELSE stack' = [stack EXCEPT ![i] = f]
  BY DEF EmergeAt, Stepped
<1>2. At(stack, i)
  BY DEF At, Depth
<1>3. e \in Frames /\ Fits(e) /\ i \in 1..Len(stack) /\ Len(stack) \in Nat
  BY <1>2, Place
<1>4. Steps(e, f, code)
  BY <1>1, <1>3, SteppedFacts
<1> HIDE DEF f
<1>5. /\ f \in Frames /\ f.is = "run" /\ f.flow = e.flow /\ f.ops = e.ops /\ f.st = "work" /\ f.ret = e.ret
      /\ f.tell = e.tell /\ f.flag = FALSE /\ (Len(f.codes) # Len(f.ops) => Fits(f))
  BY <1>4 DEF Steps
<1>6. ASSUME Len(f.codes) # Len(f.ops) PROVE Emerged(i, code)
  <2>1. stack' = [stack EXCEPT ![i] = f]
    BY <1>1, <1>6
  <2>2. RunsOn(stack, i, f, stack')
    BY <1>1, <1>2, <1>5, <1>6, <2>1 DEF RunsOn, Alike
  <2>3. /\ At(stack', i) /\ Len(stack') = Len(stack) /\ stack'[i] = f
        /\ Listing(stack') <=> Listing(stack)
        /\ \A j \in 1..Len(stack) : j # i => stack'[j] = stack[j] /\ ~Active(stack'[j])
    BY <2>2, RunGoesOn
  <2>4. Same(f, f)
    BY <1>5 DEF Same
  <2> QED
    BY <1>5, <2>3, <2>4 DEF Emerged, At, f
<1>7. ASSUME Len(f.codes) = Len(f.ops) PROVE Emerged(i, code)
  <2> DEFINE all == Overall(f.codes)
  <2>1. Ended(i, f, all)
    BY <1>1, <1>7
  <2>2. PICK t \in TitleOf(f, all) :
          LET g == [f EXCEPT !.st = IF Uninstalled(f, all) THEN "check" ELSE "done", !.title = t]
              s == OnDone(f, i, [stack EXCEPT ![i] = g])
          IN  stack' = IF Uninstalled(f, all) THEN s ELSE Append(s, Modal(g))
    BY <2>1 DEF Ended
  <2> DEFINE g == [f EXCEPT !.st = IF Uninstalled(f, all) THEN "check" ELSE "done", !.title = t]
             r == [stack EXCEPT ![i] = g]
             s == OnDone(f, i, r)
  <2>3. stack' = s \/ stack' = Append(s, Modal(g))
    BY <2>2
  <2>13. Ends(e, f, code, t, g)
    BY <1>1, <1>3, <1>4, <1>7 DEF Ends
  <2> HIDE DEF g, all
  <2>4. /\ g \in Frames /\ Fits(g) /\ g.is = "run" /\ g.st # "work" /\ g.flow = f.flow /\ g.ops = f.ops /\ g.ret = f.ret
        /\ g.tell = f.tell /\ g.codes = f.codes /\ g.flag = FALSE
    <3>1. Result(f, g)
      BY <2>13, EndedFits
    <3> QED
      BY <3>1 DEF Result
  <2>5. RunsOn(stack, i, g, r)
    BY <1>1, <1>2, <1>5, <2>4 DEF RunsOn, Alike
  <2>6. /\ At(r, i) /\ Len(r) = Len(stack) /\ r[i] = g
        /\ Listing(r) <=> Listing(stack)
        /\ \A j \in 1..Len(stack) : j # i => r[j] = stack[j] /\ ~Active(r[j])
    BY <2>5, RunGoesOn
  <2> HIDE DEF r
  <2>7. /\ At(s, i) /\ Len(s) = Len(r) /\ s[i] = r[i]
        /\ Listing(s) <=> Listing(r)
        /\ \A j \in 1..Len(r) : s[j].is = r[j].is
    BY <2>4, <2>6, ToldShape
  <2> HIDE DEF s
  <2>8. s \in Seq(Frames) /\ Len(s) \in Nat /\ Len(s) > 0 /\ i \in 1..Len(s)
    BY <2>7, Place
  <2>9. s[i] = g /\ (Listing(s) <=> Listing(stack)) /\ \A j \in 1..Len(s) : j # i => ~Active(s[j])
    BY <2>6, <2>7, <2>8 DEF Active
  <2>10. Same(g, f) /\ g.ret = e.ret
    BY <1>5, <2>4 DEF Same
  <2>11. CASE stack' = s
    BY <2>4, <2>7, <2>8, <2>9, <2>10, <2>11, <1>5, <1>7 DEF Emerged, At, f
  <2>12. CASE stack' = Append(s, Modal(g))
    <3>1. s[Len(s)].is # "modal"
      BY <2>4, <2>8, <2>9 DEF Active
    <3>2. Moves(s, stack') /\ Len(stack') = Len(s) + 1
      BY <2>4, <2>7, <2>9, <2>12, <3>1, ResultMoves
    <3>3. ModalFits(g, Modal(g))
      BY <2>4, ModalFacts
    <3>4. Same(Modal(g), f)
      BY <3>3, <2>4, <1>5 DEF ModalFits, Same
    <3> DEFINE m == Modal(g)
    <3> HIDE DEF m
    <3>5. stack' = Append(s, m) /\ Same(m, f) /\ m \in Frames
      BY <2>12, <3>3, <3>4 DEF m, ModalFits
    <3>6. \A j \in 1..Len(s) : stack'[j] = s[j]
      BY <3>5, <2>8
    <3>7. stack'[Len(s) + 1] = m
      BY <3>5, <2>8
    <3>8. \A j \in 1..Len(stack') : Active(stack'[j]) => Same(stack'[j], f)
      <4> SUFFICES ASSUME NEW j \in 1..Len(stack'), Active(stack'[j]) PROVE Same(stack'[j], f)
        OBVIOUS
      <4>1. CASE j = Len(s) + 1
        BY <4>1, <3>5, <3>7
      <4>2. CASE j = i
        BY <4>2, <3>6, <2>8, <2>9, <2>10
      <4>3. CASE j # Len(s) + 1 /\ j # i
        <5>1. j \in 1..Len(s)
          BY <4>3, <3>2, <2>8
        <5> QED
          BY <5>1, <4>3, <3>6, <2>9
      <4> QED
        BY <4>1, <4>2, <4>3
    <3>9. Listing(stack') <=> Listing(s)
      <4>1. Len(s) > 1 => stack'[2] = s[2]
        BY <3>6, <2>8
      <4>2. Listing(s) => Listing(stack')
        BY <4>1, <3>2, <2>8 DEF Listing
      <4> QED
        BY <4>2, <3>2 DEF Moves, Keeps
    <3>10. i \in 1..Len(stack') /\ stack'[i] = g
      BY <3>2, <3>6, <2>8, <2>9
    <3> QED
      BY <3>2, <3>8, <3>9, <3>10, <2>4, <2>9, <2>10, <1>5, <1>7 DEF Emerged, Moves, Follows, f
  <2> QED
    BY <2>3, <2>11, <2>12
<1> QED
  BY <1>4, <1>6, <1>7 DEF f

-----------------------------------------------------------------------------
(* What emerge does.                                                         *)

DoneIn(o, s) == CASE o.kind \in {"install", "binpkg", "binpref"} -> o.atoms \cup Needs(o.atoms) \subseteq s.inst
                  [] o.kind = "remove" -> o.atoms \cap s.inst \subseteq Needs(s.inst)
                  [] o.kind = "depclean" -> Orphans(s) = {}
                  [] o.kind = "update" -> s.old = {}
LEMMA DoneNow == \A o : Done(o) = DoneIn(o, sys)
BY DEF Done, DoneIn

\* A command that succeeds does what it was asked for.
LEMMA Achieves ==
  ASSUME NEW o \in OpSet, o.kind # "sync", NEW s \in Systems0
  PROVE  DoneIn(o, After(o, Targets(o, s), s))
<1> DEFINE d == Targets(o, s)
           u == After(o, d, s)
<1>1. o.kind \in Kinds /\ o.atoms \subseteq Pkgs /\ s.inst \subseteq Pkgs /\ s.old \subseteq Pkgs /\ s.world \subseteq Pkgs
  BY DEF OpSet, Systems0
<1>2. CASE o.kind \in Installs
  <2>1. d = o.atoms \cup (Needs(o.atoms) \ s.inst)
    BY <1>2 DEF Targets, Installs
  <2>2. u.inst = s.inst \cup d
    BY <1>2 DEF After, Installs
  <2>3. o.atoms \cup Needs(o.atoms) \subseteq u.inst
    BY <2>1, <2>2
  <2> QED
    BY <1>2, <2>3 DEF DoneIn, Installs
<1>3. CASE o.kind = "remove"
  <2>1. d = Removable(s, o.atoms)
    BY <1>3 DEF Targets
  <2>2. u.inst = s.inst \ d
    BY <1>3 DEF After
  <2>3. \A p \in o.atoms \cap u.inst : p \in Needs(s.inst \ o.atoms)
    BY <2>1, <2>2 DEF Removable
  <2>4. s.inst \ o.atoms \subseteq u.inst
    BY <2>1, <2>2 DEF Removable
  <2>5. Needs(s.inst \ o.atoms) \subseteq Needs(u.inst)
    BY <2>4 DEF Needs
  <2>6. o.atoms \cap u.inst \subseteq Needs(u.inst)
    BY <2>3, <2>5
  <2> QED
    BY <1>3, <2>6 DEF DoneIn
<1>4. CASE o.kind = "depclean"
  <2>1. d = s.inst \ (s.world \cup Needs(s.world))
    BY <1>4 DEF Targets, Orphans
  <2>2. u.inst = s.inst \ d /\ u.world = s.world \ d
    BY <1>4 DEF After
  <2>3. u.world = s.world
    BY <2>1, <2>2
  <2>4. Orphans(u) = {}
    BY <2>1, <2>2, <2>3 DEF Orphans
  <2> QED
    BY <1>4, <2>4 DEF DoneIn
<1>5. CASE o.kind = "update"
  <2>1. d = s.old
    BY <1>5 DEF Targets
  <2>2. u = [s EXCEPT !.old = @ \ d]
    BY <1>5 DEF After
  <2>3. u.old = {}
    BY <2>1, <2>2 DEF Systems0
  <2> QED
    BY <1>5, <2>3 DEF DoneIn
<1> QED
  BY <1>1, <1>2, <1>3, <1>4, <1>5 DEF Kinds

\* A later command of the same plan undoes none of the earlier ones.
LEMMA Undisturbed ==
  ASSUME NEW o \in OpSet, o.kind \in Installs \cup {"remove"}, NEW a \in OpSet, a.kind \in Installs,
         a.atoms \cap o.atoms = {}, NEW s \in Systems0, DoneIn(a, s)
  PROVE  DoneIn(a, After(o, Targets(o, s), s))
<1> DEFINE d == Targets(o, s)
           u == After(o, d, s)
<1>1. a.atoms \cup Needs(a.atoms) \subseteq s.inst
  BY DEF DoneIn, Installs
<1>2. CASE o.kind \in Installs
  <2>1. u.inst = s.inst \cup d
    BY <1>2 DEF After, Installs
  <2>2. a.atoms \cup Needs(a.atoms) \subseteq u.inst
    BY <1>1, <2>1
  <2> QED
    BY <2>2 DEF DoneIn, Installs
<1>3. CASE o.kind = "remove"
  <2>1. d = Removable(s, o.atoms)
    BY <1>3 DEF Targets
  <2>2. u.inst = s.inst \ d
    BY <1>3 DEF After
  <2>3. a.atoms \subseteq s.inst \ o.atoms
    BY <1>1
  <2>4. Needs(a.atoms) \subseteq Needs(s.inst \ o.atoms)
    BY <2>3 DEF Needs
  <2>5. a.atoms \cup Needs(a.atoms) \subseteq u.inst
    BY <1>1, <2>1, <2>2, <2>4 DEF Removable
  <2> QED
    BY <2>5 DEF DoneIn, Installs
<1> QED
  BY <1>2, <1>3

LEMMA AfterType ==
  ASSUME NEW o \in OpSet, NEW s \in Systems0, NEW d, d \subseteq Targets(o, s)
  PROVE  After(o, d, s) \in Systems0
<1>1. d \subseteq Pkgs
  BY TargetsType
<1>2. o.kind \in Kinds /\ s \in Systems0
  BY DEF OpSet
<1>3. CASE o.kind \in Installs
  BY <1>1, <1>3 DEF After, Installs, Systems0
<1>4. CASE o.kind \in {"remove", "depclean"}
  BY <1>1, <1>4 DEF After, Systems0
<1>5. CASE o.kind = "update"
  BY <1>1, <1>5 DEF After, Systems0
<1>6. CASE o.kind = "sync"
  BY <1>1, <1>6 DEF After, Systems0
<1> QED
  BY <1>2, <1>3, <1>4, <1>5, <1>6 DEF Kinds

\* The command that ended, and what it left.
LEMMA EmergeSys ==
  ASSUME Shape(stack), sys \in Systems0, NEW i \in 1..Depth, NEW code \in {0, 1}, EmergeAt(i, code)
  PROVE  LET f == Stepped(stack[i], code)
             o == f.ops[Len(f.codes)]
         IN  /\ Len(f.codes) \in 1..Len(f.ops) /\ o \in OpSet /\ sys' \in Systems0
             /\ code = 0 /\ o.kind # "sync" => sys' = After(o, Targets(o, sys), sys)
<1> DEFINE f == Stepped(stack[i], code)
           o == f.ops[Len(f.codes)]
<1>1. Steps(stack[i], f, code)
  BY EmergeShape
<1>2. \E done \in IF code = 0 /\ o.kind # "sync" THEN {Targets(o, sys)} ELSE Parts(o, sys) : sys' = After(o, done, sys)
  BY DEF EmergeAt, Stepped
<1>3. f.ops \in Seq(OpSet)
  BY <1>1 DEF Steps, Frames
<1>4. Len(f.codes) \in 1..Len(f.ops)
  <2> DEFINE c == stack[i].codes
             n == Len(f.ops)
  <2>1. Len(f.codes) = Len(c) + 1 /\ Len(f.codes) <= n /\ Len(c) \in Nat /\ n \in Nat
    BY <1>1, <1>3 DEF Steps
  <2> HIDE DEF f, c, n
  <2>2. Len(f.codes) \in 1..n
    BY <2>1
  <2> QED
    BY <2>2 DEF n
<1> HIDE DEF f
<1>5. o \in OpSet
  BY <1>3, <1>4
<1> HIDE DEF o
<1>6. PICK done : done \subseteq Targets(o, sys) /\ sys' = After(o, done, sys)
  BY <1>2 DEF Parts
<1>7. sys' \in Systems0
  BY <1>5, <1>6, AfterType
<1>8. code = 0 /\ o.kind # "sync" => sys' = After(o, Targets(o, sys), sys)
  BY <1>2
<1> QED
  BY <1>4, <1>5, <1>7, <1>8 DEF f, o

-----------------------------------------------------------------------------
(* Completed runs.                                                           *)

HonestIn(f, s) == f.is \in {"run", "modal"} /\ f.flow # "sync" /\ AllZero(f) =>
                      \A k \in 1..Len(f.codes) : DoneIn(f.ops[k], s)
LEMMA HonestNow == HonestInv <=> \A i \in 1..Len(stack) : HonestIn(stack[i], sys)
BY DoneNow DEF HonestInv, Honest, HonestIn
LEMMA DoneNext == \A o : Done(o)' = DoneIn(o, sys')
BY DEF Done, DoneIn, Orphans, Needs
LEMMA HonestNext == HonestInv' <=> \A i \in 1..Len(stack') : HonestIn(stack'[i], sys')
BY DoneNext DEF HonestInv, Honest, HonestIn, AllZero

LEMMA HonestSame ==
  ASSUME NEW f, NEW g, Same(f, g), NEW s, HonestIn(g, s), Active(f)
  PROVE  HonestIn(f, s)
BY DEF Same, HonestIn, AllZero

LEMMA HonestFollows ==
  ASSUME Follows(stack, stack'), HonestInv, sys' = sys
  PROVE  HonestInv'
<1> SUFFICES ASSUME NEW j \in 1..Len(stack'), Active(stack'[j]) PROVE HonestIn(stack'[j], sys)
  BY HonestNext DEF HonestIn, Active
<1>1. CASE stack'[j].codes = <<>>
  BY <1>1 DEF HonestIn
<1>2. CASE \E i \in 1..Len(stack) : Same(stack'[j], stack[i])
  BY <1>2, HonestNow, HonestSame
<1> QED
  BY <1>1, <1>2 DEF Follows, Copies, Active

LEMMA EmergeHonest ==
  ASSUME Shape(stack), sys \in Systems0, HonestInv, NEW i \in 1..Depth, NEW code \in {0, 1}, EmergeAt(i, code)
  PROVE  HonestInv'
<1> DEFINE e == stack[i]
           f == Stepped(e, code)
           n == Len(f.codes)
           o == f.ops[n]
<1>1. /\ n \in 1..Len(f.ops) /\ o \in OpSet /\ sys' \in Systems0
      /\ code = 0 /\ o.kind # "sync" => sys' = After(o, Targets(o, sys), sys)
  BY EmergeSys
<1>2. Steps(e, f, code) /\ Emerged(i, code)
  BY EmergeShape
<1>3. e.is = "run" /\ At(stack, i)
  BY DEF EmergeAt, At, Depth
<1>4. e \in Frames /\ Fits(e)
  BY <1>3, Place
<1>5. OpsFit(e.flow, e.ops) /\ e.codes \in Seq({0, 1}) /\ e.ops \in Seq(OpSet)
  BY <1>3, <1>4 DEF Fits, Frames
<1>6. HonestIn(e, sys)
  BY <1>3, HonestNow DEF At
<1>7. f.is = "run" /\ f.flow = e.flow /\ f.ops = e.ops /\ f.codes = Append(e.codes, code)
  BY <1>2 DEF Steps
<1> HIDE DEF f
<1>8. ASSUME f.flow # "sync", AllZero(f), NEW k \in 1..n PROVE DoneIn(f.ops[k], sys')
  <2> DEFINE c == e.codes
             p == e.ops
  <2>1. c \in Seq({0, 1}) /\ p \in Seq(OpSet) /\ f.codes = Append(c, code) /\ f.ops = p
    BY <1>5, <1>7
  <2>2. \A l \in 1..n : f.codes[l] = 0
    BY <1>8 DEF AllZero
  <2> HIDE DEF c, p
  <2>3. n = Len(c) + 1 /\ f.codes[n] = code /\ n \in 1..n /\ \A l \in 1..Len(c) : l \in 1..n /\ f.codes[l] = c[l]
    BY <2>1
  <2>4. code = 0 /\ \A l \in 1..Len(c) : c[l] = 0
    BY <2>2, <2>3
  <2>5. \A l \in 1..Len(c) : DoneIn(p[l], sys)
    BY <2>4, <1>3, <1>6, <1>7, <1>8 DEF HonestIn, AllZero, c, p
  <2>6. o.kind # "sync" /\ o = p[n] /\ n \in 1..Len(p)
    BY <2>1, <1>1, <1>5, <1>7, <1>8 DEF OpsFit, p
  <2>7. sys' = After(o, Targets(o, sys), sys)
    BY <1>1, <2>4, <2>6
  <2>8. CASE k = n
    <3>1. DoneIn(o, sys')
      BY <1>1, <2>6, <2>7, Achieves
    <3> QED
      BY <3>1, <2>8
  <2>9. CASE k # n
    <3>1. k \in 1..n - 1 /\ k \in 1..Len(c) /\ k \in 1..Len(p)
      BY <2>9, <2>1, <2>3, <2>6
    <3>2. p[k].kind \in Installs /\ o.kind \in Installs \cup {"remove"} /\ p[k].atoms \cap o.atoms = {}
      BY <3>1, <2>6, <1>5 DEF OpsFit, p
    <3>3. p[k] \in OpSet /\ DoneIn(p[k], sys)
      BY <3>1, <2>1, <2>5
    <3>4. DoneIn(p[k], After(o, Targets(o, sys), sys))
      BY <3>2, <3>3, <1>1, Undisturbed
    <3> QED
      BY <3>4, <2>7, <2>1
  <2> QED
    BY <2>8, <2>9
<1>9. HonestIn(f, sys')
  BY <1>8 DEF HonestIn
<1> SUFFICES ASSUME NEW j \in 1..Len(stack'), Active(stack'[j]) PROVE HonestIn(stack'[j], sys')
  BY HonestNext DEF HonestIn, Active
<1>10. Same(stack'[j], f)
  BY <1>2 DEF Emerged, f
<1> QED
  BY <1>9, <1>10, HonestSame

\* The Clean Up that follows an uninstall.
CleanUp(c) ==
    /\ c \in Frames /\ c.is = "review" /\ c.flow = "cleanup" /\ OpsFit("cleanup", c.ops) /\ c.ret = TRUE
    /\ c.plan.items \subseteq Pkgs /\ ~Overtaken(c)
CleansUp(s, c, t) == /\ Shape(s) /\ Len(s) > 1 /\ s[Len(s)].is = "run" /\ s[Len(s)].st = "check" /\ CleanUp(c)
                     /\ t = Append(Front(s), c)
LEMMA CleanUpSwaps ==
  ASSUME NEW s, NEW c, NEW t, CleansUp(s, c, t)
  PROVE  Moves(s, t) /\ Len(t) = Len(s) /\ t[Len(t)] = c
<1>1. At(s, Len(s))
  BY DEF At, Shape, CleansUp
<1>2. /\ s \in Seq(Frames) /\ Len(s) \in Nat /\ s[Len(s)] \in Frames /\ Fits(s[Len(s)]) /\ Placed(s, Len(s))
      /\ \A k \in 1..Len(s) - 1 : Above(s[k], s[Len(s)])
  BY <1>1, Place
<1>3. s[Len(s)].flow = "accept" /\ s[Len(s)].ret = FALSE
  BY <1>2 DEF Fits, RunFits, Frames, CleansUp
<1>4. Len(s) = 3 /\ Listing(s)
  BY <1>2, <1>3 DEF Placed, FromList, CleansUp
<1>5. ~Overtaken(s[Len(s) - 1])
  BY <1>3, BelowTop DEF CleansUp
<1>6. \A k \in 1..Len(s) - 1 : s[k].is \in {"menu", "software"}
  <2> SUFFICES ASSUME NEW k \in 1..Len(s) - 1 PROVE s[k].is \in {"menu", "software"}
    OBVIOUS
  <2>1. k = 1 \/ k = 2
    BY <1>4
  <2>2. s[1].is = "menu"
    BY MenuFacts DEF Shape, CleansUp
  <2> QED
    BY <2>1, <2>2, <1>4 DEF Listing
<1>7. \A k \in 1..Len(s) - 1 : Above(s[k], c)
  BY <1>6 DEF Above, CleanUp, CleansUp
<1>8. Fits(c) /\ ~FromList(c) /\ ~Active(c) /\ ~Owes(s[Len(s)])
  BY <1>3 DEF Fits, ReviewFits, FromList, CleanUp, Active, Owes, Frames, CleansUp
<1>9. Swaps(s, c, t)
  <2>1. Len(s) > 2
    BY <1>4
  <2> QED
    BY <2>1, <1>4, <1>5, <1>7, <1>8 DEF Swaps, SwapsShape, CleanUp, Active, CleansUp
<1>10. Follows(s, t) /\ (c.is # "software" /\ ~Owes(s[Len(s)]) => Keeps(s, t))
  BY <1>9, SwapMoves
<1>11. Len(t) = Len(s) /\ t[Len(s)] = c
  <2>1. SwapsShape(s, c, t)
    BY <1>9 DEF Swaps
  <2>2. /\ Shape(t) /\ Len(t) = Len(s) /\ t[Len(s)] = c
        /\ Listing(s) /\ Len(s) > 2 => Listing(t)
        /\ Listing(t) /\ c.is # "software" => Listing(s) /\ Len(s) > 2
        /\ \A j \in 1..Len(s) - 1 : t[j] = s[j]
    BY <2>1, SwapShape
  <2> QED
    BY <2>2
<1> QED
  BY <1>8, <1>10, <1>11 DEF Moves, CleanUp, CleansUp

\* The run that is told nothing to do further.
Checked(i, g, t) == /\ At(stack, i) /\ stack[i].is = "run" /\ stack[i].st = "check"
                    /\ g = [stack[i] EXCEPT !.st = "done"] /\ t = [stack EXCEPT ![i] = g]
LEMMA CheckedMoves ==
  ASSUME NEW i, NEW g, NEW t, Checked(i, g, t)
  PROVE  Moves(stack, t) /\ At(t, i) /\ Len(t) = Len(stack) /\ t[i] = g /\ g.is = "run" /\ g.st = "done"
<1>1. stack[i] \in Frames /\ Fits(stack[i]) /\ i \in 2..Len(stack) /\ Shape(stack)
  BY Place DEF At, Checked
<1>2. /\ g \in Frames /\ g.is = "run" /\ g.flow = stack[i].flow /\ g.ops = stack[i].ops /\ g.ret = stack[i].ret
      /\ g.tell = stack[i].tell /\ g.codes = stack[i].codes /\ g.st = "done" /\ g.title = stack[i].title
      /\ g.flag = stack[i].flag /\ g.counting = stack[i].counting
  BY <1>1 DEF Frames, Checked
<1>3. RunFits(stack[i]) /\ OpsFit(stack[i].flow, stack[i].ops) /\ stack[i].flag = FALSE /\ stack[i].counting = FALSE
  BY <1>1 DEF Fits, Frames, Checked
<1>4. AllZero(stack[i]) => AllZero(g)
  BY <1>2 DEF AllZero
<1>5. RunFits(g)
  BY <1>2, <1>3, <1>4 DEF RunFits, Checked
<1>6. Fits(g) /\ Alike(stack[i], g) /\ ~Overtaken(g) /\ Same(g, stack[i])
  BY <1>2, <1>3, <1>5 DEF Fits, Alike, Overtaken, Same, Checked
<1>7. Puts(stack, i, g, t)
  BY <1>1, <1>2, <1>6 DEF Puts, PutsShape, Checked
<1>8. stack[i].ret = FALSE
  BY <1>1, <1>3 DEF RunFits, Frames, Checked
<1>9. ~Owes(stack[i])
  BY <1>8 DEF Owes, Checked
<1>10. Follows(stack, t) /\ ((Owes(stack[i]) => Owes(g)) => Keeps(stack, t))
  BY <1>7, PutMoves
<1>11. Shape(t) /\ Len(t) = Len(stack) /\ t[i] = g
  <2>1. PutsShape(stack, i, g, t)
    BY <1>7 DEF Puts
  <2>2. /\ Shape(t) /\ Len(t) = Len(stack) /\ t[i] = g
        /\ Listing(t) <=> Listing(stack)
        /\ \A j \in 1..Len(stack) : j # i => t[j] = stack[j]
    BY <2>1, PutShape
  <2> QED
    BY <2>2
<1> QED
  BY <1>2, <1>9, <1>10, <1>11 DEF Moves, At, Checked

LEMMA HousekeptMoves ==
  ASSUME Shape(stack), RestType, Housekept PROVE Moves(stack, stack')
<1> DEFINE c == [Frame("review", "cleanup", <<Op("depclean", {})>>) EXCEPT
                    !.plan = [ok |-> TRUE, items |-> Orphans(sys)], !.ret = TRUE]
           timed == [c EXCEPT !.flag = TRUE, !.counting = TRUE]
           kept == [c EXCEPT !.spent = TRUE]
           run == [RunFrame(c, CleanOps(c), "review") EXCEPT !.plan = c.plan]
<1>1. PICK i \in 1..Depth, ok \in BOOLEAN :
        /\ stack[i].is = "run" /\ stack[i].st = "check"
        /\ LET done == [stack[i] EXCEPT !.st = "done"]
           IN stack' = CASE i # Depth -> [stack EXCEPT ![i] = done]
                      [] i = Depth /\ ~(ok /\ Orphans(sys) # {}) -> Append(AtTop(done), Modal(done))
                      [] i = Depth /\ ok /\ Orphans(sys) # {} ->
                           CASE mode = "manual" -> Instead(c) [] mode = "timer" -> Instead(timed)
                             [] mode = "immediate" -> Append(Instead(kept), run)
  BY DEF Housekept
<1> DEFINE done == [stack[i] EXCEPT !.st = "done"]
           t == [stack EXCEPT ![i] = done]
<1>2. mode \in {"manual", "timer", "immediate"} /\ sys \in Systems0
  BY DEF RestType
<1>3. \/ i # Depth /\ stack' = t
      \/ i = Depth /\ stack' = Append(t, Modal(done))
      \/ i = Depth /\ stack' = Instead(c)
      \/ i = Depth /\ stack' = Instead(timed)
      \/ i = Depth /\ stack' = Append(Instead(kept), run)
  BY <1>1, <1>2 DEF AtTop
<1>4. At(stack, i) /\ Depth = Len(stack)
  BY DEF At, Depth
<1>5. Moves(stack, t) /\ At(t, i) /\ Len(t) = Len(stack) /\ t[i] = done /\ done.is = "run" /\ done.st = "done"
  <2>1. Checked(i, done, t)
    BY <1>1, <1>4 DEF Checked
  <2> HIDE DEF done, t
  <2> QED
    BY <2>1, CheckedMoves
<1>6. Orphans(sys) \subseteq Pkgs /\ <<Op("depclean", {})>> \in Seq(OpSet) /\ OpsFit("cleanup", <<Op("depclean", {})>>)
  <2>1. Op("depclean", {}) \in OpSet /\ Op("depclean", {}).kind = "depclean"
    BY OpFacts DEF Kinds
  <2> QED
    BY <2>1, <1>2, OneOp DEF Orphans, Systems0
<1>7. Fresh(Frame("review", "cleanup", <<Op("depclean", {})>>), "review", "cleanup", <<Op("depclean", {})>>)
  BY <1>6, FrameFacts DEF ScreenKinds, Flows
<1> DEFINE b == Frame("review", "cleanup", <<Op("depclean", {})>>)
<1>8. /\ c \in Frames /\ c.is = "review" /\ c.flow = "cleanup" /\ c.ops = <<Op("depclean", {})>> /\ c.ret = TRUE
      /\ c.plan.items \subseteq Pkgs /\ c.flag = FALSE /\ c.spent = FALSE
  <2>1. Fresh(b, "review", "cleanup", <<Op("depclean", {})>>) /\ c = [b EXCEPT !.plan = [ok |-> TRUE, items |-> Orphans(sys)], !.ret = TRUE]
    BY <1>7
  <2> HIDE DEF b
  <2> QED
    BY <2>1, <1>6 DEF Fresh, Frames, Things
<1>9. CleanUp(c)
  BY <1>6, <1>8 DEF CleanUp, Overtaken
<1> HIDE DEF c, b
<1>10. CleanUp(timed)
  BY <1>6, <1>8 DEF CleanUp, Overtaken, Frames
<1>11. CleanUp(kept)
  BY <1>6, <1>8 DEF CleanUp, Overtaken, Frames
<1> HIDE DEF timed
<1>12. Len(stack) > 1
  BY <1>1, <1>4, Place
<1>13. CASE stack' = t
  BY <1>5, <1>13
<1>14. CASE i = Depth /\ stack' = Append(t, Modal(done))
  <2>1. t[Len(t)].is # "modal"
    BY <1>4, <1>5, <1>14
  <2>2. Moves(t, stack')
    BY <2>1, <1>5, <1>14, ResultMoves
  <2> QED
    BY <2>2, <1>5, MoveTwice
<1>15. CASE i = Depth /\ stack' = Instead(c)
  <2>1. CleansUp(stack, c, stack')
    BY <1>1, <1>4, <1>9, <1>12, <1>15 DEF Instead, CleansUp
  <2> QED
    BY <2>1, CleanUpSwaps
<1>16. CASE i = Depth /\ stack' = Instead(timed)
  <2>1. CleansUp(stack, timed, stack')
    BY <1>1, <1>4, <1>10, <1>12, <1>16 DEF Instead, CleansUp
  <2> QED
    BY <2>1, CleanUpSwaps
<1>17. CASE i = Depth /\ stack' = Append(Instead(kept), run)
  <2> DEFINE u == Append(Front(stack), kept)
  <2>1. MayStart(c, CleanOps(c), "review") /\ OpsFit("cleanup", CleanOps(c))
    BY <1>8, CleanOpsFit DEF MayStart
  <2>2. Starting(run, c, CleanOps(c), "review")
    BY <2>1, RunFrameFacts
  <2>3. kept.is = "review" /\ kept.ret = TRUE /\ kept \in Frames
    BY <1>11 DEF CleanUp
  <2>9. run.ret = TRUE /\ run \in Frames /\ Fits(run) /\ run.is = "run" /\ ~FromList(run) /\ run.codes = <<>>
    BY <2>2, <1>8 DEF Starting, FromList
  <2> HIDE DEF kept, run
  <2>11. CleansUp(stack, kept, u)
    BY <1>1, <1>4, <1>11, <1>12, <1>17 DEF CleansUp
  <2>10. stack' = Append(u, run)
    BY <1>17 DEF Instead
  <2> HIDE DEF u
  <2>4. Moves(stack, u) /\ Len(u) = Len(stack) /\ u[Len(u)] = kept
    BY <2>11, CleanUpSwaps
  <2>5. Shape(u) /\ u \in Seq(Frames) /\ Len(u) > 1
    BY <2>4, <1>12 DEF Moves, Follows, Shape
  <2>6. [u EXCEPT ![Len(u)] = kept] = u
    BY <2>4, <2>5
  <2>7. Fits(kept) /\ Alike(kept, kept)
    BY <1>11 DEF Fits, ReviewFits, Alike, CleanUp
  <2>8. Covers(u, kept, run, stack')
    BY <2>3, <2>4, <2>5, <2>6, <2>7, <2>9, <2>10 DEF Covers, CoversShape
  <2> QED
    BY <2>4, <2>8, CoverMoves, MoveTwice
<1> QED
  BY <1>3, <1>13, <1>14, <1>15, <1>16, <1>17

-----------------------------------------------------------------------------
(* The list stays where it is.                                               *)

LEMMA PutListing ==
  ASSUME Shape(stack), Listing(stack), NEW i \in 1..Depth, stack[i].is # "software", NEW x
  PROVE  /\ Listing([stack EXCEPT ![i] = x])
         /\ \A y : Listing(Append([stack EXCEPT ![i] = x], y))
<1>1. stack \in Seq(Frames) /\ Len(stack) \in Nat /\ Len(stack) > 1 /\ stack[2].is = "software"
  BY DEF Shape, Listing
<1>2. i # 2 /\ i \in 1..Len(stack)
  BY <1>1 DEF Depth
<1> DEFINE t == [stack EXCEPT ![i] = x]
           S == Frames \cup {x}
<1>3. t \in Seq(S) /\ Len(t) = Len(stack) /\ t[2] = stack[2]
  BY <1>1, <1>2
<1> HIDE DEF t, S
<1>4. ASSUME NEW y PROVE Len(Append(t, y)) = Len(t) + 1 /\ Append(t, y)[2] = t[2]
  <2>1. t \in Seq(S \cup {y}) /\ Len(t) \in Nat /\ Len(t) > 1
    BY <1>1, <1>3
  <2> QED
    BY <2>1
<1>5. Listing(t)
  BY <1>1, <1>3 DEF Listing
<1>6. \A y : Listing(Append(t, y))
  BY <1>1, <1>3, <1>4 DEF Listing
<1> QED
  BY <1>5, <1>6 DEF t

LEMMA SwapListing ==
  ASSUME Shape(stack), Listing(stack), Top.is # "software", NEW x
  PROVE  /\ Listing(Append(Front(stack), x))
         /\ \A y : Listing(Append(Append(Front(stack), x), y))
<1>1. stack \in Seq(Frames) /\ Len(stack) \in Nat /\ Len(stack) > 1 /\ stack[2].is = "software"
  BY DEF Shape, Listing
<1>2. Len(stack) # 2
  BY <1>1 DEF Top, Last
<1> DEFINE S == Frames \cup {x}
           r == Front(stack)
           t == Append(r, x)
<1>10. r \in Seq(Frames) /\ Len(r) = Len(stack) - 1 /\ \A k \in 1..Len(stack) - 1 : r[k] = stack[k]
  BY <1>1, <1>2 DEF Front
<1> HIDE DEF r
<1>11. 2 \in 1..Len(stack) - 1
  <2> DEFINE n == Len(stack)
  <2>1. n \in Nat /\ n > 1 /\ n # 2
    BY <1>1, <1>2
  <2> HIDE DEF n
  <2>2. 2 \in 1..n - 1
    BY <2>1
  <2> QED
    BY <2>2 DEF n
<1>3. r \in Seq(Frames) /\ Len(r) = Len(stack) - 1 /\ r[2] = stack[2]
  BY <1>10, <1>11
<1>7. Len(r) \in Nat /\ Len(r) > 1
  BY <1>1, <1>2, <1>3
<1>8. r \in Seq(S)
  BY <1>3, <1>7
<1>9. t \in Seq(S) /\ Len(t) = Len(r) + 1 /\ t[2] = r[2]
  BY <1>7, <1>8
<1> HIDE DEF t, S
<1>4. ASSUME NEW y PROVE Len(Append(t, y)) = Len(t) + 1 /\ Append(t, y)[2] = t[2]
  <2>1. t \in Seq(S \cup {y}) /\ Len(t) \in Nat /\ Len(t) > 1
    BY <1>7, <1>9
  <2> QED
    BY <2>1
<1>5. Listing(t)
  BY <1>1, <1>3, <1>7, <1>9 DEF Listing
<1>6. \A y : Listing(Append(t, y))
  BY <1>1, <1>3, <1>4, <1>7, <1>9 DEF Listing
<1> QED
  BY <1>5, <1>6 DEF t, r

LEMMA AutoApplyListing ==
  ASSUME Shape(stack), Listing(stack), NEW f, Top.is \in {"loading", "review"}, AutoApply(f)
  PROVE  Listing(stack')
<1>1. Depth \in 1..Depth /\ stack[Depth].is # "software" /\ Top.is # "software"
  BY TopPlace
<1>2. CASE f.is = "loading"
  BY <1>1, <1>2, SwapListing DEF AutoApply, Launch, Instead
<1>3. CASE f.is # "loading"
  <2>1. ApplyReview(f)
    BY <1>3 DEF AutoApply
  <2>2. CASE ~MayApply(f)
    BY <1>1, <2>1, <2>2, PutListing DEF ApplyReview, AtTop
  <2>3. CASE MayApply(f) /\ f.flow = "accept"
    BY <1>1, <2>1, <2>3, SwapListing DEF ApplyReview, Instead
  <2>4. CASE MayApply(f) /\ f.flow # "accept"
    <3> DEFINE g == [f EXCEPT !.spent = TRUE]
               h == [RunFrame(f, IF f.flow = "cleanup" THEN CleanOps(f) ELSE f.ops,
                                   IF f.flow = "sync" THEN "nobody" ELSE "review")
                          EXCEPT !.plan = f.plan, !.kept = f.kept, !.drawn = f.drawn]
    <3>1. stack' = Append([stack EXCEPT ![Depth] = g], h)
      BY <2>1, <2>4 DEF ApplyReview, AtTop
    <3> HIDE DEF g, h
    <3>2. \A y : Listing(Append([stack EXCEPT ![Depth] = g], y))
      BY <1>1, PutListing
    <3> QED
      BY <3>1, <3>2
  <2> QED
    BY <2>2, <2>3, <2>4
<1> QED
  BY <1>2, <1>3

LEMMA LapseListing ==
  ASSUME Shape(stack), Listing(stack), Lapse PROVE Listing(stack')
<1>1. PICK i \in 1..Depth :
        /\ stack[i].counting
        /\ IF stack[i].flag /\ i = Depth
           THEN AutoApply([stack[i] EXCEPT !.flag = FALSE, !.counting = FALSE])
           ELSE stack' = [stack EXCEPT ![i].counting = FALSE]
  BY DEF Lapse
<1>2. At(stack, i)
  BY DEF At, Depth
<1>3. stack[i].is \in {"loading", "review"}
  BY <1>1, <1>2, Place DEF Fits
<1>4. CASE stack[i].flag /\ i = Depth
  <2>1. Top = stack[i]
    BY <1>4, TopPlace
  <2> QED
    BY <2>1, <1>1, <1>3, <1>4, AutoApplyListing
<1>5. CASE ~(stack[i].flag /\ i = Depth)
  <2>1. PICK x : stack' = [stack EXCEPT ![i] = x]
    BY <1>1, <1>5
  <2> QED
    BY <2>1, <1>3, PutListing
<1> QED
  BY <1>4, <1>5

LEMMA ResolveListing ==
  ASSUME Shape(stack), RestType, Listing(stack), Resolve PROVE Listing(stack')
<1>1. PICK i \in 1..Depth, ok \in BOOLEAN :
    /\ stack[i].is = "loading"
    /\ LET f == Resolved(stack[i], ok)
           byHand == ~ok \/ f.plan.items = {} \/ mode = "manual"
       IN  CASE ~byHand /\ mode = "timer" ->
                  stack' = [stack EXCEPT ![i] = [f EXCEPT !.flag = TRUE, !.counting = TRUE]]
             [] i # Depth /\ (byHand \/ mode = "immediate") -> stack' = [stack EXCEPT ![i] = f]
             [] i = Depth /\ byHand -> stack' = Instead(ReviewOf(f))
             [] i = Depth /\ ~byHand /\ mode = "immediate" -> Launch(f)
  BY ZenonT(60) DEF Resolve
<1>2. mode \in {"manual", "timer", "immediate"}
  BY DEF RestType
<1> DEFINE f == Resolved(stack[i], ok)
<1> HIDE DEF f
<1>3. \/ \E x : stack' = [stack EXCEPT ![i] = x]
      \/ i = Depth /\ \E x : stack' = Instead(x)
  BY <1>1, <1>2 DEF f, Launch
<1>4. i = Depth => Top.is = "loading"
  BY <1>1, TopPlace
<1>5. CASE \E x : stack' = [stack EXCEPT ![i] = x]
  BY <1>1, <1>5, PutListing
<1>6. CASE i = Depth /\ \E x : stack' = Instead(x)
  BY <1>4, <1>6, SwapListing DEF Instead
<1> QED
  BY <1>3, <1>5, <1>6

LEMMA RescannedListing ==
  ASSUME Shape(stack), Listing(stack), Rescanned PROVE Listing(stack')
<1>1. PICK i \in 1..Depth : stack[i].is = "review"
        /\ stack' = [stack EXCEPT ![i] = [Resolved(stack[i], TRUE) EXCEPT !.drawn = stack[i].kept]]
  BY DEF Rescanned
<1> QED
  BY <1>1, PutListing

LEMMA HousekeptListing ==
  ASSUME Shape(stack), RestType, Listing(stack), Housekept PROVE Listing(stack')
<1>1. PICK i \in 1..Depth :
        /\ stack[i].is = "run"
        /\ \/ \E x : stack' = [stack EXCEPT ![i] = x]
           \/ i = Depth /\ \E x, y : stack' = Append([stack EXCEPT ![i] = x], y)
           \/ i = Depth /\ \E x : stack' = Instead(x)
           \/ i = Depth /\ \E x, y : stack' = Append(Instead(x), y)
  <2>1. mode \in {"manual", "timer", "immediate"}
    BY DEF RestType
  <2> QED
    BY <2>1 DEF Housekept, AtTop
<1>2. i = Depth => Top.is = "run"
  BY <1>1, TopPlace
<1>3. CASE \E x : stack' = [stack EXCEPT ![i] = x]
  BY <1>1, <1>3, PutListing
<1>4. CASE i = Depth /\ \E x, y : stack' = Append([stack EXCEPT ![i] = x], y)
  <2>1. PICK x, y : stack' = Append([stack EXCEPT ![i] = x], y)
    BY <1>4
  <2>2. \A z : Listing(Append([stack EXCEPT ![i] = x], z))
    BY <1>1, PutListing
  <2> QED
    BY <2>1, <2>2
<1>5. CASE i = Depth /\ \E x : stack' = Instead(x)
  BY <1>2, <1>5, SwapListing DEF Instead
<1>6. CASE i = Depth /\ \E x, y : stack' = Append(Instead(x), y)
  <2>1. PICK x, y : stack' = Append(Append(Front(stack), x), y)
    BY <1>6 DEF Instead
  <2>2. \A z : Listing(Append(Append(Front(stack), x), z))
    BY <1>2, <1>6, SwapListing
  <2> QED
    BY <2>1, <2>2
<1> QED
  BY <1>1, <1>3, <1>4, <1>5, <1>6

LEMMA RefusedListing ==
  ASSUME Shape(stack), Listing(stack), Refused PROVE Listing(stack')
<1>1. PICK i \in 1..Depth :
        /\ stack[i].is = "run"
        /\ \E x, y : stack' = Append([stack EXCEPT ![i] = x], y)
  BY DEF Refused
<1>2. PICK x, y : stack' = Append([stack EXCEPT ![i] = x], y)
  BY <1>1
<1>3. \A z : Listing(Append([stack EXCEPT ![i] = x], z))
  BY <1>1, PutListing
<1> QED
  BY <1>2, <1>3

-----------------------------------------------------------------------------
(* The list is opened.                                                       *)

StartedAt(i, fresh) ==
    /\ stack[i].is = "starting" /\ stack[i].st = "work"
    /\ sys' = [sys EXCEPT !.old = @ \cup fresh]
    /\ IF i = Depth
       THEN /\ stack' = Instead(Frame("software", "none", <<>>))
            /\ selection' = Unmarked /\ view' = "installed"
            /\ shown' = [rows |-> sys.inst, inst |-> sys.inst, ups |-> sys'.old]
            /\ worldCache' = World /\ untold' = (World # sys.world)
       ELSE /\ stack' = [stack EXCEPT ![i].st = "ready"]
            /\ UNCHANGED <<worldCache, selection, view, shown, untold>>
    /\ UNCHANGED <<mode, reading, used>>
LEMMA StartedSome ==
  ASSUME Started PROVE \E i \in 1..Depth, fresh \in SUBSET sys.inst : StartedAt(i, fresh)
BY DEF Started, StartedAt

LEMMA StartingAlone ==
  ASSUME NEW i, At(stack, i), stack[i].is = "starting"
  PROVE  i = 2 /\ ~Listing(stack) /\ \A j \in 1..Len(stack) : ~Active(stack[j])
<1>1. i = 2
  BY SecondOnly
<1>2. /\ Len(stack) \in Nat /\ i \in 1..Len(stack) /\ stack[1] = Menu
      /\ \A k \in i + 1..Len(stack) : Above(stack[i], stack[k])
  BY Place DEF At, Shape
<1>3. \A j \in 1..Len(stack) : ~Active(stack[j])
  <2> SUFFICES ASSUME NEW j \in 1..Len(stack) PROVE ~Active(stack[j])
    OBVIOUS
  <2>1. CASE j = i
    BY <2>1 DEF Active
  <2>2. CASE j = 1
    BY <2>2, <1>2, MenuFacts DEF Active
  <2>3. CASE j # i /\ j # 1
    <3>1. j \in i + 1..Len(stack)
      BY <2>3, <1>1, <1>2
    <3> QED
      BY <3>1, <1>2 DEF Above, Active
  <2> QED
    BY <2>1, <2>2, <2>3
<1> QED
  BY <1>1, <1>3 DEF Listing

SoftwareFrame == Frame("software", "none", <<>>)
LEMMA SoftwareFacts ==
  SoftwareFrame \in Frames /\ SoftwareFrame.is = "software" /\ Fits(SoftwareFrame)
<1>1. <<>> \in Seq(OpSet)
  OBVIOUS
<1>2. Fresh(SoftwareFrame, "software", "none", <<>>)
  BY <1>1, FrameFacts DEF ScreenKinds, SoftwareFrame
<1> HIDE DEF SoftwareFrame
<1> QED
  BY <1>2 DEF Fresh, Fits

LEMMA StartedShape ==
  ASSUME Shape(stack), NEW i \in 1..Depth, NEW fresh, StartedAt(i, fresh)
  PROVE  /\ Shape(stack') /\ ~Listing(stack) /\ \A j \in 1..Len(stack') : ~Active(stack'[j])
         /\ i # Depth => ~Listing(stack')
<1>1. At(stack, i) /\ stack[i].is = "starting" /\ Depth = Len(stack)
  BY DEF At, Depth, StartedAt
<1>2. i = 2 /\ ~Listing(stack) /\ \A j \in 1..Len(stack) : ~Active(stack[j])
  BY <1>1, StartingAlone
<1>3. stack \in Seq(Frames) /\ Len(stack) \in Nat /\ i \in 1..Len(stack) /\ stack[i] \in Frames /\ Fits(stack[i]) /\ stack[1] = Menu
  BY <1>1, Place DEF At, Shape
<1>4. CASE i = Depth
  <2> DEFINE g == SoftwareFrame
  <2>1. stack' = Append(Front(stack), g) /\ Len(stack) = 2
    BY <1>1, <1>2, <1>4 DEF StartedAt, Instead, SoftwareFrame
  <2>2. g \in Frames /\ g.is = "software" /\ Fits(g)
    BY SoftwareFacts
  <2> HIDE DEF g
  <2>3. ~Overtaken(stack[Len(stack) - 1]) /\ \A k \in 1..Len(stack) - 1 : Above(stack[k], g)
    <3>1. \A k \in 1..Len(stack) - 1 : stack[k].is = "menu"
      BY <1>3, <2>1, MenuFacts
    <3>2. Len(stack) - 1 \in 1..Len(stack) - 1
      BY <2>1
    <3> QED
      BY <3>1, <3>2, <2>2 DEF Above, Overtaken
  <2>4. ~FromList(g) /\ ~Returns(g) /\ ~Overtaken(g) /\ ~Active(g) /\ g.is # "run"
    BY <2>2 DEF FromList, Returns, Overtaken, Active
  <2>5. SwapsShape(stack, g, stack')
    <3>1. Len(stack) > 1
      BY <2>1
    <3> QED
      BY <3>1, <2>1, <2>2, <2>3, <2>4 DEF SwapsShape
  <2>6. /\ Shape(stack') /\ Len(stack') = Len(stack) /\ stack'[Len(stack)] = g
        /\ Listing(stack) /\ Len(stack) > 2 => Listing(stack')
        /\ Listing(stack') /\ g.is # "software" => Listing(stack) /\ Len(stack) > 2
        /\ \A j \in 1..Len(stack) - 1 : stack'[j] = stack[j]
    <3> HIDE <2>1
    <3> QED
      BY <2>5, SwapShape
  <2>7. \A j \in 1..Len(stack') : ~Active(stack'[j])
    <3> SUFFICES ASSUME NEW j \in 1..Len(stack') PROVE ~Active(stack'[j])
      OBVIOUS
    <3>1. CASE j = Len(stack)
      BY <3>1, <2>4, <2>6
    <3>2. CASE j # Len(stack)
      <4>1. j \in 1..Len(stack) - 1 /\ j \in 1..Len(stack)
        BY <3>2, <2>6, <1>3
      <4> QED
        BY <4>1, <2>6, <1>2
    <3> QED
      BY <3>1, <3>2
  <2> QED
    BY <1>2, <1>4, <2>6, <2>7
<1>5. CASE i # Depth
  <2> DEFINE g == [stack[i] EXCEPT !.st = "ready"]
  <2>1. stack' = [stack EXCEPT ![i] = g]
    BY <1>5 DEF StartedAt
  <2>2. /\ g \in Frames /\ g.is = "starting" /\ g.flow = stack[i].flow /\ g.ret = stack[i].ret /\ g.tell = stack[i].tell
        /\ g.flag = stack[i].flag /\ g.counting = stack[i].counting
    BY <1>1, <1>3 DEF Frames
  <2> HIDE DEF g
  <2>3. Fits(g) /\ Alike(stack[i], g) /\ ~Overtaken(g) /\ ~Active(g)
    BY <1>1, <1>3, <2>2 DEF Fits, Alike, Overtaken, Active
  <2>4. PutsShape(stack, i, g, stack')
    <3>1. i \in 2..Len(stack)
      BY <1>2, <1>3
    <3> QED
      BY <3>1, <2>1, <2>2, <2>3 DEF PutsShape
  <2>5. /\ Shape(stack') /\ Len(stack') = Len(stack) /\ stack'[i] = g
        /\ Listing(stack') <=> Listing(stack)
        /\ \A j \in 1..Len(stack) : j # i => stack'[j] = stack[j]
    BY <2>4, PutShape
  <2>6. \A j \in 1..Len(stack') : ~Active(stack'[j])
    BY <1>2, <2>3, <2>5
  <2> QED
    BY <1>2, <2>5, <2>6
<1> QED
  BY <1>4, <1>5

LEMMA StartedInv ==
  ASSUME ShapeInv, Started PROVE ShapeInv' /\ HonestInv'
<1>1. PICK i \in 1..Depth, fresh \in SUBSET sys.inst : StartedAt(i, fresh)
  BY StartedSome
<1>2. Shape(stack) /\ RestType
  BY DEF ShapeInv
<1>3. Shape(stack') /\ \A j \in 1..Len(stack') : ~Active(stack'[j])
  BY <1>1, <1>2, StartedShape
<1>4. HonestInv'
  BY <1>3, HonestNext DEF HonestIn, Active
<1>5. sys' \in Systems0
  BY <1>1, <1>2 DEF RestType, Systems0, StartedAt
<1>6. RestType'
  <2>1. mode' \in {"manual", "timer", "immediate"} /\ reading' \in Seq(Views) /\ view' \in Views
    BY <1>1, <1>2 DEF RestType, StartedAt, Views
  <2>2. CASE i = Depth
    <3>1. shown'.rows = sys.inst /\ shown'.inst = sys.inst /\ selection' = Unmarked
      BY <1>1, <2>2 DEF StartedAt
    <3>2. sys.inst \subseteq Pkgs /\ Unmarked \in [Pkgs -> MarkNames \cup {"none"}]
      BY <1>2 DEF RestType, Systems0, Unmarked
    <3> QED
      BY <3>1, <3>2, <2>1, <1>5 DEF RestType, Systems0, MarkNames, Views
  <2>3. CASE i # Depth
    <3>1. UNCHANGED <<selection, shown>>
      BY <1>1, <2>3 DEF StartedAt
    <3> QED
      BY <3>1, <2>1, <1>2, <1>5 DEF RestType, Systems0, MarkNames, Views
  <2> QED
    BY <2>2, <2>3
<1> QED
  BY <1>3, <1>4, <1>6 DEF ShapeInv, Shape, Frames, Fits, Above, Placed
-----------------------------------------------------------------------------
(* The invariant: the shape of the stack, and completed runs.                *)

SoftIInv == ShapeInv /\ HonestInv

LEMMA StayMoves == ASSUME Shape(stack) PROVE Moves(stack, stack)
BY SelfSame DEF Moves, Follows, Keeps, Copies, Active

\* The steps that change the stack and nothing the list is about.
QuietKeys == \/ AcceptMarked \/ AcceptRow
             \/ \E flow \in Flows \ {"accept"} : OpenFlow(flow)
             \/ OpenSoftware \/ ApplyNow \/ StopCountdown \/ AcceptReview \/ Keep \/ Rescan
             \/ Help \/ ViewLog \/ Back \/ ModalLog
QuietTasks == Resolve \/ Lapse \/ Rescanned \/ Housekept
LEMMA QuietOnly == ASSUME QuietKeys \/ QuietTasks PROVE Only
<1>1. CASE AcceptMarked BY <1>1 DEF AcceptMarked, Open, Only
<1>2. CASE AcceptRow BY <1>2 DEF AcceptRow, Open, Only
<1>3. CASE \E flow \in Flows \ {"accept"} : OpenFlow(flow) BY <1>3 DEF OpenFlow, Open, Only
<1>4. CASE OpenSoftware BY <1>4 DEF OpenSoftware, Open, Only
<1>5. CASE ApplyNow BY <1>5 DEF ApplyNow, Key
<1>6. CASE StopCountdown BY <1>6 DEF StopCountdown, Key
<1>7. CASE AcceptReview BY <1>7 DEF AcceptReview, Key
<1>8. CASE Keep BY <1>8 DEF Keep
<1>9. CASE Rescan BY <1>9 DEF Rescan
<1>10. CASE Help BY <1>10 DEF Help
<1>11. CASE ViewLog BY <1>11 DEF ViewLog
<1>12. CASE Back BY <1>12 DEF Back, Key
<1>13. CASE ModalLog BY <1>13 DEF ModalLog
<1>14. CASE Resolve BY <1>14 DEF Resolve
<1>15. CASE Lapse BY <1>15 DEF Lapse
<1>16. CASE Rescanned BY <1>16 DEF Rescanned, Key
<1>17. CASE Housekept BY <1>17 DEF Housekept
<1> QED
  BY <1>1, <1>2, <1>3, <1>4, <1>5, <1>6, <1>7, <1>8, <1>9, <1>10, <1>11, <1>12, <1>13, <1>14, <1>15, <1>16, <1>17
     DEF QuietKeys, QuietTasks
LEMMA QuietMoves == ASSUME ShapeInv, QuietKeys \/ QuietTasks PROVE Moves(stack, stack')
<1> USE DEF ShapeInv
<1>1. CASE \E flow \in Flows \ {"accept"} : OpenFlow(flow)
  <2>1. PICK flow \in Flows \ {"accept"} : OpenFlow(flow)
    BY <1>1
  <2> QED
    BY <2>1, OpenFlowMoves
<1>2. CASE QuietTasks
  BY <1>2, ResolveMoves, LapseMoves, RescannedMoves, HousekeptMoves DEF QuietTasks
<1>3. CASE AcceptMarked \/ AcceptRow \/ OpenSoftware \/ ApplyNow \/ StopCountdown \/ AcceptReview
  BY <1>3, AcceptMarkedMoves, AcceptRowMoves, OpenSoftwareMoves, ApplyNowMoves, StopCountdownMoves, AcceptReviewMoves
<1>4. CASE Keep \/ Rescan \/ Help \/ ViewLog \/ Back \/ ModalLog
  BY <1>4, KeepMoves, RescanMoves, HelpMoves, ViewLogMoves, BackMoves, ModalLogMoves
<1> QED
  BY <1>1, <1>2, <1>3, <1>4 DEF QuietKeys

\* Any step that leaves the runs as far as they were.
LEMMA FollowsInv ==
  ASSUME SoftIInv, Follows(stack, stack'), sys' = sys, RestType' PROVE SoftIInv'
<1>1. Shape(stack)'
  BY DEF Follows, Shape
<1>2. HonestInv'
  BY HonestFollows DEF SoftIInv
<1> QED
  BY <1>1, <1>2 DEF SoftIInv, ShapeInv
LEMMA RestStays ==
  ASSUME RestType, UNCHANGED <<sys, mode, selection, shown, view>>, reading' \in Seq(Views) PROVE RestType'
BY DEF RestType, Systems0, MarkNames, Views

LEMMA QuietInv == ASSUME SoftIInv, QuietKeys \/ QuietTasks PROVE SoftIInv'
<1>1. RestType /\ ShapeInv
  BY DEF SoftIInv, ShapeInv
<1>2. Moves(stack, stack') /\ Only
  BY <1>1, QuietMoves, QuietOnly
<1>3. RestType'
  BY <1>1, <1>2, RestStays DEF Only, RestType
<1> QED
  BY <1>2, <1>3, FollowsInv DEF Moves, Only

LEMMA MarksType ==
  ASSUME RestType, CycleMark \/ ClearMarks \/ \E m \in MarkNames : MarkAs(m)
  PROVE  /\ selection' \in [Pkgs -> MarkNames \cup {"none"}]
         /\ UNCHANGED <<sys, worldCache, mode, stack, view, shown, reading, untold>>
<1>1. selection \in [Pkgs -> MarkNames \cup {"none"}] /\ shown.rows \subseteq Pkgs
  BY DEF RestType
<1>2. CASE CycleMark
  <2>1. PICK p \in shown.rows : Marks([selection EXCEPT ![p] = SpaceCycle[@]])
    BY <1>2 DEF CycleMark
  <2>2. \A m \in MarkNames \cup {"none"} : SpaceCycle[m] \in MarkNames \cup {"none"}
    BY DEF SpaceCycle, MarkNames
  <2> QED
    BY <1>1, <2>1, <2>2 DEF Marks
<1>3. CASE ClearMarks
  BY <1>3 DEF ClearMarks, Marks, Unmarked
<1>4. CASE \E m \in MarkNames : MarkAs(m)
  <2>1. PICK m \in MarkNames, p \in shown.rows : Marks([selection EXCEPT ![p] = IF @ = m THEN "none" ELSE m])
    BY <1>4 DEF MarkAs
  <2> QED
    BY <1>1, <2>1 DEF Marks
<1> QED
  BY <1>2, <1>3, <1>4

LEMMA RowsType ==
  ASSUME NEW v \in Views, NEW s \in Systems0, NEW w PROVE RowsOf(v, s, w) \subseteq Pkgs
BY DEF RowsOf, Views, Systems0

LEMMA ConcatFacts ==
  ASSUME NEW V, NEW a \in Seq(V), NEW b \in Seq(V)
  PROVE  /\ a \o b \in Seq(V) /\ Len(a \o b) = Len(a) + Len(b)
         /\ \A k \in 1..Len(a) + Len(b) : (a \o b)[k] = IF k <= Len(a) THEN a[k] ELSE b[k - Len(a)]
OBVIOUS

\* A load that ends, and the others that go on.
LEMMA ReadFacts ==
  ASSUME RestType, Read
  PROVE  \E i \in 1..Len(reading) :
            /\ reading[i] \in Views /\ Fill(reading[i]) /\ UNCHANGED <<sys, mode, stack, selection, view, untold>>
            /\ reading' \in Seq(Views)
            /\ \A k \in 1..Len(reading') : \E j \in 1..Len(reading) : reading'[k] = reading[j]
<1>1. PICK i \in 1..Len(reading) : /\ Fill(reading[i]) /\ reading' = RemoveAt(reading, i)
                                   /\ UNCHANGED <<sys, mode, stack, selection, view, untold>>
  BY DEF Read
<1>2. reading \in Seq(Views) /\ Len(reading) \in Nat
  BY DEF RestType
<1> DEFINE a == SubSeq(reading, 1, i - 1)
           b == SubSeq(reading, i + 1, Len(reading))
<1>3. reading' = a \o b
  BY <1>1 DEF RemoveAt
<1>4. a \in Seq(Views) /\ Len(a) = i - 1 /\ \A k \in 1..i - 1 : a[k] = reading[k]
  BY <1>2
<1>5. b \in Seq(Views) /\ Len(b) = Len(reading) - i /\ \A k \in 1..Len(reading) - i : b[k] = reading[i + k]
  BY <1>2
<1> HIDE DEF a, b
<1>6. /\ reading' \in Seq(Views) /\ Len(reading') = Len(a) + Len(b)
      /\ \A k \in 1..Len(a) + Len(b) : reading'[k] = IF k <= Len(a) THEN a[k] ELSE b[k - Len(a)]
  <2>1. a \in Seq(Views) /\ b \in Seq(Views)
    BY <1>4, <1>5
  <2>2. /\ a \o b \in Seq(Views) /\ Len(a \o b) = Len(a) + Len(b)
        /\ \A k \in 1..Len(a) + Len(b) : (a \o b)[k] = IF k <= Len(a) THEN a[k] ELSE b[k - Len(a)]
    BY <2>1, ConcatFacts
  <2> QED
    BY <2>2, <1>3
<1>7. \A k \in 1..Len(reading') : \E j \in 1..Len(reading) : reading'[k] = reading[j]
  <2> SUFFICES ASSUME NEW k \in 1..Len(reading') PROVE \E j \in 1..Len(reading) : reading'[k] = reading[j]
    OBVIOUS
  <2>1. CASE k <= i - 1
    BY <2>1, <1>2, <1>4, <1>5, <1>6
  <2>2. CASE ~(k <= i - 1)
    <3>1. k - (i - 1) \in 1..Len(reading) - i /\ reading'[k] = b[k - (i - 1)]
      BY <2>2, <1>2, <1>4, <1>5, <1>6
    <3>2. b[k - (i - 1)] = reading[i + (k - (i - 1))] /\ i + (k - (i - 1)) \in 1..Len(reading)
      BY <3>1, <1>2, <1>5
    <3> QED
      BY <3>1, <3>2
  <2> QED
    BY <2>1, <2>2
<1>8. reading[i] \in Views
  BY <1>2
<1> QED
  BY <1>1, <1>6, <1>7, <1>8

LEMMA EmergeInv == ASSUME SoftIInv, Emerge PROVE SoftIInv'
<1>1. PICK i \in 1..Depth, code \in {0, 1} : EmergeAt(i, code)
  BY EmergeSome
<1>2. Shape(stack) /\ RestType /\ HonestInv /\ sys \in Systems0
  BY DEF SoftIInv, ShapeInv, RestType
<1>3. HonestInv'
  BY <1>1, <1>2, EmergeHonest
<1>4. Shape(stack')
  BY <1>1, <1>2, EmergeShape DEF Emerged
<1>5. sys' \in Systems0
  BY <1>1, <1>2, EmergeSys
<1>6. UNCHANGED <<mode, view, shown>>
  BY <1>1 DEF EmergeAt
<1>7. \/ selection' = Unmarked /\ TellList
      \/ UNCHANGED <<selection, worldCache, reading>>
  BY <1>1 DEF EmergeAt
<1>8. selection' \in [Pkgs -> MarkNames \cup {"none"}]
  BY <1>2, <1>7 DEF RestType, Unmarked
<1>9. reading' \in Seq(Views)
  <2>1. view \in Views /\ reading \in Seq(Views)
    BY <1>2 DEF RestType
  <2> QED
    BY <2>1, <1>7 DEF TellList
<1>10. RestType'
  BY <1>2, <1>5, <1>6, <1>8, <1>9 DEF RestType, Systems0, MarkNames, Views
<1>11. Shape(stack)'
  BY <1>4 DEF Shape
<1> QED
  BY <1>3, <1>10, <1>11 DEF SoftIInv, ShapeInv

LEMMA SoftStart == ASSUME SoftInit PROVE SoftIInv
<1>1. Shape(stack)
  BY MenuShape DEF SoftInit
<1>2. RestType
  BY DEF SoftInit, RestType, Systems0, Unmarked, Views
<1>3. HonestInv
  <2>1. stack = <<Menu>> /\ Menu.is = "menu"
    BY MenuFacts DEF SoftInit
  <2>2. \A i \in 1..Len(stack) : stack[i].is = "menu"
    BY <2>1
  <2> QED
    BY <2>2 DEF HonestInv, Honest
<1> QED
  BY <1>1, <1>2, <1>3 DEF SoftIInv, ShapeInv

LEMMA SoftStep == ASSUME SoftIInv, [SoftNext]_softVars PROVE SoftIInv'
<1>1. ShapeInv /\ Shape(stack) /\ RestType /\ HonestInv
  BY DEF SoftIInv, ShapeInv
<1>2. view \in Views /\ reading \in Seq(Views)
  BY <1>1 DEF RestType
<1>3. ASSUME Follows(stack, stack'), UNCHANGED <<sys, mode, selection, shown, view>>, reading' \in Seq(Views) PROVE SoftIInv'
  BY <1>1, <1>3, RestStays, FollowsInv
<1>4. Follows(stack, stack)
  BY <1>1, StayMoves DEF Moves
<1>5. CASE QuietKeys \/ QuietTasks
  BY <1>5, QuietInv
<1>6. CASE \E v \in Views : SwitchView(v)
  <2>1. PICK v \in Views : SwitchView(v)
    BY <1>6
  <2>2. view' = v /\ reading' = Append(reading, v) /\ UNCHANGED <<sys, mode, stack, selection, shown>>
    BY <2>1 DEF SwitchView
  <2>3. reading' \in Seq(Views)
    BY <2>2, <1>2
  <2>4. RestType'
    BY <2>2, <2>3, <1>1 DEF RestType, Systems0, MarkNames
  <2> QED
    BY <2>2, <2>4, <1>4, FollowsInv
<1>7. CASE CycleMark \/ ClearMarks \/ \E m \in MarkNames : MarkAs(m)
  <2>1. /\ selection' \in [Pkgs -> MarkNames \cup {"none"}]
        /\ UNCHANGED <<sys, worldCache, mode, stack, view, shown, reading, untold>>
    BY <1>1, <1>7, MarksType
  <2>2. RestType'
    BY <2>1, <1>1 DEF RestType, Systems0, MarkNames, Views
  <2> QED
    BY <2>1, <2>2, <1>4, FollowsInv
<1>8. CASE Escape
  <2>1. UNCHANGED <<sys, mode, selection, shown, view>> /\ reading' \in Seq(Views)
    BY <1>2, <1>8 DEF Escape
  <2>2. Follows(stack, stack')
    BY <1>1, <1>8, EscapeMoves DEF Moves
  <2> QED
    BY <2>1, <2>2, <1>3
<1>9. CASE MainMenu
  <2>1. UNCHANGED <<sys, mode, selection, shown, view>> /\ reading' \in Seq(Views)
    BY <1>2, <1>9 DEF MainMenu
  <2>2. Follows(stack, stack')
    BY <1>1, <1>9, MainMenuMoves DEF Moves
  <2> QED
    BY <2>1, <2>2, <1>3
<1>10. CASE PackageManager
  <2>1. UNCHANGED <<sys, mode, selection, shown, view>> /\ reading' = Append(reading, view)
    BY <1>10 DEF PackageManager, TellList
  <2>2. reading' \in Seq(Views)
    BY <2>1, <1>2
  <2>3. Follows(stack, stack')
    BY <1>1, <1>10, PackageManagerFollows
  <2> QED
    BY <2>1, <2>2, <2>3, <1>3
<1>11. CASE Read
  <2>1. PICK i \in 1..Len(reading) :
            /\ reading[i] \in Views /\ Fill(reading[i]) /\ UNCHANGED <<sys, mode, stack, selection, view, untold>>
            /\ reading' \in Seq(Views)
    BY <1>1, <1>11, ReadFacts
  <2>2. RowsOf(reading[i], sys, World) \subseteq Pkgs
    BY <2>1, <1>1, RowsType DEF RestType
  <2>3. shown'.rows = RowsOf(reading[i], sys, World) /\ shown'.inst = shown'.rows \cap sys.inst
    BY <2>1 DEF Fill
  <2>4. RestType'
    BY <2>1, <2>2, <2>3, <1>1 DEF RestType, Systems0, MarkNames, Views
  <2> QED
    BY <2>1, <2>4, <1>4, FollowsInv
<1>12. CASE Started
  BY <1>1, <1>12, StartedInv DEF SoftIInv
<1>13. CASE Refused
  <2>1. UNCHANGED <<sys, mode, selection, shown, view>> /\ reading' \in Seq(Views)
    BY <1>2, <1>13 DEF Refused
  <2>2. Follows(stack, stack')
    BY <1>1, <1>13, RefusedFollows
  <2> QED
    BY <2>1, <2>2, <1>3
<1>14. CASE Emerge
  BY <1>14, EmergeInv
<1>15. CASE UNCHANGED softVars
  <2>1. UNCHANGED <<sys, mode, selection, shown, view, reading, stack>>
    BY <1>15 DEF softVars
  <2> QED
    BY <2>1, <1>2, <1>3, <1>4
<1> QED
  BY <1>5, <1>6, <1>7, <1>8, <1>9, <1>10, <1>11, <1>12, <1>13, <1>14, <1>15
     DEF SoftNext, SoftKeys, SoftTasks, QuietKeys, QuietTasks

LEMMA OneRun == ASSUME Shape(stack) PROVE Cardinality({i \in 1..Depth : stack[i].is = "run" /\ stack[i].st = "work"}) <= 1
<1> DEFINE S == {i \in 1..Depth : stack[i].is = "run" /\ stack[i].st = "work"}
<1>1. CASE S = {}
  <2>1. Cardinality(S) = 0
    BY <1>1, FS_EmptySet
  <2> QED
    BY <2>1
<1>2. CASE S # {}
  <2>1. PICK i : i \in S
    BY <1>2
  <2>2. At(stack, i) /\ stack[i].is = "run"
    BY <2>1 DEF At, Depth
  <2>3. \A j \in S : j = i
    BY <2>2, RunOnly DEF Depth
  <2>4. S = {i}
    BY <2>1, <2>3
  <2>5. Cardinality(S) = 1
    BY <2>4, FS_Singleton
  <2> QED
    BY <2>5
<1> QED
  BY <1>1, <1>2

LEMMA SoftInvHolds == ASSUME SoftIInv PROVE SoftInv
<1>1. Shape(stack) /\ RestType /\ HonestInv
  BY DEF SoftIInv, ShapeInv
<1>2. stack[1] = Menu /\ \A i \in 2..Depth : stack[i].is # "menu"
  <2>1. stack[1] = Menu /\ Len(stack) \in Nat
    BY <1>1 DEF Shape
  <2>2. ASSUME NEW i \in 2..Depth PROVE stack[i].is # "menu"
    <3>1. At(stack, i) /\ i # 1
      BY <1>1, <2>1 DEF At, Depth
    <3> QED
      BY <3>1, Place
  <2> QED
    BY <2>1, <2>2
<1>3. SoftTypeOK
  BY <1>1, <1>2, OneRun DEF SoftTypeOK, RestType, Systems0
<1>4. CompletedIsTrue
  <2> DEFINE f == Top
  <2> SUFFICES ASSUME f.is = "modal", f.title = "Completed", f.flow # "sync"
               PROVE  Len(f.codes) = Len(f.ops) /\ \A k \in 1..Len(f.ops) : f.codes[k] = 0 /\ Done(f.ops[k])
    BY DEF CompletedIsTrue
  <2>1. f \in Frames /\ Fits(f) /\ f = stack[Depth] /\ Depth \in 1..Len(stack)
    BY <1>1, TopPlace
  <2>2. Len(f.codes) = Len(f.ops) /\ AllZero(f)
    BY <2>1 DEF Fits, RunFits
  <2>3. Honest(f)
    BY <1>1, <2>1 DEF HonestInv
  <2> HIDE DEF f
  <2> QED
    BY <2>2, <2>3 DEF Honest, AllZero
<1> QED
  BY <1>3, <1>4 DEF SoftInv

\* What the stack of package screens is like, and that a run that says it is
\* completed has done what it was asked for.
THEOREM CompletedTrue == SoftSpec => []SoftInv
<1>1. SoftInit => SoftIInv
  BY SoftStart
<1>2. SoftIInv /\ [SoftNext]_softVars => SoftIInv'
  BY SoftStep
<1>3. SoftIInv => SoftInv
  BY SoftInvHolds
<1> QED
  BY <1>1, <1>2, <1>3, PTL DEF SoftSpec

-----------------------------------------------------------------------------
(* The package list.                                                         *)

LEMMA MovesList ==
  ASSUME ListInv, Moves(stack, stack'), UNCHANGED <<sys, worldCache, view, shown, reading>>, untold => untold',
         reading = <<>> \/ (Listing(stack) => Listing(stack'))
  PROVE  ListInv'
<1>1. World' = World
  BY DEF World
<1>2. Match' = Match
  BY DEF Match, RowsOf
<1>3. ReadInv'
  BY DEF ListInv, ReadInv, Listing
<1>4. Listing(stack') => Listing(stack) /\ (Debt(stack) => Debt(stack'))
  BY DEF Moves, Keeps
<1>5. Debt(stack)' = Debt(stack') /\ Listing(stack)' = Listing(stack')
  BY DEF Debt, Owes, Listing
<1>6. KnownInv'
  BY <1>1, <1>2, <1>4, <1>5 DEF ListInv, KnownInv
<1> QED
  BY <1>3, <1>6 DEF ListInv

LEMMA OnList ==
  ASSUME Shape(stack), IsTop("software") PROVE Listing(stack) /\ ~Debt(stack)
<1>1. Depth = Len(stack) /\ Top = stack[Depth] /\ Depth \in Nat /\ Depth > 0 /\ Top.is = "software"
  BY TopPlace DEF IsTop
<1>2. At(stack, Depth)
  BY <1>1 DEF At
<1>3. Depth = 2
  BY <1>1, <1>2, SecondOnly
<1>4. stack[1].is = "menu"
  BY MenuFacts DEF Shape
<1>5. \A i \in 1..Len(stack) : i = 1 \/ i = 2
  BY <1>1, <1>3
<1>6. \A i \in 1..Len(stack) : stack[i].is # "run"
  BY <1>1, <1>3, <1>4, <1>5
<1> QED
  BY <1>1, <1>3, <1>6 DEF Listing, Debt, Owes

\* The cached @world is that of the system, whichever is read.
LEMMA WorldRead == ASSUME World = sys.world, sys' = sys, worldCache' \in {World, worldCache, NoCache} PROVE World' = sys'.world
BY DEF World

LEMMA ReadList == ASSUME SoftIInv, ListInv, Read PROVE ListInv'
<1>1. RestType
  BY DEF SoftIInv, ShapeInv
<1>2. PICK i \in 1..Len(reading) :
        /\ reading[i] \in Views /\ Fill(reading[i]) /\ UNCHANGED <<sys, mode, stack, selection, view, untold>>
        /\ reading' \in Seq(Views)
        /\ \A k \in 1..Len(reading') : \E j \in 1..Len(reading) : reading'[k] = reading[j]
  BY <1>1, ReadFacts
<1>3. \A j \in 1..Len(reading) : reading[j] = view
  BY DEF ListInv, ReadInv
<1>4. Fill(view)
  BY <1>2, <1>3
<1>5. reading # <<>>
  BY <1>1, <1>2 DEF RestType
<1>6. Listing(stack') /\ Listing(stack)
  BY <1>2, <1>5 DEF ListInv, ReadInv
<1>7. ReadInv'
  BY <1>2, <1>3, <1>6 DEF ReadInv, Listing
<1>8. ASSUME ~untold', ~Debt(stack') PROVE World' = sys'.world /\ Match'
  <2>1. World = sys.world
    BY <1>2, <1>6, <1>8 DEF ListInv, KnownInv
  <2>2. worldCache' \in {World, worldCache, NoCache}
    BY <1>4 DEF Fill
  <2>3. World' = sys'.world
    BY <2>1, <2>2, <1>2, WorldRead
  <2>4. /\ shown'.rows = RowsOf(view, sys, World) /\ shown'.inst = RowsOf(view, sys, World) \cap sys.inst
        /\ shown'.ups = IF view = "search" THEN shown.ups ELSE sys.old
    BY <1>4 DEF Fill
  <2>5. Match'
    BY <2>1, <2>4, <1>2 DEF Match, RowsOf
  <2> QED
    BY <2>3, <2>5
<1>9. KnownInv'
  BY <1>8 DEF KnownInv, Debt, Owes
<1> QED
  BY <1>7, <1>9 DEF ListInv

LEMMA StartedList == ASSUME SoftIInv, ListInv, Started PROVE ListInv'
<1>1. PICK i \in 1..Depth, fresh \in SUBSET sys.inst : StartedAt(i, fresh)
  BY StartedSome
<1>2. Shape(stack) /\ RestType
  BY DEF SoftIInv, ShapeInv
<1>3. ~Listing(stack) /\ (i # Depth => ~Listing(stack'))
  BY <1>1, <1>2, StartedShape
<1>4. reading = <<>> /\ reading' = <<>>
  BY <1>1, <1>3 DEF ListInv, ReadInv, StartedAt
<1>5. ReadInv'
  BY <1>4 DEF ReadInv
<1>6. KnownInv'
  <2>1. CASE i # Depth
    BY <2>1, <1>3 DEF KnownInv, Listing
  <2>2. CASE i = Depth
    <3>1. /\ view' = "installed" /\ shown' = [rows |-> sys.inst, inst |-> sys.inst, ups |-> sys'.old]
          /\ worldCache' = World /\ untold' = (World # sys.world) /\ sys' = [sys EXCEPT !.old = @ \cup fresh]
      BY <1>1, <2>2 DEF StartedAt
    <3>2. sys'.inst = sys.inst /\ sys'.world = sys.world
      BY <3>1, <1>2 DEF RestType, Systems0
    <3>3. Match'
      BY <3>1, <3>2 DEF Match, RowsOf
    <3>4. ~untold' => World' = sys'.world
      BY <3>1, <3>2 DEF World
    <3> QED
      BY <3>3, <3>4 DEF KnownInv
  <2> QED
    BY <2>1, <2>2
<1> QED
  BY <1>5, <1>6 DEF ListInv

LEMMA RefusedList == ASSUME SoftIInv, ListInv, Refused PROVE ListInv'
<1>1. Shape(stack) /\ UNCHANGED <<sys, worldCache, view, shown, reading>>
  BY DEF SoftIInv, ShapeInv, Refused
<1>2. /\ Follows(stack, stack') /\ (Listing(stack') => Listing(stack))
      /\ untold' \/ (~untold /\ Keeps(stack, stack'))
  BY <1>1, RefusedFollows
<1>3. Listing(stack) => Listing(stack')
  BY <1>1, RefusedListing
<1>4. CASE untold'
  <2>1. ReadInv'
    BY <1>1, <1>3 DEF ListInv, ReadInv, Listing
  <2>2. KnownInv'
    BY <1>4 DEF KnownInv
  <2> QED
    BY <2>1, <2>2 DEF ListInv
<1>5. CASE ~untold'
  <2>1. (untold => untold') /\ Moves(stack, stack')
    BY <1>2, <1>5 DEF Moves
  <2> QED
    BY <2>1, <1>1, <1>3, MovesList
<1> QED
  BY <1>4, <1>5

\* A run tells the list at its end, or goes on owing it, or changes nothing,
\* or is set aside as untold.
LEMMA EmergeList == ASSUME SoftIInv, ListInv, Emerge PROVE ListInv'
<1>1. PICK i \in 1..Depth, code \in {0, 1} : EmergeAt(i, code)
  BY EmergeSome
<1> DEFINE f == Stepped(stack[i], code)
           last == Len(f.codes) = Len(f.ops)
<1>2. Shape(stack) /\ RestType
  BY DEF SoftIInv, ShapeInv
<1>3. Emerged(i, code) /\ Steps(stack[i], f, code)
  BY <1>1, <1>2, EmergeShape
<1>4. /\ Listing(stack') <=> Listing(stack)
      /\ i \in 1..Len(stack') /\ stack'[i].is = "run" /\ stack'[i].ret = stack[i].ret
      /\ Len(f.codes) # Len(stack[i].ops) => stack'[i] = f
  BY <1>3 DEF Emerged
<1>5. /\ f.is = "run" /\ f.ops = stack[i].ops /\ f.st = "work" /\ f.ret = stack[i].ret /\ f.tell = stack[i].tell /\ f.codes # <<>>
  BY <1>3 DEF Steps
<1>6. /\ stack[i].is = "run" /\ stack[i].st = "work" /\ UNCHANGED <<mode, view, shown>>
      /\ IF last /\ f.tell = "list"
              THEN selection' = Unmarked /\ TellList
              ELSE /\ UNCHANGED <<selection, worldCache, reading>>
                   /\ untold' = (untold \/ (sys' # sys /\ f.tell # "list" /\ ~f.ret))
  BY <1>1 DEF EmergeAt, Stepped
<1>7. At(stack, i)
  BY <1>2 DEF At, Depth
<1> HIDE DEF f
<1>8. CASE last /\ f.tell = "list"
  <2>1. worldCache' = NoCache /\ reading' = Append(reading, view) /\ untold' = FALSE
    BY <1>6, <1>8 DEF TellList, Forget
  <2>2. Listing(stack)
    <3>1. Fits(stack[i]) /\ Placed(stack, i)
      BY <1>7, Place
    <3>2. stack[i].flow = "accept"
      BY <3>1, <1>5, <1>6, <1>8 DEF Fits, RunFits
    <3> QED
      BY <3>1, <3>2, <1>6 DEF Placed, FromList
  <2>3. reading \in Seq(Views) /\ view \in Views /\ \A k \in 1..Len(reading) : reading[k] = view
    BY <1>2 DEF RestType, ListInv, ReadInv
  <2>4. reading' # <<>> /\ \A k \in 1..Len(reading') : reading'[k] = view
    BY <2>1, <2>3
  <2>5. ReadInv'
    BY <2>2, <2>4, <1>4, <1>6 DEF ReadInv, Listing
  <2>6. KnownInv'
    BY <2>1, <2>4 DEF KnownInv, World
  <2> QED
    BY <2>5, <2>6 DEF ListInv
<1>9. CASE ~(last /\ f.tell = "list")
  <2>1. /\ UNCHANGED <<worldCache, reading, view, shown>>
        /\ untold' = (untold \/ (sys' # sys /\ f.tell # "list" /\ ~f.ret))
    BY <1>6, <1>9
  <2>2. ReadInv'
    BY <2>1, <1>4 DEF ListInv, ReadInv, Listing
  <2>3. ASSUME f.ret \/ f.tell = "list" PROVE Debt(stack')
    <3>1. Owes(stack'[i])
      BY <2>3, <1>4, <1>5, <1>9 DEF Owes
    <3> QED
      BY <3>1, <1>4 DEF Debt
  <2>4. ASSUME ~f.ret, f.tell # "list" PROVE ~Debt(stack)
    <3>1. ~Owes(stack[i])
      BY <2>4, <1>5 DEF Owes
    <3>2. \A j \in 1..Len(stack) : j # i => stack[j].is # "run"
      BY <1>6, <1>7, RunOnly
    <3> QED
      BY <3>1, <3>2 DEF Debt, Owes
  <2>5. ASSUME Listing(stack'), ~untold', ~Debt(stack') PROVE World' = sys'.world /\ (reading' = <<>> => Match')
    <3>1. ~f.ret /\ f.tell # "list"
      BY <2>3, <2>5
    <3>2. sys' = sys /\ ~untold /\ ~Debt(stack) /\ Listing(stack)
      BY <3>1, <2>1, <2>4, <2>5, <1>4
    <3>3. World = sys.world /\ (reading = <<>> => Match)
      BY <3>2 DEF ListInv, KnownInv
    <3> QED
      BY <3>2, <3>3, <2>1 DEF World, Match, RowsOf
  <2>6. KnownInv'
    BY <2>5 DEF KnownInv, Listing, Debt, Owes
  <2> QED
    BY <2>2, <2>6 DEF ListInv
<1> QED
  BY <1>8, <1>9

LEMMA ListStart == ASSUME SoftInit PROVE ListInv
<1>1. reading = <<>> /\ ~Listing(stack)
  BY MenuShape DEF SoftInit
<1> QED
  BY <1>1 DEF ListInv, ReadInv, KnownInv

LEMMA ListStep == ASSUME SoftIInv, ListInv, [SoftSettled]_softVars PROVE ListInv'
<1>1. ShapeInv /\ Shape(stack) /\ RestType
  BY DEF SoftIInv, ShapeInv
<1>2. CASE reading = <<>> /\ QuietKeys
  <2>1. Only /\ Moves(stack, stack')
    BY <1>1, <1>2, QuietOnly, QuietMoves
  <2> QED
    BY <2>1, <1>2, MovesList DEF Only
<1>3. CASE QuietTasks
  <2>1. Only /\ Moves(stack, stack')
    BY <1>1, <1>3, QuietOnly, QuietMoves
  <2>2. Listing(stack) => Listing(stack')
    BY <1>1, <1>3, ResolveListing, LapseListing, RescannedListing, HousekeptListing DEF QuietTasks
  <2> QED
    BY <2>1, <2>2, MovesList DEF Only
<1>4. CASE reading = <<>> /\ \E v \in Views : SwitchView(v)
  <2>1. PICK v \in Views : SwitchView(v)
    BY <1>4
  <2>2. view' = v /\ reading' = <<v>> /\ UNCHANGED <<sys, worldCache, stack, shown, untold>> /\ IsTop("software")
    BY <2>1, <1>4 DEF SwitchView
  <2>3. Listing(stack)
    BY <2>2, <1>1, OnList
  <2>4. reading' # <<>> /\ \A k \in 1..Len(reading') : reading'[k] = v
    BY <2>2
  <2>5. ReadInv'
    BY <2>2, <2>3, <2>4 DEF ReadInv, Listing
  <2>6. KnownInv'
    BY <2>2, <2>4 DEF ListInv, KnownInv, World, Listing, Debt, Owes
  <2> QED
    BY <2>5, <2>6 DEF ListInv
<1>5. CASE CycleMark \/ ClearMarks \/ \E m \in MarkNames : MarkAs(m)
  <2>1. UNCHANGED <<sys, worldCache, mode, stack, view, shown, reading, untold>>
    BY <1>1, <1>5, MarksType
  <2>2. Moves(stack, stack')
    BY <2>1, <1>1, StayMoves
  <2> QED
    BY <2>1, <2>2, MovesList
<1>6. CASE reading = <<>> /\ Escape
  <2>1. UNCHANGED <<sys, worldCache, view, shown, reading, untold>>
    BY <1>6 DEF Escape
  <2>2. Moves(stack, stack')
    BY <1>1, <1>6, EscapeMoves
  <2> QED
    BY <2>1, <2>2, <1>6, MovesList
<1>7. CASE reading = <<>> /\ MainMenu
  <2>1. UNCHANGED <<sys, worldCache, view, shown, reading, untold>>
    BY <1>7 DEF MainMenu
  <2>2. Moves(stack, stack')
    BY <1>1, <1>7, MainMenuMoves
  <2> QED
    BY <2>1, <2>2, <1>7, MovesList
<1>8. CASE reading = <<>> /\ PackageManager
  <2>1. worldCache' = NoCache /\ reading' = <<view>> /\ untold' = FALSE /\ view' = view
    BY <1>8 DEF PackageManager, TellList, Forget
  <2>2. Listing(stack')
    BY <1>1, <1>8, PackageManagerFollows
  <2>3. reading' # <<>> /\ \A k \in 1..Len(reading') : reading'[k] = view'
    BY <2>1
  <2>4. ReadInv'
    BY <2>2, <2>3 DEF ReadInv, Listing
  <2>5. KnownInv'
    BY <2>1, <2>3 DEF KnownInv, World
  <2> QED
    BY <2>4, <2>5 DEF ListInv
<1>9. CASE Read
  BY <1>9, ReadList
<1>10. CASE Started
  BY <1>10, StartedList
<1>11. CASE Refused
  BY <1>11, RefusedList
<1>12. CASE Emerge
  BY <1>12, EmergeList
<1>13. CASE UNCHANGED softVars
  <2>1. UNCHANGED <<sys, worldCache, mode, stack, view, shown, reading, untold>>
    BY <1>13 DEF softVars
  <2>2. Moves(stack, stack')
    BY <2>1, <1>1, StayMoves
  <2> QED
    BY <2>1, <2>2, MovesList
<1> QED
  BY <1>2, <1>3, <1>4, <1>5, <1>6, <1>7, <1>8, <1>9, <1>10, <1>11, <1>12, <1>13
     DEF SoftSettled, SoftKeys, SoftTasks, QuietKeys, QuietTasks

LEMMA ListTrueHolds == ASSUME SoftIInv, ListInv PROVE ListTrue
<1> SUFFICES ASSUME IsTop("software"), reading = <<>>, ~untold
             PROVE  /\ shown.rows = RowsOf(view, sys, sys.world) /\ shown.inst = shown.rows \cap sys.inst
                    /\ view # "search" => shown.ups = sys.old
  BY DEF ListTrue
<1>1. Listing(stack) /\ ~Debt(stack)
  BY OnList DEF SoftIInv, ShapeInv
<1> QED
  BY <1>1 DEF ListInv, KnownInv, Match

\* With every load of the list read before the next key, the list on top
\* shows the system as it is.
THEOREM ListIsTrue == SettledSpec => []ListTrue
<1>1. SoftInit => SoftIInv /\ ListInv
  BY SoftStart, ListStart
<1>2. SoftIInv /\ ListInv /\ [SoftSettled]_softVars => (SoftIInv /\ ListInv)'
  <2>1. [SoftSettled]_softVars => [SoftNext]_softVars
    BY DEF SoftSettled, SoftNext
  <2> QED
    BY <2>1, SoftStep, ListStep
<1>3. SoftIInv /\ ListInv => ListTrue
  BY ListTrueHolds
<1> QED
  BY <1>1, <1>2, <1>3, PTL DEF SettledSpec

-----------------------------------------------------------------------------
(* One question, at most one run.                                            *)

\* The step that AskedOnly forbids, but for the screen's past.
StartsRun == Len(stack') = Depth + 1 /\ Last(stack').is = "run" /\ ~stack'[Depth].counting

LEMMA SameLength ==
  ASSUME Shape(stack)
  PROVE  /\ \A i, x : Len([stack EXCEPT ![i] = x]) # Depth + 1
         /\ \A x : Len(Append(Front(stack), x)) # Depth + 1
<1>1. stack \in Seq(Frames) /\ Len(stack) \in Nat /\ Len(stack) > 0 /\ Depth = Len(stack)
  BY DEF Shape, Depth
<1>2. ASSUME NEW i, NEW x PROVE Len([stack EXCEPT ![i] = x]) # Depth + 1
  <2> DEFINE t == [stack EXCEPT ![i] = x]
  <2>1. Len(t) = Len(stack)
    BY <1>1
  <2> HIDE DEF t
  <2>2. Len(t) # Depth + 1
    BY <2>1, <1>1
  <2> QED
    BY <2>2 DEF t
<1>3. ASSUME NEW x PROVE Len(Append(Front(stack), x)) # Depth + 1
  <2> DEFINE r == Front(stack)
  <2>1. r \in Seq(Frames) /\ Len(r) = Len(stack) - 1
    BY <1>1 DEF Front
  <2> HIDE DEF r
  <2>2. r \in Seq(Frames \cup {x})
    BY <2>1, <1>1
  <2>3. Len(Append(r, x)) = Len(r) + 1
    BY <2>2
  <2> QED
    BY <2>1, <2>3, <1>1 DEF r
<1> QED
  BY <1>2, <1>3

\* A dialogue or a help text on top is no run.
LEMMA NoRunOnTop ==
  ASSUME NEW s, NEW S, s \in Seq(S), NEW f, f.is # "run", stack' = Append(s, f)
  PROVE  ~StartsRun
<1>1. s \in Seq(S \cup {f}) /\ Len(s) \in Nat
  OBVIOUS
<1>2. Len(stack') = Len(s) + 1 /\ stack'[Len(s) + 1] = f
  BY <1>1
<1>3. Last(stack') = f
  BY <1>2 DEF Last
<1> QED
  BY <1>3 DEF StartsRun

LEMMA PutSeq ==
  ASSUME NEW S, NEW r \in Seq(S), NEW k, NEW x
  PROVE  [r EXCEPT ![k] = x] \in Seq(S \cup {x}) /\ Len([r EXCEPT ![k] = x]) = Len(r)
<1>1. r \in Seq(S \cup {x}) /\ x \in S \cup {x}
  OBVIOUS
<1>2. CASE k \in 1..Len(r)
  BY <1>1, <1>2
<1>3. CASE k \notin 1..Len(r)
  <2>1. DOMAIN r = 1..Len(r)
    OBVIOUS
  <2>2. [r EXCEPT ![k] = x] = [j \in DOMAIN r |-> r[j]]
    BY <2>1, <1>3
  <2>3. [j \in DOMAIN r |-> r[j]] = r
    OBVIOUS
  <2> QED
    BY <2>2, <2>3, <1>1
<1> QED
  BY <1>2, <1>3

LEMMA ModalIs == \A f : Modal(f).is = "modal"
BY DEF Modal, Frame

LEMMA NoneByKey ==
  ASSUME Shape(stack), IsTop("review"), ~Top.flag, Top.counting, SoftKeys, stack' # stack
  PROVE  ~StartsRun
<1>1. /\ stack \in Seq(Frames) /\ Depth \in Nat /\ Depth > 0 /\ Depth = Len(stack) /\ Top = stack[Depth]
      /\ Top \in Frames /\ Top.is = "review"
  BY TopPlace DEF IsTop
<1>2. /\ \A i, x : Len([stack EXCEPT ![i] = x]) # Depth + 1
      /\ \A x : Len(Append(Front(stack), x)) # Depth + 1
  BY SameLength
<1>3. ~(AcceptMarked \/ AcceptRow \/ OpenSoftware \/ ApplyNow \/ StopCountdown \/ ViewLog \/ Back \/ ModalLog
        \/ MainMenu \/ PackageManager \/ \E flow \in Flows \ {"accept"} : OpenFlow(flow))
  BY <1>1 DEF AcceptMarked, AcceptRow, OpenSoftware, ApplyNow, StopCountdown, ViewLog, Back, ModalLog, MainMenu,
              PackageManager, OpenFlow, IsTop, Waiting
<1>4. ~(CycleMark \/ ClearMarks \/ (\E m \in MarkNames : MarkAs(m)) \/ \E v \in Views : SwitchView(v))
  BY <1>1 DEF CycleMark, ClearMarks, MarkAs, Marks, SwitchView, IsTop
<1>5. CASE AcceptReview
  <2>1. ApplyReview(Top) /\ MayApply(Top)
    BY <1>5 DEF AcceptReview
  <2>2. CASE Top.flow = "accept"
    BY <1>2, <2>1, <2>2 DEF ApplyReview, Instead, StartsRun
  <2>3. CASE Top.flow # "accept"
    <3> DEFINE g == [Top EXCEPT !.spent = TRUE]
               h == [RunFrame(Top, IF Top.flow = "cleanup" THEN CleanOps(Top) ELSE Top.ops,
                                   IF Top.flow = "sync" THEN "nobody" ELSE "review")
                          EXCEPT !.plan = Top.plan, !.kept = Top.kept, !.drawn = Top.drawn]
               r == [stack EXCEPT ![Depth] = g]
    <3>1. stack' = Append(r, h)
      BY <2>1, <2>3 DEF ApplyReview, AtTop
    <3>2. g.counting = Top.counting /\ g \in Frames
      BY <1>1 DEF Frames
    <3> HIDE DEF g, h
    <3>3. r \in Seq(Frames) /\ Len(r) = Depth /\ r[Depth] = g
      BY <1>1, <3>2
    <3> HIDE DEF r
    <3>4. r \in Seq(Frames \cup {h}) /\ Depth \in 1..Len(r)
      BY <1>1, <3>3
    <3>5. Append(r, h)[Depth] = r[Depth]
      BY <3>4
    <3> QED
      BY <3>1, <3>2, <3>3, <3>5 DEF StartsRun
  <2> QED
    BY <2>2, <2>3
<1>6. CASE Keep
  <2>1. PICK x : stack' = [stack EXCEPT ![Depth] = x]
    BY <1>6 DEF Keep, AtTop
  <2> QED
    BY <1>2, <2>1 DEF StartsRun
<1>7. CASE Rescan
  <2>1. PICK x : stack' = [stack EXCEPT ![Depth] = x]
    BY <1>7 DEF Rescan, AtTop
  <2> QED
    BY <1>2, <2>1 DEF StartsRun
<1>8. CASE Help
  <2>1. stack' = Append(stack, Frame("aside", "none", <<>>)) /\ Frame("aside", "none", <<>>).is # "run"
    BY <1>8, AsideFacts DEF Help, Over
  <2> QED
    BY <1>1, <2>1, NoRunOnTop
<1>9. CASE Escape
  <2>1. stack' = PopOf(stack)
    BY <1>1, <1>9 DEF Escape, IsTop
  <2>2. stack' = Front(stack)
    BY <2>1 DEF PopOf
  <2>3. Len(stack') = Depth - 1
    BY <1>1, <2>2 DEF Front
  <2> QED
    BY <1>1, <2>3 DEF StartsRun
<1> QED
  BY <1>3, <1>4, <1>5, <1>6, <1>7, <1>8, <1>9 DEF SoftKeys

LEMMA NoneByTask ==
  ASSUME SoftIInv, IsTop("review"), ~Top.flag, Top.counting, SoftTasks, stack' # stack
  PROVE  ~StartsRun
<1>1. Shape(stack) /\ RestType
  BY DEF SoftIInv, ShapeInv
<1>2. /\ stack \in Seq(Frames) /\ Depth \in Nat /\ Depth > 0 /\ Depth = Len(stack) /\ Top = stack[Depth]
      /\ Top \in Frames /\ Top.is = "review"
  BY <1>1, TopPlace DEF IsTop
<1>3. /\ \A i, x : Len([stack EXCEPT ![i] = x]) # Depth + 1
      /\ \A x : Len(Append(Front(stack), x)) # Depth + 1
  BY <1>1, SameLength
<1>4. CASE Read
  BY <1>4 DEF Read
<1>5. ASSUME \E i, x : stack' = [stack EXCEPT ![i] = x] PROVE ~StartsRun
  BY <1>3, <1>5 DEF StartsRun
<1>6. CASE Started
  <2>1. PICK i \in 1..Depth : stack[i].is = "starting" /\ (i # Depth => stack' = [stack EXCEPT ![i].st = "ready"])
    BY <1>6 DEF Started
  <2> QED
    BY <2>1, <1>2, <1>5
<1>7. CASE Resolve
  <2>1. PICK i \in 1..Depth : stack[i].is = "loading" /\ (i # Depth => \E x : stack' = [stack EXCEPT ![i] = x])
    <3>1. mode \in {"manual", "timer", "immediate"}
      BY <1>1 DEF RestType
    <3> QED
      BY <3>1, <1>7 DEF Resolve
  <2> QED
    BY <2>1, <1>2, <1>5
<1>8. CASE Lapse
  <2>1. PICK i \in 1..Depth : ~(stack[i].flag /\ i = Depth) => stack' = [stack EXCEPT ![i].counting = FALSE]
    BY <1>8 DEF Lapse
  <2> QED
    BY <2>1, <1>2, <1>5
<1>9. CASE Rescanned
  BY <1>9, <1>5 DEF Rescanned
<1>10. CASE Housekept
  <2>1. PICK i \in 1..Depth : stack[i].is = "run" /\ (i # Depth => \E x : stack' = [stack EXCEPT ![i] = x])
    BY <1>10 DEF Housekept
  <2> QED
    BY <2>1, <1>2, <1>5
<1>11. CASE Refused
  <2>3. PICK i \in 1..Depth : \E x : stack' = Append([stack EXCEPT ![i] = x], Modal(x))
    BY <1>11 DEF Refused
  <2>1. PICK x : stack' = Append([stack EXCEPT ![i] = x], Modal(x))
    BY <2>3
  <2>2. [stack EXCEPT ![i] = x] \in Seq(Frames \cup {x})
    BY <1>2
  <2> QED
    BY <2>1, <2>2, ModalIs, NoRunOnTop
<1>12. CASE Emerge
  <2>1. PICK i \in 1..Depth, code \in {0, 1} : EmergeAt(i, code)
    BY <1>12, EmergeSome
  <2> DEFINE f == Stepped(stack[i], code)
  <2>2. stack' = [stack EXCEPT ![i] = f] \/ Ended(i, f, Overall(f.codes))
    BY <2>1 DEF EmergeAt, Stepped
  <2>3. CASE Ended(i, f, Overall(f.codes))
    <3> DEFINE all == Overall(f.codes)
    <3> HIDE DEF f, all
    <3>1. PICK t : LET g == [f EXCEPT !.st = IF Uninstalled(f, all) THEN "check" ELSE "done", !.title = t]
                       s == OnDone(f, i, [stack EXCEPT ![i] = g])
                   IN  stack' = IF Uninstalled(f, all) THEN s ELSE Append(s, Modal(g))
      BY <2>3 DEF Ended, all
    <3> DEFINE g == [f EXCEPT !.st = IF Uninstalled(f, all) THEN "check" ELSE "done", !.title = t]
               r == [stack EXCEPT ![i] = g]
               s == OnDone(f, i, r)
    <3>2. stack' = s \/ stack' = Append(s, Modal(g))
      BY <3>1
    <3> HIDE DEF g
    <3>3. r \in Seq(Frames \cup {g}) /\ Len(r) = Depth
      BY <1>2
    <3> HIDE DEF r
    <3>4. \E S : s \in Seq(S) /\ Len(s) = Depth
      <4>1. PICK x : s = r \/ s = [r EXCEPT ![i - 1] = x]
        BY DEF OnDone
      <4>2. CASE s = r
        BY <4>2, <3>3
      <4>3. CASE s = [r EXCEPT ![i - 1] = x]
        <5> HIDE DEF s
        <5> DEFINE S == Frames \cup {g}
        <5>2. r \in Seq(S)
          BY <3>3
        <5> HIDE DEF S
        <5>3. [r EXCEPT ![i - 1] = x] \in Seq(S \cup {x}) /\ Len([r EXCEPT ![i - 1] = x]) = Len(r)
          BY <5>2, PutSeq
        <5>1. s \in Seq(S \cup {x}) /\ Len(s) = Len(r)
          BY <4>3, <5>3
        <5> QED
          BY <5>1, <3>3
      <4> QED
        BY <4>1, <4>2, <4>3
    <3>5. PICK S : s \in Seq(S) /\ Len(s) = Depth
      BY <3>4
    <3> HIDE DEF s
    <3>6. CASE stack' = s
      BY <3>5, <3>6, <1>2 DEF StartsRun
    <3>7. CASE stack' = Append(s, Modal(g))
      BY <3>5, <3>7, ModalIs, NoRunOnTop
    <3> QED
      BY <3>2, <3>6, <3>7
  <2> QED
    BY <2>2, <2>3, <1>5
<1> QED
  BY <1>4, <1>6, <1>7, <1>8, <1>9, <1>10, <1>11, <1>12 DEF SoftTasks

\* Behind one countdown there is at most one run, and none after the user
\* has stopped it.
THEOREM AskedOnce == SoftSpec => AskedOnly
<1>1. SoftInit => SoftIInv
  BY SoftStart
<1>2. SoftIInv /\ [SoftNext]_softVars => SoftIInv'
  BY SoftStep
<1>3. SoftIInv /\ [SoftNext]_softVars => [ByItself => ~Top.spent]_stack
  <2> SUFFICES ASSUME SoftIInv, [SoftNext]_softVars, stack' # stack, ByItself, Top.spent PROVE FALSE
    OBVIOUS
  <2>1. Shape(stack) /\ IsTop("review") /\ Top.counting /\ StartsRun /\ SoftNext
    BY DEF SoftIInv, ShapeInv, ByItself, StartsRun, softVars
  <2>2. ~Top.flag
    BY <2>1, TopPlace DEF Overtaken, IsTop
  <2> QED
    BY <2>1, <2>2, NoneByKey, NoneByTask DEF SoftNext
<1> QED
  BY <1>1, <1>2, <1>3, PTL DEF SoftSpec, AskedOnly

-----------------------------------------------------------------------------
(* World & Package Sets.                                                     *)

\* An edit that a commit carries is staged, or on the disk.
HeldIn(e, st, del) == IF e.gone THEN e.name \in del ELSE e.name \in DOMAIN st /\ st[e.name] = e.atoms
On(e, d) == IF e.gone THEN e.name \notin DOMAIN d ELSE e.name \in DOMAIN d /\ d[e.name] = e.atoms
Slots == 1..MaxCommits
EditShape(e) == /\ e = [name |-> e.name, atoms |-> e.atoms, gone |-> e.gone] /\ e.name \in SetNames
                /\ e.gone \in BOOLEAN /\ (e.gone => e.atoms = <<>>)
Unique(es) == \A d, e \in es : d.name = e.name => d = e
Shaped(c) == /\ c = [at |-> c.at, edits |-> c.edits, asked |-> c.asked, touched |-> c.touched, ok |-> c.ok]
             /\ (\A e \in c.edits : EditShape(e)) /\ Unique(c.edits)
ShapedAll(cs) == cs = [k \in Slots |-> cs[k]] /\ \A k \in Slots : Shaped(cs[k])
Carried(c, st, del, d) == \A e \in c.edits : e.name \in c.touched \/ HeldIn(e, st, del) \/ On(e, d)
Wrote(c, d) == \A e \in c.edits : e.name \in c.touched \/ On(e, d)
\* What a commit carries is staged or written as long as nobody has changed
\* it, and once its files are written it is on the disk.
Sound(c, st, del, d) == Carried(c, st, del, d) /\ (c.at = "deselect" /\ c.ok => Wrote(c, d))
SoundAll(cs, st, del, d) == \A k \in Slots : Sound(cs[k], st, del, d)
\* The slots not used yet are empty.
Unused == \A k \in Slots : k > setUsed.commits => commits[k].at = "none"
CountsOK == setUsed \in [edits : Nat, commits : Nat, faults : Nat]
DialogInv == dialog.kind = "add" => dialog.name \in SetNames
SetsIInv == SetsTypeOK /\ DialogInv /\ ShapedAll(commits) /\ SoundAll(commits, staged, deleted, disk) /\ CountsOK /\ Unused

\* An edit of one set.
OneChanged(n) ==
    /\ n \in SetNames /\ DOMAIN staged' \ {n} = DOMAIN staged \ {n} /\ deleted' \ {n} = deleted \ {n}
    /\ \A m \in DOMAIN staged \ {n} : staged'[m] = staged[m]
    /\ DOMAIN staged' \cap deleted' = {}
LEMMA WithFacts ==
  ASSUME NEW f, NEW n, NEW v
  PROVE  DOMAIN With(f, n, v) = DOMAIN f \cup {n} /\ \A m \in DOMAIN f \ {n} : With(f, n, v)[m] = f[m]
BY DEF With
LEMMA LessFacts ==
  \A f, n : DOMAIN Less(f, n) = DOMAIN f \ {n} /\ \A m \in DOMAIN f \ {n} : Less(f, n)[m] = f[m]
BY DEF Less
LEMMA SetAtomsChange ==
  ASSUME SetsTypeOK, NEW n \in SetNames, NEW atoms, SetAtoms(n, atoms) PROVE OneChanged(n)
<1>1. deleted' = deleted \ {n} /\ (staged' = Less(staged, n) \/ staged' = With(staged, n, atoms))
  BY DEF SetAtoms
<1>2. CASE staged' = Less(staged, n)
  BY <1>1, <1>2, LessFacts DEF OneChanged, SetsTypeOK
<1>3. CASE staged' = With(staged, n, atoms)
  <2>1. DOMAIN staged' = DOMAIN staged \cup {n} /\ \A m \in DOMAIN staged \ {n} : staged'[m] = staged[m]
    <3>1. DOMAIN With(staged, n, atoms) = DOMAIN staged \cup {n} /\ \A m \in DOMAIN staged \ {n} : With(staged, n, atoms)[m] = staged[m]
      BY WithFacts
    <3> QED
      BY <3>1, <1>3
  <2>2. DOMAIN staged' \cap deleted' = {}
    BY <1>1, <2>1 DEF SetsTypeOK
  <2>3. DOMAIN staged' \ {n} = DOMAIN staged \ {n} /\ deleted' \ {n} = deleted \ {n}
    BY <1>1, <2>1
  <2> QED
    BY <2>1, <2>2, <2>3 DEF OneChanged
<1> QED
  BY <1>1, <1>2, <1>3
LEMMA ToggleDeleteChange ==
  ASSUME SetsTypeOK, NEW n \in Names, ToggleDelete(n) PROVE OneChanged(n)
<1>1. n \in SetNames
  BY DEF SetsTypeOK
<1>2. n \in deleted \/ n \in DOMAIN base \/ IsNew(n)
  BY DEF Names, IsNew
<1>3. CASE n \in deleted
  <2>1. deleted' = deleted \ {n} /\ staged' = staged
    BY <1>3 DEF ToggleDelete
  <2> QED
    BY <2>1, <1>1 DEF OneChanged, SetsTypeOK
<1>4. CASE n \notin deleted /\ IsNew(n)
  <2>1. staged' = Less(staged, n) /\ deleted' = deleted
    BY <1>4 DEF ToggleDelete
  <2> QED
    BY <2>1, <1>1, LessFacts DEF OneChanged, SetsTypeOK
<1>5. CASE n \notin deleted /\ ~IsNew(n) /\ n \in DOMAIN base
  <2>1. staged' = Less(staged, n) /\ deleted' = deleted \cup {n}
    BY <1>5 DEF ToggleDelete
  <2> QED
    BY ZenonT(60), <2>1, <1>1, LessFacts DEF OneChanged, SetsTypeOK
<1> QED
  BY <1>2, <1>3, <1>4, <1>5

\* It marks the set as touched.
Touches(names) == commits' = Touch(commits, names)
LEMMA TouchFacts ==
  ASSUME NEW cs, ShapedAll(cs), NEW names
  PROVE  /\ ShapedAll(Touch(cs, names))
         /\ \A k \in Slots :
              /\ Touch(cs, names)[k].at = cs[k].at /\ Touch(cs, names)[k].edits = cs[k].edits
              /\ Touch(cs, names)[k].ok = cs[k].ok
              /\ Touch(cs, names)[k].touched = cs[k].touched \cup (names \cap Named(cs[k].edits))
<1> DEFINE t == Touch(cs, names)
           u(k) == [cs[k] EXCEPT !.touched = @ \cup (names \cap Named(cs[k].edits))]
<1>1. DOMAIN cs = Slots
  BY DEF ShapedAll
<1>2. t = [k \in Slots |-> u(k)]
  BY <1>1 DEF Touch
<1>3. ASSUME NEW k \in Slots
      PROVE  /\ Shaped(u(k)) /\ u(k).at = cs[k].at /\ u(k).edits = cs[k].edits /\ u(k).ok = cs[k].ok
             /\ u(k).touched = cs[k].touched \cup (names \cap Named(cs[k].edits))
  <2>1. Shaped(cs[k])
    BY DEF ShapedAll
  <2>2. PICK c : c = cs[k]
    OBVIOUS
  <2>3. PICK n : n = names \cap Named(c.edits)
    OBVIOUS
  <2>4. u(k) = [c EXCEPT !.touched = @ \cup n]
    BY <2>2, <2>3
  <2>5. u(k) = [at |-> c.at, edits |-> c.edits, asked |-> c.asked, touched |-> c.touched \cup n, ok |-> c.ok]
    BY <2>1, <2>2, <2>4 DEF Shaped
  <2> QED
    BY <2>1, <2>2, <2>3, <2>5 DEF Shaped
<1> HIDE DEF u
<1>4. \A k \in Slots : t[k] = u(k)
  BY <1>2
<1>5. t = [k \in Slots |-> t[k]]
  BY <1>2
<1> HIDE DEF t
<1>6. ShapedAll(t)
  BY <1>3, <1>4, <1>5 DEF ShapedAll
<1> QED
  BY <1>3, <1>4, <1>6 DEF t

\* A name in an edit of a set of edits.
LEMMA NamedFact == \A es : \A e \in es : e.name \in Named(es)
BY DEF Named

\* A change of some of the staged sets, which the commits are told of.
LEMMA TouchedSound ==
  ASSUME ShapedAll(commits), SoundAll(commits, staged, deleted, disk), NEW names, Touches(names), disk' = disk,
         \A e : EditShape(e) /\ HeldIn(e, staged, deleted) /\ e.name \notin names => HeldIn(e, staged', deleted')
  PROVE  /\ ShapedAll(commits') /\ SoundAll(commits', staged', deleted', disk')
         /\ \A k \in Slots : commits'[k].at = commits[k].at
<1>1. /\ ShapedAll(commits')
      /\ \A k \in Slots :
           /\ commits'[k].at = commits[k].at /\ commits'[k].edits = commits[k].edits
           /\ commits'[k].ok = commits[k].ok
           /\ commits'[k].touched = commits[k].touched \cup (names \cap Named(commits[k].edits))
  BY TouchFacts DEF Touches
<1>2. ASSUME NEW k \in Slots PROVE Sound(commits'[k], staged', deleted', disk')
  <2>1. Sound(commits[k], staged, deleted, disk) /\ Shaped(commits[k])
    BY DEF SoundAll, ShapedAll
  <2>2. Carried(commits'[k], staged', deleted', disk')
    BY <1>1, <2>1, NamedFact DEF Sound, Carried, Shaped
  <2>3. commits'[k].at = "deselect" /\ commits'[k].ok => Wrote(commits'[k], disk')
    BY <1>1, <2>1 DEF Sound, Wrote
  <2> QED
    BY <2>2, <2>3 DEF Sound
<1> QED
  BY <1>1, <1>2 DEF SoundAll

\* What a commit that ends has to show for its edits.
Shown(k) == commits[k].at # "none" /\ commits'[k].at = "none" =>
                \A e \in commits[k].edits : e.name \in commits[k].touched \/ HeldIn(e, staged', deleted') \/ On(e, disk')
AllShown == \A k \in Slots : Shown(k)

LEMMA CountsStep == ASSUME CountsOK, NEW what \in {"edits", "commits", "faults"}, Bump(what)
                    PROVE  CountsOK' /\ setUsed'.commits >= setUsed.commits
BY DEF CountsOK, Bump
LEMMA UnusedStep ==
  ASSUME CountsOK, CountsOK', Unused, setUsed'.commits >= setUsed.commits,
         \A k \in Slots : commits'[k].at = commits[k].at \/ commits'[k].at = "none"
  PROVE  Unused'
BY DEF Unused, CountsOK, Slots

LEMMA EditStep ==
  ASSUME SetsIInv, NEW n, OneChanged(n), Edited({n}), Unmoved, UNCHANGED marked,
         dialog' = dialog \/ dialog' = NoDialog
  PROVE  SetsIInv' /\ AllShown
<1>1. Touches({n}) /\ Bump("edits")
  BY DEF Edited, Touches
<1>2. UNCHANGED <<disk, world, listedWorld, base, setLoads>>
  BY DEF Unmoved
<1>3. SetsTypeOK'
  <2>1. DOMAIN staged' \subseteq DOMAIN staged \cup {n} /\ deleted' \subseteq deleted \cup {n}
    BY DEF OneChanged
  <2> QED
    BY <2>1, <1>2 DEF OneChanged, SetsIInv, SetsTypeOK, Names
<1>4. DialogInv'
  <2>1. NoDialog.kind # "add"
    BY DEF NoDialog
  <2> QED
    BY <2>1 DEF DialogInv, SetsIInv
<1>5. ASSUME NEW e, HeldIn(e, staged, deleted), e.name \notin {n} PROVE HeldIn(e, staged', deleted')
  BY <1>5 DEF HeldIn, OneChanged
<1>6. /\ ShapedAll(commits') /\ SoundAll(commits', staged', deleted', disk')
      /\ \A k \in Slots : commits'[k].at = commits[k].at
  BY <1>1, <1>2, <1>5, TouchedSound DEF SetsIInv
<1>7. CountsOK' /\ Unused'
  BY <1>1, <1>6, CountsStep, UnusedStep DEF SetsIInv
<1> QED
  BY <1>3, <1>4, <1>6, <1>7 DEF SetsIInv, Shown, AllShown

\* A step beside the staged sets and the files.
LEMMA BesideStep ==
  ASSUME SetsIInv, UNCHANGED <<disk, staged, deleted>>, UNCHANGED <<commits, setUsed>> \/ Edited({}),
         SetsTypeOK', DialogInv'
  PROVE  SetsIInv' /\ AllShown
<1>1. CASE UNCHANGED <<commits, setUsed>>
  BY <1>1 DEF SetsIInv, CountsOK, Unused, Shown, AllShown
<1>2. CASE Edited({})
  <2>1. Touches({}) /\ Bump("edits")
    BY <1>2 DEF Edited, Touches
  <2>2. /\ ShapedAll(commits') /\ SoundAll(commits', staged', deleted', disk')
        /\ \A k \in Slots : commits'[k].at = commits[k].at
    BY <2>1, TouchedSound DEF SetsIInv
  <2>3. CountsOK' /\ Unused'
    BY <2>1, <2>2, CountsStep, UnusedStep DEF SetsIInv
  <2> QED
    BY <2>2, <2>3 DEF SetsIInv, Shown, AllShown
<1> QED
  BY <1>1, <1>2

\* What a commit carries: one edit of each set that has one.
LEMMA EditsFacts ==
  ASSUME SetsTypeOK
  PROVE  /\ \A e \in Edits : EditShape(e) /\ HeldIn(e, staged, deleted)
         /\ Unique(Edits)
         /\ \A e : EditShape(e) /\ HeldIn(e, staged, deleted) => e \in Edits
<1> DEFINE A == {[name |-> n, atoms |-> staged[n], gone |-> FALSE] : n \in DOMAIN staged}
           B == {[name |-> n, atoms |-> <<>>, gone |-> TRUE] : n \in deleted}
<1>1. Edits = A \cup B
  BY DEF Edits
<1>2. \A e \in A : e.gone = FALSE /\ e.name \in DOMAIN staged /\ e.atoms = staged[e.name]
                   /\ e = [name |-> e.name, atoms |-> e.atoms, gone |-> e.gone]
  OBVIOUS
<1>3. \A e \in B : e.gone = TRUE /\ e.name \in deleted /\ e.atoms = <<>>
                   /\ e = [name |-> e.name, atoms |-> e.atoms, gone |-> e.gone]
  OBVIOUS
<1>4. ASSUME NEW e, EditShape(e), HeldIn(e, staged, deleted) PROVE e \in A \cup B
  <2>1. CASE e.gone
    <3>1. e = [name |-> e.name, atoms |-> <<>>, gone |-> TRUE] /\ e.name \in deleted
      BY <1>4, <2>1 DEF EditShape, HeldIn
    <3> QED
      BY <3>1
  <2>2. CASE ~e.gone
    <3>1. e = [name |-> e.name, atoms |-> staged[e.name], gone |-> FALSE] /\ e.name \in DOMAIN staged
      BY <1>4, <2>2 DEF EditShape, HeldIn
    <3> QED
      BY <3>1
  <2> QED
    BY <2>1, <2>2
<1> HIDE DEF A, B
<1>5. DOMAIN staged \subseteq SetNames /\ deleted \subseteq SetNames /\ DOMAIN staged \cap deleted = {}
  BY DEF SetsTypeOK, Names
<1>6. \A e \in Edits : EditShape(e) /\ HeldIn(e, staged, deleted)
  BY <1>1, <1>2, <1>3, <1>5 DEF HeldIn, EditShape
<1>7. ASSUME NEW d \in Edits, NEW e \in Edits, d.name = e.name PROVE d = e
  <2>1. d.atoms = e.atoms /\ d.gone = e.gone
    BY <1>1, <1>2, <1>3, <1>5, <1>7
  <2>2. d = [name |-> d.name, atoms |-> d.atoms, gone |-> d.gone] /\ e = [name |-> e.name, atoms |-> e.atoms, gone |-> e.gone]
    BY <1>1, <1>2, <1>3
  <2> QED
    BY <2>1, <2>2, <1>7
<1> QED
  BY <1>1, <1>4, <1>6, <1>7 DEF Unique

\* What writing them leaves.
LEMMA SavedFacts ==
  ASSUME NEW d, NEW es, \A a, b \in es : a.name = b.name => a = b
  PROVE  LET s == Saved(d, es)
         IN  /\ DOMAIN s \subseteq DOMAIN d \cup Named(es)
             /\ \A n : n \notin Named(es) => (n \in DOMAIN s <=> n \in DOMAIN d) /\ (n \in DOMAIN d => s[n] = d[n])
             /\ \A e \in es : IF e.gone THEN e.name \notin DOMAIN s ELSE e.name \in DOMAIN s /\ s[e.name] = e.atoms
<1> DEFINE s == Saved(d, es)
           N == Named(es)
           D == (DOMAIN d \cup N) \ Gone(es)
<1>1. DOMAIN s = D
  BY DEF Saved
<1>2. ASSUME NEW e \in es PROVE IF e.gone THEN e.name \notin DOMAIN s ELSE e.name \in DOMAIN s /\ s[e.name] = e.atoms
  <2>1. CASE e.gone
    <3>1. e.name \in Gone(es)
      BY <2>1 DEF Gone, Named
    <3> QED
      BY <2>1, <3>1, <1>1
  <2>2. CASE ~e.gone
    <3>1. e.name \notin Gone(es)
      BY <2>2 DEF Gone, Named
    <3>2. e.name \in D
      BY <3>1 DEF Named
    <3>3. (CHOOSE x \in es : x.name = e.name) = e
      OBVIOUS
    <3>4. s[e.name] = (CHOOSE x \in es : x.name = e.name).atoms
      BY <3>2 DEF Saved
    <3> QED
      BY <2>2, <3>2, <3>3, <3>4, <1>1
  <2> QED
    BY <2>1, <2>2
<1>3. ASSUME NEW n, n \notin N PROVE (n \in DOMAIN s <=> n \in DOMAIN d) /\ (n \in DOMAIN d => s[n] = d[n])
  <2>1. n \notin Gone(es) /\ ~\E e \in es : e.name = n
    BY <1>3 DEF Gone, Named
  <2>2. n \in D => s[n] = d[n]
    BY <2>1 DEF Saved
  <2> QED
    BY <1>1, <1>3, <2>1, <2>2
<1> QED
  BY <1>1, <1>2, <1>3

\* The other commits learn what one has written.
LEMMA Rewritten ==
  ASSUME ShapedAll(commits), SoundAll(commits, staged, deleted, disk), NEW k \in Slots, commits[k].at = "write",
         NEW some \in SUBSET commits[k].edits, NEW ok \in BOOLEAN, ok => some = commits[k].edits
  PROVE  LET cs == [Overwritten(some) EXCEPT ![k].ok = ok]
             d == Saved(disk, some)
         IN  /\ ShapedAll(cs) /\ SoundAll(cs, staged, deleted, d) /\ (cs[k].ok => Wrote(cs[k], d))
             /\ cs[k].touched = commits[k].touched
             /\ \A j \in Slots : cs[j].at = commits[j].at /\ cs[j].edits = commits[j].edits
<1> DEFINE cs == [Overwritten(some) EXCEPT ![k].ok = ok]
           d == Saved(disk, some)
           new(j) == Named(some \ commits[j].edits) \cap Named(commits[j].edits)
           good(j) == IF j = k THEN ok ELSE commits[j].ok
           u(j) == [at |-> commits[j].at, edits |-> commits[j].edits, asked |-> commits[j].asked,
                    touched |-> commits[j].touched \cup new(j), ok |-> good(j)]
<1>1. DOMAIN commits = Slots /\ \A j \in Slots : Shaped(commits[j])
  BY DEF ShapedAll
<1>2. cs = [j \in Slots |-> u(j)]
  <2> DEFINE w(j) == [commits[j] EXCEPT !.touched = @ \cup new(j)]
  <2>1. Overwritten(some) = [j \in Slots |-> w(j)]
    BY <1>1 DEF Overwritten
  <2>2. ASSUME NEW j \in Slots
        PROVE  w(j) = [at |-> commits[j].at, edits |-> commits[j].edits, asked |-> commits[j].asked,
                       touched |-> commits[j].touched \cup new(j), ok |-> commits[j].ok]
    <3>1. PICK c : c = commits[j]
      OBVIOUS
    <3>2. PICK n : n = new(j)
      OBVIOUS
    <3>3. c = [at |-> c.at, edits |-> c.edits, asked |-> c.asked, touched |-> c.touched, ok |-> c.ok]
      BY <1>1, <3>1 DEF Shaped
    <3>4. w(j) = [c EXCEPT !.touched = @ \cup n]
      BY <3>1, <3>2
    <3> QED
      BY <3>1, <3>2, <3>3, <3>4
  <2> HIDE DEF w, new
  <2>3. PICK o : o = Overwritten(some)
    OBVIOUS
  <2>4. o = [j \in Slots |-> w(j)]
    BY <2>1, <2>3
  <2>5. cs = [o EXCEPT ![k] = [o[k] EXCEPT !.ok = ok]]
    BY <2>3
  <2>6. o[k] = w(k) /\ \A j \in Slots : o[j] = w(j)
    BY <2>4
  <2>7. [o[k] EXCEPT !.ok = ok] = u(k)
    <3>1. PICK c : c = commits[k]
      OBVIOUS
    <3>2. PICK t : t = c.touched \cup new(k)
      OBVIOUS
    <3>3. o[k] = [at |-> c.at, edits |-> c.edits, asked |-> c.asked, touched |-> t, ok |-> c.ok]
      BY <2>2, <2>6, <3>1, <3>2
    <3>4. u(k) = [at |-> c.at, edits |-> c.edits, asked |-> c.asked, touched |-> t, ok |-> ok]
      BY <3>1, <3>2
    <3> HIDE DEF u
    <3> QED
      BY <3>3, <3>4
  <2>8. \A j \in Slots \ {k} : o[j] = u(j)
    BY <2>2, <2>6
  <2> HIDE DEF u
  <2>9. DOMAIN cs = Slots /\ cs[k] = u(k) /\ \A j \in Slots \ {k} : cs[j] = o[j]
    BY <2>4, <2>5, <2>7
  <2>10. cs = [j \in Slots |-> cs[j]]
    BY <2>4, <2>5
  <2> HIDE DEF cs
  <2>11. \A j \in Slots : cs[j] = u(j)
    BY <2>8, <2>9
  <2> QED
    BY <2>10, <2>11
<1>3. \A j \in Slots : /\ u(j).at = commits[j].at /\ u(j).edits = commits[j].edits /\ u(j).ok = good(j)
                       /\ u(j).touched = commits[j].touched \cup new(j)
                       /\ u(j) = [at |-> u(j).at, edits |-> u(j).edits, asked |-> u(j).asked, touched |-> u(j).touched, ok |-> u(j).ok]
  OBVIOUS
<1> HIDE DEF u
<1>4. \A j \in Slots : cs[j] = u(j)
  BY <1>2
<1>5. cs = [j \in Slots |-> cs[j]]
  BY <1>2
<1> HIDE DEF cs
<1>6. ShapedAll(cs)
  <2>1. ASSUME NEW j \in Slots PROVE Shaped(cs[j])
    <3>1. PICK c : c = cs[j]
      OBVIOUS
    <3>2. c = [at |-> c.at, edits |-> c.edits, asked |-> c.asked, touched |-> c.touched, ok |-> c.ok]
          /\ c.edits = commits[j].edits
      BY <1>3, <1>4, <3>1
    <3>3. Shaped(commits[j])
      BY <1>1
    <3> QED
      BY <3>1, <3>2, <3>3 DEF Shaped
  <2> QED
    BY <2>1, <1>5 DEF ShapedAll
<1>7. new(k) = {}
  BY DEF Named
<1>8. /\ \A n : n \notin Named(some) => (n \in DOMAIN d <=> n \in DOMAIN disk) /\ (n \in DOMAIN disk => d[n] = disk[n])
      /\ \A e \in some : On(e, d)
  <2>1. \A a, b \in some : a.name = b.name => a = b
    BY <1>1 DEF Shaped, Unique
  <2>2. /\ \A n : n \notin Named(some) => (n \in DOMAIN Saved(disk, some) <=> n \in DOMAIN disk) /\ (n \in DOMAIN disk => Saved(disk, some)[n] = disk[n])
        /\ \A e \in some : IF e.gone THEN e.name \notin DOMAIN Saved(disk, some)
                           ELSE e.name \in DOMAIN Saved(disk, some) /\ Saved(disk, some)[e.name] = e.atoms
    BY <2>1, SavedFacts
  <2> QED
    BY <2>2 DEF On
<1> HIDE DEF d
<1>9. ASSUME NEW j \in Slots, NEW e \in commits[j].edits, e.name \notin commits[j].touched \cup new(j), On(e, disk) \/ e \in some
      PROVE  On(e, d)
  <2>1. CASE e.name \in Named(some)
    <3>1. PICK x \in some : x.name = e.name
      BY <2>1 DEF Named
    <3>2. x \in commits[j].edits
      BY <1>9, <3>1 DEF Named
    <3>3. x = e
      BY <1>1, <3>1, <3>2 DEF Shaped, Unique
    <3> QED
      BY <3>3, <1>8
  <2>2. CASE e.name \notin Named(some)
    BY <2>2, <1>8, <1>9, NamedFact DEF On
  <2> QED
    BY <2>1, <2>2
<1>10. ASSUME NEW j \in Slots PROVE Carried(cs[j], staged, deleted, d)
  <2>1. Carried(commits[j], staged, deleted, disk)
    BY DEF SoundAll, Sound
  <2> SUFFICES ASSUME NEW e \in commits[j].edits, e.name \notin commits[j].touched \cup new(j)
               PROVE  HeldIn(e, staged, deleted) \/ On(e, d)
    BY <1>3, <1>4 DEF Carried
  <2>2. HeldIn(e, staged, deleted) \/ On(e, disk)
    BY <2>1 DEF Carried
  <2> QED
    BY <2>2, <1>9
<1>11. ok => Wrote(cs[k], d)
  BY <1>3, <1>4, <1>8 DEF Wrote
<1>12. ASSUME NEW j \in Slots, cs[j].at = "deselect", cs[j].ok PROVE Wrote(cs[j], d)
  <2>1. j # k /\ commits[j].at = "deselect" /\ commits[j].ok
    BY <1>3, <1>4, <1>12
  <2>2. Wrote(commits[j], disk)
    BY <2>1 DEF SoundAll, Sound
  <2> QED
    BY <2>2, <1>3, <1>4, <1>9 DEF Wrote
<1>13. SoundAll(cs, staged, deleted, d)
  BY <1>10, <1>12 DEF SoundAll, Sound
<1>14. /\ cs[k].touched = commits[k].touched /\ cs[k].ok = ok
       /\ \A j \in Slots : cs[j].at = commits[j].at /\ cs[j].edits = commits[j].edits
  BY <1>3, <1>4, <1>7
<1> QED
  BY <1>6, <1>11, <1>13, <1>14 DEF cs, d

\* The end of a commit, which clears what is staged: another commit that
\* carried some of it is told, unless this one has put it on the disk.
LEMMA FinishFacts ==
  ASSUME SetsTypeOK, NEW cs, NEW d, ShapedAll(cs), SoundAll(cs, staged, deleted, d), NEW k \in Slots,
         cs[k].ok => Wrote(cs[k], d), Finish(cs, k)
  PROVE  /\ ShapedAll(commits') /\ SoundAll(commits', staged', deleted', d)
         /\ \A e \in cs[k].edits : e.name \in cs[k].touched \/ HeldIn(e, staged', deleted') \/ On(e, d)
         /\ \A j \in Slots \ {k} : commits'[j].at = cs[j].at
         /\ commits'[k].at = "none"
<1> DEFINE names == IF cs[k].ok THEN Unanswered(cs[k]) ELSE {}
           t == Touch(cs, names)
<1>1. commits' = [t EXCEPT ![k] = NoCommit]
  BY DEF Finish
<1>2. /\ ShapedAll(t)
      /\ \A j \in Slots : t[j].at = cs[j].at /\ t[j].edits = cs[j].edits /\ t[j].ok = cs[j].ok
                          /\ t[j].touched = cs[j].touched \cup (names \cap Named(cs[j].edits))
  BY TouchFacts
<1>3. NoCommit.at = "none" /\ NoCommit.edits = {} /\ Shaped(NoCommit)
  BY DEF NoCommit, Shaped, Unique
<1> HIDE DEF t
<1>4. commits'[k] = NoCommit /\ (\A j \in Slots \ {k} : commits'[j] = t[j]) /\ commits' = [j \in Slots |-> commits'[j]]
  BY <1>1, <1>2 DEF ShapedAll
<1>5. ShapedAll(commits')
  BY <1>2, <1>3, <1>4 DEF ShapedAll
<1>6. ASSUME NEW j \in Slots, NEW e \in cs[j].edits, e.name \notin cs[j].touched \cup names, HeldIn(e, staged, deleted)
      PROVE  HeldIn(e, staged', deleted') \/ On(e, d)
  <2>1. CASE ~cs[k].ok
    BY <2>1, <1>6 DEF Finish
  <2>2. CASE cs[k].ok
    <3>1. EditShape(e)
      BY DEF ShapedAll, Shaped
    <3>2. e \in Edits
      BY <3>1, <1>6, EditsFacts
    <3>3. e \in cs[k].edits /\ e.name \notin cs[k].touched
      BY <3>2, <2>2, <1>6 DEF Unanswered, Named
    <3> QED
      BY <3>3, <2>2 DEF Wrote
  <2> QED
    BY <2>1, <2>2
<1>7. ASSUME NEW j \in Slots \ {k} PROVE Sound(t[j], staged', deleted', d)
  <2>1. Carried(cs[j], staged, deleted, d) /\ (cs[j].at = "deselect" /\ cs[j].ok => Wrote(cs[j], d))
    BY DEF SoundAll, Sound
  <2>2. Carried(t[j], staged', deleted', d)
    <3> SUFFICES ASSUME NEW e \in cs[j].edits, e.name \notin cs[j].touched \cup (names \cap Named(cs[j].edits))
                 PROVE  HeldIn(e, staged', deleted') \/ On(e, d)
      BY <1>2 DEF Carried
    <3>1. e.name \notin cs[j].touched \cup names
      BY NamedFact
    <3> QED
      BY <3>1, <2>1, <1>6 DEF Carried
  <2>3. t[j].at = "deselect" /\ t[j].ok => Wrote(t[j], d)
    BY <2>1, <1>2 DEF Wrote
  <2> QED
    BY <2>2, <2>3 DEF Sound
<1>8. Sound(commits'[k], staged', deleted', d)
  BY <1>3, <1>4 DEF Sound, Carried, Wrote
<1>9. SoundAll(commits', staged', deleted', d)
  BY <1>4, <1>7, <1>8 DEF SoundAll
<1>10. ASSUME NEW e \in cs[k].edits, e.name \notin cs[k].touched PROVE HeldIn(e, staged', deleted') \/ On(e, d)
  <2>1. CASE cs[k].ok
    BY <2>1, <1>10 DEF Wrote
  <2>2. CASE ~cs[k].ok
    <3>1. UNCHANGED <<staged, deleted>>
      BY <2>2 DEF Finish
    <3> QED
      BY <3>1, <1>10 DEF SoundAll, Sound, Carried
  <2> QED
    BY <2>1, <2>2
<1> QED
  BY <1>2, <1>3, <1>4, <1>5, <1>9, <1>10

\* What goes on after the files: the marks, or the end.
LEMMA GoOnFacts ==
  ASSUME SetsTypeOK, NEW cs, NEW d, ShapedAll(cs), SoundAll(cs, staged, deleted, d), NEW k \in Slots,
         cs[k].ok => Wrote(cs[k], d), GoOn(cs, k)
  PROVE  /\ ShapedAll(commits') /\ SoundAll(commits', staged', deleted', d)
         /\ \A e \in cs[k].edits : commits'[k].at = "none" =>
                e.name \in cs[k].touched \/ HeldIn(e, staged', deleted') \/ On(e, d)
         /\ \A j \in Slots \ {k} : commits'[j].at = cs[j].at
<1>1. CASE Finish(cs, k)
  BY <1>1, FinishFacts
<1>2. CASE commits' = [cs EXCEPT ![k].at = "deselect", ![k].asked = marked] /\ UNCHANGED <<staged, deleted>>
  <2>1. PICK c : c = cs[k]
    OBVIOUS
  <2>2. /\ c = [at |-> c.at, edits |-> c.edits, asked |-> c.asked, touched |-> c.touched, ok |-> c.ok]
        /\ (\A e \in c.edits : EditShape(e)) /\ Unique(c.edits)
    BY <2>1 DEF ShapedAll, Shaped
  <2> DEFINE n == [at |-> "deselect", edits |-> c.edits, asked |-> marked, touched |-> c.touched, ok |-> c.ok]
  <2>3. cs = [j \in Slots |-> cs[j]]
    BY DEF ShapedAll
  <2>4. commits' = [cs EXCEPT ![k] = n]
    <3>1. commits' = [cs EXCEPT ![k] = [[c EXCEPT !.at = "deselect"] EXCEPT !.asked = marked]]
      BY <1>2, <2>1, <2>3
    <3>2. [c EXCEPT !.at = "deselect"] =
              [at |-> "deselect", edits |-> c.edits, asked |-> c.asked, touched |-> c.touched, ok |-> c.ok]
      BY <2>2
    <3>3. [[at |-> "deselect", edits |-> c.edits, asked |-> c.asked, touched |-> c.touched, ok |-> c.ok]
              EXCEPT !.asked = marked] = n
      OBVIOUS
    <3> QED
      BY <3>1, <3>2, <3>3
  <2>5. n.at = "deselect" /\ n.edits = c.edits /\ n.touched = c.touched /\ n.ok = c.ok /\ n.asked = marked
        /\ n = [at |-> n.at, edits |-> n.edits, asked |-> n.asked, touched |-> n.touched, ok |-> n.ok]
    OBVIOUS
  <2> HIDE DEF n
  <2>6. commits'[k] = n /\ (\A j \in Slots \ {k} : commits'[j] = cs[j]) /\ commits' = [j \in Slots |-> commits'[j]]
    BY <2>3, <2>4
  <2>7. Shaped(n)
    BY <2>2, <2>5 DEF Shaped
  <2>8. ShapedAll(commits')
    BY <2>6, <2>7 DEF ShapedAll
  <2>9. Sound(n, staged', deleted', d)
    <3>1. Carried(c, staged, deleted, d) /\ (c.ok => Wrote(c, d))
      BY <2>1 DEF SoundAll, Sound
    <3> QED
      BY <3>1, <2>5, <1>2 DEF Sound, Carried, Wrote
  <2>10. ASSUME NEW j \in Slots \ {k} PROVE Sound(commits'[j], staged', deleted', d)
    <3>1. Sound(cs[j], staged, deleted, d)
      BY DEF SoundAll
    <3> QED
      BY <3>1, <2>6, <1>2
  <2>11. SoundAll(commits', staged', deleted', d)
    BY <2>6, <2>9, <2>10 DEF SoundAll
  <2> QED
    BY <2>5, <2>6, <2>8, <2>11
<1> QED
  BY <1>1, <1>2 DEF GoOn

\* What a commit leaves of the types.
LEMMA LeftOK ==
  ASSUME SetsTypeOK, NEW cs, NEW k, Finish(cs, k) \/ GoOn(cs, k),
         UNCHANGED <<listedWorld, base>>, world' \subseteq world, DOMAIN disk' \subseteq SetNames
  PROVE  SetsTypeOK'
<1>1. DOMAIN NoSets = {}
  BY DEF NoSets
<1>2. /\ (staged' = NoSets /\ deleted' = {} /\ marked' = {}) \/ UNCHANGED <<staged, deleted, marked>> \/ (staged' = staged /\ deleted' = deleted /\ marked' = marked)
      /\ setLoads' = setLoads \/ setLoads' = setLoads + 1
  BY DEF Finish, GoOn
<1> QED
  BY <1>1, <1>2 DEF SetsTypeOK, Names

LEMMA SetsStart == ASSUME SetsInit PROVE SetsIInv
<1>1. DOMAIN disk \subseteq SetNames
  BY DEF SetsInit
<1>2. DOMAIN NoSets = {}
  BY DEF NoSets
<1>3. SetsTypeOK
  BY <1>1, <1>2 DEF SetsInit, SetsTypeOK, Names
<1>4. DialogInv
  BY DEF SetsInit, DialogInv, NoDialog
<1>5. CountsOK
  BY DEF SetsInit, CountsOK
<1>6. NoCommit.at = "none" /\ NoCommit.edits = {} /\ Shaped(NoCommit)
  BY DEF NoCommit, Shaped, Unique
<1>7. commits = [k \in Slots |-> NoCommit]
  BY DEF SetsInit, Slots
<1>8. ShapedAll(commits) /\ SoundAll(commits, staged, deleted, disk) /\ Unused
  BY <1>6, <1>7 DEF ShapedAll, SoundAll, Sound, Carried, Wrote, Unused
<1> QED
  BY <1>3, <1>4, <1>5, <1>8 DEF SetsIInv

LEMMA WriteSetsStep == ASSUME SetsIInv, WriteSets PROVE SetsIInv' /\ AllShown
<1>1. DOMAIN commits = Slots
  BY DEF SetsIInv, ShapedAll
<1> DEFINE Does(k, some, ok) ==
        /\ commits[k].at = "write"
        /\ IF ok THEN some = commits[k].edits /\ UNCHANGED setUsed ELSE Fails
        /\ disk' = Saved(disk, some)
        /\ GoOn([Overwritten(some) EXCEPT ![k].ok = ok], k)
        /\ UNCHANGED <<world, listedWorld, base, dialog>>
<1>a. PICK k \in Slots : \E some \in SUBSET commits[k].edits, ok \in BOOLEAN : Does(k, some, ok)
  BY <1>1 DEF WriteSets
<1>2. PICK some \in SUBSET commits[k].edits, ok \in BOOLEAN : Does(k, some, ok)
  BY <1>a
<1> DEFINE cs == [Overwritten(some) EXCEPT ![k].ok = ok]
<1>3. ok => some = commits[k].edits
  BY <1>2
<1>4. /\ ShapedAll(cs) /\ SoundAll(cs, staged, deleted, disk') /\ (cs[k].ok => Wrote(cs[k], disk'))
      /\ cs[k].touched = commits[k].touched
      /\ \A j \in Slots : cs[j].at = commits[j].at /\ cs[j].edits = commits[j].edits
  BY <1>2, <1>3, Rewritten DEF SetsIInv
<1> HIDE DEF cs
<1>5. GoOn(cs, k)
  BY <1>2 DEF cs
<1>6. /\ ShapedAll(commits') /\ SoundAll(commits', staged', deleted', disk')
      /\ \A e \in cs[k].edits : commits'[k].at = "none" =>
             e.name \in cs[k].touched \/ HeldIn(e, staged', deleted') \/ On(e, disk')
      /\ \A j \in Slots \ {k} : commits'[j].at = cs[j].at
  BY <1>4, <1>5, GoOnFacts DEF SetsIInv
<1>7. AllShown
  BY <1>4, <1>6 DEF Shown, AllShown
<1>8. DOMAIN disk' \subseteq SetNames
  <2>1. Shaped(commits[k])
    BY DEF SetsIInv, ShapedAll
  <2>2. DOMAIN Saved(disk, some) \subseteq DOMAIN disk \cup Named(some)
    <3>1. \A a, b \in some : a.name = b.name => a = b
      BY <2>1 DEF Shaped, Unique
    <3> QED
      BY <3>1, SavedFacts
  <2>3. Named(some) \subseteq SetNames
    BY <2>1 DEF Named, Shaped, EditShape
  <2> QED
    BY <1>2, <2>2, <2>3 DEF SetsIInv, SetsTypeOK
<1>9. SetsTypeOK' /\ DialogInv'
  BY <1>2, <1>5, <1>8, LeftOK DEF SetsIInv, DialogInv
<1>10. CountsOK' /\ Unused'
  <2>1. CountsOK' /\ setUsed'.commits >= setUsed.commits
    <3>1. CASE UNCHANGED setUsed
      BY <3>1 DEF SetsIInv, CountsOK
    <3>2. CASE Bump("faults")
      BY <3>2, CountsStep DEF SetsIInv
    <3> QED
      BY <1>2, <3>1, <3>2 DEF Fails
  <2>2. ~(k > setUsed.commits)
    BY <1>2 DEF SetsIInv, Unused
  <2>3. \A j \in Slots : j > setUsed'.commits => commits'[j].at = "none"
    BY <1>4, <1>6, <2>1, <2>2 DEF SetsIInv, Unused, CountsOK, Slots
  <2> QED
    BY <2>1, <2>3 DEF Unused
<1> QED
  BY <1>6, <1>7, <1>9, <1>10 DEF SetsIInv

LEMMA DeselectStep == ASSUME SetsIInv, Deselect PROVE SetsIInv' /\ AllShown
<1>1. DOMAIN commits = Slots
  BY DEF SetsIInv, ShapedAll
<1>2. PICK k \in Slots, ok \in BOOLEAN :
        /\ commits[k].at = "deselect"
        /\ IF ok THEN UNCHANGED setUsed ELSE Fails
        /\ world' = IF ok THEN world \ commits[k].asked ELSE world
        /\ Finish([commits EXCEPT ![k].ok = @ /\ ok], k)
        /\ UNCHANGED <<disk, listedWorld, base, dialog>>
  BY <1>1 DEF Deselect
<1>3. PICK c : c = commits[k]
  OBVIOUS
<1>4. /\ c = [at |-> c.at, edits |-> c.edits, asked |-> c.asked, touched |-> c.touched, ok |-> c.ok]
      /\ (\A e \in c.edits : EditShape(e)) /\ Unique(c.edits)
  BY <1>3 DEF SetsIInv, ShapedAll, Shaped
<1>5. PICK good : good = (c.ok /\ ok)
  OBVIOUS
<1> DEFINE n == [at |-> c.at, edits |-> c.edits, asked |-> c.asked, touched |-> c.touched, ok |-> good]
           cs == [commits EXCEPT ![k] = n]
<1>6. Finish(cs, k)
  <2>1. [commits EXCEPT ![k].ok = @ /\ ok] = [commits EXCEPT ![k] = [c EXCEPT !.ok = good]]
    BY <1>1, <1>3, <1>5
  <2>2. [c EXCEPT !.ok = good] = n
    BY <1>4
  <2> QED
    BY <1>2, <2>1, <2>2
<1>7. /\ n.at = c.at /\ n.edits = c.edits /\ n.touched = c.touched /\ n.ok = good
      /\ n = [at |-> n.at, edits |-> n.edits, asked |-> n.asked, touched |-> n.touched, ok |-> n.ok]
  OBVIOUS
<1> HIDE DEF n
<1>8. cs[k] = n /\ (\A j \in Slots \ {k} : cs[j] = commits[j]) /\ cs = [j \in Slots |-> cs[j]]
  BY <1>1 DEF SetsIInv, ShapedAll
<1> HIDE DEF cs
<1>9. ShapedAll(cs)
  BY <1>4, <1>7, <1>8 DEF SetsIInv, ShapedAll, Shaped
<1>10. Carried(c, staged, deleted, disk) /\ (c.ok => Wrote(c, disk))
  BY <1>2, <1>3 DEF SetsIInv, SoundAll, Sound
<1>11. good => c.ok
  BY <1>5
<1>12. Sound(n, staged, deleted, disk) /\ (n.ok => Wrote(n, disk))
  BY <1>7, <1>10, <1>11 DEF Sound, Carried, Wrote
<1>13. SoundAll(cs, staged, deleted, disk)
  BY <1>8, <1>12 DEF SetsIInv, SoundAll
<1>14. /\ ShapedAll(commits') /\ SoundAll(commits', staged', deleted', disk)
       /\ \A e \in n.edits : e.name \in n.touched \/ HeldIn(e, staged', deleted') \/ On(e, disk)
       /\ \A j \in Slots \ {k} : commits'[j].at = commits[j].at
       /\ commits'[k].at = "none"
  BY <1>6, <1>8, <1>9, <1>12, <1>13, FinishFacts DEF SetsIInv
<1>15. AllShown
  BY <1>2, <1>3, <1>7, <1>14 DEF Shown, AllShown
<1>16. SetsTypeOK' /\ DialogInv'
  <2>1. world' \subseteq world /\ DOMAIN disk' \subseteq SetNames
    BY <1>2 DEF SetsIInv, SetsTypeOK
  <2> QED
    BY <1>2, <1>6, <2>1, LeftOK DEF SetsIInv, DialogInv
<1>17. CountsOK' /\ Unused'
  <2>1. CountsOK' /\ setUsed'.commits >= setUsed.commits
    <3>1. CASE UNCHANGED setUsed
      BY <3>1 DEF SetsIInv, CountsOK
    <3>2. CASE Bump("faults")
      BY <3>2, CountsStep DEF SetsIInv
    <3> QED
      BY <1>2, <3>1, <3>2 DEF Fails
  <2> QED
    BY <2>1, <1>14, UnusedStep DEF SetsIInv
<1>18. disk' = disk
  BY <1>2
<1> QED
  BY <1>14, <1>15, <1>16, <1>17, <1>18 DEF SetsIInv

LEMMA ConfirmStep == ASSUME SetsIInv, Confirm PROVE SetsIInv' /\ AllShown
<1>1. PICK k \in Slots :
        /\ dialog' = NoDialog /\ k = setUsed.commits + 1 /\ Bump("commits")
        /\ \/ Edits # {} /\ commits' = Begun(k) /\ UNCHANGED <<staged, deleted, marked, setLoads>>
           \/ Edits = {} /\ GoOn(Begun(k), k)
        /\ UNCHANGED <<disk, world, listedWorld, base>>
  BY DEF Confirm, Slots
<1> DEFINE cs == Begun(k)
           n == [NoCommit EXCEPT !.at = "write", !.edits = Edits]
<1>2. /\ n.at = "write" /\ n.edits = Edits /\ n.touched = {} /\ n.ok = TRUE
      /\ n = [at |-> n.at, edits |-> n.edits, asked |-> n.asked, touched |-> n.touched, ok |-> n.ok]
  <2>1. PICK E : E = Edits
    OBVIOUS
  <2>2. PICK c : c = NoCommit
    OBVIOUS
  <2>3. /\ c = [at |-> c.at, edits |-> c.edits, asked |-> c.asked, touched |-> c.touched, ok |-> c.ok]
        /\ c.touched = {} /\ c.ok = TRUE
    BY <2>2 DEF NoCommit
  <2>4. n = [at |-> "write", edits |-> E, asked |-> c.asked, touched |-> c.touched, ok |-> c.ok]
    <3>1. PICK b : b = [c EXCEPT !.at = "write"]
      OBVIOUS
    <3>2. b = [at |-> "write", edits |-> c.edits, asked |-> c.asked, touched |-> c.touched, ok |-> c.ok]
      BY <3>1, <2>3
    <3>3. n = [b EXCEPT !.edits = E]
      BY <3>1, <2>1, <2>2
    <3> QED
      BY <3>2, <3>3
  <2> HIDE DEF n
  <2> QED
    BY <2>1, <2>3, <2>4
<1>3. cs = [commits EXCEPT ![k] = n]
  BY DEF Begun
<1> HIDE DEF n, cs
<1>4. cs[k] = n /\ (\A j \in Slots \ {k} : cs[j] = commits[j]) /\ cs = [j \in Slots |-> cs[j]]
  BY <1>3 DEF SetsIInv, ShapedAll
<1>5. /\ \A e \in Edits : EditShape(e) /\ HeldIn(e, staged, deleted)
      /\ Unique(Edits)
  BY EditsFacts DEF SetsIInv
<1>6. ShapedAll(cs)
  BY <1>2, <1>4, <1>5 DEF SetsIInv, ShapedAll, Shaped
<1>7. Sound(n, staged, deleted, disk)
  BY <1>2, <1>5 DEF Sound, Carried
<1>8. SoundAll(cs, staged, deleted, disk)
  BY <1>4, <1>7 DEF SetsIInv, SoundAll
<1>9. commits[k].at = "none"
  BY <1>1 DEF SetsIInv, Unused, CountsOK, Slots
<1>10. CountsOK' /\ setUsed'.commits = setUsed.commits + 1
  BY <1>1 DEF SetsIInv, CountsOK, Bump
<1>11. /\ ShapedAll(commits') /\ SoundAll(commits', staged', deleted', disk')
       /\ \A j \in Slots \ {k} : commits'[j].at = commits[j].at
  <2>1. CASE Edits # {} /\ commits' = cs /\ UNCHANGED <<staged, deleted>>
    BY <1>1, <1>4, <1>6, <1>8, <2>1
  <2>2. CASE Edits = {} /\ GoOn(cs, k)
    <3>1. cs[k].ok => Wrote(cs[k], disk)
      BY <2>2, <1>2, <1>4 DEF Wrote
    <3>2. /\ ShapedAll(commits') /\ SoundAll(commits', staged', deleted', disk)
          /\ \A j \in Slots \ {k} : commits'[j].at = cs[j].at
      BY <2>2, <3>1, <1>6, <1>8, GoOnFacts DEF SetsIInv
    <3> QED
      BY <1>1, <1>4, <3>2
  <2> QED
    BY <1>1, <2>1, <2>2 DEF cs
<1>12. Unused'
  BY <1>1, <1>10, <1>11 DEF SetsIInv, Unused, CountsOK, Slots
<1>13. AllShown
  BY <1>9, <1>11 DEF Shown, AllShown
<1>14. SetsTypeOK'
  <2>1. CASE UNCHANGED <<staged, deleted, marked, setLoads>>
    BY <1>1, <2>1 DEF SetsIInv, SetsTypeOK, Names
  <2>2. CASE GoOn(Begun(k), k)
    <3>1. world' \subseteq world /\ DOMAIN disk' \subseteq SetNames
      BY <1>1 DEF SetsIInv, SetsTypeOK
    <3> QED
      BY <1>1, <2>2, <3>1, LeftOK DEF SetsIInv
  <2> QED
    BY <1>1, <2>1, <2>2
<1>15. DialogInv'
  BY <1>1 DEF DialogInv, NoDialog
<1> QED
  BY <1>10, <1>11, <1>12, <1>13, <1>14, <1>15 DEF SetsIInv

LEMMA ReloadStep == ASSUME SetsIInv, ReloadSets PROVE SetsIInv' /\ AllShown
<1>1. /\ Touches(Names) /\ Bump("edits") /\ staged' = NoSets /\ deleted' = {} /\ setLoads' = setLoads + 1
      /\ UNCHANGED <<disk, world, listedWorld, base, marked, dialog>>
  BY DEF ReloadSets, Edited, Touches
<1>2. \A e : HeldIn(e, staged, deleted) => e.name \in Names
  BY DEF HeldIn, Names
<1>3. /\ ShapedAll(commits') /\ SoundAll(commits', staged', deleted', disk')
      /\ \A k \in Slots : commits'[k].at = commits[k].at
  BY <1>1, <1>2, TouchedSound DEF SetsIInv
<1>4. DOMAIN NoSets = {}
  BY DEF NoSets
<1>5. SetsTypeOK' /\ DialogInv'
  BY <1>1, <1>4 DEF SetsIInv, SetsTypeOK, Names, DialogInv
<1>6. CountsOK' /\ Unused'
  BY <1>1, <1>3, CountsStep, UnusedStep DEF SetsIInv
<1> QED
  BY <1>3, <1>5, <1>6 DEF SetsIInv, Shown, AllShown

LEMMA SetsStep == ASSUME SetsIInv, [SetsNext]_setVars PROVE SetsIInv' /\ AllShown
<1>1. SetsTypeOK /\ DialogInv
  BY DEF SetsIInv
<1>2. CASE LoadSets
  <2>1. /\ setLoads > 0 /\ setLoads' = setLoads - 1 /\ listedWorld' \in {world, listedWorld}
        /\ base' = disk /\ marked' \subseteq marked
        /\ UNCHANGED <<disk, world, staged, deleted, dialog, commits, setUsed>>
    BY <1>2 DEF LoadSets
  <2>2. SetsTypeOK' /\ DialogInv'
    BY <1>1, <2>1 DEF SetsTypeOK, Names, DialogInv
  <2> QED
    BY <2>1, <2>2, BesideStep
<1>3. CASE ToggleMark \/ MarkAll
  <2>1. Edited({}) /\ Unmoved /\ UNCHANGED <<staged, deleted, dialog>> /\ marked' \subseteq marked \cup listedWorld
    BY <1>3 DEF ToggleMark, MarkAll
  <2>2. SetsTypeOK' /\ DialogInv'
    BY <1>1, <2>1 DEF SetsTypeOK, Names, DialogInv, Unmoved
  <2> QED
    BY <2>1, <2>2, BesideStep DEF Unmoved
<1>4. CASE ToggleAtom
  <2>1. PICK n \in Names : Edited({n}) /\ Unmoved /\ UNCHANGED <<marked, dialog>> /\ \E atoms : SetAtoms(n, atoms)
    BY <1>4 DEF ToggleAtom
  <2>2. PICK atoms : SetAtoms(n, atoms)
    BY <2>1
  <2>3. n \in SetNames
    BY <1>1, <2>1 DEF SetsTypeOK
  <2>4. OneChanged(n)
    BY <1>1, <2>2, <2>3, SetAtomsChange
  <2> QED
    BY <2>1, <2>4, EditStep
<1>5. CASE DeleteSet
  <2>1. PICK n \in Names : Edited({n}) /\ Unmoved /\ UNCHANGED <<marked, dialog>> /\ ToggleDelete(n)
    BY <1>5 DEF DeleteSet
  <2>2. OneChanged(n)
    BY <1>1, <2>1, ToggleDeleteChange
  <2> QED
    BY <2>1, <2>2, EditStep
<1>6. CASE AskName \/ AskAtom \/ Dismiss \/ AskCommit
  <2>1. UNCHANGED <<disk, world, listedWorld, base, staged, deleted, marked, setLoads, commits, setUsed>>
    BY <1>6 DEF AskName, AskAtom, Dismiss, AskCommit
  <2>2. DialogInv'
    <3>1. Names \subseteq SetNames
      BY <1>1 DEF SetsTypeOK
    <3>2. CASE AskName
      BY <3>2 DEF AskName, DialogInv, NoDialog
    <3>3. CASE AskAtom
      BY <3>1, <3>3 DEF AskAtom, DialogInv
    <3>4. CASE Dismiss
      BY <3>4 DEF Dismiss, DialogInv, NoDialog
    <3>5. CASE AskCommit
      BY <3>5 DEF AskCommit, DialogInv, NoDialog
    <3> QED
      BY <1>6, <3>2, <3>3, <3>4, <3>5
  <2>3. SetsTypeOK'
    BY <1>1, <2>1 DEF SetsTypeOK, Names
  <2> QED
    BY <2>1, <2>2, <2>3, BesideStep
<1>7. CASE Create
  <2>1. PICK n \in SetNames : Edited({n}) /\ Unmoved /\ UNCHANGED marked /\ dialog' = NoDialog /\ SetAtoms(n, <<>>)
    BY <1>7 DEF Create
  <2>2. OneChanged(n)
    BY <1>1, <2>1, SetAtomsChange
  <2> QED
    BY <2>1, <2>2, EditStep
<1>8. CASE AddAtom
  <2>1. PICK a : /\ dialog.kind = "add" /\ Edited({dialog.name}) /\ Unmoved /\ UNCHANGED marked /\ dialog' = NoDialog
                 /\ SetAtoms(dialog.name, Append(dialog.working, a))
    BY <1>8 DEF AddAtom
  <2> DEFINE n == dialog.name
  <2>2. n \in SetNames
    BY <1>1, <2>1 DEF DialogInv
  <2>3. OneChanged(n)
    BY <1>1, <2>1, <2>2, SetAtomsChange
  <2> QED
    BY <2>1, <2>3, EditStep
<1>9. CASE UNCHANGED setVars
  <2>1. UNCHANGED <<disk, world, listedWorld, base, staged, deleted, marked, dialog, setLoads, commits, setUsed>>
    BY <1>9 DEF setVars
  <2>2. SetsTypeOK' /\ DialogInv'
    BY <1>1, <2>1 DEF SetsTypeOK, Names, DialogInv
  <2> QED
    BY <2>1, <2>2, BesideStep
<1> QED
  BY <1>2, <1>3, <1>4, <1>5, <1>6, <1>7, <1>8, <1>9, ReloadStep, ConfirmStep, WriteSetsStep, DeselectStep DEF SetsNext

\* The end of a commit: every edit it carried is on the disk or still staged,
\* or a key or another commit has changed that set since.
THEOREM CommitsKept == SetsSpec => CommitKeeps
<1>1. SetsInit => SetsIInv
  BY SetsStart
<1>2. SetsIInv /\ [SetsNext]_setVars => SetsIInv'
  BY SetsStep
<1> DEFINE Kept == \A k \in DOMAIN commits : commits[k].at # "none" /\ commits'[k].at = "none" =>
                     \A e \in commits[k].edits : e.name \in commits[k].touched \/ InForce(e) \/ StillStaged(e)
<1>3. SetsIInv /\ [SetsNext]_setVars => [Kept]_setVars
  <2> SUFFICES ASSUME SetsIInv, SetsNext PROVE Kept
    OBVIOUS
  <2>1. DOMAIN commits = Slots /\ AllShown
    BY SetsStep DEF SetsIInv, ShapedAll
  <2> QED
    BY <2>1 DEF AllShown, Shown, HeldIn, On, InForce, StillStaged
<1> QED
  BY <1>1, <1>2, <1>3, PTL DEF SetsSpec, CommitKeeps

\* Package management and the package sets, side by side: both keep their
\* types, and no run says it is completed that is not.
THEOREM PackagesHold == SoftSpec /\ SetsSpec => []PackagesInv
<1>1. SetsInit => SetsIInv
  BY SetsStart
<1>2. SetsIInv /\ [SetsNext]_setVars => SetsIInv'
  BY SetsStep
<1>3. SetsIInv /\ SoftInv => PackagesInv
  BY DEF SetsIInv, PackagesInv
<1> QED
  BY <1>1, <1>2, <1>3, CompletedTrue, PTL DEF SetsSpec

====
