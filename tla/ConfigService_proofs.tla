------------------------ MODULE ConfigService_proofs ------------------------
(***************************************************************************)
(* Proofs about ConfigService, for every table of methods that has the      *)
(* shape the code's methods have (the assumptions of ConfigService) and any  *)
(* number of calls: a refused call has changed nothing, a call for a target  *)
(* root stays under it, a vetted file holds only what its checker accepted,  *)
(* and an answer of True is true.                                            *)
(***************************************************************************)
EXTENDS ConfigService, TLAPS

Dom(m) == 1..Len(m.steps)
\* StepNow i of a call is left out, and where it acts.
Skips(m, root, i) == m.steps[i].live /\ m.root /\ root # "/"
Place(m, root, i) == IF m.steps[i].op = "run" \/ ~ m.root THEN "/" ELSE root
\* What step i of the call that is being handled leaves behind.
Trace(i) == <<Place(call.m, call.root, i), call.m.steps[i].obj, calls>>
\* The steps behind the handler.
Behind == {i \in Dom(call.m) : i < pc}

\* A backend handles one numbered call, or none; the call that ended last has
\* the number before it.
Shape ==
    /\ up \in BOOLEAN /\ okAll \in BOOLEAN /\ killed \in BOOLEAN
    /\ calls \in 0..MaxCalls /\ pc \in Nat
    /\ last.n \in Nat /\ last.answer \in Answers
    /\ call.root \in CallRoots
    /\ \/ call = NoCall /\ pc = 0 /\ last.n = calls
       \/ call.m \in Methods /\ pc <= Len(call.m.steps) + 1 /\ last.n < calls

\* What lies about was left by a call made so far.
Dated ==
    \A e \in eff \cup temps \cup passed :
        e[3] \in Nat /\ e[3] <= calls /\ e = <<e[1], e[2], e[3]>>

\* What the current call has left, a step behind it left.
Traced ==
    ~ Idle =>
        /\ \A e \in eff : e[3] = calls =>
             \E i \in Behind : call.m.steps[i].op \in Changing /\ e = Trace(i)
        /\ \A t \in temps : t[3] = calls =>
             \E i \in Behind : call.m.steps[i].op \in Temporary /\ t = Trace(i)
        /\ \A p \in passed : p[3] = calls =>
             \E i \in Behind : call.m.steps[i].op = "check" /\ p = Trace(i)

\* Every check behind the handler that stops a call has accepted.
ChecksMade ==
    ~ Idle => \A i \in Behind :
        (/\ call.m.steps[i].op = "check" /\ call.m.steps[i].fail = "stop"
         /\ ~ Skips(call.m, call.root, i)) => Trace(i) \in passed

\* Every change behind the handler that counts has been made.
ChangesMade ==
    ~ Idle => \A i \in Behind :
        (/\ call.m.steps[i].op \in Changing
         /\ \/ call.m.steps[i].fail = "stop"
            \/ call.m.steps[i].fail = "goon" /\ okAll
         /\ ~ Skips(call.m, call.root, i)) => Trace(i) \in eff

\* A staged file that was accepted is about to be put into place.
Waiting ==
    ~ killed => \A t \in temps \cap passed :
        /\ ~ Idle /\ t[3] = calls /\ pc \in Dom(call.m)
        /\ call.m.steps[pc].op = "place" /\ call.m.steps[pc].obj = t[2]
        /\ ~ Skips(call.m, call.root, pc)

\* How far the call that ended last has come.
LastPrefix == (Idle /\ last.n > 0) => PrefixDone(last.m, last.root, last.n)

Inv ==
    /\ Shape /\ Dated /\ Traced /\ ChecksMade /\ ChangesMade /\ Waiting
    /\ RefusedUntouched /\ TargetConfined /\ VettedOnly /\ OkMeansDone /\ LastPrefix

-----------------------------------------------------------------------------
\* What a method of the table is.
LEMMA MethodFacts ==
    ASSUME NEW m \in Methods
    PROVE  /\ m # NoMethod
           /\ Len(m.steps) \in Nat
           /\ \A i \in Dom(m) :
                /\ m.steps[i].op \in Ops /\ m.steps[i].live \in BOOLEAN
                /\ m.steps[i].fail \in {"stop", "goon", "ignore", "suppress"}
<1>1. m.name # "none"
  BY MethodShape
<1>2. m # NoMethod
  BY <1>1 DEF NoMethod
<1> DEFINE S == [op : Ops, obj : STRING, live : BOOLEAN,
                 fail : {"stop", "goon", "ignore", "suppress"}, own : BOOLEAN]
<1>3. m.steps \in Seq(S)
  BY MethodShape
<1>4. \A s \in S : /\ s.op \in Ops /\ s.live \in BOOLEAN
                   /\ s.fail \in {"stop", "goon", "ignore", "suppress"}
  OBVIOUS
<1> HIDE DEF S
<1>5. Len(m.steps) \in Nat
  BY <1>3
<1>6. \A i \in Dom(m) : m.steps[i] \in S
  BY <1>3 DEF Dom
<1> QED
  BY <1>2, <1>4, <1>5, <1>6

\* A handler that is not idle handles a method of the table.
LEMMA Handling ==
    ASSUME Shape
    PROVE  /\ Idle <=> call = NoCall
           /\ Idle => pc = 0 /\ last.n = calls
           /\ ~ Idle => /\ call.m \in Methods /\ pc <= Len(call.m.steps) + 1
                        /\ last.n < calls
BY MethodFacts DEF Shape, Idle, NoCall

\* The initial state.
LEMMA InitKeeps == SvcInit => Inv
<1> SUFFICES ASSUME SvcInit PROVE Inv
  OBVIOUS
<1> USE DEF SvcInit
<1>1. Idle /\ last.n = 0 /\ last.answer = "none" /\ call.root = "/"
  BY DEF Idle, NoCall, NoLast
<1>2. Shape
  <2>1. MaxCalls \in Nat
    BY MethodShape
  <2>2. last.answer \in Answers /\ call.root \in CallRoots
    BY <1>1 DEF Answers, CallRoots
  <2>3. calls \in 0..MaxCalls /\ pc \in Nat /\ last.n \in Nat /\ last.n = calls
    BY <1>1, <2>1
  <2> QED
    BY <1>1, <2>1, <2>2, <2>3 DEF Shape
<1> QED
  BY <1>1, <1>2 DEF Inv, Dated, Traced, ChecksMade, ChangesMade, Waiting,
     RefusedUntouched, TargetConfined, VettedOnly, OkMeansDone, LastPrefix

\* A call comes in: it has left nothing yet.
LEMMA CallKeeps ==
    ASSUME Inv, NEW m \in Methods, NEW root \in CallRoots, NEW bad, Call(m, root, bad)
    PROVE  Inv'
<1> USE DEF Inv
<1>1. /\ Idle /\ calls < MaxCalls /\ call'.m = m /\ call'.root = root
      /\ pc' = 0 /\ calls' = calls + 1 /\ okAll' = TRUE /\ up' = TRUE
      /\ UNCHANGED <<eff, temps, passed, last, killed>>
  BY DEF Call
<1>2. calls \in Nat /\ last.n = calls /\ MaxCalls \in Nat
  BY <1>1, Handling, MethodShape DEF Shape
<1>3. ~ Idle' /\ Len(m.steps) \in Nat
  BY <1>1, MethodFacts DEF Idle
<1>4. Shape'
  BY <1>1, <1>2, <1>3 DEF Shape
<1>5. \A e \in eff \cup temps \cup passed : e[3] # calls'
  BY <1>1, <1>2 DEF Dated
<1>6. Dated'
  BY <1>1, <1>2 DEF Dated
<1>7. Behind' = {}
  BY <1>1, <1>3 DEF Behind, Dom
<1>8. Traced' /\ ChecksMade' /\ ChangesMade'
  BY <1>1, <1>5, <1>7 DEF Traced, ChecksMade, ChangesMade
<1>9. Waiting' /\ LastPrefix'
  BY <1>1, <1>3 DEF Waiting, LastPrefix
<1>10. RefusedUntouched' /\ VettedOnly' /\ OkMeansDone' /\ TargetConfined'
  BY <1>1, <1>5 DEF RefusedUntouched, VettedOnly, OkMeansDone, TargetConfined
<1> QED
  BY <1>4, <1>6, <1>8, <1>9, <1>10

-----------------------------------------------------------------------------
\* While a call is handled, what it has done is a prefix of its steps.
LEMMA PrefixNow ==
    ASSUME Inv, ~ Idle
    PROVE  PrefixDone(call.m, call.root, calls)
<1> DEFINE m == call.m
<1>1. m \in Methods /\ Len(m.steps) \in Nat
  BY Handling, MethodFacts DEF Inv
<1>2. SUFFICES ASSUME NEW i \in Dom(m), NEW j \in Dom(m), i < j,
                      Took(m, call.root, calls, j),
                      m.steps[i].op \in Changing, m.steps[i].fail = "stop",
                      ~ Skips(m, call.root, i)
               PROVE  Took(m, call.root, calls, i)
  BY DEF PrefixDone, Dom, Skips
<1>3. PICK k \in Behind : m.steps[k].op \in Changing /\ m.steps[k].obj = m.steps[j].obj
  <2>1. PICK k \in Behind : m.steps[k].op \in Changing
                            /\ Trace(j) = Trace(k)
    BY <1>2 DEF Inv, Traced, Took, Trace, Place
  <2> QED
    BY <2>1 DEF Trace
<1>4. i \in Behind
  <2>1. ~ (k < i)
    BY <1>1, <1>2, <1>3, NoReturn DEF Behind, Dom
  <2> QED
    BY <1>1, <1>2, <1>3, <2>1 DEF Behind, Dom, Inv, Shape
<1>5. Trace(i) \in eff
  BY <1>2, <1>4 DEF Inv, ChangesMade
<1> QED
  BY <1>5 DEF Took, Trace, Place

\* The call ends, with an answer or without one.
LEMMA EndKeeps ==
    ASSUME Inv, ~ Idle, NEW answer \in Answers,
           last' = [m |-> call.m, root |-> call.root, n |-> calls, answer |-> answer],
           call' = NoCall, pc' = 0,
           up' \in BOOLEAN, killed' \in BOOLEAN,
           UNCHANGED <<okAll, calls, eff, passed>>,
           temps' \subseteq temps,
           answer \in {"denied", "invalid"} => \A e \in eff \cup temps : e[3] # calls,
           answer = "ok" => okAll /\ pc = Len(call.m.steps) + 1,
           ~ killed' => temps' \cap passed = {}
    PROVE  Inv'
<1> USE DEF Inv
<1>1. Idle' /\ call'.root = "/"
  BY DEF Idle, NoCall
<1>2. /\ last'.n = calls /\ last'.answer = answer /\ last'.m = call.m
      /\ last'.root = call.root
  OBVIOUS
<1>3. calls \in Nat /\ calls > last.n /\ call.m \in Methods
  BY Handling DEF Shape
<1>4. Shape'
  BY <1>1, <1>2, <1>3 DEF Shape, CallRoots
<1>5. Dated'
  BY DEF Dated
<1>6. Traced' /\ ChecksMade' /\ ChangesMade' /\ TargetConfined'
  BY <1>1 DEF Traced, ChecksMade, ChangesMade, TargetConfined
<1>7. Waiting'
  BY DEF Waiting
<1>8. RefusedUntouched'
  BY <1>2 DEF RefusedUntouched
<1>9. VettedOnly'
  BY DEF VettedOnly
<1>10. OkMeansDone'
  <2> SUFFICES ASSUME answer = "ok", NEW o \in Owed(call.m, call.root)
               PROVE  <<o[1], o[2], calls>> \in eff
    BY <1>2 DEF OkMeansDone
  <2>1. PICK i \in Dom(call.m) :
          /\ call.m.steps[i].op \in Changing /\ call.m.steps[i].fail \in {"stop", "goon"}
          /\ ~ Skips(call.m, call.root, i)
          /\ o = <<Place(call.m, call.root, i), call.m.steps[i].obj>>
    BY DEF Owed, Dom, Skips, Place
  <2>2. i \in Behind
    BY <1>3, MethodFacts DEF Behind, Dom
  <2>3. Trace(i) \in eff
    BY <2>1, <2>2 DEF ChangesMade
  <2> QED
    BY <2>1, <2>3 DEF Trace
<1>11. LastPrefix'
  <2>1. PrefixDone(call.m, call.root, calls)
    BY PrefixNow
  <2> QED
    BY <1>2, <2>1 DEF LastPrefix, PrefixDone, Took
<1> QED
  BY <1>4, <1>5, <1>6, <1>7, <1>8, <1>9, <1>10, <1>11

-----------------------------------------------------------------------------
\* The handler passes a step that leaves nothing behind.
LEMMA PassKeeps ==
    ASSUME Inv, ~ Idle, pc' = pc + 1, pc <= Len(call.m.steps),
           UNCHANGED <<up, call, calls, eff, temps, passed, last, killed>>,
           okAll' \in BOOLEAN, okAll' => okAll,
           pc \in Dom(call.m) =>
              \/ Skips(call.m, call.root, pc)
              \/ call.m.steps[pc].op \in {"arg", "guard"}
              \/ /\ call.m.steps[pc].op \in {"run", "check"}
                 /\ call.m.steps[pc].fail # "stop"
                 /\ call.m.steps[pc].fail = "goon" => ~ okAll'
    PROVE  Inv'
<1> USE DEF Inv
<1>1. call.m \in Methods /\ Len(call.m.steps) \in Nat /\ pc \in Nat
  BY Handling, MethodFacts DEF Shape
<1>2. Idle' = Idle /\ \A i : Trace(i)' = Trace(i)
  BY DEF Idle, Trace
<1>3. Behind \subseteq Behind'
  BY <1>1 DEF Behind, Dom
<1>4. \A i \in Behind' : i \in Behind \/ (i = pc /\ pc \in Dom(call.m))
  BY <1>1 DEF Behind, Dom
<1>5. Shape'
  BY <1>1, Handling DEF Shape
<1>6. Dated'
  BY DEF Dated
<1>7. Traced'
  BY <1>2, <1>3 DEF Traced
<1>8. ChecksMade'
  BY <1>2, <1>4 DEF ChecksMade
<1>9. ChangesMade'
  BY <1>2, <1>4 DEF ChangesMade, Changing
<1>10. Waiting'
  <2>1. killed \/ temps \cap passed = {}
    BY DEF Waiting
  <2> QED
    BY <2>1 DEF Waiting
<1>11. RefusedUntouched' /\ VettedOnly' /\ OkMeansDone'
  BY DEF RefusedUntouched, VettedOnly, OkMeansDone
<1>12. TargetConfined' /\ LastPrefix'
  BY <1>2 DEF TargetConfined, LastPrefix, Target
<1> QED
  BY <1>5, <1>6, <1>7, <1>8, <1>9, <1>10, <1>11, <1>12

\* A step of the method that is carried out.
LEMMA Carried ==
    ASSUME Inv, NEW ops, AtStep(ops)
    PROVE  /\ ~ Idle /\ call.m \in Methods /\ pc \in Dom(call.m) /\ pc \in Nat
           /\ pc <= Len(call.m.steps)
           /\ call.m.steps[pc].op \in ops
           /\ ~ Skips(call.m, call.root, pc)
           /\ StepNow = call.m.steps[pc] /\ Mine(StepNow) = Trace(pc)
           /\ Len(call.m.steps) \in Nat
BY Handling, MethodFacts DEF Inv, Shape, AtStep, Dom, Skips, StepNow, Target, Mine, Where, Trace, Place

\* What a step that succeeds leaves behind.
LEMMA Leaves ==
    ASSUME Inv, Succeed
    PROVE  LET st == call.m.steps[pc] IN
           /\ eff' \subseteq eff \cup {Trace(pc)}
           /\ st.op \in Changing => Trace(pc) \in eff'
           /\ st.op \notin Changing => eff' = eff
           /\ \A e \in eff : \/ e \in eff'
                             \/ /\ st.op \in Changing
                                /\ e[1] = Trace(pc)[1] /\ e[2] = Trace(pc)[2]
           /\ temps' \subseteq temps \cup {Trace(pc)}
           /\ st.op \notin Temporary => temps' \subseteq temps
           /\ st.op = "place" => Trace(pc) \notin temps'
           /\ passed \subseteq passed' /\ passed' \subseteq passed \cup {Trace(pc)}
           /\ st.op # "check" => passed' = passed
           /\ st.op = "check" => Trace(pc) \in passed'
<1> DEFINE st == call.m.steps[pc]
<1>1. StepNow = st /\ Mine(StepNow) = Trace(pc)
  BY Carried DEF Succeed
<1>2. Trace(pc)[1] = Where(StepNow) /\ Trace(pc)[2] = st.obj
  BY <1>1 DEF Mine
<1>3. /\ eff' = IF st.op \in Changing THEN SetBy(eff, StepNow) ELSE eff
      /\ temps' = IF st.op = "stage" THEN temps \cup {Trace(pc)}
                  ELSE IF st.op = "link" THEN SetBy(temps, StepNow)
                  ELSE IF st.op \in {"place", "rename"} THEN temps \ {Trace(pc)}
                  ELSE temps
      /\ passed' = IF st.op = "check" THEN passed \cup {Trace(pc)} ELSE passed
  BY <1>1 DEF Succeed, TempsAfter
<1>4. /\ SetBy(eff, StepNow) =
           {e \in eff : e[1] # Trace(pc)[1] \/ e[2] # Trace(pc)[2]} \cup {Trace(pc)}
      /\ SetBy(temps, StepNow) \subseteq temps \cup {Trace(pc)}
  BY <1>1, <1>2 DEF SetBy
<1> HIDE DEF st
<1> QED
  BY <1>3, <1>4 DEF st, Temporary

\* A step succeeds.
LEMMA SucceedKeeps ==
    ASSUME Inv, Succeed
    PROVE  Inv'
<1> USE DEF Inv
<1> DEFINE m == call.m
           st == m.steps[pc]
<1>1. /\ ~ Idle /\ m \in Methods /\ pc \in Dom(m) /\ pc \in Nat
      /\ pc <= Len(m.steps) /\ Len(m.steps) \in Nat
      /\ st.op \in Changing \cup Temporary \cup {"check"}
      /\ ~ Skips(m, call.root, pc)
  BY Carried DEF Succeed
<1>2. /\ pc' = pc + 1
      /\ UNCHANGED <<up, call, calls, last, killed, okAll>>
  BY DEF Succeed, Advance
<1>3. Idle' = Idle /\ \A i : Trace(i)' = Trace(i)
  BY <1>2 DEF Idle, Trace
<1>4. /\ \A i \in Behind' : i \in Behind \/ i = pc
      /\ Behind \subseteq Behind' /\ pc \in Behind'
  BY <1>1, <1>2 DEF Behind, Dom
<1>5. /\ eff' \subseteq eff \cup {Trace(pc)}
      /\ st.op \in Changing => Trace(pc) \in eff'
      /\ st.op \notin Changing => eff' = eff
      /\ \A e \in eff : \/ e \in eff'
                        \/ /\ st.op \in Changing
                           /\ e[1] = Trace(pc)[1] /\ e[2] = Trace(pc)[2]
  BY Leaves
<1>6. /\ temps' \subseteq temps \cup {Trace(pc)}
      /\ st.op \notin Temporary => temps' \subseteq temps
      /\ st.op = "place" => Trace(pc) \notin temps'
      /\ passed \subseteq passed' /\ passed' \subseteq passed \cup {Trace(pc)}
      /\ st.op # "check" => passed' = passed
      /\ st.op = "check" => Trace(pc) \in passed'
  BY Leaves
<1>7. /\ Trace(pc) = <<Trace(pc)[1], Trace(pc)[2], Trace(pc)[3]>>
      /\ Trace(pc)[3] = calls /\ Trace(pc)[2] = st.obj
      /\ Trace(pc)[1] = Place(m, call.root, pc)
  BY DEF Trace
<1>8. calls \in Nat /\ last.n \in Nat /\ last.n < calls
  BY <1>1, Handling DEF Shape
<1>9. Shape'
  BY <1>1, <1>2, Handling DEF Shape
<1>10. Dated'
  BY <1>2, <1>5, <1>6, <1>7, <1>8 DEF Dated
<1>11. Traced'
  <2>1. ASSUME NEW e \in eff', e[3] = calls
        PROVE  \E i \in Behind' : m.steps[i].op \in Changing /\ e = Trace(i)
    BY <1>1, <1>4, <1>5, <2>1 DEF Traced
  <2>2. ASSUME NEW t \in temps', t[3] = calls
        PROVE  \E i \in Behind' : m.steps[i].op \in Temporary /\ t = Trace(i)
    BY <1>1, <1>4, <1>6, <2>2 DEF Traced
  <2>3. ASSUME NEW p \in passed', p[3] = calls
        PROVE  \E i \in Behind' : m.steps[i].op = "check" /\ p = Trace(i)
    BY <1>1, <1>4, <1>6, <2>3 DEF Traced
  <2> QED
    BY <1>2, <1>3, <2>1, <2>2, <2>3 DEF Traced
<1>12. ChecksMade'
  BY <1>1, <1>2, <1>3, <1>4, <1>6 DEF ChecksMade
<1>13. ChangesMade'
  <2>1. \A i : Trace(i) \in eff => Trace(i) \in eff'
    <3> SUFFICES ASSUME NEW i, Trace(i) \in eff, Trace(i) \notin eff'
                 PROVE  FALSE
      OBVIOUS
    <3>1. st.op \in Changing /\ Trace(i)[1] = Trace(pc)[1] /\ Trace(i)[2] = Trace(pc)[2]
      BY <1>5
    <3>2. Trace(i) = Trace(pc)
      BY <3>1 DEF Trace
    <3> QED
      BY <1>5, <3>1, <3>2
  <2> QED
    BY <1>1, <1>2, <1>3, <1>4, <1>5, <2>1 DEF ChangesMade
<1>14. Waiting'
  <2> SUFFICES ASSUME ~ killed, NEW t \in temps', t \in passed'
               PROVE  /\ t[3] = calls /\ pc + 1 \in Dom(m)
                      /\ m.steps[pc + 1].op = "place" /\ m.steps[pc + 1].obj = t[2]
                      /\ ~ Skips(m, call.root, pc + 1)
    BY <1>1, <1>2, <1>3 DEF Waiting
  <2>1. CASE st.op \in Temporary
    <3>1. t \in passed
      BY <1>6, <2>1 DEF Temporary
    <3>2. t \notin temps
      BY <2>1, <3>1 DEF Waiting, Temporary
    <3>3. t = Trace(pc)
      BY <1>6, <3>2
    <3>4. PICK i \in Behind : m.steps[i].op = "check" /\ t = Trace(i)
      BY <1>1, <1>7, <3>1, <3>3 DEF Traced
    <3>5. i \in Dom(m) /\ i < pc /\ m.steps[i].obj = st.obj
      BY <3>3, <3>4 DEF Behind, Trace
    <3>6. pc < i
      BY <1>1, <2>1, <3>4, <3>5, PlacedNext, LinksUnchecked DEF Dom, Temporary
    <3> QED
      BY <1>1, <3>5, <3>6 DEF Dom
  <2>2. CASE st.op = "check"
    <3>1. t \in temps
      BY <1>6, <2>2 DEF Temporary
    <3>2. t \notin passed
      BY <2>2, <3>1 DEF Waiting
    <3>3. t = Trace(pc)
      BY <1>6, <3>2
    <3>4. PICK i \in Behind : m.steps[i].op \in Temporary /\ t = Trace(i)
      BY <1>1, <1>7, <3>1, <3>3 DEF Traced
    <3>5. i \in Dom(m) /\ m.steps[i].obj = st.obj /\ m.steps[i].op = "stage"
      BY <1>1, <2>2, <3>3, <3>4, LinksUnchecked DEF Behind, Trace, Temporary, Dom
    <3>6. /\ pc < Len(m.steps) /\ m.steps[pc + 1].op = "place"
          /\ m.steps[pc + 1].obj = st.obj
          /\ m.steps[pc + 1].live => st.live
      BY <1>1, <2>2, <3>4, <3>5, PlacedNext DEF Dom
    <3>7. pc + 1 \in Dom(m) /\ ~ Skips(m, call.root, pc + 1)
      BY <1>1, <3>6 DEF Dom, Skips
    <3> QED
      BY <1>7, <3>3, <3>6, <3>7
  <2>3. CASE st.op \in Changing
    <3>1. t \in temps /\ t \in passed
      BY <1>6, <2>3 DEF Changing, Temporary
    <3>2. t[3] = calls /\ st.op = "place" /\ st.obj = t[2]
      BY <3>1 DEF Waiting
    <3>3. PICK i \in Behind : m.steps[i].op \in Temporary /\ t = Trace(i)
      BY <1>1, <3>1, <3>2 DEF Traced
    <3>4. t = Trace(pc)
      BY <3>2, <3>3 DEF Trace, Place, Temporary
    <3> QED
      BY <1>6, <3>2, <3>4
  <2> QED
    BY <1>1, <2>1, <2>2, <2>3
<1>15. RefusedUntouched'
  BY <1>2, <1>5, <1>6, <1>7, <1>8 DEF RefusedUntouched
<1>16. TargetConfined'
  <2> SUFFICES ASSUME m.root, call.root # "/", NEW e \in eff', e[3] = calls
               PROVE  e[1] = call.root
    BY <1>2, <1>3 DEF TargetConfined, Target
  <2>1. CASE e \in eff
    BY <1>1, <2>1 DEF TargetConfined, Target
  <2>2. CASE e = Trace(pc) /\ st.op \in Changing
    <3>1. st.op # "run"
      BY <1>1, RunsAreLive DEF Skips, Dom
    <3> QED
      BY <1>7, <2>2, <3>1 DEF Place
  <2> QED
    BY <1>5, <2>1, <2>2
<1>17. VettedOnly'
  <2> SUFFICES ASSUME NEW e \in eff', e[2] \in Vetted
               PROVE  \E p \in passed' : p[3] = e[3] /\ Vets(p[2], e[2])
    BY DEF VettedOnly
  <2>1. CASE e \in eff
    BY <1>6, <2>1 DEF VettedOnly
  <2>2. CASE e = Trace(pc) /\ st.op \in Changing
    <3>1. PICK i \in 1..(pc - 1) :
            /\ m.steps[i].op = "check" /\ m.steps[i].fail = "stop"
            /\ Vets(m.steps[i].obj, st.obj)
            /\ m.steps[i].live => st.live
      BY <1>1, <1>7, <2>2, CheckedBefore DEF Dom
    <3>2. i \in Behind /\ ~ Skips(m, call.root, i)
      BY <1>1, <3>1 DEF Behind, Dom, Skips
    <3>3. Trace(i) \in passed
      BY <1>1, <3>1, <3>2 DEF ChecksMade
    <3>4. Trace(i)[3] = calls /\ Trace(i)[2] = m.steps[i].obj
      BY DEF Trace
    <3> QED
      BY <1>6, <1>7, <2>2, <3>1, <3>3, <3>4
  <2> QED
    BY <1>5, <2>1, <2>2
<1>18. OkMeansDone'
  <2> SUFFICES ASSUME last.answer = "ok", NEW o \in Owed(last.m, last.root)
               PROVE  \/ <<o[1], o[2], last.n>> \in eff'
                      \/ \E e \in eff' : e[1] = o[1] /\ e[2] = o[2] /\ e[3] > last.n
    BY <1>2 DEF OkMeansDone
  <2>1. PICK e \in eff : e[1] = o[1] /\ e[2] = o[2]
                         /\ (e[3] > last.n \/ e = <<o[1], o[2], last.n>>)
    BY DEF OkMeansDone
  <2>2. CASE e \in eff'
    BY <2>1, <2>2
  <2>3. CASE st.op \in Changing /\ e[1] = Trace(pc)[1] /\ e[2] = Trace(pc)[2]
    BY <1>5, <1>7, <1>8, <2>1, <2>3
  <2> QED
    BY <1>5, <2>2, <2>3
<1>19. LastPrefix'
  BY <1>1, <1>3 DEF LastPrefix
<1> QED
  BY <1>9, <1>10, <1>11, <1>12, <1>13, <1>14, <1>15, <1>16, <1>17, <1>18, <1>19

-----------------------------------------------------------------------------
\* Every step of the backend keeps the invariant.
LEMMA StepKeeps == Inv /\ [SvcNext]_svcVars => Inv'
<1> SUFFICES ASSUME Inv, [SvcNext]_svcVars PROVE Inv'
  OBVIOUS
<1>0. ~ Idle => /\ call.m \in Methods /\ Len(call.m.steps) \in Nat
                /\ \A i \in Dom(call.m) : call.m.steps[i].op \in Ops
  BY Handling, MethodFacts DEF Inv
<1>t. up \in BOOLEAN /\ killed \in BOOLEAN /\ okAll \in BOOLEAN
  BY DEF Inv, Shape
<1>1. CASE UNCHANGED svcVars
  <2>1. UNCHANGED <<up, call, pc, okAll, calls, eff, temps, passed, last, killed>>
    BY <1>1 DEF svcVars
  <2>2. Idle' = Idle /\ Behind' = Behind /\ \A i : Trace(i)' = Trace(i)
    BY <2>1 DEF Idle, Behind, Trace
  <2> QED
    BY <2>1, <2>2 DEF Inv, Shape, Dated, Traced, ChecksMade, ChangesMade, Waiting,
       RefusedUntouched, TargetConfined, VettedOnly, OkMeansDone, LastPrefix,
       PrefixDone, Took, Target
<1>2. ASSUME NEW m \in Methods, NEW root \in CallRoots,
             NEW bad \in {{}} \cup {{a} : a \in Args(m)}, Call(m, root, bad)
      PROVE  Inv'
  BY <1>2, CallKeeps
<1>3. CASE Authorize
  <2>1. ~ Idle /\ pc = 0 /\ UNCHANGED <<eff, temps, passed>>
    BY <1>3 DEF Authorize
  <2>2. Behind = {}
    BY <1>0, <2>1 DEF Behind, Dom
  <2>3. \A e \in eff \cup temps : e[3] # calls
    BY <2>1, <2>2 DEF Inv, Traced
  <2>4. ~ killed => temps \cap passed = {}
    BY <2>1 DEF Inv, Waiting, Dom
  <2>5. CASE EndWith("denied") \/ EndWith("invalid")
    BY <1>t, <2>1, <2>3, <2>4, <2>5, EndKeeps DEF EndWith, Answers
  <2>6. CASE pc' = 1 /\ UNCHANGED <<up, call, okAll, calls, last, killed>>
    BY <1>0, <1>t, <2>1, <2>6, PassKeeps DEF Dom
  <2> QED
    BY <1>3, <2>5, <2>6 DEF Authorize
<1>4. CASE SkipLive
  <2>1. /\ ~ Idle /\ pc \in Dom(call.m) /\ Skips(call.m, call.root, pc)
        /\ pc' = pc + 1 /\ UNCHANGED <<up, call, calls, last, killed, okAll, eff, temps, passed>>
    BY <1>4 DEF SkipLive, Dom, Skips, StepNow, Target, Advance
  <2> QED
    BY <1>0, <1>t, <2>1, PassKeeps DEF Dom
<1>5. CASE CheckArg
  <2>1. /\ ~ Idle /\ call.m \in Methods /\ pc \in Dom(call.m) /\ pc <= Len(call.m.steps)
        /\ call.m.steps[pc].op \in {"arg", "guard"}
        /\ StepNow = call.m.steps[pc]
        /\ UNCHANGED <<eff, temps, passed>>
    BY <1>5, Carried DEF CheckArg
  <2>2. ~ killed => temps \cap passed = {}
    BY <2>1 DEF Inv, Waiting
  <2>3. CASE StepNow.op = "arg" /\ EndWith("invalid")
    <3>1. \A i \in Behind : call.m.steps[i].op \notin Changing \cup Temporary
      BY <2>1, <2>3, ChecksFirst DEF Behind, Dom
    <3>2. \A e \in eff \cup temps : e[3] # calls
      BY <2>1, <3>1 DEF Inv, Traced
    <3> QED
      BY <1>t, <2>1, <2>2, <2>3, <3>2, EndKeeps DEF EndWith, Answers
  <2>4. CASE EndWith("failed")
    BY <1>t, <2>1, <2>2, <2>4, EndKeeps DEF EndWith, Answers
  <2>5. CASE Advance /\ UNCHANGED okAll
    BY <1>t, <2>1, <2>5, PassKeeps DEF Advance
  <2> QED
    BY <1>5, <2>3, <2>4, <2>5 DEF CheckArg
<1>6. CASE Succeed
  BY <1>6, SucceedKeeps
<1>7. CASE CommandFails
  <2>1. /\ ~ Idle /\ call.m \in Methods /\ pc \in Dom(call.m) /\ pc <= Len(call.m.steps)
        /\ call.m.steps[pc].op \in {"run", "check"}
        /\ StepNow = call.m.steps[pc]
        /\ UNCHANGED <<eff, temps, passed>>
    BY <1>7, Carried DEF CommandFails
  <2>2. ~ killed => temps \cap passed = {}
    BY <2>1 DEF Inv, Waiting
  <2>3. CASE EndWith("failed")
    BY <1>t, <2>1, <2>2, <2>3, EndKeeps DEF EndWith, Answers
  <2>4. CASE /\ StepNow.fail # "stop" /\ Advance
             /\ okAll' = (okAll /\ StepNow.fail # "goon")
    BY <1>t, <2>1, <2>4, PassKeeps DEF Advance
  <2> QED
    BY <1>7, <2>3, <2>4 DEF CommandFails
<1>8. CASE OsError
  <2>1. ~ Idle /\ call.m \in Methods /\ UNCHANGED <<eff, passed>>
    BY <1>8, Carried DEF OsError
  <2>2. temps' = IF StepNow.op = "rename" THEN temps
                 ELSE {t \in temps : t[3] # calls}
    BY <1>8 DEF OsError
  <2>3. ~ killed => temps' \cap passed = {}
    BY <2>2 DEF Inv, Waiting, StepNow
  <2>4. PICK answer \in {"failed", "none"} : EndWith(answer)
    BY <1>8 DEF OsError
  <2> QED
    BY <1>t, <2>1, <2>2, <2>3, <2>4, EndKeeps DEF EndWith, Answers
<1>9. CASE Answer
  <2>1. /\ ~ Idle /\ pc = Len(call.m.steps) + 1 /\ UNCHANGED <<eff, temps, passed>>
        /\ EndWith(IF okAll THEN "ok" ELSE "failed")
    BY <1>9 DEF Answer
  <2>2. ~ killed => temps \cap passed = {}
    BY <1>0, <2>1 DEF Inv, Waiting, Dom
  <2>3. CASE okAll
    BY <1>t, <2>1, <2>2, <2>3, EndKeeps DEF EndWith, Answers
  <2>4. CASE ~ okAll
    BY <1>t, <2>1, <2>2, <2>4, EndKeeps DEF EndWith, Answers
  <2> QED
    BY <2>3, <2>4
<1>10. CASE Kill
  BY <1>10, EndKeeps DEF Kill, Answers
<1> QED
  BY <1>1, <1>2, <1>3, <1>4, <1>5, <1>6, <1>7, <1>8, <1>9, <1>10 DEF SvcNext, Handle

-----------------------------------------------------------------------------
\* What a handler and its files are at every step: a denied or invalid call
\* has changed nothing, a call for an install target stays under its root,
\* sshd_config, the sudoers drop-in, doas.conf and the ruleset hold only what
\* their checkers accepted, and an accepted temporary file is not left behind.
THEOREM ServicesSafe == SvcSpec => []SvcInv
<1>1. Inv => SvcInv
  <2> SUFFICES ASSUME Inv PROVE SvcInv
    OBVIOUS
  <2> USE DEF Inv
  <2>1. SvcTypeOK
    <3>1. CASE Idle
      <4>1. call.m.steps = <<>>
        BY <3>1 DEF Idle, NoMethod
      <4>2. Len(call.m.steps) = 0
        BY <4>1
      <4> QED
        BY <3>1, <4>2, Handling DEF SvcTypeOK, Shape
    <3>2. CASE ~ Idle
      BY <3>2, Handling, MethodFacts DEF SvcTypeOK, Shape
    <3> QED
      BY <3>1, <3>2
  <2>2. NoStrayTemps
    <3> SUFFICES ASSUME Idle, ~ killed, NEW t \in temps, <<t[1], t[2], t[3]>> \in passed
                 PROVE  FALSE
      BY DEF NoStrayTemps
    <3>1. t \in passed
      BY DEF Dated
    <3> QED
      BY <3>1 DEF Waiting
  <2> QED
    BY <2>1, <2>2 DEF SvcInv
<1> QED
  BY InitKeeps, StepKeeps, <1>1, PTL DEF SvcSpec

\* An answer of True means that every change of the method that counts is
\* made, whatever later calls do; and what a call has done, finished or cut
\* off, is a prefix of its steps.
THEOREM AnswersAreTrue == SvcSpec => []AnswersTrue
<1>1. Inv => AnswersTrue
  BY PrefixNow DEF Inv, AnswersTrue, PrefixApplied, LastPrefix
<1> QED
  BY InitKeeps, StepKeeps, <1>1, PTL DEF SvcSpec
=============================================================================
