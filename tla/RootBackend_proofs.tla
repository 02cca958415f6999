-------------------------- MODULE RootBackend_proofs --------------------------
(***************************************************************************)
(* Proofs about RootBackend for every set of sessions and every plan: type  *)
(* correctness, mutual exclusion of the package operations, that no         *)
(* operation is cut off, the implementation of PackageLock, that what the   *)
(* service says when it refuses is true, and that an operation whose        *)
(* subprocess does not start locks it for good.                             *)
(***************************************************************************)
EXTENDS RootBackend, TLAPS

\* A call that the service has not answered yet.
Pending(o) == \/ \E i \in DOMAIN calls : calls[i] = o
              \/ stage # "none" /\ handler = o

\* The service's own bookkeeping: the count is 0 or 1, it is 1 exactly while
\* an operation holds the label, and nothing is streamed without it.
LockInv ==
    /\ active \in {0, 1}
    /\ active = 0 => operation = None
    /\ \A o \in streams : active = 1 /\ operation = o /\ IsPackage(o)
    /\ stage # "none" => up /\ handler \in Ops
    /\ stage = "auth" /\ IsPackage(handler) => active = 0
    /\ stage = "run" => Method(handler) \in Blocking \cup News
    /\ stage = "run" /\ IsPackage(handler) =>
          active = 1 /\ operation = handler /\ streams = {}
    /\ ~up => active = 0

\* Each operation is called once: the calls under way are the current
\* operations of sessions that wait for the answer, and none of these, nor any
\* operation later in a plan, has been started.
CallInv ==
    /\ \A s \in Sessions : at[s] = "open" => cur[s] \in DOMAIN Plans[s]
    /\ \A o \in Ops : Pending(o) =>
          /\ at[o[1]] = "called"
          /\ cur[o[1]] = o[2]
          /\ \A k \in DOMAIN inbox[o[1]] : inbox[o[1]][k].kind = "finished"
    /\ \A i, j \in DOMAIN calls : calls[i] = calls[j] => i = j
    /\ stage # "none" => \A i \in DOMAIN calls : calls[i] # handler
    /\ \A o \in Ops :
          (\/ o[2] > cur[o[1]]
           \/ o[2] = cur[o[1]] /\ at[o[1]] = "open"
           \/ Pending(o) /\ ~(stage = "run" /\ handler = o))
          => exit[o] = None /\ o \notin streams /\ o \notin side
    /\ stage = "run" => exit[handler] = None /\ handler \notin streams /\ handler \notin side
    /\ \A o \in streams \cup side : exit[o] = None
    /\ \A o \in side : Method(o) \in Side

Inv == TypeOK /\ LockInv /\ CallInv

-----------------------------------------------------------------------------
\* An operation is a pair of a session and a position in its plan.
LEMMA OpsPair ==
    /\ \A o \in Ops : o[1] \in Sessions /\ o[2] \in DOMAIN Plans[o[1]]
                     /\ o[2] \in Nat /\ o = <<o[1], o[2]>>
    /\ \A s \in Sessions : \A i \in DOMAIN Plans[s] : <<s, i>> \in Ops
<1>1. \A s \in Sessions : Plans[s] \in Seq(Methods)
  BY PlansAssumption
<1>2. \A s \in Sessions : DOMAIN Plans[s] \subseteq Nat
  BY <1>1
<1> QED
  BY <1>2 DEF Ops

\* The kinds of methods do not overlap.
LEMMA KindsDisjoint ==
    ASSUME NEW o
    PROVE  /\ Method(o) \in Side => ~IsPackage(o)
           /\ Method(o) \in Queries => ~IsPackage(o)
           /\ Method(o) \in News => ~IsPackage(o)
           /\ Method(o) \in Streaming => IsPackage(o)
           /\ Method(o) \in Streaming => Method(o) \notin Blocking \cup News
           /\ Method(o) \in Side => Method(o) \notin Blocking \cup News
BY DEF IsPackage, Side, Queries, News, Streaming, Blocking

\* What the first element of a sequence of calls and its tail are.
LEMMA HeadTail ==
    ASSUME NEW S, NEW q \in Seq(S), q # <<>>
    PROVE  /\ Head(q) \in S
           /\ Tail(q) \in Seq(S)
           /\ Head(q) = q[1]
           /\ 1 \in DOMAIN q
           /\ \A i \in DOMAIN Tail(q) : i + 1 \in DOMAIN q /\ Tail(q)[i] = q[i + 1] /\ i \in Nat /\ i # 0
OBVIOUS

\* What appending to a sequence does.
LEMMA AppendFacts ==
    ASSUME NEW S, NEW q \in Seq(S), NEW e \in S
    PROVE  /\ Append(q, e) \in Seq(S)
           /\ \A i \in DOMAIN Append(q, e) :
                 \/ i \in DOMAIN q /\ Append(q, e)[i] = q[i]
                 \/ i = Len(q) + 1 /\ i \notin DOMAIN q /\ Append(q, e)[i] = e
OBVIOUS

\* The messages the service sends are messages.
LEMMA MsgType ==
    ASSUME NEW k \in Kinds, NEW c \in Codes
    PROVE  Msg(k, c) \in Messages /\ Msg(k, c).kind = k
BY DEF Msg, Messages

\* The initial states satisfy the invariant.
LEMMA InitInv == Init => Inv
<1> SUFFICES ASSUME Init PROVE Inv
  OBVIOUS
<1> USE DEF Init
<1>1. TypeOK
  <2>2. idle \in 0..IdleTimeout /\ spawnFaults \in 0..MaxSpawnFaults
    BY BackendBounds
  <2>3. /\ cur \in [Sessions -> Nat]
        /\ got \in [Sessions -> Codes \cup {None}]
        /\ overall \in [Sessions -> Codes]
        /\ exit \in [Ops -> Codes \cup {None}]
    BY DEF Codes
  <2>4. inbox \in [Sessions -> Seq(Messages)]
    OBVIOUS
  <2>5. /\ at \in [Sessions -> {"open", "called", "await", "done"}]
        /\ verdict \in [Sessions -> {"none", "ok", "failed", "busy", "notStarted"}]
    OBVIOUS
  <2>6. calls \in Seq(Ops)
    OBVIOUS
  <2>7. up \in BOOLEAN /\ upgraded \in BOOLEAN /\ external \in BOOLEAN
    OBVIOUS
  <2>8. /\ stage \in {"none", "auth", "run"} /\ active \in Nat
        /\ handler \in Ops \cup {None} /\ operation \in Ops \cup {None}
        /\ streams \subseteq Ops /\ side \subseteq Ops
    OBVIOUS
  <2> HIDE DEF Init
  <2> QED
    BY <2>2, <2>3, <2>4, <2>5, <2>6, <2>7, <2>8 DEF TypeOK
<1>2. LockInv
  BY DEF LockInv
<1>3. CallInv
  <2>1. \A s \in Sessions : Plans[s] # <<>> => 1 \in DOMAIN Plans[s]
    BY PlansAssumption
  <2>2. \A o \in Ops : ~Pending(o) /\ exit[o] = None
    BY DEF Pending
  <2>3. \A s \in Sessions : at[s] = "open" => cur[s] \in DOMAIN Plans[s]
    BY <2>1
  <2>4. DOMAIN calls = {} /\ stage = "none" /\ streams = {} /\ side = {}
    OBVIOUS
  <2> QED
    BY <2>2, <2>3, <2>4 DEF CallInv
<1> QED
  BY <1>1, <1>2, <1>3 DEF Inv

\* A reply or a signal leaves the inboxes sequences of messages.
LEMMA InboxType ==
    ASSUME TypeOK
    PROVE  /\ \A o \in Ops, m \in Messages :
                 Reply(o, m) => inbox' \in [Sessions -> Seq(Messages)]
           /\ \A i : \A c \in Codes :
                 EmitFinished(i, c) => inbox' \in [Sessions -> Seq(Messages)]
<1> USE DEF TypeOK
<1>1. ASSUME NEW o \in Ops, NEW m \in Messages, Reply(o, m)
      PROVE  inbox' \in [Sessions -> Seq(Messages)]
  BY <1>1, OpsPair, AppendFacts DEF Reply
<1>2. ASSUME NEW i, NEW c \in Codes, EmitFinished(i, c)
      PROVE  inbox' \in [Sessions -> Seq(Messages)]
  <2>1. Msg("finished", c) \in Messages
    BY MsgType DEF Kinds
  <2> QED
    BY <1>2, <2>1, AppendFacts DEF EmitFinished
<1> QED
  BY <1>1, <1>2

\* Every step preserves type correctness.
LEMMA TypeStep == Inv /\ [Next]_vars => TypeOK'
<1> SUFFICES ASSUME Inv, [Next]_vars PROVE TypeOK'
  OBVIOUS
<1> USE DEF Inv, loopVars, lockVars, envVars, clientVars
<1>a. \A k \in Kinds, c \in Codes : Msg(k, c) \in Messages
  BY MsgType
<1>b. 0 \in Codes /\ 1 \in Codes /\ {"started", "busy", "error", "result", "finished"} = Kinds
  BY DEF Codes, Kinds
<1>c. stage # "none" => up /\ handler \in Ops
  BY DEF LockInv
<1>1. CASE Activate
  <2>1. idle' \in 0..IdleTimeout
    BY <1>1, BackendBounds DEF Activate
  <2>2. up' \in BOOLEAN /\ upgraded' \in BOOLEAN
    BY <1>1 DEF Activate
  <2> QED
    BY <1>1, <2>1, <2>2 DEF Activate, TypeOK
<1>2. CASE Dispatch
  <2> DEFINE o == Head(calls)
  <2>1. o \in Ops /\ Tail(calls) \in Seq(Ops)
    BY <1>2, HeadTail DEF Dispatch, TypeOK
  <2>2. inbox' \in [Sessions -> Seq(Messages)]
    BY <1>2, <2>1, <1>a, <1>b, InboxType DEF Dispatch, TypeOK
  <2>3. idle' \in 0..IdleTimeout
    BY <1>2, BackendBounds DEF Dispatch, TypeOK, Touch
  <2>4. up' \in BOOLEAN /\ stage' \in {"none", "auth", "run"} /\ handler' \in Ops \cup {None}
    BY <1>2, <2>1 DEF Dispatch, TypeOK
  <2> QED
    BY <1>2, <2>1, <2>2, <2>3, <2>4 DEF Dispatch, TypeOK
<1>3. CASE Refuse
  <2>1. inbox' \in [Sessions -> Seq(Messages)]
    BY <1>3, <1>a, <1>b, <1>c, InboxType DEF Refuse, TypeOK
  <2> QED
    BY <1>3, <2>1 DEF Refuse, Leave, TypeOK
<1>4. CASE StartStreaming
  <2>1. inbox' \in [Sessions -> Seq(Messages)]
    BY <1>4, <1>a, <1>b, <1>c, InboxType DEF StartStreaming, TypeOK
  <2> QED
    BY <1>4, <2>1, <1>c DEF StartStreaming, Leave, BeginOp, TypeOK
<1>5. CASE StartSide
  <2>1. inbox' \in [Sessions -> Seq(Messages)]
    BY <1>5, <1>a, <1>b, <1>c, InboxType DEF StartSide, TypeOK
  <2> QED
    BY <1>5, <2>1, <1>c DEF StartSide, Leave, TypeOK
<1>6. CASE SpawnFails
  <2>1. inbox' \in [Sessions -> Seq(Messages)]
    BY <1>6, <1>a, <1>b, <1>c, InboxType DEF SpawnFails, TypeOK
  <2>2. spawnFaults' \in 0..MaxSpawnFaults
    BY <1>6, BackendBounds DEF SpawnFails, TypeOK
  <2> QED
    BY <1>6, <2>1, <2>2, <1>c DEF SpawnFails, Leave, BeginOp, TypeOK
<1>7. CASE StartBlocking
  BY <1>7, <1>c DEF StartBlocking, BeginOp, TypeOK
<1>8. CASE FinishBlocking
  <2>1. inbox' \in [Sessions -> Seq(Messages)]
    BY <1>8, <1>a, <1>b, <1>c, InboxType DEF FinishBlocking
  <2>2. exit' \in [Ops -> Codes \cup {None}]
    BY <1>8, <1>c DEF FinishBlocking, TypeOK
  <2>3. active' \in Nat /\ operation' \in Ops \cup {None} /\ idle' \in 0..IdleTimeout
    BY <1>8, BackendBounds DEF FinishBlocking, EndOp, Touch, TypeOK
  <2> QED
    BY <1>8, <2>1, <2>2, <2>3 DEF FinishBlocking, Leave, TypeOK
<1>9. CASE StreamDone
  <2>1. inbox' \in [Sessions -> Seq(Messages)]
    BY <1>9, InboxType DEF StreamDone
  <2>2. exit' \in [Ops -> Codes \cup {None}]
    BY <1>9 DEF StreamDone, TypeOK
  <2>3. active' \in Nat /\ operation' \in Ops \cup {None} /\ idle' \in 0..IdleTimeout
    BY <1>9, BackendBounds DEF StreamDone, EndOp, Touch, TypeOK
  <2> QED
    BY <1>9, <2>1, <2>2, <2>3 DEF StreamDone, TypeOK
<1>10. CASE SideDone
  <2>1. inbox' \in [Sessions -> Seq(Messages)]
    BY <1>10, InboxType DEF SideDone
  <2>2. exit' \in [Ops -> Codes \cup {None}]
    BY <1>10 DEF SideDone, TypeOK
  <2> QED
    BY <1>10, <2>1, <2>2 DEF SideDone, TypeOK
<1>11. CASE IdleExit
  <2>1. inbox' \in [Sessions -> Seq(Messages)]
    BY <1>11, <1>a, <1>b, AppendFacts DEF IdleExit, TypeOK
  <2>2. calls' \in Seq(Ops)
    BY <1>11 DEF IdleExit
  <2> QED
    BY <1>11, <2>1, <2>2 DEF IdleExit, TypeOK
<1>12. ASSUME NEW s \in Sessions, Call(s) PROVE TypeOK'
  <2>1. <<s, cur[s]>> \in Ops
    BY <1>12, OpsPair DEF Call, CallInv
  <2>2. calls' \in Seq(Ops)
    BY <1>12, <2>1, AppendFacts DEF Call, TypeOK
  <2>3. inbox' \in [Sessions -> Seq(Messages)]
    BY <1>12 DEF Call, TypeOK
  <2> QED
    BY <1>12, <2>2, <2>3 DEF Call, TypeOK
<1>13. ASSUME NEW s \in Sessions, Receive(s) PROVE TypeOK'
  <2>1. inbox[s] \in Seq(Messages) /\ inbox[s] # <<>>
    BY <1>13 DEF Receive, TypeOK
  <2>2. Head(inbox[s]) \in Messages /\ Tail(inbox[s]) \in Seq(Messages)
    BY <2>1, HeadTail
  <2>3. Head(inbox[s]).code \in Codes
    BY <2>2 DEF Messages
  <2>4. inbox' \in [Sessions -> Seq(Messages)]
    BY <1>13, <2>2 DEF Receive, TypeOK
  <2>5. /\ at' \in [Sessions -> {"open", "called", "await", "done"}]
        /\ got' \in [Sessions -> Codes \cup {None}]
        /\ verdict' \in [Sessions -> {"none", "ok", "failed", "busy", "notStarted"}]
    BY <1>13, <2>3 DEF Receive, GiveUp, TypeOK
  <2> QED
    BY <1>13, <2>4, <2>5 DEF Receive, TypeOK
<1>14. ASSUME NEW s \in Sessions, Return(s) PROVE TypeOK'
  <2>1. inbox' \in [Sessions -> Seq(Messages)]
    BY <1>14 DEF Return, TypeOK
  <2>2. got[s] \in Codes /\ overall[s] \in Codes
    BY <1>14 DEF Return, TypeOK
  <2>3. at' \in [Sessions -> {"open", "called", "await", "done"}]
    BY <1>14 DEF Return, TypeOK
  <2>4. overall' \in [Sessions -> Codes]
    BY <1>14, <2>2 DEF Return, TypeOK
  <2>5. cur' \in [Sessions -> Nat]
    <3>1. cur' = cur \/ cur' = [cur EXCEPT ![s] = cur[s] + 1]
      BY <1>14 DEF Return
    <3>2. cur \in [Sessions -> Nat] /\ cur[s] + 1 \in Nat
      BY DEF TypeOK
    <3> QED
      BY <3>1, <3>2
  <2>6. verdict' \in [Sessions -> {"none", "ok", "failed", "busy", "notStarted"}]
    <3>1. \/ verdict' = verdict
          \/ \E v \in {"busy", "ok", "failed"} : verdict' = [verdict EXCEPT ![s] = v]
      BY <1>14 DEF Return
    <3> QED
      BY <3>1 DEF TypeOK
  <2> QED
    BY <1>14, <2>1, <2>3, <2>4, <2>5, <2>6 DEF Return, TypeOK
<1>15. CASE Tick
  BY <1>15, BackendBounds DEF Tick, TypeOK
<1>16. CASE Upgrade
  BY <1>16 DEF Upgrade, TypeOK
<1>17. CASE External
  BY <1>17 DEF External, TypeOK
<1>18. CASE UNCHANGED vars
  BY <1>18 DEF vars, TypeOK
<1> QED
  BY <1>1, <1>2, <1>3, <1>4, <1>5, <1>6, <1>7, <1>8, <1>9, <1>10, <1>11,
     <1>12, <1>13, <1>14, <1>15, <1>16, <1>17, <1>18
  DEF Next, Backend, Frontend

\* Every step preserves the service's bookkeeping.
LEMMA LockStep == Inv /\ [Next]_vars => LockInv'
<1> SUFFICES ASSUME Inv, [Next]_vars PROVE LockInv'
  OBVIOUS
<1> USE DEF Inv, loopVars, lockVars, envVars, clientVars
<1>a. stage \in {"none", "auth", "run"} /\ up \in BOOLEAN /\ calls \in Seq(Ops)
  BY DEF TypeOK
<1>b. ASSUME LoopFree PROVE up /\ stage = "none"
  BY <1>b DEF LoopFree
<1>1. CASE Activate
  BY <1>1 DEF Activate, LockInv
<1>2. CASE Dispatch
  <2> DEFINE o == Head(calls)
  <2>1. o \in Ops
    BY <1>2, <1>a, HeadTail DEF Dispatch
  <2>2. UNCHANGED <<lockVars, up>> /\ up /\ stage = "none"
    BY <1>2, <1>b DEF Dispatch
  <2>3. \/ UNCHANGED loopVars
        \/ stage' = "auth" /\ handler' = o /\ (IsPackage(o) => active = 0)
    BY <1>2 DEF Dispatch, Busy, LockInv
  <2> QED
    BY <2>1, <2>2, <2>3 DEF LockInv, IsPackage, Method
<1>3. CASE Refuse
  BY <1>3 DEF Refuse, Leave, LockInv
<1>4. CASE StartStreaming
  <2>1. IsPackage(handler) /\ active = 0 /\ streams = {} /\ up
    BY <1>4, KindsDisjoint DEF StartStreaming, LockInv
  <2> QED
    BY <1>4, <2>1 DEF StartStreaming, Leave, BeginOp, LockInv, IsPackage, Method
<1>5. CASE StartSide
  BY <1>5 DEF StartSide, Leave, LockInv
<1>6. CASE SpawnFails
  <2>1. \/ UNCHANGED <<active, operation>>
        \/ IsPackage(handler) /\ BeginOp(handler)
    BY <1>6, KindsDisjoint DEF SpawnFails
  <2>2. IsPackage(handler) => active = 0 /\ streams = {}
    BY <1>6 DEF SpawnFails, LockInv
  <2>3. up
    BY <1>6 DEF SpawnFails, LockInv
  <2> QED
    BY <1>6, <2>1, <2>2, <2>3 DEF SpawnFails, Leave, BeginOp, LockInv, IsPackage, Method
<1>7. CASE StartBlocking
  <2>1. handler \in Ops /\ up
    BY <1>7 DEF StartBlocking, LockInv
  <2>2. IsPackage(handler) => active = 0 /\ streams = {}
    BY <1>7 DEF StartBlocking, LockInv
  <2> QED
    BY <1>7, <2>1, <2>2 DEF StartBlocking, BeginOp, LockInv, IsPackage, Method
<1>8. CASE FinishBlocking
  <2>1. up
    BY <1>8 DEF FinishBlocking, LockInv
  <2>2. CASE IsPackage(handler)
    BY <1>8, <2>1, <2>2 DEF FinishBlocking, Leave, EndOp, LockInv
  <2>3. CASE ~IsPackage(handler)
    BY <1>8, <2>1, <2>3 DEF FinishBlocking, Leave, LockInv
  <2> QED
    BY <2>2, <2>3
<1>9. CASE StreamDone
  <2>1. PICK o \in streams : streams' = streams \ {o}
    BY <1>9 DEF StreamDone
  <2>2. active = 1 /\ streams' = {}
    BY <2>1 DEF LockInv
  <2>3. active' = 0 /\ operation' = None
    BY <1>9, <2>2 DEF StreamDone, EndOp
  <2>4. UNCHANGED loopVars /\ up /\ stage = "none"
    BY <1>9, <1>b DEF StreamDone
  <2> QED
    BY <2>2, <2>3, <2>4 DEF LockInv
<1>10. CASE SideDone
  BY <1>10 DEF SideDone, LockInv, IsPackage, Method
<1>11. CASE IdleExit
  BY <1>11, <1>b DEF IdleExit, ShouldExit, LockInv
<1>12. ASSUME NEW s \in Sessions, Frontend(s) PROVE LockInv'
  BY <1>12 DEF Frontend, Call, Receive, Return, LockInv, IsPackage, Method
<1>13. CASE Tick \/ Upgrade \/ External
  BY <1>13 DEF Tick, Upgrade, External, LockInv, IsPackage, Method
<1>14. CASE UNCHANGED vars
  BY <1>14 DEF vars, LockInv, IsPackage, Method
<1> QED
  BY <1>1, <1>2, <1>3, <1>4, <1>5, <1>6, <1>7, <1>8, <1>9, <1>10, <1>11,
     <1>12, <1>13, <1>14
  DEF Next, Backend

\* Every step preserves CallInv.
LEMMA CallStep == Inv /\ [Next]_vars => CallInv'
<1> SUFFICES ASSUME Inv, [Next]_vars PROVE CallInv'
  OBVIOUS
<1> USE DEF Inv, loopVars, lockVars, envVars, clientVars
<1>t. TypeOK'
  BY TypeStep
<1>a. /\ calls \in Seq(Ops) /\ streams \subseteq Ops /\ side \subseteq Ops
      /\ exit \in [Ops -> Codes \cup {None}] /\ cur \in [Sessions -> Nat]
      /\ inbox \in [Sessions -> Seq(Messages)]
      /\ at \in [Sessions -> {"open", "called", "await", "done"}]
      /\ stage \in {"none", "auth", "run"}
  BY DEF TypeOK
<1>b. stage # "none" => handler \in Ops
  BY DEF LockInv
<1>c. \A o, p \in Ops : Pending(o) /\ Pending(p) /\ o[1] = p[1] => o = p
  BY OpsPair DEF CallInv
\* Replying to an operation touches no other session's inbox.
<1>d. ASSUME NEW o \in Ops, NEW m \in Messages, Reply(o, m), Pending(o)
      PROVE  \A p \in Ops : Pending(p) /\ p # o => inbox'[p[1]] = inbox[p[1]]
  <2> SUFFICES ASSUME NEW p \in Ops, Pending(p), p # o
               PROVE  inbox'[p[1]] = inbox[p[1]]
    OBVIOUS
  <2>1. p[1] # o[1] /\ p[1] \in Sessions /\ o[1] \in Sessions
    BY <1>c, <1>d, OpsPair
  <2> QED
    BY <1>d, <1>a, <2>1 DEF Reply
\* A signal leaves an inbox that holds only signals so.
<1>e. ASSUME NEW i, NEW c \in Codes, EmitFinished(i, c), NEW s \in Sessions,
             \A k \in DOMAIN inbox[s] : inbox[s][k].kind = "finished"
      PROVE  \A k \in DOMAIN inbox'[s] : inbox'[s][k].kind = "finished"
  <2>1. Msg("finished", c) \in Messages /\ Msg("finished", c).kind = "finished"
    BY MsgType DEF Kinds
  <2>2. inbox'[s] = inbox[s] \/ inbox'[s] = Append(inbox[s], Msg("finished", c))
    BY <1>e DEF EmitFinished
  <2>3. inbox[s] \in Seq(Messages)
    BY <1>a
  <2>4. \A k \in DOMAIN Append(inbox[s], Msg("finished", c)) :
          \/ /\ k \in DOMAIN inbox[s]
             /\ Append(inbox[s], Msg("finished", c))[k] = inbox[s][k]
          \/ Append(inbox[s], Msg("finished", c))[k] = Msg("finished", c)
    BY <2>1, <2>3, AppendFacts
  <2> QED
    BY <1>e, <2>1, <2>2, <2>4
<1>f. \A k \in Kinds, c \in Codes : Msg(k, c) \in Messages
  BY MsgType
<1>g. 0 \in Codes /\ 1 \in Codes /\ {"started", "busy", "error", "result", "finished"} = Kinds
  BY DEF Codes, Kinds
<1>h. stage # "none" => Pending(handler)
  BY DEF Pending
<1>1. CASE Activate
  BY <1>1 DEF Activate, CallInv, Pending
<1>2. CASE Dispatch
  <2> DEFINE o == Head(calls)
  <2>1. /\ calls # <<>> /\ calls' = Tail(calls) /\ stage = "none" /\ up
        /\ UNCHANGED <<lockVars, side, clientVars, exit>>
    BY <1>2 DEF Dispatch, LoopFree
  <2>2. /\ o \in Ops /\ o = calls[1] /\ 1 \in DOMAIN calls
        /\ \A i \in DOMAIN calls' : i + 1 \in DOMAIN calls /\ calls'[i] = calls[i + 1]
                                   /\ i \in Nat /\ i # 0
    BY <2>1, <1>a, HeadTail
  <2>3. \A i \in DOMAIN calls' : calls'[i] # o
    BY <2>2 DEF CallInv
  <2>4. \A i, j \in DOMAIN calls' : calls'[i] = calls'[j] => i = j
    BY <2>2 DEF CallInv
  <2>5. Pending(o)
    BY <2>2 DEF Pending
  <2>6. \A p \in Ops : Pending(p)' => Pending(p)
    BY <1>2, <2>1, <2>2 DEF Pending, Dispatch
  <2>7. CASE UNCHANGED loopVars
    <3>1. \E m \in Messages : Reply(o, m)
      BY <1>2, <1>f, <1>g, <2>1, <2>7 DEF Dispatch
    <3>2. \A p \in Ops : Pending(p)' => p # o
      BY <2>1, <2>3, <2>7 DEF Pending
    <3>3. \A p \in Ops : Pending(p)' => inbox'[p[1]] = inbox[p[1]]
      BY <1>d, <2>2, <2>5, <2>6, <3>1, <3>2
    <3>4. stage' = "none" /\ stage = "none"
      BY <2>1, <2>7
    <3>5. \A p \in Ops :
            (\/ p[2] > cur'[p[1]]
             \/ p[2] = cur'[p[1]] /\ at'[p[1]] = "open"
             \/ Pending(p)')
            => exit'[p] = None /\ p \notin streams' /\ p \notin side'
      BY <2>1, <2>6 DEF CallInv
    <3>6. \A p \in Ops : Pending(p)' =>
            /\ at'[p[1]] = "called"
            /\ cur'[p[1]] = p[2]
            /\ \A k \in DOMAIN inbox'[p[1]] : inbox'[p[1]][k].kind = "finished"
      <4> SUFFICES ASSUME NEW p \in Ops, Pending(p)'
                   PROVE  /\ at'[p[1]] = "called"
                          /\ cur'[p[1]] = p[2]
                          /\ \A k \in DOMAIN inbox'[p[1]] : inbox'[p[1]][k].kind = "finished"
        OBVIOUS
      <4>1. Pending(p) /\ inbox'[p[1]] = inbox[p[1]]
        BY <2>6, <3>3
      <4>2. /\ at[p[1]] = "called" /\ cur[p[1]] = p[2]
            /\ \A k \in DOMAIN inbox[p[1]] : inbox[p[1]][k].kind = "finished"
        BY <4>1 DEF CallInv
      <4> QED
        BY <2>1, <4>1, <4>2
    <3>7. \A u \in Sessions : at'[u] = "open" => cur'[u] \in DOMAIN Plans[u]
      BY <2>1 DEF CallInv
    <3>8. /\ \A p \in streams' \cup side' : exit'[p] = None
          /\ \A p \in side' : Method(p) \in Side
      BY <2>1 DEF CallInv
    <3> QED
      BY <2>4, <3>4, <3>5, <3>6, <3>7, <3>8 DEF CallInv
  <2>8. CASE stage' = "auth" /\ handler' = o /\ inbox' = inbox
    BY <2>1, <2>3, <2>4, <2>6, <2>8 DEF CallInv
  <2> QED
    BY <1>2, <2>7, <2>8 DEF Dispatch
\* The handler leaves the loop: its call is no longer pending.
<1>i. ASSUME stage # "none", Leave, calls' = calls
      PROVE  /\ \A p \in Ops : Pending(p)' => Pending(p) /\ p # handler
             /\ stage' = "none" /\ handler \in Ops /\ Pending(handler)
             /\ at[handler[1]] = "called" /\ cur[handler[1]] = handler[2]
  BY <1>i, <1>b, <1>h DEF Leave, Pending, CallInv
<1>3. CASE Refuse
  <2>1. \A p \in Ops : Pending(p)' => inbox'[p[1]] = inbox[p[1]]
    BY <1>3, <1>d, <1>f, <1>g, <1>i DEF Refuse
  <2> QED
    BY <1>3, <1>i, <2>1 DEF Refuse, CallInv
<1>4. CASE StartStreaming
  <2>1. \A p \in Ops : Pending(p)' => inbox'[p[1]] = inbox[p[1]]
    BY <1>4, <1>d, <1>f, <1>g, <1>i DEF StartStreaming
  <2>2. exit[handler] = None
    BY <1>4, <1>i DEF StartStreaming, CallInv
  <2> QED
    BY <1>4, <1>a, <1>i, <2>1, <2>2, OpsPair DEF StartStreaming, CallInv
<1>5. CASE StartSide
  <2>1. \A p \in Ops : Pending(p)' => inbox'[p[1]] = inbox[p[1]]
    BY <1>5, <1>d, <1>f, <1>g, <1>i DEF StartSide
  <2>2. exit[handler] = None
    BY <1>5, <1>i DEF StartSide, CallInv
  <2> QED
    BY <1>5, <1>a, <1>i, <2>1, <2>2, OpsPair DEF StartSide, CallInv
<1>6. CASE SpawnFails
  <2>1. \A p \in Ops : Pending(p)' => inbox'[p[1]] = inbox[p[1]]
    BY <1>6, <1>d, <1>f, <1>g, <1>i DEF SpawnFails
  <2> QED
    BY <1>6, <1>i, <2>1 DEF SpawnFails, CallInv
<1>7. CASE StartBlocking
  <2>1. \A p \in Ops : Pending(p)' <=> Pending(p)
    BY <1>7 DEF StartBlocking, Pending
  <2>2. exit[handler] = None /\ handler \notin streams /\ handler \notin side
    BY <1>7, <1>b, <1>h DEF StartBlocking, CallInv
  <2> QED
    BY <1>7, <2>1, <2>2 DEF StartBlocking, CallInv
<1>8. CASE FinishBlocking
  <2>1. \A p \in Ops : Pending(p)' => inbox'[p[1]] = inbox[p[1]]
    BY <1>8, <1>d, <1>f, <1>g, <1>i DEF FinishBlocking
  <2>2. \A p \in Ops : p # handler => exit'[p] = exit[p]
    BY <1>8, <1>a, <1>b DEF FinishBlocking
  <2>3. handler \notin streams /\ handler \notin side
    BY <1>8 DEF FinishBlocking, CallInv
  <2> QED
    BY <1>8, <1>a, <1>i, <2>1, <2>2, <2>3, OpsPair DEF FinishBlocking, CallInv
<1>9. CASE StreamDone
  <2>1. PICK o \in streams, code \in Codes :
          /\ streams' = streams \ {o}
          /\ exit' = [exit EXCEPT ![o] = code]
          /\ EmitFinished("Software", code)
    BY <1>9 DEF StreamDone
  <2>2. \A p \in Ops : Pending(p)' <=> Pending(p)
    BY <1>9 DEF StreamDone, Pending
  <2>3. \A p \in Ops : p # o => exit'[p] = exit[p]
    BY <1>a, <2>1
  <2>4. o \notin side
    BY KindsDisjoint DEF CallInv, LockInv
  <2>5. \A p \in Ops : Pending(p)' => \A k \in DOMAIN inbox'[p[1]] : inbox'[p[1]][k].kind = "finished"
    BY <1>e, <2>1, <2>2, OpsPair DEF CallInv
  <2>6. /\ calls' = calls /\ stage' = "none" /\ stage = "none"
        /\ UNCHANGED clientVars
        /\ streams' \subseteq streams /\ side' \subseteq side
        /\ o \notin streams' /\ o \notin side' /\ o \in Ops
    BY <1>9, <1>a, <2>1, <2>4 DEF StreamDone, LoopFree
  <2>7. \A p \in Ops :
          (\/ p[2] > cur'[p[1]]
           \/ p[2] = cur'[p[1]] /\ at'[p[1]] = "open"
           \/ Pending(p)')
          => exit'[p] = None /\ p \notin streams' /\ p \notin side'
    BY <2>2, <2>3, <2>6 DEF CallInv
  <2>8. /\ \A p \in streams' \cup side' : exit'[p] = None
        /\ \A p \in side' : Method(p) \in Side
    BY <1>a, <2>3, <2>6 DEF CallInv
  <2>9. \A p \in Ops : Pending(p)' => at'[p[1]] = "called" /\ cur'[p[1]] = p[2]
    BY <2>2, <2>6 DEF CallInv
  <2>10. /\ \A u \in Sessions : at'[u] = "open" => cur'[u] \in DOMAIN Plans[u]
         /\ \A i, j \in DOMAIN calls' : calls'[i] = calls'[j] => i = j
    BY <2>6 DEF CallInv
  <2> QED
    BY <2>5, <2>6, <2>7, <2>8, <2>9, <2>10 DEF CallInv
<1>10. CASE SideDone
  <2>1. PICK o \in side, code \in Codes :
          /\ side' = side \ {o}
          /\ exit' = [exit EXCEPT ![o] = code]
          /\ EmitFinished(Iface(o), code)
    BY <1>10 DEF SideDone
  <2>2. \A p \in Ops : Pending(p)' <=> Pending(p)
    BY <1>10 DEF SideDone, Pending
  <2>3. \A p \in Ops : p # o => exit'[p] = exit[p]
    BY <1>a, <2>1
  <2>4. o \notin streams
    BY KindsDisjoint DEF CallInv, LockInv
  <2>5. \A p \in Ops : Pending(p)' => \A k \in DOMAIN inbox'[p[1]] : inbox'[p[1]][k].kind = "finished"
    BY <1>e, <2>1, <2>2, OpsPair DEF CallInv
  <2>6. /\ calls' = calls /\ stage' = "none" /\ stage = "none"
        /\ UNCHANGED clientVars
        /\ streams' \subseteq streams /\ side' \subseteq side
        /\ o \notin streams' /\ o \notin side' /\ o \in Ops
    BY <1>10, <1>a, <2>1, <2>4 DEF SideDone, LoopFree
  <2>7. \A p \in Ops :
          (\/ p[2] > cur'[p[1]]
           \/ p[2] = cur'[p[1]] /\ at'[p[1]] = "open"
           \/ Pending(p)')
          => exit'[p] = None /\ p \notin streams' /\ p \notin side'
    BY <2>2, <2>3, <2>6 DEF CallInv
  <2>8. /\ \A p \in streams' \cup side' : exit'[p] = None
        /\ \A p \in side' : Method(p) \in Side
    BY <1>a, <2>3, <2>6 DEF CallInv
  <2>9. \A p \in Ops : Pending(p)' => at'[p[1]] = "called" /\ cur'[p[1]] = p[2]
    BY <2>2, <2>6 DEF CallInv
  <2>10. /\ \A u \in Sessions : at'[u] = "open" => cur'[u] \in DOMAIN Plans[u]
         /\ \A i, j \in DOMAIN calls' : calls'[i] = calls'[j] => i = j
    BY <2>6 DEF CallInv
  <2> QED
    BY <2>5, <2>6, <2>7, <2>8, <2>9, <2>10 DEF CallInv
<1>11. CASE IdleExit
  <2>1. \A p \in Ops : ~Pending(p)'
    BY <1>11 DEF IdleExit, LoopFree, Pending
  <2>2. calls' = <<>> /\ DOMAIN calls' = {}
    BY <1>11 DEF IdleExit
  <2> QED
    BY <1>11, <2>1, <2>2 DEF IdleExit, LoopFree, CallInv
<1>12. ASSUME NEW s \in Sessions, Call(s) PROVE CallInv'
  <2> DEFINE o == <<s, cur[s]>>
  <2>1. o \in Ops /\ o[1] = s /\ o[2] = cur[s] /\ at[s] = "open"
    BY <1>12, OpsPair DEF Call, CallInv
  <2>2. /\ calls' = Append(calls, o)
        /\ \A i \in DOMAIN calls' :
              \/ i \in DOMAIN calls /\ calls'[i] = calls[i]
              \/ i = Len(calls) + 1 /\ i \notin DOMAIN calls /\ calls'[i] = o
    BY <1>12, <1>a, <2>1, AppendFacts DEF Call
  <2>3. \A p \in Ops : Pending(p) => p[1] # s
    BY <2>1 DEF CallInv
  <2>4. \A p \in Ops : Pending(p)' => Pending(p) \/ p = o
    BY <1>12, <2>2 DEF Call, Pending
  <2>5. \A i \in DOMAIN calls : calls[i] \in Ops /\ Pending(calls[i])
    BY <1>a DEF Pending
  <2>6. /\ at' = [at EXCEPT ![s] = "called"] /\ inbox' = [inbox EXCEPT ![s] = <<>>]
        /\ UNCHANGED <<cur, stage, handler, streams, side, exit>>
    BY <1>12 DEF Call
  <2>7. \A p \in Ops : Pending(p)' =>
          /\ at'[p[1]] = "called"
          /\ cur'[p[1]] = p[2]
          /\ \A k \in DOMAIN inbox'[p[1]] : inbox'[p[1]][k].kind = "finished"
    BY <1>a, <2>1, <2>3, <2>4, <2>6, OpsPair DEF CallInv
  <2>8. \A i, j \in DOMAIN calls' : calls'[i] = calls'[j] => i = j
    BY <2>1, <2>2, <2>3, <2>5 DEF CallInv
  <2>9. stage' # "none" => \A i \in DOMAIN calls' : calls'[i] # handler'
    BY <1>b, <1>h, <2>1, <2>2, <2>3, <2>6 DEF CallInv
  <2>10. \A p \in Ops : at'[p[1]] = "open" => at[p[1]] = "open"
    BY <1>a, <2>6, OpsPair
  <2>11. \A u \in Sessions : at'[u] = "open" => cur'[u] \in DOMAIN Plans[u]
    BY <1>a, <2>6 DEF CallInv
  <2> QED
    BY <2>1, <2>4, <2>6, <2>7, <2>8, <2>9, <2>10, <2>11 DEF CallInv
<1>13. ASSUME NEW s \in Sessions, Receive(s) PROVE CallInv'
  <2>1. /\ inbox[s] # <<>> /\ inbox[s] \in Seq(Messages)
        /\ inbox' = [inbox EXCEPT ![s] = Tail(inbox[s])]
        /\ UNCHANGED <<cur, calls, stage, handler, streams, side, exit>>
    BY <1>13, <1>a DEF Receive
  <2>2. /\ Head(inbox[s]) = inbox[s][1] /\ 1 \in DOMAIN inbox[s]
        /\ \A k \in DOMAIN Tail(inbox[s]) :
              k + 1 \in DOMAIN inbox[s] /\ Tail(inbox[s])[k] = inbox[s][k + 1]
    BY <2>1, HeadTail
  <2>3. \A p \in Ops : Pending(p)' <=> Pending(p)
    BY <2>1 DEF Pending
  <2>4. ASSUME NEW p \in Ops, Pending(p), p[1] = s
        PROVE  at' = at /\ \A k \in DOMAIN inbox'[s] : inbox'[s][k].kind = "finished"
    <3>1. \A k \in DOMAIN inbox[s] : inbox[s][k].kind = "finished"
      BY <2>4 DEF CallInv
    <3>2. at' = at
      BY <1>13, <2>2, <3>1 DEF Receive, GiveUp
    <3>3. inbox'[s] = Tail(inbox[s])
      BY <1>a, <2>1
    <3> QED
      BY <2>2, <3>1, <3>2, <3>3
  <2>5. \A u \in Sessions : u # s => at'[u] = at[u] /\ inbox'[u] = inbox[u]
    BY <1>13, <1>a, <2>1 DEF Receive, GiveUp
  <2>6. at'[s] # "open"
    BY <1>13, <1>a DEF Receive, GiveUp
  <2>7. \A p \in Ops : Pending(p)' =>
          /\ at'[p[1]] = "called"
          /\ cur'[p[1]] = p[2]
          /\ \A k \in DOMAIN inbox'[p[1]] : inbox'[p[1]][k].kind = "finished"
    <3> SUFFICES ASSUME NEW p \in Ops, Pending(p)
                 PROVE  /\ at'[p[1]] = "called"
                        /\ cur'[p[1]] = p[2]
                        /\ \A k \in DOMAIN inbox'[p[1]] : inbox'[p[1]][k].kind = "finished"
      BY <2>3
    <3>1. p[1] \in Sessions
      BY OpsPair
    <3>2. /\ at[p[1]] = "called" /\ cur[p[1]] = p[2]
          /\ \A k \in DOMAIN inbox[p[1]] : inbox[p[1]][k].kind = "finished"
      BY DEF CallInv
    <3>3. CASE p[1] = s
      BY <2>1, <2>4, <3>2, <3>3
    <3>4. CASE p[1] # s
      BY <2>1, <2>5, <3>1, <3>2, <3>4
    <3> QED
      BY <3>3, <3>4
  <2>8. \A u \in Sessions : at'[u] = "open" => at[u] = "open"
    BY <2>5, <2>6
  <2> QED
    BY <2>1, <2>3, <2>7, <2>8, OpsPair DEF CallInv
<1>14. ASSUME NEW s \in Sessions, Return(s) PROVE CallInv'
  <2>1. /\ at[s] = "await" /\ inbox' = [inbox EXCEPT ![s] = <<>>]
        /\ UNCHANGED <<calls, stage, handler, streams, side, exit>>
    BY <1>14 DEF Return
  <2>2. \/ /\ cur[s] < Len(Plans[s])
           /\ cur' = [cur EXCEPT ![s] = cur[s] + 1]
           /\ at' = [at EXCEPT ![s] = "open"]
        \/ /\ at' = [at EXCEPT ![s] = "done"]
           /\ cur' = cur
    BY <1>14 DEF Return
  <2>3. \A p \in Ops : Pending(p)' <=> Pending(p)
    BY <2>1 DEF Pending
  <2>4. \A p \in Ops : Pending(p) => p[1] # s
    BY <2>1 DEF CallInv
  <2>5. \A u \in Sessions : u # s => at'[u] = at[u] /\ inbox'[u] = inbox[u] /\ cur'[u] = cur[u]
    BY <1>a, <2>1, <2>2
  <2>6. at'[s] = "open" => cur'[s] = cur[s] + 1 /\ cur'[s] \in DOMAIN Plans[s]
    <3>1. Plans[s] \in Seq(Methods) /\ cur[s] \in Nat
      BY PlansAssumption, <1>a
    <3> QED
      BY <1>a, <2>2, <3>1
  <2>7. at'[s] # "open" => cur'[s] = cur[s]
    BY <1>a, <2>2
  <2>8. cur[s] \in Nat
    BY <1>a
  <2>9. \A p \in Ops : \/ p[2] > cur'[p[1]]
                       \/ p[2] = cur'[p[1]] /\ at'[p[1]] = "open"
          => \/ p[2] > cur[p[1]]
             \/ p[2] = cur[p[1]] /\ at[p[1]] = "open"
    BY <2>5, <2>6, <2>7, <2>8, OpsPair
  <2>10. \A p \in Ops : Pending(p)' =>
          /\ at'[p[1]] = "called"
          /\ cur'[p[1]] = p[2]
          /\ \A k \in DOMAIN inbox'[p[1]] : inbox'[p[1]][k].kind = "finished"
    BY <2>3, <2>4, <2>5, OpsPair DEF CallInv
  <2>11. \A p \in Ops :
          (\/ p[2] > cur'[p[1]]
           \/ p[2] = cur'[p[1]] /\ at'[p[1]] = "open"
           \/ Pending(p)' /\ ~(stage' = "run" /\ handler' = p))
          => exit'[p] = None /\ p \notin streams' /\ p \notin side'
    BY <2>1, <2>3, <2>9 DEF CallInv
  <2>12. \A u \in Sessions : at'[u] = "open" => cur'[u] \in DOMAIN Plans[u]
    BY <2>5, <2>6 DEF CallInv
  <2>13. /\ \A i, j \in DOMAIN calls' : calls'[i] = calls'[j] => i = j
         /\ stage' # "none" => \A i \in DOMAIN calls' : calls'[i] # handler'
         /\ stage' = "run" => exit'[handler'] = None /\ handler' \notin streams' /\ handler' \notin side'
         /\ \A p \in streams' \cup side' : exit'[p] = None
         /\ \A p \in side' : Method(p) \in Side
    BY <2>1 DEF CallInv
  <2> QED
    BY <2>10, <2>11, <2>12, <2>13 DEF CallInv
<1>15. CASE Tick \/ Upgrade \/ External
  BY <1>15 DEF Tick, Upgrade, External, CallInv, Pending
<1>16. CASE UNCHANGED vars
  BY <1>16 DEF vars, CallInv, Pending
<1> QED
  BY <1>1, <1>2, <1>3, <1>4, <1>5, <1>6, <1>7, <1>8, <1>9, <1>10, <1>11,
     <1>12, <1>13, <1>14, <1>15, <1>16
  DEF Next, Backend, Frontend

\* Inv is an invariant.
THEOREM Invariance == Spec => []Inv
<1>1. Inv /\ [Next]_vars => Inv'
  BY TypeStep, LockStep, CallStep DEF Inv
<1> QED
  BY InitInv, <1>1, PTL DEF Spec

\* Type correctness of the service and its frontends, for every set of sessions
\* and every plan.
THEOREM BackendTypeCorrect == Spec => []TypeOK
<1>1. Inv => TypeOK
  BY DEF Inv
<1> QED
  BY Invariance, <1>1, PTL

\* SoftwareService never has two package operations in progress.
THEOREM MutualExclusion == Spec => []OneOperation
<1>1. Inv => OneOperation
  BY DEF Inv, LockInv, OneOperation, Running
<1> QED
  BY Invariance, <1>1, PTL

\* The service never ends a package operation before its command has ended:
\* _should_exit holds only when nothing is streamed.
THEOREM NeverCut == Spec => MergeNeverCut
<1>1. ASSUME Inv, [Next]_vars
      PROVE  \A o \in streams : o \notin streams' => exit'[o] # None
  <2> USE <1>1 DEF Inv, loopVars, lockVars, envVars, clientVars
  <2>1. CASE StreamDone
    <3>1. PICK o \in streams, code \in Codes :
            streams' = streams \ {o} /\ exit' = [exit EXCEPT ![o] = code]
      BY <2>1 DEF StreamDone
    <3>2. exit'[o] = code /\ code # None
      BY <3>1, PlansAssumption DEF TypeOK
    <3> QED
      BY <3>1, <3>2
  <2>2. CASE IdleExit
    BY <2>2 DEF IdleExit, ShouldExit, LockInv
  <2>3. CASE StartStreaming
    BY <2>3 DEF StartStreaming
  <2>4. CASE \/ Activate \/ Dispatch \/ Refuse \/ StartSide \/ SpawnFails
             \/ StartBlocking \/ FinishBlocking \/ SideDone
    BY <2>4 DEF Activate, Dispatch, Refuse, StartSide, SpawnFails, StartBlocking,
                FinishBlocking, SideDone
  <2>5. ASSUME NEW s \in Sessions, Frontend(s) PROVE streams' = streams
    BY <2>5 DEF Frontend, Call, Receive, Return
  <2>6. CASE Tick \/ Upgrade \/ External \/ UNCHANGED vars
    BY <2>6 DEF Tick, Upgrade, External, vars
  <2> QED
    BY <2>1, <2>2, <2>3, <2>4, <2>5, <2>6 DEF Next, Backend
<1>2. Inv /\ [Next]_vars
        => [\A o \in streams : o \notin streams' => exit'[o] # None]_vars
  BY <1>1
<1> QED
  BY Invariance, <1>2, PTL DEF Spec, MergeNeverCut

\* The ended operations of the refinement mapping.
Ended == {o \in Ops : IsPackage(o) /\ exit[o] # None}

\* SoftwareService implements PackageLock: each step takes the free lock for an
\* operation that has not run, gives it up for the operation that has just
\* ended, or leaves it alone.
THEOREM LockImplemented == Spec => ImplementsLock
<1>1. Init => Lock!LockInit
  BY DEF Init, Lock!LockInit
<1>2. ASSUME Inv, [Next]_vars
      PROVE  \/ Lock!LockNext
             \/ operation' = operation /\ Ended' = Ended
  <2> USE <1>2 DEF Inv, loopVars, lockVars, envVars, clientVars
  <2>a. exit \in [Ops -> Codes \cup {None}]
    BY DEF TypeOK
  <2>b. exit' = exit => Ended' = Ended
    BY DEF Ended, IsPackage, Method
  \* Taking the lock.
  <2>c. ASSUME stage = "auth", IsPackage(handler), BeginOp(handler), exit' = exit
        PROVE  Lock!LockNext
    <3>1. handler \in Ops /\ active = 0 /\ operation = None
      BY <2>c DEF LockInv
    <3>2. exit[handler] = None
      BY <2>c, <3>1 DEF CallInv, Pending
    <3>3. Ended' = Ended /\ handler \notin Ended
      BY <2>c, <2>b, <3>2 DEF Ended
    <3>4. Lock!Acquire(handler)
      BY <2>c, <3>1, <3>3 DEF Lock!Acquire, BeginOp, Ended
    <3> QED
      BY <2>c, <3>1, <3>4 DEF Lock!LockNext
  \* Giving it up.
  <2>d. ASSUME NEW o \in Ops, NEW code \in Codes, IsPackage(o), active = 1,
               operation = o, EndOp, exit' = [exit EXCEPT ![o] = code]
        PROVE  Lock!LockNext
    <3>1. operation # None /\ operation' = None /\ code # None
      BY <2>d, PlansAssumption DEF EndOp
    <3>2. Ended' = Ended \cup {o}
      BY <2>a, <2>d, <3>1 DEF Ended, IsPackage, Method
    <3>3. Lock!Release
      BY <2>d, <3>1, <3>2 DEF Lock!Release, Ended
    <3> QED
      BY <3>3 DEF Lock!LockNext
  <2>1. CASE Activate
    BY <2>1, <2>b DEF Activate, LockInv
  <2>2. CASE Dispatch \/ Refuse \/ StartSide \/ IdleExit
    BY <2>2, <2>b DEF Dispatch, Refuse, StartSide, IdleExit
  <2>3. CASE StartStreaming
    BY <2>3, <2>c, KindsDisjoint DEF StartStreaming
  <2>4. CASE SpawnFails
    BY <2>4, <2>b, <2>c, KindsDisjoint DEF SpawnFails
  <2>5. CASE StartBlocking
    BY <2>5, <2>b, <2>c DEF StartBlocking
  <2>6. CASE FinishBlocking
    <3>1. PICK code \in Codes : exit' = [exit EXCEPT ![handler] = code]
      BY <2>6 DEF FinishBlocking
    <3>2. handler \in Ops
      BY <2>6 DEF FinishBlocking, LockInv
    <3>3. CASE IsPackage(handler)
      BY <2>6, <2>d, <3>1, <3>2, <3>3 DEF FinishBlocking, LockInv
    <3>4. CASE ~IsPackage(handler)
      <4>1. operation' = operation
        BY <2>6, <3>4 DEF FinishBlocking
      <4>2. Ended' = Ended
        BY <2>a, <3>1, <3>2, <3>4 DEF Ended, IsPackage, Method
      <4> QED
        BY <4>1, <4>2
    <3> QED
      BY <3>3, <3>4
  <2>7. CASE StreamDone
    <3>1. PICK o \in streams, code \in Codes :
            exit' = [exit EXCEPT ![o] = code] /\ EndOp
      BY <2>7 DEF StreamDone
    <3>2. o \in Ops /\ IsPackage(o) /\ active = 1 /\ operation = o
      BY DEF LockInv, TypeOK
    <3> QED
      BY <2>d, <3>1, <3>2
  <2>8. CASE SideDone
    <3>1. PICK o \in side, code \in Codes : exit' = [exit EXCEPT ![o] = code]
      BY <2>8 DEF SideDone
    <3>2. o \in Ops /\ ~IsPackage(o)
      BY KindsDisjoint DEF CallInv, TypeOK
    <3>3. Ended' = Ended
      BY <2>a, <3>1, <3>2 DEF Ended, IsPackage, Method
    <3> QED
      BY <2>8, <3>3 DEF SideDone
  <2>9. ASSUME NEW s \in Sessions, Frontend(s)
        PROVE  operation' = operation /\ Ended' = Ended
    BY <2>9, <2>b DEF Frontend, Call, Receive, Return
  <2>10. CASE Tick \/ Upgrade \/ External \/ UNCHANGED vars
    BY <2>10, <2>b DEF Tick, Upgrade, External, vars
  <2> QED
    BY <2>1, <2>2, <2>3, <2>4, <2>5, <2>6, <2>7, <2>8, <2>9, <2>10 DEF Next, Backend
<1>3. Inv /\ [Next]_vars
        => [Lock!LockNext]_<<operation, {o \in Ops : IsPackage(o) /\ exit[o] # None}>>
  BY <1>2 DEF Ended
<1> QED
  BY Invariance, <1>1, <1>3, PTL DEF Spec, ImplementsLock, Lock!LockSpec
-----------------------------------------------------------------------------
(* What a refusal says. *)

\* Nothing of the operation has been started, and nothing will be.
Unstarted(o) == ~Pending(o) /\ exit[o] = None /\ o \notin streams \cup side

\* A refusal is about the session's current operation, which has started
\* nothing; a Finished may be another session's.
Fits(s, m) ==
    /\ <<s, cur[s]>> \in Ops
    /\ m.kind \in {"busy", "error"} => Unstarted(<<s, cur[s]>>)

MessagesFit == \A s \in Sessions : \A k \in DOMAIN inbox[s] : Fits(s, inbox[s][k])

\* A session that has reported is done; one that is not done is in its plan.
Decided ==
    \A s \in Sessions :
        /\ verdict[s] # "none" => at[s] = "done"
        /\ at[s] # "done" => cur[s] \in DOMAIN Plans[s]

RefusedTruly ==
    \A s \in Sessions : verdict[s] \in {"busy", "notStarted"} =>
        <<s, cur[s]>> \in Ops /\ Unstarted(<<s, cur[s]>>)

\* A query is answered at once: no handler runs it and nothing is started.
Current ==
    /\ \A o \in streams : Method(o) \in Streaming
    /\ stage # "none" => Method(handler) \notin Queries
    /\ \A o \in Ops : Method(o) \in Queries => exit[o] = None

RefusalInv == MessagesFit /\ Decided /\ RefusedTruly /\ Current

\* A step of the service that starts and ends only operations called or under
\* way, and refuses only what it has not started, keeps every refusal true.
LEMMA Frame ==
    ASSUME Inv, Inv', RefusalInv, UNCHANGED clientVars,
           \A o \in Ops : Pending(o)' => Pending(o),
           \A o \in streams' \cup side' : o \in streams \cup side \/ Pending(o),
           \A o \in Ops : exit'[o] # exit[o] =>
              Method(o) \notin Queries /\ (Pending(o) \/ o \in streams \cup side),
           \A o \in streams' : Method(o) \in Streaming,
           stage' # "none" => Method(handler') \notin Queries,
           \A s \in Sessions : \A k \in DOMAIN inbox'[s] :
              \/ k \in DOMAIN inbox[s] /\ inbox'[s][k] = inbox[s][k]
              \/ \E m \in Messages : inbox'[s][k] = m /\ Fits(s, m)'
    PROVE  RefusalInv'
<1>a. /\ inbox \in [Sessions -> Seq(Messages)] /\ UNCHANGED <<at, cur, got, overall, verdict>>
      /\ streams' \cup side' \subseteq Ops
  BY PlansAssumption DEF Inv, TypeOK, clientVars
<1>1. \A o \in Ops : Unstarted(o) => Unstarted(o)'
  BY DEF Unstarted
<1>3. \A s \in Sessions, m \in Messages : Fits(s, m) => Fits(s, m)'
  BY <1>a, <1>1 DEF Fits
<1>4. MessagesFit'
  <2>1. ASSUME NEW s \in Sessions, NEW k \in DOMAIN inbox'[s]
        PROVE  \E m \in Messages : inbox'[s][k] = m /\ Fits(s, m)'
    <3>1. CASE k \in DOMAIN inbox[s] /\ inbox'[s][k] = inbox[s][k]
      <4>1. PICK m \in Messages : m = inbox[s][k]
        BY <1>a, <3>1
      <4>2. Fits(s, m)
        BY <3>1, <4>1 DEF RefusalInv, MessagesFit
      <4> QED
        BY <1>3, <3>1, <4>1, <4>2
    <3> QED
      BY <2>1, <3>1
  <2> QED
    BY <2>1 DEF MessagesFit, Fits
<1>6. Decided'
  BY <1>a DEF RefusalInv, Decided
<1>7. RefusedTruly'
  BY <1>a, <1>1 DEF RefusalInv, RefusedTruly
<1>8. Current'
  BY <1>a DEF RefusalInv, Current, Inv, CallInv, Method
<1> QED
  BY <1>4, <1>6, <1>7, <1>8 DEF RefusalInv

\* What a reply adds to the inboxes.
LEMMA ReplyAdds ==
    ASSUME TypeOK, NEW o \in Ops, NEW m \in Messages, Reply(o, m), Fits(o[1], m)'
    PROVE  \A s \in Sessions : \A k \in DOMAIN inbox'[s] :
              \/ k \in DOMAIN inbox[s] /\ inbox'[s][k] = inbox[s][k]
              \/ \E n \in Messages : inbox'[s][k] = n /\ Fits(s, n)'
<1> SUFFICES ASSUME NEW s \in Sessions, NEW k \in DOMAIN inbox'[s],
                    ~(k \in DOMAIN inbox[s] /\ inbox'[s][k] = inbox[s][k])
             PROVE  inbox'[s][k] = m /\ Fits(s, m)'
  OBVIOUS
<1>1. o[1] \in Sessions /\ inbox \in [Sessions -> Seq(Messages)]
  BY OpsPair DEF TypeOK
<1>2. s = o[1] /\ inbox'[s] = Append(inbox[s], m)
  BY <1>1 DEF Reply
<1>3. inbox'[s][k] = m
  BY <1>1, <1>2, AppendFacts
<1> QED
  BY <1>2, <1>3

\* What a Finished adds to the inboxes.
LEMMA EmitAdds ==
    ASSUME TypeOK, NEW i, NEW c \in Codes, EmitFinished(i, c),
           NEW m \in Messages, m = Msg("finished", c), \A s \in Subscribed(i) : Fits(s, m)'
    PROVE  \A s \in Sessions : \A k \in DOMAIN inbox'[s] :
              \/ k \in DOMAIN inbox[s] /\ inbox'[s][k] = inbox[s][k]
              \/ \E n \in Messages : inbox'[s][k] = n /\ Fits(s, n)'
<1> SUFFICES ASSUME NEW s \in Sessions, NEW k \in DOMAIN inbox'[s],
                    ~(k \in DOMAIN inbox[s] /\ inbox'[s][k] = inbox[s][k])
             PROVE  inbox'[s][k] = m /\ Fits(s, m)'
  OBVIOUS
<1>1. inbox \in [Sessions -> Seq(Messages)]
  BY DEF TypeOK
<1>2. s \in Subscribed(i) /\ inbox'[s] = Append(inbox[s], m)
  BY <1>1 DEF EmitFinished
<1>3. inbox'[s][k] = m
  BY <1>1, <1>2, AppendFacts
<1> QED
  BY <1>2, <1>3

\* Nothing has been refused at the start.
LEMMA InitRefusal == Init => RefusalInv
<1> SUFFICES ASSUME Init PROVE RefusalInv
  OBVIOUS
<1> USE DEF Init
<1>1. \A s \in Sessions : Plans[s] # <<>> => 1 \in DOMAIN Plans[s]
  BY PlansAssumption
<1>4. MessagesFit
  BY DEF MessagesFit
<1>5. Decided /\ RefusedTruly
  BY <1>1 DEF Decided, RefusedTruly
<1>6. Current
  BY DEF Current
<1> QED
  BY <1>4, <1>5, <1>6 DEF RefusalInv

\* Every step keeps what the frontends are told when they are refused true.
LEMMA RefusalStep ==
    ASSUME Inv, Inv', RefusalInv, [Next]_vars
    PROVE  RefusalInv'
<1> USE DEF loopVars, lockVars, envVars, clientVars
<1>a. /\ exit \in [Ops -> Codes \cup {None}] /\ None \notin Codes
      /\ streams \subseteq Ops /\ side \subseteq Ops /\ calls \in Seq(Ops)
      /\ inbox \in [Sessions -> Seq(Messages)] /\ cur \in [Sessions -> Nat]
      /\ at \in [Sessions -> {"open", "called", "await", "done"}]
      /\ TypeOK
  BY PlansAssumption DEF Inv, TypeOK
<1>b. stage # "none" => handler \in Ops /\ Pending(handler)
  BY DEF Inv, LockInv, Pending
<1>c. \A i \in DOMAIN calls : calls[i] \in Ops /\ Pending(calls[i])
  BY <1>a DEF Pending
<1>d. \A o \in streams : Method(o) \in Streaming
  BY DEF RefusalInv, Current
<1>e. /\ \A k \in Kinds, c \in Codes : Msg(k, c) \in Messages /\ Msg(k, c).kind = k
      /\ \A k, c : Msg(k, c).code = c
      /\ Kinds = {"started", "busy", "error", "result", "finished"}
      /\ 0 \in Codes /\ 1 \in Codes
  BY MsgType DEF Kinds, Codes, Msg
<1>f. \A s \in Sessions : \A m : m.kind = "started" /\ <<s, cur'[s]>> \in Ops => Fits(s, m)'
  BY DEF Fits
<1>g. \A o \in Ops : Pending(o) => cur[o[1]] = o[2] /\ <<o[1], cur[o[1]]>> = o
  BY OpsPair DEF Inv, CallInv
<1>h. \A o \in Ops : (Method(o) \in Streaming \cup Blocking \cup News \cup Side)
                     => Method(o) \notin Queries
  BY DEF Streaming, Blocking, News, Side, Queries
<1>i. \A o \in Ops : Pending(o) /\ stage # "run"
                     => exit[o] = None /\ o \notin streams /\ o \notin side
  BY DEF Inv, CallInv
\* A handler leaves the loop: its call is no longer pending.
<1>j. ASSUME stage # "none", Leave, calls' = calls
      PROVE  /\ \A o \in Ops : Pending(o)' => Pending(o)
             /\ \A o \in Ops : o = handler => ~Pending(o)'
             /\ stage' = "none"
  BY <1>j, <1>b DEF Leave, Pending, Inv, CallInv
<1>1. CASE Activate
  BY <1>1, <1>a, <1>d, Frame DEF Activate, Pending, RefusalInv, Current
<1>2. CASE Dispatch
  <2>1. PICK o \in Ops : o = Head(calls) /\ calls # <<>> /\ o = calls[1] /\ 1 \in DOMAIN calls
    BY <1>2, <1>a, HeadTail DEF Dispatch
  <2>2. /\ Pending(o) /\ stage = "none" /\ calls' = Tail(calls)
        /\ UNCHANGED <<streams, side, exit, clientVars>>
    BY <1>2, <1>c, <2>1 DEF Dispatch, LoopFree
  <2>3. \A i \in DOMAIN calls' : i + 1 \in DOMAIN calls /\ calls'[i] = calls[i + 1] /\ calls'[i] # o
    <3>1. \A i \in DOMAIN calls' : i + 1 \in DOMAIN calls /\ calls'[i] = calls[i + 1] /\ i \in Nat /\ i # 0
      BY <1>a, <2>1, <2>2, HeadTail
    <3>2. \A i \in DOMAIN calls' : i + 1 # 1
      BY <3>1
    <3> QED
      BY <2>1, <3>1, <3>2 DEF Inv, CallInv
  <2>4. /\ \A p \in Ops : Pending(p)' => Pending(p)
        /\ stage' # "none" => Method(handler') \notin Queries
    BY <1>2, <2>1, <2>2, <2>3 DEF Dispatch, Pending
  <2>5. stage' = "none" => ~Pending(o)'
    BY <2>3 DEF Pending
  <2>6. /\ o[1] \in Sessions /\ <<o[1], cur'[o[1]]>> = o /\ exit'[o] = None
        /\ o \notin streams' /\ o \notin side'
    BY <1>g, <1>i, <2>2, OpsPair
  <2>7. \A s \in Sessions : \A k \in DOMAIN inbox'[s] :
              \/ k \in DOMAIN inbox[s] /\ inbox'[s][k] = inbox[s][k]
              \/ \E m \in Messages : inbox'[s][k] = m /\ Fits(s, m)'
    <3>1. CASE /\ Method(o) \in Queries /\ stage' = stage
               /\ Reply(o, Msg("result", IF Method(o) = "PackageStatus" /\ Busy THEN 1 ELSE 0))
      <4>1. PICK c \in Codes : Reply(o, Msg("result", c))
        BY <1>e, <3>1
      <4>2. PICK m \in Messages : m = Msg("result", c)
        BY <1>e
      <4>3. m.kind = "result"
        BY <1>e, <4>2
      <4>4. Fits(o[1], m)'
        BY <2>6, <4>3 DEF Fits
      <4> QED
        BY <1>a, <4>1, <4>2, <4>4, ReplyAdds
    <3>2. CASE Reply(o, Msg("busy", 0)) /\ stage' = stage
      <4>1. PICK m \in Messages : m = Msg("busy", 0)
        BY <1>e
      <4>2. m.kind = "busy"
        BY <1>e, <4>1
      <4>3. Fits(o[1], m)'
        BY <2>2, <2>5, <2>6, <3>2, <4>2 DEF Fits, Unstarted
      <4> QED
        BY <1>a, <3>2, <4>1, <4>3, ReplyAdds
    <3>3. CASE inbox' = inbox
      BY <3>3
    <3> QED
      BY <1>2, <2>1, <3>1, <3>2, <3>3 DEF Dispatch
  <2> QED
    BY <1>d, <2>2, <2>4, <2>7, Frame
<1>3. CASE Refuse
  <2>1. PICK o \in Ops : o = handler
    BY <1>3, <1>b DEF Refuse
  <2>2. PICK m \in Messages : m = Msg("error", 0)
    BY <1>e
  <2>3. m.kind = "error"
    BY <1>e, <2>2
  <2>4. /\ \A p \in Ops : Pending(p)' => Pending(p)
        /\ ~Pending(o)' /\ stage' = "none" /\ Pending(o)
        /\ UNCHANGED <<streams, side, exit, clientVars>>
    BY <1>3, <1>b, <1>j, <2>1 DEF Refuse, Pending
  <2>5. Fits(o[1], m)'
    BY <1>3, <1>g, <1>i, <2>3, <2>4 DEF Fits, Unstarted, Refuse
  <2>6. Reply(o, m)
    BY <1>3, <2>1, <2>2 DEF Refuse
  <2> QED
    BY <1>a, <1>d, <2>4, <2>5, <2>6, ReplyAdds, Frame
<1>4. CASE StartStreaming \/ StartSide \/ SpawnFails
  <2>1. PICK o \in Ops : o = handler
    BY <1>4, <1>b DEF StartStreaming, StartSide, SpawnFails
  <2>2. PICK m \in Messages : m = Msg("started", 0)
    BY <1>e
  <2>3. m.kind = "started"
    BY <1>e, <2>2
  <2>4. /\ \A p \in Ops : Pending(p)' => Pending(p)
        /\ stage' = "none" /\ Pending(o) /\ UNCHANGED <<exit, clientVars>>
    BY <1>4, <1>b, <1>j, <2>1 DEF StartStreaming, StartSide, SpawnFails
  <2>5. /\ \A p \in streams' \cup side' : p \in streams \cup side \/ p = o
        /\ \A p \in streams' : p \in streams \/ Method(p) \in Streaming
    BY <1>4, <2>1 DEF StartStreaming, StartSide, SpawnFails
  <2>6. Fits(o[1], m)'
    BY <1>f, <1>g, <2>3, <2>4, OpsPair
  <2>7. Reply(o, m) \/ inbox' = inbox
    BY <1>4, <2>1, <2>2 DEF StartStreaming, StartSide, SpawnFails
  <2>8. \A s \in Sessions : \A k \in DOMAIN inbox'[s] :
              \/ k \in DOMAIN inbox[s] /\ inbox'[s][k] = inbox[s][k]
              \/ \E n \in Messages : inbox'[s][k] = n /\ Fits(s, n)'
    BY <1>a, <2>6, <2>7, ReplyAdds
  <2> QED
    BY <1>d, <2>4, <2>5, <2>8, Frame
<1>5. CASE StartBlocking
  <2>1. \A p \in Ops : Pending(p)' => Pending(p)
    BY <1>5 DEF StartBlocking, Pending
  <2>2. Method(handler') \notin Queries
    BY <1>5, <1>b, <1>h DEF StartBlocking
  <2> QED
    BY <1>5, <1>d, <2>1, <2>2, Frame DEF StartBlocking
<1>6. CASE FinishBlocking
  <2>1. PICK o \in Ops : o = handler
    BY <1>6, <1>b DEF FinishBlocking
  <2>2. PICK c \in Codes : Reply(o, Msg("result", c)) /\ exit' = [exit EXCEPT ![o] = c]
    BY <1>6, <2>1 DEF FinishBlocking
  <2>3. PICK m \in Messages : m = Msg("result", c)
    BY <1>e
  <2>4. m.kind = "result" /\ m.code = c
    BY <1>e, <2>3
  <2>5. /\ \A p \in Ops : Pending(p)' => Pending(p)
        /\ stage' = "none" /\ Pending(o) /\ UNCHANGED <<streams, side, clientVars>>
    BY <1>6, <1>b, <1>j, <2>1 DEF FinishBlocking
  <2>6. exit[o] = None /\ Method(o) \notin Queries /\ exit'[o] = c
    BY <1>6, <1>a, <1>h, <2>1, <2>2 DEF FinishBlocking, Inv, CallInv, LockInv
  <2>7. \A p \in Ops : p # o => exit'[p] = exit[p]
    BY <1>a, <2>2
  <2>9. Fits(o[1], m)'
    BY <1>g, <2>4, <2>5 DEF Fits
  <2>10. Reply(o, m)
    BY <2>2, <2>3
  <2>11. \A s \in Sessions : \A k \in DOMAIN inbox'[s] :
              \/ k \in DOMAIN inbox[s] /\ inbox'[s][k] = inbox[s][k]
              \/ \E n \in Messages : inbox'[s][k] = n /\ Fits(s, n)'
    BY <1>a, <2>9, <2>10, ReplyAdds
  <2> QED
    BY <1>d, <2>5, <2>6, <2>7, <2>11, Frame
\* A Finished refuses nothing, whoever takes it for their own.
<1>k. ASSUME NEW o \in streams \cup side, NEW c \in Codes, NEW i, LoopFree,
             exit' = [exit EXCEPT ![o] = c],
             EmitFinished(i, c), UNCHANGED <<clientVars, calls, stage, handler>>,
             streams' \subseteq streams, side' \subseteq side
      PROVE  RefusalInv'
  <2>1. o \in Ops /\ Method(o) \notin Queries
    BY <1>a, <1>d, <1>h DEF Inv, CallInv
  <2>2. PICK m \in Messages : m = Msg("finished", c)
    BY <1>e
  <2>3. m.kind = "finished"
    BY <1>e, <2>2
  <2>5. \A p \in Ops : p # o => exit'[p] = exit[p]
    BY <1>a, <1>k
  <2>6. \A s \in Subscribed(i) : Fits(s, m)'
    <3> SUFFICES ASSUME NEW s \in Sessions, s \in Subscribed(i) PROVE Fits(s, m)'
      BY DEF Subscribed
    <3>1. <<s, cur[s]>> \in Ops
      BY OpsPair DEF Subscribed, RefusalInv, Decided
    <3> QED
      BY <1>k, <2>3, <3>1 DEF Fits
  <2>7. \A s \in Sessions : \A k \in DOMAIN inbox'[s] :
              \/ k \in DOMAIN inbox[s] /\ inbox'[s][k] = inbox[s][k]
              \/ \E n \in Messages : inbox'[s][k] = n /\ Fits(s, n)'
    BY <1>a, <1>k, <2>2, <2>6, EmitAdds
  <2>8. (\A p \in Ops : Pending(p)' => Pending(p)) /\ stage' = "none"
    BY <1>k DEF Pending, LoopFree
  <2> QED
    BY <1>d, <1>k, <2>1, <2>5, <2>7, <2>8, Frame
<1>7. CASE StreamDone
  <2>1. PICK o \in streams, c \in Codes : /\ streams' = streams \ {o}
                                          /\ exit' = [exit EXCEPT ![o] = c]
                                          /\ EmitFinished("Software", c)
    BY <1>7 DEF StreamDone
  <2>3. /\ LoopFree /\ UNCHANGED <<clientVars, calls, stage, handler>>
        /\ streams' \subseteq streams /\ side' \subseteq side /\ o \in streams \cup side
    BY <1>7, <2>1 DEF StreamDone
  <2> QED
    BY <1>k, <2>1, <2>3
<1>8. CASE SideDone
  BY <1>8, <1>k DEF SideDone
<1>9. CASE IdleExit
  <2>1. PICK m \in Messages : m = Msg("error", 0)
    BY <1>e
  <2>2. m.kind = "error"
    BY <1>e, <2>1
  <2>3. /\ \A p \in Ops : ~Pending(p)'
        /\ stage' = "none" /\ streams' = {} /\ side' = {} /\ UNCHANGED <<exit, clientVars>>
    BY <1>9 DEF IdleExit, LoopFree, Pending
  <2>4. ASSUME NEW s \in Sessions, NEW i \in DOMAIN calls, calls[i][1] = s
        PROVE  Fits(s, m)'
    <3>1. PICK o \in Ops : o = calls[i] /\ Pending(o) /\ o[1] = s
      BY <1>c, <2>4
    <3>2. <<s, cur'[s]>> = o /\ exit'[o] = None
      BY <1>9, <1>g, <1>i, <2>3, <3>1 DEF IdleExit, LoopFree
    <3> QED
      BY <2>2, <2>3, <3>2 DEF Fits, Unstarted
  <2>5. \A s \in Sessions : \A k \in DOMAIN inbox'[s] :
              \/ k \in DOMAIN inbox[s] /\ inbox'[s][k] = inbox[s][k]
              \/ \E n \in Messages : inbox'[s][k] = n /\ Fits(s, n)'
    <3> SUFFICES ASSUME NEW s \in Sessions, NEW k \in DOMAIN inbox'[s],
                        ~(k \in DOMAIN inbox[s] /\ inbox'[s][k] = inbox[s][k])
                 PROVE  inbox'[s][k] = m /\ Fits(s, m)'
      OBVIOUS
    <3>1. (\E i \in DOMAIN calls : calls[i][1] = s) /\ inbox'[s] = Append(inbox[s], m)
      BY <1>9, <2>1 DEF IdleExit
    <3>2. inbox'[s][k] = m
      BY <1>a, <3>1, AppendFacts
    <3> QED
      BY <2>4, <3>1, <3>2
  <2> QED
    BY <2>3, <2>5, Frame
<1>10. CASE Tick \/ Upgrade \/ External \/ UNCHANGED vars
  <2>1. /\ UNCHANGED <<clientVars, streams, side, exit, stage, handler, calls, inbox>>
    BY <1>10 DEF Tick, Upgrade, External, vars
  <2>2. \A p \in Ops : Pending(p)' => Pending(p)
    BY <2>1 DEF Pending
  <2> QED
    BY <1>d, <2>1, <2>2, Frame DEF RefusalInv, Current
<1>11. ASSUME NEW s \in Sessions, Call(s) PROVE RefusalInv'
  <2>1. PICK o \in Ops : o = <<s, cur[s]>> /\ at[s] = "open"
    BY <1>11, OpsPair DEF Call, Inv, CallInv
  <2>2. /\ at' = [at EXCEPT ![s] = "called"] /\ got' = [got EXCEPT ![s] = None]
        /\ inbox' = [inbox EXCEPT ![s] = <<>>] /\ calls' = Append(calls, o)
        /\ UNCHANGED <<stage, handler, streams, side, cur, overall, verdict, exit>>
    BY <1>11, <2>1 DEF Call
  <2>3. \A i \in DOMAIN calls' : calls'[i] = o \/ \E j \in DOMAIN calls : calls'[i] = calls[j]
    BY <1>a, <2>2, AppendFacts
  <2>4. \A p \in Ops : Pending(p)' => Pending(p) \/ p = o
    BY <2>2, <2>3 DEF Pending
  <2>5. \A u \in Sessions : u # s => at'[u] = at[u] /\ got'[u] = got[u] /\ inbox'[u] = inbox[u]
    BY <1>a, <2>2 DEF Inv, TypeOK
  <2>6. at'[s] = "called" /\ got'[s] = None /\ inbox'[s] = <<>>
    BY <1>a, <2>2 DEF Inv, TypeOK
  <2>7. \A u \in Sessions : u # s /\ Unstarted(<<u, cur[u]>>) /\ <<u, cur[u]>> \in Ops
                            => Unstarted(<<u, cur[u]>>)'
    BY <2>1, <2>2, <2>4 DEF Unstarted
  <2>9. MessagesFit'
    <3> SUFFICES ASSUME NEW u \in Sessions, u # s, NEW k \in DOMAIN inbox[u],
                        NEW m, m = inbox[u][k]
                 PROVE  Fits(u, m)'
      BY <2>5, <2>6 DEF MessagesFit, Fits
    <3>1. Fits(u, m)
      BY DEF RefusalInv, MessagesFit
    <3> QED
      BY <2>2, <2>7, <3>1 DEF Fits
  <2>11. Decided'
    BY <2>1, <2>2, <2>5, <2>6, OpsPair DEF RefusalInv, Decided
  <2>12. RefusedTruly'
    BY <2>1, <2>2, <2>7 DEF RefusalInv, RefusedTruly, Decided
  <2>13. Current'
    BY <2>2 DEF RefusalInv, Current, Method
  <2> QED
    BY <2>9, <2>11, <2>12, <2>13 DEF RefusalInv
<1>12. ASSUME NEW s \in Sessions, Receive(s) PROVE RefusalInv'
  <2>1. PICK m \in Messages : /\ m = Head(inbox[s]) /\ 1 \in DOMAIN inbox[s] /\ m = inbox[s][1]
                              /\ inbox[s] # <<>>
    BY <1>12, <1>a, HeadTail DEF Receive
  <2>2. Fits(s, m)
    BY <2>1 DEF RefusalInv, MessagesFit
  <2>3. /\ inbox' = [inbox EXCEPT ![s] = Tail(inbox[s])] /\ at[s] \in {"called", "await"}
        /\ UNCHANGED <<stage, handler, streams, side, cur, overall, exit, calls>>
    BY <1>12 DEF Receive
  <2>4. \A o \in Ops : Unstarted(o)' <=> Unstarted(o)
    BY <2>3 DEF Unstarted, Pending
  <2>5. /\ \A u \in Sessions : u # s => at'[u] = at[u] /\ got'[u] = got[u] /\ verdict'[u] = verdict[u]
        /\ \/ m.kind = "started" /\ at'[s] = "await" /\ got'[s] = got[s] /\ verdict'[s] = verdict[s]
           \/ m.kind = "finished" /\ at'[s] = at[s] /\ got'[s] = m.code /\ verdict'[s] = verdict[s]
           \/ m.kind = "result" /\ at'[s] = "await" /\ got'[s] = m.code /\ verdict'[s] = verdict[s]
           \/ m.kind = "busy" /\ at'[s] = "done" /\ verdict'[s] = "busy"
           \/ m.kind = "error" /\ at'[s] = "done" /\ verdict'[s] = "notStarted"
    BY <1>12, <2>1 DEF Receive, GiveUp, Inv, TypeOK
  <2>6. verdict[s] = "none" /\ <<s, cur[s]>> \in Ops
    BY <2>2, <2>3 DEF RefusalInv, Decided, Fits
  <2>7. \A u \in Sessions : \A k \in DOMAIN inbox'[u] :
           \E j \in DOMAIN inbox[u] : inbox'[u][k] = inbox[u][j]
    <3>1. \A k \in DOMAIN Tail(inbox[s]) : k + 1 \in DOMAIN inbox[s]
                                           /\ Tail(inbox[s])[k] = inbox[s][k + 1]
      BY <1>a, <2>1, HeadTail
    <3> QED
      BY <1>a, <2>3, <3>1
  <2>8. MessagesFit'
    <3> SUFFICES ASSUME NEW u \in Sessions, NEW k \in DOMAIN inbox'[u], NEW n, n = inbox'[u][k]
                 PROVE  Fits(u, n)'
      BY DEF MessagesFit, Fits
    <3>1. Fits(u, n)
      BY <2>7 DEF RefusalInv, MessagesFit
    <3> QED
      BY <2>3, <2>4, <3>1 DEF Fits
  <2>10. Decided'
    <3>1. \A u \in Sessions : at'[u] # "done" => at[u] # "done"
      BY <2>3, <2>5
    <3> QED
      BY <2>3, <2>5, <2>6, <3>1 DEF RefusalInv, Decided
  <2>11. RefusedTruly'
    <3> SUFFICES ASSUME NEW u \in Sessions, verdict'[u] \in {"busy", "notStarted"},
                        NEW o, o = <<u, cur[u]>>
                 PROVE  o \in Ops /\ Unstarted(o)'
      BY <2>3 DEF RefusedTruly, Unstarted, Pending
    <3>1. CASE u # s
      BY <2>4, <2>5, <3>1 DEF RefusalInv, RefusedTruly
    <3>2. CASE u = s
      BY <2>2, <2>4, <2>5, <2>6, <3>2 DEF Fits
    <3> QED
      BY <3>1, <3>2
  <2>12. Current'
    BY <2>3 DEF RefusalInv, Current, Method
  <2> QED
    BY <2>8, <2>10, <2>11, <2>12 DEF RefusalInv
<1>13. ASSUME NEW s \in Sessions, Return(s) PROVE RefusalInv'
  <2>1. PICK o \in Ops : o = <<s, cur[s]>> /\ o[1] = s /\ o[2] = cur[s]
    <3>1. <<s, cur[s]>> \in Ops
      BY <1>13, OpsPair DEF Return, RefusalInv, Decided
    <3> QED
      BY <3>1
  <2>2. PICK code \in Codes : code = IF overall[s] = 0 THEN got[s] ELSE overall[s]
    BY <1>13 DEF Return, Inv, TypeOK
  <2> DEFINE busy == Method(o) = "PackageStatus" /\ got[s] = 1
  <2>3. /\ at[s] = "await" /\ got[s] \in Codes /\ got[s] # None /\ overall[s] \in Codes
        /\ verdict[s] = "none"
    BY <1>13 DEF Return, Inv, TypeOK, RefusalInv, Decided
  <2>4. /\ inbox' = [inbox EXCEPT ![s] = <<>>] /\ overall' = [overall EXCEPT ![s] = code]
        /\ UNCHANGED <<stage, handler, streams, side, calls, got, exit>>
    BY <1>13, <2>2 DEF Return
  <2>5. \/ /\ ~busy /\ cur[s] < Len(Plans[s])
           /\ cur' = [cur EXCEPT ![s] = cur[s] + 1] /\ at' = [at EXCEPT ![s] = "open"]
           /\ verdict' = verdict
        \/ /\ busy \/ cur[s] = Len(Plans[s])
           /\ cur' = cur /\ at' = [at EXCEPT ![s] = "done"]
           /\ verdict' = [verdict EXCEPT ![s] = IF busy THEN "busy"
                             ELSE IF code = 0 THEN "ok" ELSE "failed"]
    BY <1>13, <2>1, <2>2 DEF Return
  <2> HIDE DEF busy
  <2>8. /\ \A u \in Sessions : u # s => /\ at'[u] = at[u] /\ cur'[u] = cur[u]
                                        /\ verdict'[u] = verdict[u] /\ overall'[u] = overall[u]
                                        /\ inbox'[u] = inbox[u]
        /\ inbox'[s] = <<>> /\ overall'[s] = code
        /\ cur'[s] \in {cur[s], cur[s] + 1}
    BY <1>a, <2>4, <2>5 DEF Inv, TypeOK
  <2>9. /\ at'[s] \in {"open", "done"}
        /\ at'[s] = "open" => ~busy /\ cur[s] < Len(Plans[s]) /\ cur'[s] = cur[s] + 1 /\ verdict'[s] = "none"
        /\ at'[s] = "done" => /\ busy \/ cur[s] = Len(Plans[s])
                              /\ cur'[s] = cur[s]
                              /\ verdict'[s] = IF busy THEN "busy" ELSE IF code = 0 THEN "ok" ELSE "failed"
    BY <1>a, <2>3, <2>5 DEF Inv, TypeOK
  \* Its own operation is over.
  <2>10. Unstarted(o) \/ Method(o) \notin Queries
    BY <2>1, <2>3 DEF Unstarted, Inv, CallInv, RefusalInv, Current, Streaming, Side, Queries
  <2>12. \A p \in Ops : Unstarted(p)' <=> Unstarted(p)
    BY <2>4 DEF Unstarted, Pending
  <2>14. MessagesFit'
    <3> SUFFICES ASSUME NEW u \in Sessions, u # s, NEW k \in DOMAIN inbox[u],
                        NEW m, m = inbox[u][k]
                 PROVE  Fits(u, m)'
      BY <2>8 DEF MessagesFit, Fits
    <3>1. Fits(u, m)
      BY DEF RefusalInv, MessagesFit
    <3> QED
      BY <2>8, <2>12, <3>1 DEF Fits
  <2>16. Decided'
    <3>1. Plans[s] \in Seq(Methods) /\ cur[s] \in Nat
      BY <1>a, PlansAssumption
    <3>2. at'[s] = "open" => cur'[s] \in DOMAIN Plans[s]
      BY <2>9, <3>1
    <3>3. \A u \in Sessions : /\ verdict'[u] # "none" => at'[u] = "done"
                              /\ at'[u] # "done" => cur'[u] \in DOMAIN Plans[u]
      BY <2>8, <2>9, <3>2 DEF RefusalInv, Decided
    <3> QED
      BY <3>3 DEF Decided
  <2>17. RefusedTruly'
    <3> SUFFICES ASSUME NEW u \in Sessions, verdict'[u] \in {"busy", "notStarted"},
                        NEW p, p = <<u, cur'[u]>>
                 PROVE  p \in Ops /\ Unstarted(p)'
      BY DEF RefusedTruly, Unstarted, Pending
    <3>1. CASE u # s
      BY <2>8, <2>12, <3>1 DEF RefusalInv, RefusedTruly
    <3>2. CASE u = s
      <4>1. busy /\ cur'[s] = cur[s]
        BY <2>9, <3>2
      <4>2. Method(o) \in Queries
        BY <4>1 DEF busy, Queries
      <4> QED
        BY <2>1, <2>10, <2>12, <3>2, <4>1, <4>2
    <3> QED
      BY <3>1, <3>2
  <2>18. Current'
    BY <2>4 DEF RefusalInv, Current, Method
  <2> QED
    BY <2>14, <2>16, <2>17, <2>18 DEF RefusalInv
<1> QED
  BY <1>1, <1>2, <1>3, <1>4, <1>5, <1>6, <1>7, <1>8, <1>9, <1>10, <1>11, <1>12, <1>13
  DEF Next, Backend, Frontend

\* Every refusal is true, whoever shares the service and its signals: the
\* operation for which a frontend reports that it was refused, or did not
\* start, has started nothing.
THEOREM RefusalsTrue == Spec => []NothingStarted
<1>1. Init => RefusalInv
  BY InitRefusal
<1>2. Inv /\ Inv' /\ RefusalInv /\ [Next]_vars => RefusalInv'
  BY RefusalStep
<1>3. Inv /\ RefusalInv => NothingStarted
  BY DEF NothingStarted, RefusalInv, RefusedTruly, Unstarted, Running, Pending
<1> QED
  BY Invariance, <1>1, <1>2, <1>3, PTL DEF Spec

-----------------------------------------------------------------------------
(* The lock and the subprocess that does not start. *)

\* The count is held by an operation in progress, or by one whose subprocess
\* did not start.
HeldInv == active > 0 => operation \in Running \/ (Running = {} /\ spawnFaults > 0)

\* The lock is held and nothing is in progress.
Stuck == active > 0 /\ Running = {}

\* Nothing in progress ends, nothing pending is a package operation that may
\* start, and the service does not exit: what is stuck stays stuck.
LEMMA StuckStep ==
    ASSUME Inv, Stuck, [Next]_vars
    PROVE  Stuck'
<1> USE DEF loopVars, lockVars, envVars, clientVars, Stuck, Running
<1>0. TypeOK /\ LockInv
  BY DEF Inv
<1>a. /\ streams = {} /\ active = 1 /\ up
      /\ stage # "none" => handler \in Ops /\ ~IsPackage(handler)
  <2>1. streams = {} /\ active = 1 /\ up
    BY <1>0 DEF LockInv, TypeOK
  <2>2. stage = "run" => ~IsPackage(handler)
    OBVIOUS
  <2>3. stage = "auth" => ~IsPackage(handler)
    BY <1>0 DEF LockInv
  <2> QED
    BY <1>0, <2>1, <2>2, <2>3 DEF LockInv, TypeOK
<1>b. \A o : Method(o) \in Streaming => IsPackage(o)
  BY DEF IsPackage
<1>1. CASE Activate
  BY <1>1, <1>a DEF Activate
<1>2. CASE Dispatch
  BY <1>2 DEF Dispatch, LoopFree
<1>3. CASE Refuse \/ StartSide
  BY <1>3 DEF Refuse, StartSide, Leave
<1>4. CASE StartStreaming
  BY <1>4, <1>a, <1>b DEF StartStreaming
<1>5. CASE SpawnFails
  BY <1>5, <1>a, <1>b DEF SpawnFails, Leave
<1>6. CASE StartBlocking
  BY <1>6, <1>a DEF StartBlocking, IsPackage, Method
<1>7. CASE FinishBlocking
  BY <1>7, <1>a DEF FinishBlocking, Leave
<1>8. CASE StreamDone
  BY <1>8, <1>a DEF StreamDone
<1>9. CASE SideDone
  BY <1>9 DEF SideDone, LoopFree
<1>10. CASE IdleExit
  BY <1>10 DEF IdleExit, ShouldExit
<1>11. ASSUME NEW s \in Sessions, Frontend(s) PROVE Stuck'
  BY <1>11 DEF Frontend, Call, Receive, Return
<1>12. CASE Tick \/ Upgrade \/ External \/ UNCHANGED vars
  BY <1>12 DEF Tick, Upgrade, External, vars
<1> QED
  BY <1>1, <1>2, <1>3, <1>4, <1>5, <1>6, <1>7, <1>8, <1>9, <1>10, <1>11, <1>12
  DEF Next, Backend

\* Every step keeps the holder of the lock in progress.
LEMMA HeldStep ==
    ASSUME Inv, HeldInv, [Next]_vars
    PROVE  HeldInv'
<1> USE DEF loopVars, lockVars, envVars, clientVars, HeldInv, Running
<1>a. stage # "none" => handler \in Ops
  BY DEF Inv, LockInv
<1>b. spawnFaults \in Nat /\ spawnFaults' \in {spawnFaults, spawnFaults + 1}
  <2>1. spawnFaults \in Nat
    BY BackendBounds DEF Inv, TypeOK
  <2>2. CASE SpawnFails
    BY <2>1, <2>2 DEF SpawnFails
  <2>3. CASE Activate
    BY <2>1, <2>3 DEF Activate
  <2>4. CASE Dispatch
    BY <2>1, <2>4 DEF Dispatch
  <2>5. CASE Refuse
    BY <2>1, <2>5 DEF Refuse
  <2>6. CASE StartStreaming
    BY <2>1, <2>6 DEF StartStreaming
  <2>7. CASE StartSide
    BY <2>1, <2>7 DEF StartSide
  <2>8. CASE StartBlocking
    BY <2>1, <2>8 DEF StartBlocking
  <2>9. CASE FinishBlocking
    BY <2>1, <2>9 DEF FinishBlocking
  <2>10. CASE StreamDone
    BY <2>1, <2>10 DEF StreamDone
  <2>11. CASE SideDone
    BY <2>1, <2>11 DEF SideDone
  <2>12. CASE IdleExit
    BY <2>1, <2>12 DEF IdleExit
  <2>13. CASE Tick
    BY <2>1, <2>13 DEF Tick
  <2>14. CASE Upgrade
    BY <2>1, <2>14 DEF Upgrade
  <2>15. CASE External
    BY <2>1, <2>15 DEF External
  <2>16. ASSUME NEW s \in Sessions, Frontend(s) PROVE spawnFaults' = spawnFaults
    BY <2>1, <2>16 DEF Frontend, Call, Receive, Return
  <2>17. CASE UNCHANGED vars
    BY <2>1, <2>17 DEF vars
  <2> QED
    BY <2>1, <2>2, <2>3, <2>4, <2>5, <2>6, <2>7, <2>8, <2>9, <2>10,
       <2>11, <2>12, <2>13, <2>14, <2>15, <2>16, <2>17 DEF Next, Backend
<1>c. CASE Stuck
  BY <1>b, <1>c, StuckStep DEF Stuck
<1>d. SUFFICES ASSUME ~Stuck PROVE HeldInv'
  BY <1>c
<1>e. active > 0 => operation \in Running
  BY <1>d DEF Stuck
<1>1. CASE Activate
  BY <1>1 DEF Activate
<1>2. CASE Dispatch
  BY <1>2 DEF Dispatch, LoopFree
<1>3. CASE Refuse \/ StartSide
  BY <1>3 DEF Refuse, StartSide, Leave
<1>4. CASE StartStreaming
  BY <1>4 DEF StartStreaming, BeginOp
<1>5. CASE SpawnFails
  <2>1. /\ stage = "auth" /\ stage' = "none" /\ streams' = streams /\ spawnFaults' > 0
        /\ \/ IsPackage(handler) /\ operation' = handler
           \/ UNCHANGED <<active, operation>>
    BY <1>5, <1>b DEF SpawnFails, Leave, BeginOp, IsPackage
  <2>2. CASE IsPackage(handler)
    BY <2>1, <2>2 DEF Inv, LockInv
  <2>3. CASE UNCHANGED <<active, operation>>
    BY <1>e, <2>1, <2>3
  <2> QED
    BY <2>1, <2>2, <2>3
<1>6. CASE StartBlocking
  BY <1>6 DEF StartBlocking, BeginOp, Inv, LockInv
<1>7. CASE FinishBlocking
  <2>1. CASE IsPackage(handler)
    BY <1>7, <2>1 DEF FinishBlocking, EndOp, Inv, LockInv
  <2>2. CASE ~IsPackage(handler)
    BY <1>7, <2>2 DEF FinishBlocking, Leave
  <2> QED
    BY <2>1, <2>2
<1>8. CASE StreamDone
  BY <1>8 DEF StreamDone, EndOp, Inv, LockInv
<1>9. CASE SideDone
  BY <1>9 DEF SideDone, LoopFree
<1>10. CASE IdleExit
  BY <1>10 DEF IdleExit, ShouldExit, Inv, LockInv
<1>11. ASSUME NEW s \in Sessions, Frontend(s) PROVE HeldInv'
  BY <1>11 DEF Frontend, Call, Receive, Return
<1>12. CASE Tick \/ Upgrade \/ External \/ UNCHANGED vars
  BY <1>12 DEF Tick, Upgrade, External, vars
<1> QED
  BY <1>1, <1>2, <1>3, <1>4, <1>5, <1>6, <1>7, <1>8, <1>9, <1>10, <1>11, <1>12
  DEF Next, Backend

\* The service is locked exactly while an operation is in progress or after
\* one whose subprocess did not start.
THEOREM LockedTruly == Spec => []BusyIsTrue
<1>1. Init => HeldInv
  BY DEF Init, HeldInv
<1>2. Inv /\ HeldInv /\ [Next]_vars => HeldInv'
  BY HeldStep
<1>3. Inv /\ HeldInv => BusyIsTrue
  BY DEF Inv, LockInv, HeldInv, BusyIsTrue, Running
<1> QED
  BY Invariance, <1>1, <1>2, <1>3, PTL DEF Spec

\* A subprocess that does not start locks the service for good: from then on
\* no step of anyone starts or ends a package operation, releases the lock or
\* ends the process (_spawn_streaming raises after _begin_op).
THEOREM StuckForGood == Spec => [][Stuck => Stuck']_vars
<1>1. Inv /\ [Next]_vars => [Stuck => Stuck']_vars
  BY StuckStep
<1> QED
  BY Invariance, <1>1, PTL DEF Spec

\* What the service says of itself and what it has done when it refuses.
THEOREM ServiceTellsTruth == Spec => []BackendInv
<1>1. TypeOK /\ BusyIsTrue /\ NothingStarted => BackendInv
  BY DEF BackendInv
<1> QED
  BY BackendTypeCorrect, LockedTruly, RefusalsTrue, <1>1, PTL
=============================================================================
