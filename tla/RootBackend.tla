----------------------------- MODULE RootBackend -----------------------------
(***************************************************************************)
(* The root D-Bus service (gest/backend/service.py) and the frontends that  *)
(* drive it (gest/tui/screens/runscreen.py, sync.py, kernel.py and          *)
(* gest/qt/modules/_stream.py through the backend_client modules).          *)
(*                                                                         *)
(* One process serves every session.  Its GLib loop is single-threaded: a   *)
(* handler that blocks (the polkit question, a synchronous command) keeps   *)
(* everything else waiting.  SoftwareService counts the package operations  *)
(* in progress; the count is both the cross-session lock and what keeps the *)
(* process from exiting when idle.  KernelService and Stage3Service stream  *)
(* through the same process without using that count.                       *)
(*                                                                         *)
(* A session runs the operations of its plan one after the other, each over *)
(* a new bus connection.  Signals are broadcast: every connection that has  *)
(* subscribed to the interface receives them, in the order of emission.     *)
(*                                                                         *)
(* The operation's label is abstracted to the operation that set it; exit   *)
(* codes are 0 and 1; the idle clock counts ticks up to the timeout.        *)
(***************************************************************************)
EXTENDS Integers, Sequences, FiniteSets

CONSTANTS
    Sessions,       \* the frontends
    Plans,          \* the methods each frontend calls, in order
    IdleTimeout,    \* _IDLE_TIMEOUT, in ticks
    MaxSpawnFaults, \* bound on Gio.Subprocess.new raising
    HandRun,        \* whether somebody runs emerge in a terminal
    None            \* no operation, no code

Streaming == {"Install", "InstallMulti", "InstallBinaryMulti", "Rebuild",
              "UpdateWorld", "Depclean", "DepcleanMulti", "UnmergeMulti", "Sync"}
Blocking == {"SyncRepos", "Deselect"}
News == {"MarkNewsRead", "MarkNewsUnread"}
Queries == {"PackageStatus", "InstallPreview"}
Side == {"Build", "Unpack"}
Methods == Streaming \cup Blocking \cup News \cup Queries \cup Side

\* An operation is a session and a position in its plan.
Ops == UNION {{s} \X DOMAIN Plans[s] : s \in Sessions}
Method(o) == Plans[o[1]][o[2]]
IsPackage(o) == Method(o) \in Streaming \cup Blocking
Iface(o) == IF Method(o) \in Side THEN Method(o) ELSE "Software"
Codes == {0, 1}

ASSUME PlansAssumption ==
    /\ Plans \in [Sessions -> Seq(Methods)]
    /\ None \notin Ops /\ None \notin Codes
ASSUME BackendBounds ==
    /\ IdleTimeout \in Nat \ {0}
    /\ MaxSpawnFaults \in Nat
    /\ HandRun \in BOOLEAN

Kinds == {"started", "busy", "error", "result", "finished"}
Messages == [kind : Kinds, code : Codes]
Msg(kind, code) == [kind |-> kind, code |-> code]

VARIABLES
    up,          \* the service process is running
    stage,       \* the handler on the loop: "none" | "auth" | "run"
    handler,     \* the call it handles
    active,      \* SoftwareService._active
    operation,   \* SoftwareService._operation
    streams,     \* package operations whose subprocess is streamed
    side,        \* kernel builds and stage3 installs being streamed
    idle,        \* ticks since _last_activity
    upgraded,    \* _code_changed()
    external,    \* an emerge runs outside GeST
    spawnFaults, \* Gio.Subprocess.new failures so far
    calls,       \* method calls that reached the bus, not yet dispatched
    inbox,       \* replies and signals not yet read, per session
    at,          \* the frontend: "open" | "called" | "await" | "done"
    cur,         \* index of its current operation
    got,         \* _run_one's result["code"]
    overall,     \* _run's overall
    verdict,     \* what the screen reported
    exit         \* history: how each operation's command really ended

loopVars == <<up, stage, handler>>
lockVars == <<active, operation, streams>>
envVars == <<upgraded, external, spawnFaults>>
clientVars == <<at, cur, got, overall, verdict>>
vars == <<loopVars, lockVars, side, idle, envVars, calls, inbox, clientVars, exit>>

TypeOK ==
    /\ up \in BOOLEAN
    /\ stage \in {"none", "auth", "run"}
    /\ handler \in Ops \cup {None}
    /\ active \in Nat
    /\ operation \in Ops \cup {None}
    /\ streams \subseteq Ops
    /\ side \subseteq Ops
    /\ idle \in 0..IdleTimeout
    /\ upgraded \in BOOLEAN
    /\ external \in BOOLEAN
    /\ spawnFaults \in 0..MaxSpawnFaults
    /\ calls \in Seq(Ops)
    /\ inbox \in [Sessions -> Seq(Messages)]
    /\ at \in [Sessions -> {"open", "called", "await", "done"}]
    /\ cur \in [Sessions -> Nat]
    /\ got \in [Sessions -> Codes \cup {None}]
    /\ overall \in [Sessions -> Codes]
    /\ verdict \in [Sessions -> {"none", "ok", "failed", "busy", "notStarted"}]
    /\ exit \in [Ops -> Codes \cup {None}]

Init ==
    /\ up = FALSE
    /\ stage = "none"
    /\ handler = None
    /\ active = 0
    /\ operation = None
    /\ streams = {}
    /\ side = {}
    /\ idle = 0
    /\ upgraded = FALSE
    /\ external = FALSE
    /\ spawnFaults = 0
    /\ calls = <<>>
    /\ inbox = [s \in Sessions |-> <<>>]
    /\ at = [s \in Sessions |-> IF Plans[s] = <<>> THEN "done" ELSE "open"]
    /\ cur = [s \in Sessions |-> 1]
    /\ got = [s \in Sessions |-> None]
    /\ overall = [s \in Sessions |-> 0]
    /\ verdict = [s \in Sessions |-> IF Plans[s] = <<>> THEN "ok" ELSE "none"]
    /\ exit = [o \in Ops |-> None]

-----------------------------------------------------------------------------
(* Messages to the frontends. *)

\* A reply goes to the connection that made the call.
Reply(o, m) == inbox' = [inbox EXCEPT ![o[1]] = Append(@, m)]

\* The connections that have called on_finished for this interface; the
\* clients of the synchronous methods do not.
Subscribed(iface) ==
    {s \in Sessions : /\ at[s] \in {"called", "await"}
                      /\ Method(<<s, cur[s]>>) \in Streaming \cup Side
                      /\ Iface(<<s, cur[s]>>) = iface}

\* _emit("Finished", code): emit_signal with no destination.
EmitFinished(iface, code) ==
    inbox' = [s \in Sessions |-> IF s \in Subscribed(iface)
                                 THEN Append(inbox[s], Msg("finished", code))
                                 ELSE inbox[s]]

-----------------------------------------------------------------------------
(* SoftwareService: the lock and the idle clock. *)

Touch == idle' = 0

BeginOp(o) == active' = active + 1 /\ operation' = o

\* Mutant: the count is released but the label of the operation stays.
EndOp_keepsLabel ==
    /\ active' = IF active = 0 THEN 0 ELSE active - 1
    /\ UNCHANGED operation
    /\ Touch

EndOp ==
    /\ active' = IF active = 0 THEN 0 ELSE active - 1
    /\ operation' = IF active' = 0 THEN None ELSE operation
    /\ Touch

\* Mutant: only an external emerge is looked for.
Busy_externalOnly == external

\* _busy_message is not empty.
Busy == active > 0 \/ external

\* Mutant: an upgrade ends the process whatever it is doing.
ShouldExit_upgradeWins == upgraded \/ (active = 0 /\ idle >= IdleTimeout)

ShouldExit == active = 0 /\ (upgraded \/ idle >= IdleTimeout)

\* The loop is not inside a handler.
LoopFree == up /\ stage = "none"

\* _on_method_call up to the polkit question.  Only SoftwareService touches
\* the idle clock and only its package methods look at the lock.
Dispatch ==
    /\ LoopFree
    /\ calls # <<>>
    /\ calls' = Tail(calls)
    /\ LET o == Head(calls) IN
        /\ IF Method(o) \in Side THEN UNCHANGED idle ELSE Touch
        /\ \/ /\ Method(o) \in Queries
              /\ Reply(o, Msg("result", IF Method(o) = "PackageStatus" /\ Busy
                                        THEN 1 ELSE 0))
              /\ UNCHANGED loopVars
           \/ /\ IsPackage(o)
              /\ Busy
              /\ Reply(o, Msg("busy", 0))
              /\ UNCHANGED loopVars
           \/ /\ Method(o) \notin Queries
              /\ IsPackage(o) => ~Busy
              /\ stage' = "auth"
              /\ handler' = o
              /\ UNCHANGED <<up, inbox>>
    /\ UNCHANGED <<lockVars, side, envVars, clientVars, exit>>

\* The handler returns to the loop.
Leave == stage' = "none" /\ handler' = None /\ up' = up

\* ACCESS_DENIED (also when polkit does not answer in time) or INVALID_ARGS:
\* either way an error, and nothing is started.
Refuse ==
    /\ stage = "auth"
    /\ Leave
    /\ Reply(handler, Msg("error", 0))
    /\ UNCHANGED <<lockVars, side, idle, envVars, calls, clientVars, exit>>

\* A streaming handler answers, then _spawn_streaming counts the operation and
\* starts its subprocess.
StartStreaming ==
    /\ stage = "auth"
    /\ Method(handler) \in Streaming
    /\ Leave
    /\ Reply(handler, Msg("started", 0))
    /\ BeginOp(handler)
    /\ streams' = streams \cup {handler}
    /\ UNCHANGED <<side, idle, envVars, calls, clientVars, exit>>

\* KernelService and Stage3Service start the stream, then answer.
StartSide ==
    /\ stage = "auth"
    /\ Method(handler) \in Side
    /\ Leave
    /\ Reply(handler, Msg("started", 0))
    /\ side' = side \cup {handler}
    /\ UNCHANGED <<lockVars, idle, envVars, calls, clientVars, exit>>

\* Gio.Subprocess.new raises out of the handler.  _spawn_streaming has
\* answered and counted the operation; the other services have not answered.
SpawnFails ==
    /\ stage = "auth"
    /\ spawnFaults < MaxSpawnFaults
    /\ spawnFaults' = spawnFaults + 1
    /\ Leave
    /\ \/ /\ Method(handler) \in Streaming
          /\ BeginOp(handler)
          /\ Reply(handler, Msg("started", 0))
       \/ /\ Method(handler) \in Side
          /\ UNCHANGED <<active, operation, inbox>>
    /\ UNCHANGED <<streams, side, idle, upgraded, external, calls, clientVars, exit>>

\* SyncRepos and Deselect run inside the handler, counted; the news methods
\* run inside it uncounted.
StartBlocking ==
    /\ stage = "auth"
    /\ Method(handler) \in Blocking \cup News
    /\ stage' = "run"
    /\ IF IsPackage(handler) THEN BeginOp(handler) ELSE UNCHANGED <<active, operation>>
    /\ UNCHANGED <<up, handler, streams, side, idle, envVars, calls, inbox, clientVars, exit>>

FinishBlocking ==
    /\ stage = "run"
    /\ Leave
    /\ IF IsPackage(handler) THEN EndOp ELSE UNCHANGED <<active, operation, idle>>
    /\ \E code \in Codes :
          /\ Reply(handler, Msg("result", code))
          /\ exit' = [exit EXCEPT ![handler] = code]
    /\ UNCHANGED <<streams, side, envVars, calls, clientVars>>

\* Mutant: the exit status is not looked at.
StreamDone_statusLost ==
    /\ LoopFree
    /\ \E o \in streams, code \in Codes :
          /\ streams' = streams \ {o}
          /\ exit' = [exit EXCEPT ![o] = code]
          /\ EmitFinished("Software", 0)
          /\ EndOp
    /\ UNCHANGED <<loopVars, side, envVars, calls, clientVars>>

\* Mutant: the release is forgotten when the stream ends.
StreamDone_noRelease ==
    /\ LoopFree
    /\ \E o \in streams, code \in Codes :
          /\ streams' = streams \ {o}
          /\ exit' = [exit EXCEPT ![o] = code]
          /\ EmitFinished("Software", code)
    /\ UNCHANGED <<loopVars, active, operation, side, idle, envVars, calls, clientVars>>

\* Mutant: no Finished when the command did not exit normally.
StreamDone_silentKill ==
    /\ LoopFree
    /\ \E o \in streams, code \in Codes :
          /\ streams' = streams \ {o}
          /\ exit' = [exit EXCEPT ![o] = code]
          /\ IF code = 0 THEN EmitFinished("Software", code) ELSE UNCHANGED inbox
          /\ EndOp
    /\ UNCHANGED <<loopVars, side, envVars, calls, clientVars>>

\* on_done: one callback emits Finished and releases the lock.
StreamDone ==
    /\ LoopFree
    /\ \E o \in streams, code \in Codes :
          /\ streams' = streams \ {o}
          /\ exit' = [exit EXCEPT ![o] = code]
          /\ EmitFinished("Software", code)
          /\ EndOp
    /\ UNCHANGED <<loopVars, side, envVars, calls, clientVars>>

SideDone ==
    /\ LoopFree
    /\ \E o \in side, code \in Codes :
          /\ side' = side \ {o}
          /\ exit' = [exit EXCEPT ![o] = code]
          /\ EmitFinished(Iface(o), code)
    /\ UNCHANGED <<loopVars, lockVars, idle, envVars, calls, clientVars>>

\* _idle_check: on_idle quits the loop and the process ends.  The bus answers
\* the calls it had not dispatched with an error; its streams end with it.
IdleExit ==
    /\ LoopFree
    /\ ShouldExit
    /\ up' = FALSE
    /\ calls' = <<>>
    /\ inbox' = [s \in Sessions |->
                    IF \E i \in DOMAIN calls : calls[i][1] = s
                    THEN Append(inbox[s], Msg("error", 0)) ELSE inbox[s]]
    /\ streams' = {}
    /\ side' = {}
    /\ UNCHANGED <<stage, handler, active, operation, idle, envVars, clientVars, exit>>

\* D-Bus activation, when a call finds no owner of the name.
Activate ==
    /\ ~up
    /\ calls # <<>>
    /\ up' = TRUE
    /\ active' = 0
    /\ operation' = None
    /\ idle' = 0
    /\ upgraded' = FALSE
    /\ UNCHANGED <<stage, handler, streams, side, external, spawnFaults, calls, inbox,
                   clientVars, exit>>

-----------------------------------------------------------------------------
(* The frontends: RunScreen._run and _run_one. *)

\* connect, subscribe, then call the method.
Call(s) ==
    /\ at[s] = "open"
    /\ at' = [at EXCEPT ![s] = "called"]
    /\ got' = [got EXCEPT ![s] = None]
    /\ inbox' = [inbox EXCEPT ![s] = <<>>]
    /\ calls' = Append(calls, <<s, cur[s]>>)
    /\ UNCHANGED <<loopVars, lockVars, side, idle, envVars, cur, overall, verdict, exit>>

\* _run_one returns None: _run breaks off and _finish reports it.
GiveUp(s, why) ==
    /\ at' = [at EXCEPT ![s] = "done"]
    /\ verdict' = [verdict EXCEPT ![s] = why]
    /\ UNCHANGED got

Receive(s) ==
    /\ at[s] \in {"called", "await"}
    /\ inbox[s] # <<>>
    /\ inbox' = [inbox EXCEPT ![s] = Tail(@)]
    /\ LET m == Head(inbox[s]) IN
        \/ /\ m.kind = "started"
           /\ at' = [at EXCEPT ![s] = "await"]
           /\ UNCHANGED <<got, verdict>>
        \/ /\ m.kind = "finished"
           /\ got' = [got EXCEPT ![s] = m.code]
           /\ UNCHANGED <<at, verdict>>
        \/ /\ m.kind = "result"
           /\ at' = [at EXCEPT ![s] = "await"]
           /\ got' = [got EXCEPT ![s] = m.code]
           /\ UNCHANGED verdict
        \/ /\ m.kind = "busy"
           /\ GiveUp(s, "busy")
        \/ /\ m.kind = "error"
           /\ GiveUp(s, "notStarted")
    /\ UNCHANGED <<loopVars, lockVars, side, idle, envVars, calls, cur, overall, exit>>

\* finished.wait() returns, the connection is closed, and _run goes on to the
\* next operation or to _finish.
Return(s) ==
    /\ at[s] = "await"
    /\ got[s] # None
    /\ inbox' = [inbox EXCEPT ![s] = <<>>]
    /\ LET code == IF overall[s] = 0 THEN got[s] ELSE overall[s]
           busy == Method(<<s, cur[s]>>) = "PackageStatus" /\ got[s] = 1
       IN \/ /\ ~busy
             /\ cur[s] < Len(Plans[s])
             /\ overall' = [overall EXCEPT ![s] = code]
             /\ cur' = [cur EXCEPT ![s] = @ + 1]
             /\ at' = [at EXCEPT ![s] = "open"]
             /\ UNCHANGED verdict
          \/ /\ busy \/ cur[s] = Len(Plans[s])
             /\ overall' = [overall EXCEPT ![s] = code]
             /\ at' = [at EXCEPT ![s] = "done"]
             /\ verdict' = [verdict EXCEPT ![s] = IF busy THEN "busy"
                                ELSE IF code = 0 THEN "ok" ELSE "failed"]
             /\ UNCHANGED cur
    /\ UNCHANGED <<loopVars, lockVars, side, idle, envVars, calls, got, exit>>

-----------------------------------------------------------------------------
(* The environment. *)

Tick ==
    /\ up
    /\ idle < IdleTimeout
    /\ idle' = idle + 1
    /\ UNCHANGED <<loopVars, lockVars, side, envVars, calls, inbox, clientVars, exit>>

\* emerge gest replaces the installed code under the running service.
Upgrade ==
    /\ up
    /\ ~upgraded
    /\ upgraded' = TRUE
    /\ UNCHANGED <<loopVars, lockVars, side, idle, external, spawnFaults, calls, inbox,
                   clientVars, exit>>

\* Somebody starts, or ends, an emerge in a terminal.
External ==
    /\ HandRun
    /\ external' = ~external
    /\ UNCHANGED <<loopVars, lockVars, side, idle, upgraded, spawnFaults, calls, inbox,
                   clientVars, exit>>

Backend ==
    \/ Activate \/ Dispatch \/ Refuse \/ StartStreaming \/ StartSide
    \/ SpawnFails \/ StartBlocking \/ FinishBlocking \/ StreamDone \/ SideDone
    \/ IdleExit

Frontend(s) == Call(s) \/ Receive(s) \/ Return(s)

Next ==
    \/ Backend
    \/ \E s \in Sessions : Frontend(s)
    \/ Tick \/ Upgrade \/ External

Spec == Init /\ [][Next]_vars

\* The loop dispatches what is ready; polkit answers or times out (call_sync
\* with the default timeout); a command ends; a frontend's event loop runs.
FairSpec ==
    /\ Spec
    /\ WF_vars(Activate)
    /\ WF_vars(Dispatch)
    /\ WF_vars(Refuse \/ StartStreaming \/ StartSide \/ StartBlocking)
    /\ WF_vars(FinishBlocking)
    /\ WF_vars(StreamDone)
    /\ WF_vars(SideDone)
    /\ \A s \in Sessions : WF_vars(Frontend(s))

-----------------------------------------------------------------------------
(* Properties. *)

\* The package operations in progress.
Running == streams \cup {o \in {handler} : stage = "run" /\ IsPackage(o)}

\* At most one package operation is in progress, whatever the sessions ask: no
\* other handler runs between the busy check and the _begin_op that follows
\* the polkit question (SoftwareService._reject_if_busy).
OneOperation == \A o, p \in Running : o = p

\* The service reports itself locked exactly while an operation is in progress
\* (_busy_message: "... is running in another GeST session"), but for an
\* operation whose subprocess did not start: it was counted and nobody
\* releases it (_spawn_streaming).
BusyIsTrue == /\ Running # {} => active > 0
              /\ active > 0 => Running # {} \/ spawnFaults > 0

\* No package operation is cut off by the service exiting under it, idle or
\* upgraded: a stream that ends has ended with its command's exit status
\* (_should_exit, "never bail out mid-merge").
MergeNeverCut == [][\A o \in streams : o \notin streams' => exit'[o] # None]_vars

\* What a screen reports is what its own commands did: success only when every
\* one of them exited with 0, failure only when one did not (RunScreen._code).
OwnResult ==
    \A s \in Sessions :
        LET mine == {o \in Ops : o[1] = s /\ Method(o) \notin Queries} IN
        /\ verdict[s] = "ok" => \A o \in mine : exit[o] = 0
        /\ verdict[s] = "failed" => \E o \in mine : exit[o] = 1

\* "Nothing was changed": the operation for which a screen reports that it did
\* not start, or was refused, has started nothing (RunScreen._finish).
NothingStarted ==
    \A s \in Sessions : verdict[s] \in {"busy", "notStarted"} =>
        LET o == <<s, cur[s]>> IN exit[o] = None /\ o \notin Running \cup side

\* A session's next operation is never refused because of its previous one:
\* when Finished has reached the frontend the lock has been released
\* (on_done emits and releases in one callback).
OwnOpNeverBlocks ==
    \A i \in DOMAIN calls : active > 0 => operation[1] # calls[i][1]

\* What the service says of itself, and what it has done when it refuses.
BackendInv == TypeOK /\ BusyIsTrue /\ NothingStarted

\* A frontend that calls the package service comes to an end: it does not wait
\* for ever for an answer or for a Finished (_run_one awaits without a
\* timeout), however often the service exits, unless a subprocess fails to
\* start: for that one no Finished is ever sent.
Finishes(s) == (\A o \in Ops : o[1] = s => Method(o) \notin Side) =>
                   verdict[s] # "none" \/ spawnFaults > 0

\* The lock as its users see it.
Lock == INSTANCE PackageLock WITH
            holder <- operation,
            ended <- {o \in Ops : IsPackage(o) /\ exit[o] # None},
            LockOps <- {o \in Ops : IsPackage(o)}

\* SoftwareService implements the cross-session lock: an operation takes it
\* when it is free and gives it up when, and only when, it has ended.
ImplementsLock == Lock!LockSpec
=============================================================================
