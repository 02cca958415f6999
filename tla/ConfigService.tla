---------------------------- MODULE ConfigService ----------------------------
(***************************************************************************)
(* The life of one call to a configuration interface of the root backend:   *)
(* polkit, guard_config_root, the argument checks, the steps that change    *)
(* the system, and the answer.  Handlers run to completion on the backend's  *)
(* main loop, one at a time; the backend may be killed between any two       *)
(* steps and is started again by the next call.                             *)
(*                                                                         *)
(* A method (see ServiceRegistry) is a record                               *)
(*   name    the D-Bus method                                               *)
(*   polkit  whether check_authorization stands before everything else      *)
(*   root    whether it takes a target root, checked by guard_config_root   *)
(*   os      whether the handler answers an OSError of any of its steps     *)
(*   steps   what it does, in the order of the code                         *)
(* A step is [op, obj, live, fail, own]:                                    *)
(*   arg     check argument obj: ValueError, answered INVALID_ARGS          *)
(*   guard   guard_provision_target: DiskSafetyError, answered "refused"    *)
(*   run     a command that changes obj                                     *)
(*   write   _atomic_write of file obj (temporary file, os.replace)         *)
(*   stage   write a temporary file beside obj                              *)
(*   check   let the owner's checker look at obj                            *)
(*   place   os.replace the staged file onto obj                            *)
(*   link    make a temporary link to obj, in the place of an older one     *)
(*   rename  os.replace the link onto obj                                   *)
(*   live    the step is left out when is_target(root)                      *)
(*   fail    what a failed command means: "stop", "goon" (the rest still    *)
(*           runs, the answer is False), "ignore" (best effort) or          *)
(*           "suppress" (best effort, a missing tool included)              *)
(*   own     the step's OSError is answered by a try of its own             *)
(***************************************************************************)
EXTENDS Naturals, Sequences

CONSTANTS Methods,   \* the method records
          MaxCalls   \* bound: calls made

VARIABLES up,        \* the backend process runs
          call,      \* the call being handled, or NoCall
          pc,        \* its next step; 0 before polkit answers
          okAll,     \* no command that counts has failed so far
          calls,     \* calls made so far; the current one's number
          eff,       \* <<root, obj, n>>: obj was last set by call n
          temps,     \* <<root, obj, n>>: staged files lying about
          passed,    \* <<root, obj, n>>: contents the checker accepted
          last,      \* the last call that ended: its method, root and answer
          killed     \* the backend was killed at some time

svcVars == <<up, call, pc, okAll, calls, eff, temps, passed, last, killed>>

CallRoots == {"/", "target", "elsewhere"}
Answers == {"ok", "failed", "invalid", "denied", "none"}
Ops == {"arg", "guard", "run", "write", "stage", "check", "place", "link",
        "rename"}
Changing == {"run", "write", "place", "rename"}
\* What leaves a file of its own beside the one it is for.
Temporary == {"stage", "link"}

Args(m) == {m.steps[i].obj : i \in {j \in 1..Len(m.steps) :
                                    m.steps[j].op = "arg"}}

\* Every argument is checked before the first step that changes anything:
\* the argv builders raise before the command runs, WriteConfig validates the
\* whole batch first.
ASSUME ChecksFirst ==
    \A m \in Methods : \A i, j \in 1..Len(m.steps) :
        (i < j /\ m.steps[j].op = "arg") =>
            m.steps[i].op \notin Changing \cup Temporary

\* A method that takes a target root runs its commands, which act on the
\* running system, for the running system only.
ASSUME RunsAreLive ==
    \A m \in Methods : \A i \in 1..Len(m.steps) :
        (m.root /\ m.steps[i].op = "run") => m.steps[i].live

\* What a checker must have seen is changed behind a check that stops the
\* call (_write_checked, _apply_config).  nft -c looks at the file that
\* nft -f then loads.
Vetted == {"sshd_config", "sudoers.d/gest", "doas.conf", "live ruleset"}
Vets(checked, obj) ==
    checked = obj \/ (obj = "live ruleset" /\ checked = "nftables.nft")
ASSUME CheckedBefore ==
    \A m \in Methods : \A j \in 1..Len(m.steps) :
        (m.steps[j].op \in Changing /\ m.steps[j].obj \in Vetted) =>
            \E i \in 1..(j - 1) :
                /\ m.steps[i].op = "check" /\ m.steps[i].fail = "stop"
                /\ Vets(m.steps[i].obj, m.steps[j].obj)
                /\ m.steps[i].live => m.steps[j].live

\* A file is staged before it is checked, and what was staged and checked is
\* put into place by the very next step.
ASSUME PlacedNext ==
    \A m \in Methods : \A i, j \in 1..Len(m.steps) :
        (m.steps[i].op = "stage" /\ m.steps[j].op = "check"
                                 /\ m.steps[i].obj = m.steps[j].obj) =>
            /\ i < j /\ j < Len(m.steps)
            /\ m.steps[j + 1].op = "place"
            /\ m.steps[j + 1].obj = m.steps[j].obj
            /\ m.steps[j + 1].live => m.steps[j].live

\* No checker looks at a link.
ASSUME LinksUnchecked ==
    \A m \in Methods : \A i, j \in 1..Len(m.steps) :
        ~ /\ m.steps[i].op = "link" /\ m.steps[j].op = "check"
          /\ m.steps[i].obj = m.steps[j].obj

\* No method comes back to an object behind another change that counts.
ASSUME NoReturn ==
    \A m \in Methods : \A i, j, k \in 1..Len(m.steps) :
        ~ /\ i < j /\ j < k
          /\ m.steps[i].op \in Changing /\ m.steps[j].op \in Changing
          /\ m.steps[j].fail = "stop"
          /\ m.steps[i].obj = m.steps[k].obj

ASSUME MethodShape ==
    /\ MaxCalls \in Nat
    /\ \A m \in Methods : m.name # "none"
    /\ \A m \in Methods : /\ m.polkit \in BOOLEAN /\ m.root \in BOOLEAN
                          /\ m.os \in BOOLEAN /\ m.steps \in Seq(
                                [op : Ops, obj : STRING, live : BOOLEAN,
                                 fail : {"stop", "goon", "ignore", "suppress"},
                                 own : BOOLEAN])

NoMethod == [name |-> "none", polkit |-> FALSE, root |-> FALSE, os |-> TRUE,
             steps |-> <<>>]
NoCall == [m |-> NoMethod, root |-> "/", bad |-> {}]
NoLast == [m |-> NoMethod, root |-> "/", n |-> 0, answer |-> "none"]

Idle == call.m = NoMethod
StepNow == call.m.steps[pc]
Target == call.m.root /\ call.root # "/"
\* Commands act on the running system; files are resolved under the root.
Where(s) == IF s.op = "run" \/ ~ call.m.root THEN "/" ELSE call.root
Mine(s) == <<Where(s), s.obj, calls>>
SetBy(S, s) == {e \in S : e[1] # Where(s) \/ e[2] # s.obj} \cup {Mine(s)}

SvcInit ==
    /\ up = TRUE /\ call = NoCall /\ pc = 0 /\ okAll = TRUE /\ calls = 0
    /\ eff = {} /\ temps = {} /\ passed = {}
    /\ last = NoLast /\ killed = FALSE

\* A frontend calls a method; a dead backend is activated by the bus.
Call(m, root, bad) ==
    /\ Idle /\ calls < MaxCalls
    /\ ~ m.root => root = "/"
    /\ bad \subseteq Args(m)
    /\ up' = TRUE
    /\ call' = [m |-> m, root |-> root, bad |-> bad]
    /\ pc' = 0 /\ okAll' = TRUE /\ calls' = calls + 1
    /\ UNCHANGED <<eff, temps, passed, last, killed>>

EndWith(answer) ==
    /\ last' = [m |-> call.m, root |-> call.root, n |-> calls,
                answer |-> answer]
    /\ call' = NoCall /\ pc' = 0
    /\ UNCHANGED <<up, okAll, calls, killed>>

\* Mutant: the work starts while polkit is still asking.
Authorize_meanwhile ==
    /\ ~ Idle
    /\ \/ /\ call.m.polkit
          /\ EndWith("denied")
       \/ /\ pc = 0 /\ call.root # "elsewhere"
          /\ pc' = 1
          /\ UNCHANGED <<up, call, okAll, calls, last, killed>>
    /\ UNCHANGED <<eff, temps, passed>>

\* check_authorization, then guard_config_root, before anything else.
Authorize ==
    /\ ~ Idle /\ pc = 0
    /\ \/ /\ call.m.polkit
          /\ EndWith("denied")
       \/ /\ call.m.root /\ call.root = "elsewhere"
          /\ EndWith("invalid")
       \/ /\ call.root # "elsewhere"
          /\ pc' = 1
          /\ UNCHANGED <<up, call, okAll, calls, last, killed>>
    /\ UNCHANGED <<eff, temps, passed>>

\* Mutant: nobody asks whether the root is the running system's.
AtStep_anyRoot(ops) == ~ Idle /\ pc \in 1..Len(call.m.steps) /\ StepNow.op \in ops

\* The handler is at one of these steps and is_target does not leave it out.
AtStep(ops) == ~ Idle /\ pc \in 1..Len(call.m.steps) /\ StepNow.op \in ops
                      /\ ~ (StepNow.live /\ Target)

Advance == pc' = pc + 1 /\ UNCHANGED <<up, call, calls, last, killed>>

\* Mutant: the step behind a skipped one is passed over as well.
SkipLive_two ==
    /\ ~ Idle /\ pc \in 1..Len(call.m.steps) /\ StepNow.live /\ Target
    /\ pc' = pc + 2
    /\ UNCHANGED <<up, call, calls, last, killed, okAll, eff, temps, passed>>

\* Steps for the running system only are left out for a target root.
SkipLive ==
    /\ ~ Idle /\ pc \in 1..Len(call.m.steps) /\ StepNow.live /\ Target
    /\ Advance
    /\ UNCHANGED <<okAll, eff, temps, passed>>

CheckArg ==
    /\ AtStep({"arg", "guard"})
    /\ \/ /\ StepNow.op = "arg" /\ StepNow.obj \in call.bad
          /\ EndWith("invalid")
       \/ /\ StepNow.op = "guard"
          /\ EndWith("failed")
       \/ /\ StepNow.op = "arg" => StepNow.obj \notin call.bad
          /\ Advance /\ UNCHANGED okAll
    /\ UNCHANGED <<eff, temps, passed>>

\* Mutant: the checked file is copied into place, not moved.
Succeed_copies ==
    /\ AtStep(Changing \cup Temporary \cup {"check"})
    /\ Advance
    /\ eff' = IF StepNow.op \in Changing THEN SetBy(eff, StepNow) ELSE eff
    /\ temps' = IF StepNow.op = "stage" THEN temps \cup {Mine(StepNow)} ELSE temps
    /\ passed' = IF StepNow.op = "check" THEN passed \cup {Mine(StepNow)}
                 ELSE passed
    /\ UNCHANGED okAll

\* What a step that succeeds makes of the temporary files.
TempsAfter ==
    IF StepNow.op = "stage" THEN temps \cup {Mine(StepNow)}
    ELSE IF StepNow.op = "link" THEN SetBy(temps, StepNow)
    ELSE IF StepNow.op \in {"place", "rename"} THEN temps \ {Mine(StepNow)}
    ELSE temps

\* A step that succeeds.
Succeed ==
    /\ AtStep(Changing \cup Temporary \cup {"check"})
    /\ Advance
    /\ eff' = IF StepNow.op \in Changing THEN SetBy(eff, StepNow) ELSE eff
    /\ temps' = TempsAfter
    /\ passed' = IF StepNow.op = "check" THEN passed \cup {Mine(StepNow)}
                 ELSE passed
    /\ UNCHANGED okAll

\* Mutant: the sequence goes on behind a failed command.
CommandFails_goesOn ==
    /\ AtStep({"run", "check"})
    /\ Advance /\ okAll' = FALSE
    /\ UNCHANGED <<eff, temps, passed>>

\* Mutant: a later success makes good for an earlier failure.
CommandFails_forgets ==
    /\ AtStep({"run", "check"})
    /\ \/ StepNow.fail = "stop" /\ EndWith("failed")
       \/ /\ StepNow.fail # "stop"
          /\ Advance /\ UNCHANGED okAll
    /\ UNCHANGED <<eff, temps, passed>>

\* A command or checker exits with an error.  A rejected staged file is not
\* unlinked: _write_checked and _apply_config return from inside the try.
CommandFails ==
    /\ AtStep({"run", "check"})
    /\ \/ StepNow.fail = "stop" /\ EndWith("failed")
       \/ /\ StepNow.fail # "stop"
          /\ Advance /\ okAll' = (okAll /\ StepNow.fail # "goon")
    /\ UNCHANGED <<eff, temps, passed>>

\* Mutant: the handler has no OSError clause.
OsError_uncaught ==
    /\ AtStep(Changing \cup Temporary \cup {"check"})
    /\ EndWith("none")
    /\ temps' = {t \in temps : t[3] # calls}
    /\ UNCHANGED <<eff, passed>>

\* A write fails or a tool is not installed: the temporary file is unlinked
\* (the link of a failed rename is not) and the exception reaches the step's
\* own try, or the handler, which answers it or (without an OSError clause, or
\* with one whose value is not the method's) leaves the caller to its timeout.
OsError ==
    /\ AtStep(Changing \cup Temporary \cup {"check"})
    /\ StepNow.fail # "suppress"
    /\ EndWith(IF call.m.os \/ StepNow.own THEN "failed" ELSE "none")
    /\ temps' = IF StepNow.op = "rename" THEN temps
                ELSE {t \in temps : t[3] # calls}
    /\ UNCHANGED <<eff, passed>>

\* The last step is behind us.
Answer ==
    /\ ~ Idle /\ pc = Len(call.m.steps) + 1
    /\ EndWith(IF okAll THEN "ok" ELSE "failed")
    /\ UNCHANGED <<eff, temps, passed>>

Kill ==
    /\ up /\ ~ Idle
    /\ up' = FALSE /\ killed' = TRUE
    /\ last' = [m |-> call.m, root |-> call.root, n |-> calls,
                answer |-> "none"]
    /\ call' = NoCall /\ pc' = 0
    /\ UNCHANGED <<okAll, calls, eff, temps, passed>>

Handle == \/ Authorize \/ SkipLive \/ CheckArg \/ Succeed \/ CommandFails
          \/ OsError \/ Answer

SvcNext ==
    \/ \E m \in Methods, root \in CallRoots :
          \E bad \in {{}} \cup {{a} : a \in Args(m)} : Call(m, root, bad)
    \/ Handle
    \/ Kill

SvcSpec == SvcInit /\ [][SvcNext]_svcVars
\* The main loop runs a handler to its end; nothing makes callers call.
SvcFairSpec == SvcSpec /\ WF_svcVars(Handle)

-----------------------------------------------------------------------------
(* Properties *)

\* The handler's position stays within the steps of its method, and a call
\* gets one of the four answers or none.
SvcTypeOK ==
    /\ up \in BOOLEAN /\ okAll \in BOOLEAN /\ killed \in BOOLEAN
    /\ calls \in 0..MaxCalls
    /\ pc \in 0..Len(call.m.steps) + 1
    /\ Idle \/ (call.m \in Methods /\ call.root \in CallRoots)
    /\ last.answer \in Answers

\* A call that is denied or found invalid has changed nothing: no file, no
\* temporary file, no command run (ValueError and ACCESS_DENIED answers).
RefusedUntouched ==
    last.answer \in {"denied", "invalid"} =>
        \A e \in eff \cup temps : e[3] # last.n

\* What an answer of True vouches for: every step that counts, under the
\* root that was asked for.
Owed(m, root) ==
    {<<IF m.steps[i].op = "run" \/ ~ m.root THEN "/" ELSE root,
       m.steps[i].obj>> :
        i \in {j \in 1..Len(m.steps) :
               /\ m.steps[j].op \in Changing /\ m.steps[j].fail \in {"stop", "goon"}
               /\ ~ (m.steps[j].live /\ m.root /\ root # "/")}}
\* An answer of True means that every file and every live setting of the
\* method now has this call's value, whatever earlier calls left behind.
OkMeansDone ==
    last.answer = "ok" =>
        \A o \in Owed(last.m, last.root) :
            \/ <<o[1], o[2], last.n>> \in eff
            \/ \E e \in eff : e[1] = o[1] /\ e[2] = o[2] /\ e[3] > last.n

\* A call for an install target changes nothing of the running system: no
\* live command is run and every path is resolved under the root.
TargetConfined ==
    (~ Idle /\ Target) => \A e \in eff : e[3] = calls => e[1] = call.root

\* sshd_config, the sudoers drop-in and doas.conf hold only what sshd -t,
\* visudo or doas -C accepted, and the kernel only a ruleset nft -c accepted,
\* even when the backend is killed half way.
VettedOnly ==
    \A e \in eff : e[2] \in Vetted =>
        \E p \in passed : p[3] = e[3] /\ Vets(p[2], e[2])

\* What a call has done is a prefix of what it set out to do, also when it
\* failed, raised or was killed half way: no step takes effect behind one
\* that did not (_run_sequence, _configure_seamless, _sync_boot_theme, the
\* two writes of SetTimezone and SetLocale).
Took(m, root, n, i) ==
    <<IF m.steps[i].op = "run" \/ ~ m.root THEN "/" ELSE root,
      m.steps[i].obj, n>> \in eff
PrefixDone(m, root, n) ==
    \A i, j \in 1..Len(m.steps) :
        (/\ i < j /\ Took(m, root, n, j)
         /\ m.steps[i].op \in Changing /\ m.steps[i].fail = "stop"
         /\ ~ (m.steps[i].live /\ m.root /\ root # "/"))
            => Took(m, root, n, i)
PrefixApplied ==
    /\ ~ Idle => PrefixDone(call.m, call.root, calls)
    /\ (Idle /\ last.n > 0) => PrefixDone(last.m, last.root, last.n)

\* A temporary file outlives its call only when the checker rejected it or
\* the backend was killed.
NoStrayTemps ==
    (Idle /\ ~ killed) =>
        \A t \in temps : <<t[1], t[2], t[3]>> \notin passed

\* All that holds of a handler and its files at every step.
SvcInv == SvcTypeOK /\ RefusedUntouched /\ TargetConfined /\ VettedOnly /\ NoStrayTemps
\* An answer of True is true, and one that is not says how far the call came.
AnswersTrue == OkMeansDone /\ PrefixApplied

\* The methods in which some step's OSError passes every clause.
Silent(m) ==
    /\ ~ m.os
    /\ \E i \in 1..Len(m.steps) : /\ m.steps[i].op \notin {"arg", "guard"}
                                  /\ ~ m.steps[i].own
                                  /\ m.steps[i].fail # "suppress"

\* Every call is answered, unless the backend is killed or a step of one of
\* the silent methods raises: nothing a handler does waits for anyone.
Answered ==
    \A n \in 1..MaxCalls :
        (calls = n /\ ~ Idle) ~>
            (Idle /\ (last.n >= n)
             /\ (last.answer # "none" \/ killed \/ Silent(last.m)))
=============================================================================
