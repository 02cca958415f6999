----------------------------- MODULE MCServices -----------------------------
(* Model checking of services that share no state.  A behaviour is one of    *)
(*   stream   the output of a pipeline of two commands (OutputStream);       *)
(*   stage3   two stage3 requests that may share a target (Stage3Runner);    *)
(*   keyring  the daemon and a keychainctl process, with a failed save or a  *)
(*            kill (Keyring);                                                *)
(*   text     the file transforms of the configuration services (ConfigText); *)
(*   calls    the handlers of every method of every configuration service    *)
(*            (ConfigService, ServiceRegistry).                              *)
(* The services not chosen stay as they start.                               *)
EXTENDS OutputStream, Stage3Runner, Keyring, ConfigText, ConfigService,
        ServiceRegistry
VARIABLE part

\* The methods a missing tool or a failed write may leave without an answer.
ASSUME SilentMethods ==
    {m.name : m \in {n \in AllMethods : Silent(n)}} =
        {"AddUser", "ModifyUser", "DeleteUser", "AddGroup", "DeleteGroup",
         "SetGroupMember", "SetPassword", "SetDefaults", "RegenerateGrub",
         "InstallGrub/uefi", "InstallGrub/bios", "ConfigureSeamlessBoot",
         "SyncBootTheme/scene", "SyncBootTheme/target", "SetClock",
         "SetTarget", "Enable", "Disable", "Remove", "Add", "Control",
         "SetEnabled", "SetMasked/systemd", "ApplyChanges",
         "EnsureDeployKey/new", "EnsureDeployKey/present", "Scan"}

\* A stage3 service that has refused its requests and does nothing more.
Stage3Idle ==
    LET good == CHOOSE x \in SafeRoots : TRUE
        Each(v) == [r \in Requests |-> v]
    IN  /\ phase = Each("refused") /\ root = Each(good) /\ httpSig = Each(TRUE)
        /\ digests = Each([a \in Algorithms |-> "good"]) /\ tarball = Each("none")
        /\ sig = Each(FALSE) /\ workdir = Each(FALSE) /\ code = Each(0) /\ finished = Each(0)
        /\ target = [x \in Roots |-> {}]
TextIdle == kind = "confd" /\ before = <<>> /\ text = <<>> /\ edit = NoEdit
            /\ edits = 0

Init == /\ StreamInit /\ KeyringInit /\ SvcInit
        /\ \/ part = "stage3" /\ Stage3Init /\ TextIdle
           \/ part = "text" /\ Stage3Idle /\ TextInit
           \/ part \in {"stream", "keyring", "calls"} /\ Stage3Idle /\ TextIdle

\* A second call is one that touches something the first one touched; calls
\* about different objects do not meet.
Objs(m) == {m.steps[i].obj : i \in {j \in 1..Len(m.steps) :
                                    m.steps[j].op \in Changing}}
Related == \/ calls' = calls
           \/ calls = 0
           \/ Objs(last.m) \cap Objs(call'.m) # {}

Next ==
    /\ UNCHANGED part
    /\ \/ /\ part = "stream" /\ StreamNext
          /\ UNCHANGED <<stage3Vars, keyringVars, textVars, svcVars>>
       \/ /\ part = "stage3" /\ Stage3Next
          /\ UNCHANGED <<streamVars, keyringVars, textVars, svcVars>>
       \/ /\ part = "keyring" /\ KeyringNext /\ faults' + kills' <= 1
          /\ UNCHANGED <<streamVars, stage3Vars, textVars, svcVars>>
       \/ /\ part = "text" /\ TextNext
          /\ UNCHANGED <<streamVars, stage3Vars, keyringVars, svcVars>>
       \/ /\ part = "calls" /\ SvcNext /\ Related
          /\ UNCHANGED <<streamVars, stage3Vars, keyringVars, textVars>>

vars == <<part, streamVars, stage3Vars, keyringVars, textVars, svcVars>>
\* Nothing makes callers call, but a handler runs to its end.
Spec == Init /\ [][Next]_vars /\ StreamFair /\ Stage3Fair
        /\ WF_svcVars(part = "calls" /\ Handle)
=============================================================================
