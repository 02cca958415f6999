------------------------------ MODULE Customs ------------------------------
(***************************************************************************)
(* The foreign-app layer that Drydock and Gangway share                     *)
(* (gest/core/customs): launchers, icons, the window identity map, and the  *)
(* desktop database.  A command line is a shell process with a list of      *)
(* steps left to do; each step is one change on disk, so commands of two    *)
(* terminals interleave and a killed one leaves the rest undone.            *)
(***************************************************************************)
EXTENDS Naturals, Sequences, FiniteSets, SequencesExt

CONSTANTS Barrels, Programs,   \* Drydock barrels and program ids
          Profiles,            \* Gangway RDP profiles
          Shells,              \* terminals
          MaxCommands,         \* commands started in a behaviour
          MaxFaults            \* host tools that fail, commands that are killed

ASSUME CustomsAssumption ==
    /\ {MaxCommands, MaxFaults} \subseteq Nat
    /\ IsFiniteSet(Programs) /\ IsFiniteSet(Profiles)

VARIABLES shells,              \* what each terminal is doing
          launchers, icons,    \* desktop ids with a .desktop file, an icon
          identity,            \* identity.json: window key -> desktop id
          database,            \* the launchers update-desktop-database last saw
          store,               \* drydock/<id>/config.json
          dirs,                \* drydock/<id>/
          profiles,            \* gangway/<name>.rdp
          commands, dryFaults,
          \* history, for the properties only
          excused              \* desktop ids left behind by a step with no guard

customsVars == <<shells, launchers, icons, identity, database, store, dirs,
                 profiles, commands, dryFaults, excused>>

\* Names are slugs: sequences of words, joined by a dash in the file name, so
\* two programs of two barrels may have one desktop id.  The window key of a
\* program is its exe stem, whatever the barrel.
DrydockId(b, p) == <<"drydock">> \o b \o p
GangwayId(n) == <<"gangway">> \o n
Handler == <<"gangway", "rdp", "handler">>
FreeRdp == <<"freerdp">>
Dids == {DrydockId(b, p) : b \in Barrels, p \in Programs}
            \cup {GangwayId(n) : n \in Profiles} \cup {Handler}
Keys == Programs \cup {FreeRdp}
Nothing == <<>>
NoBarrel == [saved |-> FALSE, programs |-> {}, verbs |-> FALSE]
NoIds == [k \in Keys |-> Nothing]
Idle == [cmd |-> "none", on |-> Nothing, todo |-> <<>>, rc |-> 0, ids |-> NoIds,
         plan |-> <<>>, did |-> <<>>, out |-> <<>>, raced |-> FALSE]
\* Only launchers with MIME types are in the database.
Handles(dids) == dids \ {GangwayId(n) : n \in Profiles}

CustomsInit ==
    /\ shells = [s \in Shells |-> Idle]
    /\ launchers = {} /\ icons = {} /\ identity = NoIds /\ database = {}
    /\ store = [b \in Barrels |-> NoBarrel] /\ dirs = {} /\ profiles = {}
    /\ commands = 0 /\ dryFaults = 0 /\ excused = {}

-----------------------------------------------------------------------------
(* A command starts: its early returns leave nothing to do.                 *)

StartPlan(s, cmd, on, todo, rc, plan) ==
    /\ shells[s].todo = <<>> /\ commands < MaxCommands
    /\ LET others == {t \in Shells \ {s} : shells[t].on = on /\ shells[t].todo # <<>>}
       IN  shells' = [t \in Shells |->
             CASE t = s -> [Idle EXCEPT !.cmd = cmd, !.on = on, !.todo = todo, !.rc = rc,
                                        !.plan = plan, !.raced = others # {} /\ todo # <<>>]
               [] t \in others /\ todo # <<>> -> [shells[t] EXCEPT !.raced = TRUE]
               [] OTHER -> shells[t]]
    /\ commands' = commands + 1
    /\ UNCHANGED <<launchers, icons, identity, database, store, dirs, profiles,
                   dryFaults, excused>>

Start(s, cmd, on, todo, rc) == StartPlan(s, cmd, on, todo, rc, <<>>)

\* A step names the desktop id and the key it is about.
Step(do, id, key) == [do |-> do, id |-> id, key |-> key, cfg |-> NoBarrel]
At(s, do) == shells[s].todo # <<>> /\ Head(shells[s].todo).do = do
Key(s) == Head(shells[s].todo).key
Did(s) == Head(shells[s].todo).id
Goes(s) == [shells EXCEPT ![s].todo = Tail(@)]
Fault == dryFaults < MaxFaults /\ dryFaults' = dryFaults + 1
\* What a scan writes before it saves, and what a command writes while another
\* one works on the same barrel, may have no owner.
Unguarded(s) == shells[s].raced \/ shells[s].cmd = "scan"
Excuse(s) == excused' = IF Unguarded(s) THEN excused \cup {Did(s)} ELSE excused

-----------------------------------------------------------------------------
(* The steps *)

WriteEntry(s) ==
    /\ At(s, "write_entry")
    /\ launchers' = launchers \cup {Did(s)} /\ shells' = Goes(s) /\ Excuse(s)
    /\ UNCHANGED <<icons, identity, database, store, dirs, profiles, commands, dryFaults>>
RemoveEntry(s) ==
    /\ At(s, "remove_entry")
    /\ launchers' = launchers \ {Did(s)} /\ shells' = Goes(s)
    /\ UNCHANGED <<icons, identity, database, store, dirs, profiles, commands, dryFaults, excused>>
\* wrestool and icotool: no icon when either fails, and nobody asks.
MakeIcon(s) ==
    /\ At(s, "icon")
    /\ shells' = Goes(s)
    /\ \/ icons' = icons \cup {Did(s)} /\ Excuse(s)
       \/ UNCHANGED <<icons, excused>>
    /\ UNCHANGED <<launchers, identity, database, store, dirs, profiles, commands, dryFaults>>
RemoveIcon(s) ==
    /\ At(s, "remove_icon")
    /\ icons' = icons \ {Did(s)} /\ shells' = Goes(s)
    /\ UNCHANGED <<launchers, identity, database, store, dirs, profiles, commands, dryFaults, excused>>

\* identity_store reads the whole map, changes it and writes it back.
LoadIdentity(s) ==
    /\ At(s, "load_identity")
    /\ shells' = [Goes(s) EXCEPT ![s].ids = identity]
    /\ UNCHANGED <<launchers, icons, identity, database, store, dirs, profiles, commands, dryFaults, excused>>
Registered(ids, key, did) == [ids EXCEPT ![key] = did]
Unregistered(ids, did) == [k \in Keys |-> IF ids[k] = did THEN Nothing ELSE ids[k]]
SaveIdentity(s) ==
    LET ids == shells[s].ids
        back == {ids[k] : k \in Keys} \ {identity[k] : k \in Keys}
    IN  /\ \/ At(s, "register") /\ identity' = Registered(ids, Key(s), Did(s))
           \/ At(s, "unregister") /\ identity' = Unregistered(ids, Did(s))
        /\ shells' = [Goes(s) EXCEPT ![s].ids = NoIds]
        \* An id another command dropped since the load comes back.
        /\ excused' = excused \cup (back \ {Nothing})
              \cup IF At(s, "register") /\ Unguarded(s) THEN {Did(s)} ELSE {}
        /\ UNCHANGED <<launchers, icons, database, store, dirs, profiles, commands, dryFaults>>

\* update-desktop-database; its status is not looked at.
RefreshDb(s) ==
    /\ At(s, "refresh")
    /\ shells' = Goes(s)
    /\ \/ database' = Handles(launchers) /\ UNCHANGED dryFaults
       \/ Fault /\ UNCHANGED database
    /\ UNCHANGED <<launchers, icons, identity, store, dirs, profiles, commands, excused>>

\* The terminal is closed, or Ctrl-C.
Kill(s) ==
    /\ shells[s].todo # <<>>
    /\ Fault
    /\ shells' = [shells EXCEPT ![s] = [Idle EXCEPT !.cmd = "killed", !.rc = 130]]
    /\ UNCHANGED <<launchers, icons, identity, database, store, dirs, profiles, commands, excused>>

CustomsSteps(s) ==
    \/ WriteEntry(s) \/ RemoveEntry(s) \/ MakeIcon(s) \/ RemoveIcon(s)
    \/ LoadIdentity(s) \/ SaveIdentity(s) \/ RefreshDb(s) \/ Kill(s)
=============================================================================
