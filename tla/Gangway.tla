------------------------------ MODULE Gangway ------------------------------
(***************************************************************************)
(* Gangway: RDP profiles (gest/tui/gangway/cli.py over gest/core/rdp) and   *)
(* the handler of .rdp files.  It shares Customs with Drydock.              *)
(***************************************************************************)
EXTENDS Customs

\* add, import, and discover --add replace a profile without asking; a profile
\* without a host, or a range that is malformed or too large, is refused.
SaveOne(n) == <<Step("save_profile", GangwayId(n), n)>>
Add(s, n, valid) == Start(s, "add", n, IF valid THEN SaveOne(n) ELSE <<>>, IF valid THEN 0 ELSE 2)
Import(s, n, valid) == Start(s, "add", n, IF valid THEN SaveOne(n) ELSE <<>>, IF valid THEN 0 ELSE 1)
Discover(s, found, valid) ==
    LET hosts == SetToSeq(found)
    IN  Start(s, "add", Nothing,
              IF valid THEN FlattenSeq([i \in 1..Len(hosts) |-> SaveOne(hosts[i])]) ELSE <<>>,
              IF valid THEN 0 ELSE 2)
\* The profile goes first: after a kill in between there is no profile to
\* remove, and the launcher stays.
RmProfile(s, n) ==
    IF n \in profiles
      THEN Start(s, "rm profile", n, <<Step("delete_profile", GangwayId(n), Nothing),
                                       Step("remove_entry", GangwayId(n), Nothing)>>, 0)
      ELSE Start(s, "rm profile", n, <<>>, 1)
InstallLauncher(s, n) ==
    IF n \in profiles
      THEN Start(s, "install launcher", n, <<Step("write_entry", GangwayId(n), Nothing)>>, 0)
      ELSE Start(s, "install launcher", n, <<>>, 1)
\* Commands that only look: share takes the only profile when none is named,
\* open-file never asks for one.
OpenProfile(s, n) == Start(s, "look", n, <<>>, IF n \in profiles THEN 0 ELSE 1)
ShowProfile(s, n) == OpenProfile(s, n)
ExportProfile(s, n) == OpenProfile(s, n)
Share(s) == Start(s, "look", Nothing, <<>>, IF Cardinality(profiles) = 1 THEN 0 ELSE 2)
OpenFile(s, valid) == Start(s, "look", Nothing, <<>>, IF valid THEN 0 ELSE 1)
RegisterHandler(s) ==
    Start(s, "register handler", Handler,
          <<Step("write_entry", Handler, FreeRdp), Step("refresh", Handler, FreeRdp),
            Step("load_identity", Handler, FreeRdp), Step("register", Handler, FreeRdp)>>, 0)
\* Mutant: the identity stays.
UnregisterHandler_entryOnly(s) ==
    Start(s, "unregister handler", Handler,
          <<Step("remove_entry", Handler, FreeRdp), Step("refresh", Handler, FreeRdp)>>, 0)
UnregisterHandler(s) ==
    Start(s, "unregister handler", Handler,
          <<Step("remove_entry", Handler, FreeRdp), Step("load_identity", Handler, FreeRdp),
            Step("unregister", Handler, FreeRdp), Step("refresh", Handler, FreeRdp)>>, 0)

SaveProfile(s) ==
    /\ At(s, "save_profile")
    /\ profiles' = profiles \cup {Key(s)} /\ shells' = Goes(s)
    /\ UNCHANGED <<launchers, icons, identity, database, store, dirs, commands, dryFaults, excused>>
DeleteProfile(s) ==
    /\ At(s, "delete_profile")
    /\ profiles' = profiles \ {shells[s].on} /\ shells' = Goes(s)
    /\ UNCHANGED <<launchers, icons, identity, database, store, dirs, commands, dryFaults, excused>>

GangwayNext ==
    \E s \in Shells :
        \/ \E n \in Profiles :
              \/ RmProfile(s, n) \/ InstallLauncher(s, n)
              \/ OpenProfile(s, n) \/ ShowProfile(s, n) \/ ExportProfile(s, n)
        \/ \E valid \in BOOLEAN :
              \/ \E n \in Profiles : Add(s, n, valid) \/ Import(s, n, valid)
              \/ \E found \in SUBSET Profiles : Discover(s, found, valid)
              \/ OpenFile(s, valid)
        \/ Share(s) \/ RegisterHandler(s) \/ UnregisterHandler(s)
        \/ SaveProfile(s) \/ DeleteProfile(s) \/ CustomsSteps(s)

-----------------------------------------------------------------------------
(* Properties *)

\* With every command ended and no fault, a profile's launcher has its profile,
\* and the FreeRDP window is known to the handler only while it is installed,
\* unless commands on one profile or on identity.json overlapped.
GangwayTidy ==
    (\A s \in Shells : shells[s].todo = <<>>) /\ dryFaults = 0 =>
        /\ \A n \in Profiles : GangwayId(n) \in launchers \ excused => n \in profiles
        /\ identity[FreeRdp] = Handler => Handler \in launchers \cup excused
=============================================================================
