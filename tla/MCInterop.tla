----------------------------- MODULE MCInterop -----------------------------
(* Model checking of the foreign-app commands.  A behaviour is one of       *)
(*   alone    one terminal, three Drydock commands, a kill or a failing tool *)
(*            anywhere;                                                      *)
(*   pair     two terminals, Drydock commands without recipes or reads, on   *)
(*            one program, no faults;                                       *)
(*   mixed    two terminals, Gangway commands and one barrel's commands;    *)
(*   rdp      one terminal, Gangway commands, faults;                       *)
(*   vessels  Flotilla, faults and kills.                                   *)
EXTENDS Drydock, Gangway, Flotilla
VARIABLE part
MCBarrels == {<<"a">>, <<"a", "b">>}
MCPrograms == {<<"c">>, <<"b", "c">>}
MCProfiles == {<<"n">>}
Recipe(b, flaw, ps, steps) == [id |-> b, flaw |-> flaw, programs |-> ps, steps |-> steps]
MCRecipes == {Recipe(<<"a">>, "none", MCPrograms, <<"auto", "manual", "auto">>),
              Convert(<<"a", "b">>, {<<"c">>}, <<"native", "native", "dosexec", "input_menu">>),
              Recipe(<<"a">>, "lint", {}, <<"auto", "unknown">>),
              Recipe(<<"a">>, "invalid", {}, <<>>), Recipe(<<"a">>, "unreadable", {}, <<>>)}

Alone == \A s \in Shells \ {1} : shells'[s] = Idle
About(on) == \A s \in Shells : shells'[s].on \in on
Cmds(set) == \A s \in Shells : shells'[s].cmd \in set \cup {"none"}
Pair == /\ Cmds({"create", "register", "scan", "rm", "winetricks"})
        /\ \A b \in Barrels : <<"b", "c">> \notin store'[b].programs
        /\ dryFaults' = 0
Mixed == /\ Cmds({"create", "register", "rm", "add", "rm profile", "install launcher",
                  "register handler", "unregister handler"})
         /\ About({Nothing, <<"a">>, <<"n">>, Handler})
         /\ \A b \in Barrels : <<"b", "c">> \notin store'[b].programs
         /\ dryFaults' = 0
Init == CustomsInit /\ FlotillaInit /\ part \in {"alone", "pair", "mixed", "rdp", "vessels"}
Next ==
    /\ UNCHANGED part
    /\ \/ part = "alone" /\ DrydockNext /\ Alone /\ UNCHANGED flotillaVars
       \/ part = "pair" /\ DrydockNext /\ Pair /\ UNCHANGED flotillaVars
       \/ part = "mixed" /\ (DrydockNext \/ GangwayNext) /\ Mixed /\ UNCHANGED flotillaVars
       \/ part = "rdp" /\ GangwayNext /\ Alone /\ UNCHANGED flotillaVars
       \/ part = "vessels" /\ FlotillaNext /\ UNCHANGED customsVars
Spec == Init /\ [][Next]_<<customsVars, flotillaVars, part>>

\* Launchers, icons, identities and the desktop database have their owners,
\* between any two steps of Drydock's and Gangway's commands.
LaunchersInv == DryTypeOK /\ NothingDangles /\ ProgramsReachable /\ DatabaseFresh /\ GangwayTidy
=============================================================================
