----------------------------- MODULE MCSoftware -----------------------------
(* Model checking of the package screens.  A behaviour is one of            *)
(*   software  the package list and its flows over an application and the   *)
(*             library it needs; a key waits for the list to be read, tasks *)
(*             do not, and a behaviour has one fault or one screen opened   *)
(*             over another;                                                *)
(*   sets      World & Package Sets with one custom set and two packages.   *)
EXTENDS Software, PackageSets
VARIABLE part

AppNeedsLib == {<<"app", "lib">>}
\* Nothing installed; the application wanted; it and its library orphaned,
\* with an update waiting.
Systems == {[inst |-> {}, old |-> {}, world |-> {}],
            [inst |-> Pkgs, old |-> {}, world |-> {"app"}],
            [inst |-> Pkgs, old |-> {"app"}, world |-> {}]}

Init == /\ SoftInit /\ SetsInit
        /\ \/ part = "software" /\ sys \in Systems /\ disk = NoSets /\ world = {}
           \/ part = "sets" /\ sys = [inst |-> {}, old |-> {}, world |-> {}] /\ mode = "manual"
Next == /\ UNCHANGED part
        /\ \/ part = "software" /\ SoftSettled
              /\ used'.asides + used'.troubles <= 1 /\ UNCHANGED setVars
           \/ part = "sets" /\ SetsNext /\ UNCHANGED softVars
Spec == Init /\ [][Next]_<<softVars, setVars, part>>


\* SoftInv, and the types of PackageSets.
PackagesInv == SoftInv /\ SetsTypeOK
=============================================================================
