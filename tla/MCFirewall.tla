----------------------------- MODULE MCFirewall -----------------------------
(* The firewall screen, opened on a ruleset somebody has written by hand.   *)
EXTENDS Screens, ScreenRegistry

MCScreen == [n \in {FirewallScreen.name} |-> FirewallScreen]
MCVisits == {<<FirewallScreen.name>>}
Next == ScrNext /\ (foreign' > foreign => inst = <<>>)
Spec == ScrInit /\ [][Next]_scrVars
=============================================================================
