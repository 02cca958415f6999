--------------------------- MODULE MCTransactions ---------------------------
(* Model checking of the two transactional screens.  A behaviour is one of  *)
(*   quiet  Users & Groups: three staged changes over two groups; loads,    *)
(*          forms and one replay without faults, each ending before the     *)
(*          next key;                                                       *)
(*   busy   Users & Groups: two staged changes over one group; keys,        *)
(*          dialogues, faults and a second OK while a replay is under way,  *)
(*          and tabs switched while a list loads;                           *)
(*   repos  the repositories screen; keys wait for the list to be loaded    *)
(*          unless an Accept is under way.                                  *)
EXTENDS UserChanges, RepoChanges
VARIABLE part

InFlight == loads["users"] + loads["groups"]
Show == loads'["users"] + loads'["groups"] < InFlight
ByTask == Show \/ (apply' # apply /\ Len(apply') = Len(apply))
Busy ==
    /\ stages' <= 2
    /\ \A o \in ToSet(pending') : /\ o.kind \in {"add_user", "del_user", "add_group"}
                                   /\ o.group # "g2" /\ o.groups = {}
    /\ \A i \in 1..Len(ustack') : ustack'[i].is = "form" =>
           ustack'[i].kind \in {"add_user", "del_user", "add_group"}
    /\ Len(apply') = 2 => faults' = 0 /\ uview' = "users" /\ apply'[2].then = "stay"
    /\ Show \/ InFlight = 0 \/ (uview' # uview /\ InFlight = 1)
Quiet ==
    /\ faults' = 0 /\ Len(apply') <= 1
    /\ uview' # "auth"
    /\ \A i \in 1..Len(ustack') : ustack'[i].is \in {"screen", "form"}
    /\ ByTask \/ (InFlight = 0 /\ apply = <<>>)
Listing == /\ (loading /\ ~loading') \/ ~loading \/ Running # {}
           /\ Len(accept') = 2 /\ Running = {1, 2} => repoFaults' = 0

Init ==
    /\ UsersInit /\ ReposInit /\ part \in {"quiet", "busy", "repos"}
    /\ part = "busy" => accounts.groups = {}
    /\ part = "repos" => accounts.groups = {} /\ accounts.users = {}
    /\ part # "repos" => conf = [n \in {MainRepo} |-> conf[n]] /\ disabledFile = NoMap
Next ==
    /\ UNCHANGED part
    /\ \/ part = "quiet" /\ UsersNext /\ Quiet /\ UNCHANGED repoVars
       \/ part = "busy" /\ UsersNext /\ Busy /\ UNCHANGED repoVars
       \/ part = "repos" /\ ReposNext /\ Listing /\ UNCHANGED userVars
Spec == Init /\ [][Next]_<<userVars, repoVars, part>>
=============================================================================
