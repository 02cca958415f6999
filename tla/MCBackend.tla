------------------------------ MODULE MCBackend ------------------------------
(***************************************************************************)
(* Model checking of the root service.  A plan of two operations is a       *)
(* screen that applies a selection (AcceptScreen) or one that polls         *)
(* PackageStatus first (OperationModule); the other screens call one        *)
(* method.  A behaviour is one of                                           *)
(*   crowd    sessions 1 to 3 compete for the lock, two of them with         *)
(*            streams whose signals reach each other, and a subprocess may   *)
(*            fail to start;                                                *)
(*   apart    sessions 4 to 6, at most one streaming on each interface.     *)
(***************************************************************************)
EXTENDS RootBackend, TLC
VARIABLE part

MCPlans == 1 :> <<"InstallMulti", "DepcleanMulti">>
        @@ 2 :> <<"UpdateWorld">>
        @@ 3 :> <<"SyncRepos">>
        @@ 4 :> <<"UnmergeMulti", "InstallBinaryMulti">>
        @@ 5 :> <<"PackageStatus", "MarkNewsRead">>
        @@ 6 :> <<"Unpack">>
\* The k-th session of those that are there.
Member(k) == IF part = "crowd" THEN k ELSE k + 3
Present == {Member(k) : k \in 1..3}
Absent == Sessions \ Present

MCInit == Init /\ part \in {"crowd", "apart"}
MCNext ==
    /\ UNCHANGED part
    /\ Next
    /\ \A s \in Absent : at'[s] = at[s]
    /\ part = "apart" => spawnFaults' = 0
\* FairSpec, in the behaviours where every frontend that is there is to end.
Apart == part = "apart"
MCSpec ==
    /\ MCInit /\ [][MCNext]_<<vars, part>>
    /\ WF_vars(Apart /\ Activate) /\ WF_vars(Apart /\ Dispatch)
    /\ WF_vars(Apart /\ (Refuse \/ StartStreaming \/ StartSide \/ StartBlocking))
    /\ WF_vars(Apart /\ FinishBlocking)
    /\ WF_vars(Apart /\ StreamDone) /\ WF_vars(Apart /\ SideDone)
    /\ \A s \in {4, 5, 6} : WF_vars(Apart /\ Frontend(s))

\* A Finished of another session reaches the sessions of a crowd.
TruthApart == part = "apart" => OwnResult /\ OwnOpNeverBlocks

\* Every frontend that is there comes to an end (Finishes).
SessionsFinish == part = "apart" => <>(\A s \in {4, 5, 6} : Finishes(s))
=============================================================================
