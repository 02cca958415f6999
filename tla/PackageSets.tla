----------------------------- MODULE PackageSets -----------------------------
(***************************************************************************)
(* World & Package Sets (tui/screens/world.py) over PendingSets             *)
(* (core/software/sets.py): edits of the custom sets and marks on @world    *)
(* are staged, then one commit writes the set files and deselects the       *)
(* marked packages.  A commit is a coroutine, so keys, a reload, the end of *)
(* an earlier load and a second commit fall between its calls.              *)
(*                                                                          *)
(* Left out: the Clean Up that may follow a deselection (Software models    *)
(* the same review after an uninstall) and the built-in sets, which are     *)
(* read-only.                                                               *)
(***************************************************************************)
EXTENDS Naturals, Sequences, FiniteSets, SequencesExt

CONSTANTS SetNames, Entries,   \* custom sets, and what they may hold
          MaxEdits,            \* keys that stage or unstage something
          MaxCommits,          \* commits, which may overlap
          MaxSetFaults         \* backend calls that fail

VARIABLES disk,                \* /etc/portage/sets: name -> entries
          world,               \* /var/lib/portage/world
          listedWorld,         \* _world_pkgs; read through the reader's cache
          base,                \* PendingSets._disk
          staged, deleted,     \* PendingSets._atoms, ._deleted
          marked,              \* packages to deselect
          dialog,              \* the modal over the screen, with what it captured
          setLoads,            \* loads under way
          commits,             \* the commits under way, with what each has taken over
          setUsed              \* edits, commits and faults so far

setVars == <<disk, world, listedWorld, base, staged, deleted, marked, dialog, setLoads, commits, setUsed>>

NoSets == [n \in {} |-> <<>>]
NoDialog == [kind |-> "none", name |-> "", working |-> <<>>]
NoCommit == [at |-> "none", edits |-> {}, asked |-> {}, touched |-> {}, ok |-> TRUE]
With(f, n, v) == [m \in DOMAIN f \cup {n} |-> IF m = n THEN v ELSE f[m]]
Less(f, n) == [m \in DOMAIN f \ {n} |-> f[m]]

-----------------------------------------------------------------------------
(* PendingSets.                                                              *)

Exists(n) == n \in DOMAIN base \cup DOMAIN staged
IsNew(n) == n \in DOMAIN staged /\ n \notin DOMAIN base
BaseAtoms(n) == IF n \in DOMAIN base THEN base[n] ELSE <<>>
\* working_atoms: `staged or disk`, so an empty staged list counts as none.
Working(n) == IF n \in DOMAIN staged /\ staged[n] # <<>> THEN staged[n] ELSE BaseAtoms(n)
SetAtoms(n, atoms) ==
    /\ deleted' = deleted \ {n}
    /\ staged' = IF n \in DOMAIN base /\ atoms = base[n] THEN Less(staged, n) ELSE With(staged, n, atoms)
ToggleDelete(n) ==
    CASE n \in deleted -> deleted' = deleted \ {n} /\ UNCHANGED staged
      [] n \notin deleted /\ IsNew(n) -> staged' = Less(staged, n) /\ UNCHANGED deleted
      [] n \notin deleted /\ ~IsNew(n) /\ n \in DOMAIN base ->
           staged' = Less(staged, n) /\ deleted' = deleted \cup {n}
Edits == {[name |-> n, atoms |-> staged[n], gone |-> FALSE] : n \in DOMAIN staged}
         \cup {[name |-> n, atoms |-> <<>>, gone |-> TRUE] : n \in deleted}
HasPending == marked # {} \/ Edits # {}

-----------------------------------------------------------------------------
(* The screen.                                                               *)

Bump(what) == setUsed' = [setUsed EXCEPT ![what] = @ + 1]
Names == DOMAIN base \cup DOMAIN staged \cup deleted
SetsInit ==
    /\ \E S \in SUBSET SetNames, a \in Entries : disk = [n \in S |-> <<a>>]
    /\ world \in SUBSET Entries /\ listedWorld = {} /\ base = NoSets
    /\ staged = NoSets /\ deleted = {} /\ marked = {} /\ dialog = NoDialog
    /\ setLoads = 1 /\ commits = [k \in 1..MaxCommits |-> NoCommit]
    /\ setUsed = [edits |-> 0, commits |-> 0, faults |-> 0]

\* _load.  @world is read once: nothing here invalidates the reader's cache.
LoadSets == /\ setLoads > 0 /\ setLoads' = setLoads - 1
            /\ listedWorld' = (IF listedWorld = {} THEN world ELSE listedWorld)
            /\ base' = disk /\ marked' = marked \cap listedWorld'
            /\ UNCHANGED <<disk, world, staged, deleted, dialog, commits, setUsed>>

Plain == dialog = NoDialog
Named(es) == {e.name : e \in es}
Touch(cs, names) == [k \in DOMAIN cs |-> [cs[k] EXCEPT !.touched = @ \cup (names \cap Named(cs[k].edits))]]
Edited(names) == /\ setUsed.edits < MaxEdits /\ Bump("edits")
                 /\ commits' = Touch(commits, names)
Unmoved == UNCHANGED <<disk, world, listedWorld, base, setLoads>>
ToggleMark == \E p \in listedWorld :
    /\ Plain /\ Edited({}) /\ Unmoved /\ UNCHANGED <<staged, deleted, dialog>>
    /\ marked' = IF p \in marked THEN marked \ {p} ELSE marked \cup {p}
MarkAll == /\ Plain /\ Edited({}) /\ Unmoved /\ UNCHANGED <<staged, deleted, dialog>>
           /\ marked' \in {{}, listedWorld}
\* x: _toggle_atom on a row of the set, kept or staged.
ToggleAtom == \E n \in Names \ deleted :
    \E a \in Range(BaseAtoms(n)) \cup Range(Working(n)) :
        /\ Plain /\ Edited({n}) /\ Unmoved /\ UNCHANGED <<marked, dialog>>
        /\ SetAtoms(n, IF a \in Range(Working(n)) THEN SelectSeq(Working(n), LAMBDA b : b # a)
                       ELSE Append(Working(n), a))
DeleteSet == \E n \in Names :
    Plain /\ Edited({n}) /\ Unmoved /\ UNCHANGED <<marked, dialog>> /\ ToggleDelete(n)
\* _new_set, and _add_atom with the list it captures when it opens.
AskName == /\ Plain /\ dialog' = [NoDialog EXCEPT !.kind = "new"]
           /\ UNCHANGED <<disk, world, listedWorld, base, staged, deleted, marked, setLoads, commits, setUsed>>
AskAtom == \E n \in Names \ deleted :
    /\ Plain /\ dialog' = [kind |-> "add", name |-> n, working |-> Working(n)]
    /\ UNCHANGED <<disk, world, listedWorld, base, staged, deleted, marked, setLoads, commits, setUsed>>
Create == \E n \in SetNames :
    /\ dialog.kind = "new" /\ ~Exists(n) /\ dialog' = NoDialog
    /\ Edited({n}) /\ SetAtoms(n, <<>>) /\ Unmoved /\ UNCHANGED marked
AddAtom == \E a \in Entries \ Range(dialog.working) :
    /\ dialog.kind = "add" /\ dialog' = NoDialog /\ Edited({dialog.name})
    /\ SetAtoms(dialog.name, Append(dialog.working, a)) /\ Unmoved /\ UNCHANGED marked
Dismiss == /\ ~Plain /\ dialog' = NoDialog
           /\ UNCHANGED <<disk, world, listedWorld, base, staged, deleted, marked, setLoads, commits, setUsed>>
\* r: drops the staged set edits, keeps the marks, loads again.
ReloadSets == /\ Plain /\ Edited(Names) /\ staged' = NoSets /\ deleted' = {} /\ setLoads' = setLoads + 1
              /\ UNCHANGED <<disk, world, listedWorld, base, marked, dialog>>

-----------------------------------------------------------------------------
(* _apply, _run_apply, _commit.  Nothing keeps a second commit from starting *)
(* while one awaits.  `touched` is a history: the names that a key or        *)
(* another commit has changed since this one took over its edits.            *)

AskCommit == /\ Plain /\ HasPending /\ dialog' = [NoDialog EXCEPT !.kind = "confirm"]
             /\ UNCHANGED <<disk, world, listedWorld, base, staged, deleted, marked, setLoads, commits, setUsed>>
Unanswered(c) == Named({e \in Edits : e \notin c.edits \/ e.name \in c.touched})
Finish_always(cs, k) ==
    /\ commits' = [Touch(cs, Unanswered(cs[k])) EXCEPT ![k] = NoCommit]
    /\ staged' = NoSets /\ deleted' = {} /\ marked' = {} /\ setLoads' = setLoads + 1
\* A commit that went well clears all that is staged, its own or not, and
\* loads again.
Finish(cs, k) ==
    /\ commits' = [Touch(cs, IF cs[k].ok THEN Unanswered(cs[k]) ELSE {}) EXCEPT ![k] = NoCommit]
    /\ staged' = (IF cs[k].ok THEN NoSets ELSE staged)
    /\ deleted' = (IF cs[k].ok THEN {} ELSE deleted)
    /\ marked' = (IF cs[k].ok THEN {} ELSE marked)
    /\ setLoads' = setLoads + 1
\* The marks are read after the files are written, for the second call.
GoOn(cs, k) ==
    \/ /\ marked # {} /\ commits' = [cs EXCEPT ![k].at = "deselect", ![k].asked = marked]
       /\ UNCHANGED <<staged, deleted, marked, setLoads>>
    \/ marked = {} /\ Finish(cs, k)
Begun(k) == [commits EXCEPT ![k] = [NoCommit EXCEPT !.at = "write", !.edits = Edits]]
Confirm == \E k \in 1..MaxCommits :
    /\ dialog.kind = "confirm" /\ dialog' = NoDialog /\ k = setUsed.commits + 1 /\ Bump("commits")
    /\ \/ Edits # {} /\ commits' = Begun(k) /\ UNCHANGED <<staged, deleted, marked, setLoads>>
       \/ Edits = {} /\ GoOn(Begun(k), k)
    /\ UNCHANGED <<disk, world, listedWorld, base>>
Fails == setUsed.faults < MaxSetFaults /\ Bump("faults")
Gone(es) == Named({e \in es : e.gone})
Saved(d, es) == [n \in (DOMAIN d \cup Named(es)) \ Gone(es) |->
                    IF \E e \in es : e.name = n THEN (CHOOSE e \in es : e.name = n).atoms ELSE d[n]]
\* What the other commits carry for the names just written.
Overwritten(es) == [k \in DOMAIN commits |->
    [commits[k] EXCEPT !.touched = @ \cup (Named(es \ commits[k].edits) \cap Named(commits[k].edits))]]
\* write_config writes file after file and stops at the first that fails.
WriteSets == \E k \in DOMAIN commits : \E part \in SUBSET commits[k].edits, ok \in BOOLEAN :
    /\ commits[k].at = "write"
    /\ IF ok THEN part = commits[k].edits /\ UNCHANGED setUsed ELSE Fails
    /\ disk' = Saved(disk, part)
    /\ GoOn([Overwritten(part) EXCEPT ![k].ok = ok], k)
    /\ UNCHANGED <<world, listedWorld, base, dialog>>
Deselect == \E k \in DOMAIN commits, ok \in BOOLEAN :
    /\ commits[k].at = "deselect"
    /\ IF ok THEN UNCHANGED setUsed ELSE Fails
    /\ world' = IF ok THEN world \ commits[k].asked ELSE world
    /\ Finish([commits EXCEPT ![k].ok = @ /\ ok], k)
    /\ UNCHANGED <<disk, listedWorld, base, dialog>>

SetsNext == \/ LoadSets \/ ToggleMark \/ MarkAll \/ ToggleAtom \/ DeleteSet \/ AskName \/ AskAtom
            \/ Create \/ AddAtom \/ Dismiss \/ ReloadSets \/ AskCommit \/ Confirm \/ WriteSets \/ Deselect
SetsSpec == SetsInit /\ [][SetsNext]_setVars

-----------------------------------------------------------------------------
(* Properties.                                                               *)

SetsTypeOK == /\ DOMAIN disk \cup DOMAIN base \cup Names \subseteq SetNames
              /\ marked \cup world \cup listedWorld \subseteq Entries
              /\ DOMAIN staged \cap deleted = {} /\ setLoads \in Nat

\* When a commit ends, each edit it carried is on the disk or is still
\* staged, whichever call failed, unless a key or another commit has changed
\* that set meanwhile.  Two commits that overlap can lose an edit: the first
\* clears what only the second carries, and the second's write fails
\* (WorldScreen._commit).
InForce(e) == IF e.gone THEN e.name \notin DOMAIN disk' ELSE e.name \in DOMAIN disk' /\ disk'[e.name] = e.atoms
StillStaged(e) == IF e.gone THEN e.name \in deleted' ELSE e.name \in DOMAIN staged' /\ staged'[e.name] = e.atoms
CommitKeeps == [][\A k \in DOMAIN commits : commits[k].at # "none" /\ commits'[k].at = "none" =>
                     \A e \in commits[k].edits : e.name \in commits[k].touched \/ InForce(e) \/ StillStaged(e)]_setVars
=============================================================================
