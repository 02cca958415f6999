------------------------------- MODULE Keyring -------------------------------
(***************************************************************************)
(* The keychain: one encrypted vault file (gest/core/keychain/vault.py and   *)
(* model.py), the Secret Service daemon helm-keyringd that serves it on the  *)
(* session bus (gest/keyringd), and keychainctl processes that edit it by    *)
(* hand (gest/tui/keychain/cli.py).                                          *)
(*                                                                         *)
(* Each process decrypts the whole vault when it opens it and afterwards     *)
(* works on its own copy; every change is made in memory first and then the  *)
(* whole copy is sealed and written over the file.  The write is a temporary *)
(* file and os.replace, so the file is the old or the new vault, never a     *)
(* part of one.                                                              *)
(*                                                                         *)
(* Ids are random and never repeat: they are drawn from two counters, whose  *)
(* order is also the insertion order of the dictionaries.  An item's value   *)
(* stands for its label and its secret.                                      *)
(***************************************************************************)
EXTENDS Integers, FiniteSetsExt

CONSTANTS
    Ctls,         \* keychainctl processes
    Daemon,       \* the daemon process
    Passphrases,
    Values,       \* what an item holds
    Attrs,        \* attribute dictionaries
    Aliases,      \* collection aliases
    Default,      \* the alias "default"
    None,         \* no passphrase, no such object
    Alone,        \* TRUE: a process opens the vault only while no other has it open
    MaxCols, MaxItems, MaxSessions,   \* bounds on the ids drawn
    MaxFaults, MaxKills               \* bounds on failing saves and killed processes

ASSUME KeyringAssumption ==
    /\ Daemon \notin Ctls
    /\ Default \in Aliases
    /\ None \notin Passphrases \cup Values
    /\ Alone \in BOOLEAN
    /\ {MaxCols, MaxItems, MaxSessions, MaxFaults, MaxKills} \subseteq Nat

Procs == Ctls \cup {Daemon}

VARIABLES
    file,      \* the vault file
    mem,       \* per process, the vault it has open
    creating,  \* the keychainctl processes that are creating a vault
    removing,  \* the collection the daemon is deleting, item by item
    exported,  \* the daemon's D-Bus objects: [cols, items, sessions]
    cols,      \* collection ids drawn so far
    items,     \* item ids drawn so far
    sessions,  \* session ids drawn so far
    owed,      \* history: per object, the states a reply allows it to be in
    faults, kills

keyringVars == <<file, mem, creating, removing, exported, cols, items, sessions, owed, faults, kills>>

-----------------------------------------------------------------------------
\* A vault: its passphrase, its collections with their aliases, its items.
EmptyVault(pass) == [pass |-> pass, cols |-> <<>>, items |-> <<>>]

\* No vault file, or a vault that is locked.
NoVault == EmptyVault(None)

ItemsOf(v, c) == {i \in DOMAIN v.items : v.items[i].col = c}

Without(f, S) == [x \in DOMAIN f \ S |-> f[x]]

\* f, with the values of g where g has one.
Updated(f, g) ==
    [x \in DOMAIN f \cup DOMAIN g |-> IF x \in DOMAIN g THEN g[x] ELSE f[x]]

AddCollection(v, c, names) == [v EXCEPT !.cols = Updated(@, [x \in {c} |-> names])]

AddItem(v, i, c, attrs, value) ==
    [v EXCEPT !.items =
        Updated(@, [x \in {i} |-> [col |-> c, attrs |-> attrs, value |-> value]])]

RemoveItems(v, S) == [v EXCEPT !.items = Without(@, S)]

Pass == <<"pass", 0>>
Col(c) == <<"col", c>>
Item(i) == <<"item", i>>

\* The state of one object of a vault, as a later reader finds it.
State(v, k) ==
    CASE k[1] = "pass" -> v.pass
      [] k[1] = "col"  -> IF k[2] \in DOMAIN v.cols THEN v.cols[k[2]] ELSE None
      [] k[1] = "item" -> IF k[2] \in DOMAIN v.items THEN v.items[k[2]].value ELSE None

Keys == {Pass} \cup {Col(c) : c \in Nat} \cup {Item(i) : i \in Nat}

NoObjects == [cols |-> {}, items |-> {}, sessions |-> {}]

\* KeyringDaemon.serve: every collection and item of the vault is exported.
Objects(v) == [cols |-> DOMAIN v.cols, items |-> DOMAIN v.items, sessions |-> {}]

KeyringInit ==
    /\ file = NoVault
    /\ mem = [p \in Procs |-> NoVault]
    /\ creating = {}
    /\ removing = None
    /\ exported = NoObjects
    /\ cols = 0 /\ items = 0 /\ sessions = 0
    /\ owed = <<>>
    /\ faults = 0 /\ kills = 0

-----------------------------------------------------------------------------
\* Mutant: the bus objects of items are not brought up to date.
Commit_noExport(p, v, objects, changed) ==
    LET promise == [k \in changed |-> {State(v, k)}]
        doubt == [k \in changed |->
                    promise[k] \cup (IF k \in DOMAIN owed THEN owed[k] ELSE {None})]
    IN
    /\ mem' = [mem EXCEPT ![p] = IF p = Daemon THEN v ELSE NoVault]
    /\ exported' = IF p = Daemon THEN [objects EXCEPT !.items = exported.items] ELSE exported
    /\ \/ /\ file' = v
          /\ owed' = Updated(owed, promise)
          /\ UNCHANGED <<faults, kills>>
       \/ /\ faults < MaxFaults /\ faults' = faults + 1
          /\ owed' = Updated(owed, doubt)
          /\ UNCHANGED <<file, kills>>

\* Process p has changed its copy to v and saves it (Vault.save): it succeeds
\* and the caller is answered; or writing fails and the exception ends the
\* request, the change still in memory and the bus objects as they were; or p
\* is killed before or after os.replace.  A keychainctl process ends with its
\* command.
Commit(p, v, objects, changed) ==
    LET promise == [k \in changed |-> {State(v, k)}]
        doubt == [k \in changed |->
                    promise[k] \cup (IF k \in DOMAIN owed THEN owed[k] ELSE {None})]
    IN
    \/ /\ file' = v
       /\ mem' = [mem EXCEPT ![p] = IF p = Daemon THEN v ELSE NoVault]
       /\ exported' = IF p = Daemon THEN objects ELSE exported
       /\ owed' = Updated(owed, promise)
       /\ UNCHANGED <<faults, kills>>
    \/ /\ faults < MaxFaults
       /\ faults' = faults + 1
       /\ mem' = [mem EXCEPT ![p] = IF p = Daemon THEN v ELSE NoVault]
       /\ owed' = Updated(owed, doubt)
       /\ UNCHANGED <<file, exported, kills>>
    \/ /\ kills < MaxKills
       /\ kills' = kills + 1
       /\ file' \in {file, v}
       /\ mem' = [mem EXCEPT ![p] = NoVault]
       /\ exported' = IF p = Daemon THEN NoObjects ELSE exported
       /\ owed' = Updated(owed, doubt)
       /\ UNCHANGED faults

MayOpen(p) == mem[p] = NoVault /\ (Alone => \A q \in Procs : mem[q] = NoVault)

\* keychainctl init: Vault.create refuses when the file exists, then derives
\* the key and makes the login collection; CreateEnd writes it.
CreateBegin(p, pass) ==
    /\ p \in Ctls /\ MayOpen(p)
    /\ file = NoVault
    /\ cols < MaxCols
    /\ cols' = cols + 1
    /\ mem' = [mem EXCEPT ![p] = AddCollection(EmptyVault(pass), cols', {Default})]
    /\ creating' = creating \cup {p}
    /\ UNCHANGED <<file, removing, exported, items, sessions, owed, faults, kills>>

CreateEnd(p) ==
    /\ p \in creating
    /\ Commit(p, mem[p], NoObjects, {Pass} \cup {Col(c) : c \in DOMAIN mem[p].cols})
    /\ creating' = creating \ {p}
    /\ UNCHANGED <<removing, cols, items, sessions>>

\* _open_unlocked, or the start of the daemon: with the passphrase that opens
\* the file (any other leaves everything as it is).
Open(p) ==
    /\ MayOpen(p)
    /\ file # NoVault
    /\ mem' = [mem EXCEPT ![p] = file]
    /\ exported' = IF p = Daemon THEN Objects(file) ELSE exported
    /\ UNCHANGED <<file, creating, removing, cols, items, sessions, owed, faults, kills>>

\* The daemon is stopped, or a keychainctl process ends without a change.
Close(p) ==
    /\ mem[p] # NoVault
    /\ mem' = [mem EXCEPT ![p] = NoVault]
    /\ creating' = creating \ {p}
    /\ removing' = IF p = Daemon THEN None ELSE removing
    /\ exported' = IF p = Daemon THEN NoObjects ELSE exported
    /\ UNCHANGED <<file, cols, items, sessions, owed, faults, kills>>

-----------------------------------------------------------------------------
\* A change needs the vault open: keychainctl's after its prompts, the
\* daemon's at any time.
Editing(p) ==
    /\ mem[p] # NoVault
    /\ p \notin creating
    /\ p = Daemon => removing = None

\* The object the request names: for the daemon it must be on the bus.
HasCol(p, c) == p = Daemon => c \in exported.cols
HasItem(p, i) == p = Daemon => i \in exported.items

\* Service.CreateCollection and keychainctl mkcollection.
CreateCollection(p, names) ==
    /\ Editing(p)
    /\ cols < MaxCols
    /\ cols' = cols + 1
    /\ Commit(p, AddCollection(mem[p], cols', names),
              [exported EXCEPT !.cols = @ \cup {cols'}], {Col(cols')})
    /\ UNCHANGED <<creating, removing, items, sessions>>

\* Mutant: the alias is added, but the vault is not saved.
SetAlias_unsaved(name, c) ==
    /\ Editing(Daemon)
    /\ c \in DOMAIN mem[Daemon].cols
    /\ mem' = [mem EXCEPT ![Daemon].cols[c] = @ \cup {name}]
    /\ owed' = Updated(owed, [k \in {Col(c)} |-> {mem[Daemon].cols[c] \cup {name}}])
    /\ UNCHANGED <<file, exported, faults, kills, creating, removing, cols, items, sessions>>

\* Service.SetAlias: the alias is added to the collection; other collections
\* keep it.
SetAlias(name, c) ==
    /\ Editing(Daemon)
    /\ c \in DOMAIN mem[Daemon].cols
    /\ name \notin mem[Daemon].cols[c]
    /\ Commit(Daemon, [mem[Daemon] EXCEPT !.cols[c] = @ \cup {name}], exported, {Col(c)})
    /\ UNCHANGED <<creating, removing, cols, items, sessions>>

\* The item a replacing CreateItem overwrites: the first with these attributes.
Replaced(v, c, attrs) == {i \in ItemsOf(v, c) : v.items[i].attrs = attrs}

\* Collection.CreateItem that overwrites an item.  One that a failed CreateItem
\* left without a bus object gets it now.
ReplaceItem(c, attrs, value) ==
    /\ Editing(Daemon) /\ exported.sessions # {}
    /\ HasCol(Daemon, c)
    /\ c \in DOMAIN mem[Daemon].cols
    /\ Replaced(mem[Daemon], c, attrs) # {}
    /\ LET i == Min(Replaced(mem[Daemon], c, attrs)) IN
        Commit(Daemon, [mem[Daemon] EXCEPT !.items[i].value = value],
               [exported EXCEPT !.items = @ \cup {i}], {Item(i)})
    /\ UNCHANGED <<creating, removing, cols, items, sessions>>

\* Collection.CreateItem that makes a new item, and keychainctl add (whose
\* collection may be named by an alias).
CreateItem(p, c, attrs, value) ==
    /\ Editing(p) /\ HasCol(p, c)
    /\ p = Daemon => exported.sessions # {}
    /\ c \in DOMAIN mem[p].cols
    /\ items < MaxItems
    /\ items' = items + 1
    /\ Commit(p, AddItem(mem[p], items', c, attrs, value),
              [exported EXCEPT !.items = @ \cup {items'}], {Item(items')})
    /\ UNCHANGED <<creating, removing, cols, sessions>>

\* Item.SetSecret and the setter of Item.Label.
SetSecret(i, value) ==
    /\ Editing(Daemon) /\ HasItem(Daemon, i)
    /\ i \in DOMAIN mem[Daemon].items
    /\ Commit(Daemon, [mem[Daemon] EXCEPT !.items[i].value = value], exported, {Item(i)})
    /\ UNCHANGED <<creating, removing, cols, items, sessions>>

\* Item.Delete and keychainctl rm.
DeleteItem(p, i) ==
    /\ Editing(p) /\ HasItem(p, i)
    /\ i \in DOMAIN mem[p].items
    /\ Commit(p, RemoveItems(mem[p], {i}), [exported EXCEPT !.items = @ \ {i}], {Item(i)})
    /\ UNCHANGED <<creating, removing, cols, items, sessions>>

\* Item.Delete of an item that an earlier, failed Delete has already taken out
\* of the vault: nothing is saved and the object goes.
DeleteGone(i) ==
    /\ Editing(Daemon) /\ i \in exported.items
    /\ i \notin DOMAIN mem[Daemon].items
    /\ exported' = [exported EXCEPT !.items = @ \ {i}]
    /\ UNCHANGED <<file, mem, creating, removing, cols, items, sessions, owed, faults, kills>>

\* Collection.Delete: remove_collection deletes the items one at a time, each
\* with its own save, then the collection.  The daemon answers nothing else
\* meanwhile; other processes do run.  A failed save ends the request.
BeginDelete(c) ==
    /\ Editing(Daemon) /\ c \in exported.cols
    /\ removing' = c
    /\ UNCHANGED <<file, mem, creating, exported, cols, items, sessions, owed, faults, kills>>

Saved == faults' = faults /\ kills' = kills

DeleteNext ==
    /\ mem[Daemon] # NoVault /\ removing # None
    /\ ItemsOf(mem[Daemon], removing) # {}
    /\ LET i == Min(ItemsOf(mem[Daemon], removing)) IN
        Commit(Daemon, RemoveItems(mem[Daemon], {i}),
               [exported EXCEPT !.items = @ \ {i}], {Item(i)})
    /\ removing' = IF Saved THEN removing ELSE None
    /\ UNCHANGED <<creating, cols, items, sessions>>

DeleteEnd ==
    /\ mem[Daemon] # NoVault /\ removing # None
    /\ ItemsOf(mem[Daemon], removing) = {}
    /\ Commit(Daemon, [mem[Daemon] EXCEPT !.cols = Without(@, {removing})],
              [exported EXCEPT !.cols = @ \ {removing}], {Col(removing)})
    /\ removing' = None
    /\ UNCHANGED <<creating, cols, items, sessions>>

\* keychainctl passwd: the vault is sealed with another key from now on.
ChangePassphrase(p, pass) ==
    /\ p \in Ctls /\ Editing(p)
    /\ Commit(p, [mem[p] EXCEPT !.pass = pass], NoObjects, {Pass})
    /\ UNCHANGED <<creating, removing, cols, items, sessions>>

\* Service.OpenSession and Session.Close.
OpenSession ==
    /\ Editing(Daemon)
    /\ sessions < MaxSessions
    /\ sessions' = sessions + 1
    /\ exported' = [exported EXCEPT !.sessions = @ \cup {sessions'}]
    /\ UNCHANGED <<file, mem, creating, removing, cols, items, owed, faults, kills>>

CloseSession(s) ==
    /\ Editing(Daemon) /\ s \in exported.sessions
    /\ exported' = [exported EXCEPT !.sessions = @ \ {s}]
    /\ UNCHANGED <<file, mem, creating, removing, cols, items, sessions, owed, faults, kills>>

\* A new collection's aliases: at most one over D-Bus, any number of --alias.
NewAliases(p) == {names \in SUBSET Aliases : p = Daemon => Cardinality(names) <= 1}

Edit(p) ==
    \/ \E names \in NewAliases(p) : CreateCollection(p, names)
    \/ \E c \in 1..MaxCols, attrs \in Attrs, value \in Values : CreateItem(p, c, attrs, value)
    \/ \E i \in 1..MaxItems : DeleteItem(p, i)

DaemonEdit ==
    \/ \E name \in Aliases, c \in 1..MaxCols : SetAlias(name, c)
    \/ \E c \in 1..MaxCols, attrs \in Attrs, value \in Values : ReplaceItem(c, attrs, value)
    \/ \E i \in 1..MaxItems, value \in Values : SetSecret(i, value)
    \/ \E i \in 1..MaxItems : DeleteGone(i)
    \/ \E c \in 1..MaxCols : BeginDelete(c)
    \/ DeleteNext \/ DeleteEnd
    \/ OpenSession
    \/ \E s \in 1..MaxSessions : CloseSession(s)

KeyringNext ==
    \/ \E p \in Procs : Open(p) \/ Close(p) \/ Edit(p)
    \/ \E p \in Ctls, pass \in Passphrases : CreateBegin(p, pass) \/ ChangePassphrase(p, pass)
    \/ \E p \in Ctls : CreateEnd(p)
    \/ DaemonEdit

KeyringSpec == KeyringInit /\ [][KeyringNext]_keyringVars

-----------------------------------------------------------------------------
\* What was promised about an object, as a set of allowed states, is what the
\* vault v holds.
Keeps(v, keys) == v # NoVault => \A k \in keys \cap DOMAIN owed : State(v, k) \in owed[k]

\* What a caller was told is what a later reader finds, in the file and in the
\* running daemon: an item or collection reported stored is there with that
\* value until a request changes it, one reported deleted stays deleted, and a
\* request that failed has either happened or not.  Whatever saves failed and
\* whichever processes were killed in between.
PromisesKept == Keeps(file, DOMAIN owed) /\ Keeps(mem[Daemon], DOMAIN owed)

\* Every collection and item of the running daemon's vault has its bus object,
\* and every bus object has its item: what SearchItems returns can be called,
\* also when a collection's items are deleted one after the other, and after a
\* restart.  (A failed save ends a request between the vault and the bus.)
ObjectsMatchVault ==
    mem[Daemon] # NoVault /\ faults = 0 =>
        /\ exported.cols = DOMAIN mem[Daemon].cols
        /\ exported.items = DOMAIN mem[Daemon].items
=============================================================================
