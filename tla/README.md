# GeST: TLA+ models, checks and proofs

GeST is a YaST-style administration tool for Gentoo: text and Qt frontends, a
polkit-gated root service on the system bus, an installer, and desktop services
around them. This directory models the parts of it whose correctness depends on
order, failure and concurrency: the installer's resumable run loop, the root service
and the sessions that share it, the configuration services and the files they edit,
the screens over them, the staged transactions, package management, the keychain, and
the commands for foreign applications and virtual machines. TLC checks each model on
small instances; TLAPS proves the central safety properties for every instance.

Paths below are relative to the repository.

## 1. Inventory

### Modelled

| Part | Source | State | Operations | Interacts with |
|---|---|---|---|---|
| Install engine | `gest/core/install/{engine,context,step}.py`, `gest/tui/screens/installer.py` | loop index, `opened_chroot`, `StateStore._done`, the run file and the target's state file | run, pass over, retry, skip, abort, teardown | steps (calls), the screen (`on_failure` callback), the target disk |
| Install steps | `gest/core/install/registry.py` | the target tree, mounts, accounts | about 40 step classes: `is_satisfied`, `run` | engine, disk, chroot, bootloader, kernel helpers |
| Disk provisioning, chroot | `gest/core/disk/{provision,mount}.py`, `gest/core/chroot` | partitions, filesystems, mount points | validate, wipe, partition, make filesystems, mount, prepare, tear down | install steps, the engine's `finally` |
| Root service | `gest/backend/service.py` | `_active`, `_operation`, `_last_activity`, child streams | 15 methods, idle check, upgrade check | polkit (blocking call), emerge, frontends (calls, broadcast signals) |
| Output streaming | `gest/backend/{service,kernel,stage3}.py` | partial line, line buffer, flush timer, pipeline index | read a chunk, end of output, flush, exit status | child processes, `Progress` and `Finished` |
| Kernel and stage3 services | `gest/backend/{kernel,stage3}.py` | runner, work directory | Build, Unpack | the same process as the root service |
| Configuration services | the other eighteen modules of `gest/backend` | the handler under way; files and live settings | every method: authorize, validate, change, answer | screens (calls), files, host tools, polkit |
| Configuration files | the editors in `gest/core/{network,sshd,wifi,disk,repos,portage,...}` | a file, as lines | set, remove, render | configuration services, the programs that own the files, the user's editor |
| Screens | `gest/tui/runtime.py`, `gest/tui/screens`, `gest/qt` | screen stack, loaded view, staged copy, asyncio tasks | open, edit, confirm, apply, reload, leave | configuration services, files changed by others |
| Transactions | `gest/core/{users,repos}/pending.py` and their screens | staged changes, lists, replays under way | stage, undo, OK, Accept, leave | users and repos services |
| Package management | `gest/tui/screens/{software,proposal,accept,update,cleanup,sync,autoaccept,world}.py`, `gest/core/software/{selection,sets}.py` | marks, flows and their screens, countdown, staged sets | mark, resolve, review, accept, run, tell the list, commit | root service, emerge |
| Frontend sessions | `gest/tui/screens/runscreen.py` and the `backend_client` modules | `_code`, the overall code, verdict | open, call, receive, return | root service |
| Keychain | `gest/core/keychain`, `gest/keyringd`, `gest/tui/keychain/cli.py` | vault file, each process's decrypted copy, bus objects, sessions | create, unlock, edit, save, re-key; the Secret Service methods | the vault file is shared between daemon and `keychainctl` |
| Drydock, Gangway, Customs | `gest/core/{drydock,rdp,customs}`, `gest/tui/{drydock,gangway}` | barrels, profiles, launchers, icons, identities, the desktop database | one per command | the same directories, from several terminals |
| Flotilla | `gest/core/flotilla`, `gest/tui/flotilla` | vessel record, disk, ISO, domain XML, libvirt's domains, image cache | one per command | `virsh`, `qemu-img`, `curl`, the guest |

What is hard in each of them, and what makes it correct:

- **Installer.** It is interrupted by failing commands, kills and reboots and
  must go on where it stopped. Its record of what is done moves from `/run` to
  the target in mid-run, and each step decides for itself, from marks, files or
  mount points, whether it has been done. Correct means: the record is never
  behind or ahead of its files, a disk is not wiped twice, success means that
  everything requested is on the disk, commands in the chroot find `/proc`,
  `/sys`, `/dev` and `/run`, nothing stays mounted, and root is never locked
  before somebody else can administer the system.
- **Root service.** One single-threaded loop serves all sessions, blocks in
  polkit, exits when idle or upgraded and is started again by the next call.
  Correct means: one package operation at a time, none cut off, a session hears
  the result of its own operation, and everybody is answered.
- **Streaming.** A reader, a timer and a batch limit empty the same buffer.
  Correct means: every line once, in order, in bounded batches, and nothing after
  the exit code.
- **Stage3.** A chain of asynchronous commands with five early ends; requests may
  overlap. Correct means: nothing unverified is unpacked, nothing outside the
  confinement is written, each request is answered and cleaned up.
- **Configuration services and files.** A handler makes several changes, any of which
  can fail, and the process can be killed between two; the files have other owners and
  other editors. Correct means: an answer claims no more than was done, a refused call
  changes nothing, a call for an install target stays inside it, what goes live has been
  vetted, and an edit is read back by GeST and by the file's owner, with everything
  else in the file as it was.
- **Screens and transactions.** Loads, calls and replies are tasks that go on while
  the user types; most screens send a whole file back. Correct means: a saved value
  survives, a settled screen shows the truth, staged changes are dropped only when tried
  or when the user, asked, agrees.
- **Package management.** Plans resolve, countdowns lapse and runs end while other
  screens are on top. Correct means: a run is started once, "Completed" is true, the
  list is current, a commit loses no edit.
- **Keychain.** Every change is made in memory, then the whole vault is written;
  two programs hold copies. Correct means: what a caller was told is what is
  stored, and the bus shows what the vault holds.
- **Foreign applications and virtual machines.** Short-lived commands change several
  files and call host tools, are killed between two steps, and run in two terminals.
  Correct means: nothing dangles, an exit status is honest, and no installed disk is
  allocated again.

The hazards behind these sentences, each at its line and with the properties that
watch it, are listed in `PROJECT.json`.

### Not modelled, and why

| Part | Why |
|---|---|
| Core service, shell service | read-only adapters that keep no state |
| Software readers, catalogues, previews | parse Portage's files and emerge's output; the models take their result |
| Orphans screen, install wizard pages, key bindings inside a pane, rendering | present data or collect a form; what they call is modelled |
| `assemble.py`, disk proposals, argv builders | pure construction of data; the models start from the result |
| Desktop environment (C++), packaging, scripts | no protocol of their own beyond the buses above |

## 2. Modules

| Module | Role |
|---|---|
| `InstallEngine` | the run loop, the StateStore, mounts and volumes, the environment; parameterised by the step list |
| `InstallRegistry` | the step classes and `build_registry`/`build_minimal_registry` as functions of a plan |
| `MCInstall` | plans for TLC |
| `InstallEngine_proofs` | type correctness; no repartitioning; the store is what the files say; no mark is lost; the chroot is prepared and left clean; a complete run has installed everything; nothing fails by itself; root is locked last |
| `PackageLock` | abstract specification of the cross-session package lock |
| `RootBackend` | the service process, its frontends, the bus between them; refines `PackageLock` |
| `MCBackend` | the frontends' plans for TLC, in two casts |
| `RootBackend_proofs` | type correctness, mutual exclusion, no cut merge, the refinement; refusals are true, and a failed spawn locks the service for good |
| `OutputStream` | line splitting, batching, flushing, pipelines |
| `Stage3Runner` | concurrent stage3 requests |
| `Keyring` | vault file, daemon, `keychainctl` |
| `Services_proofs` | of the three modules above: no line is lost; stage3 verifies before it unpacks, stays confined and ends truthfully; what callers of the keychain were told is kept, and the bus objects are the vault's |
| `MCServices` | the same three modules, the file editors and the configuration services for TLC, one per behaviour |
| `ConfigText` | the file editors as functions on lines, with GeST's readers and the files' owners |
| `ConfigService` | the life of a call to a configuration service |
| `ConfigService_proofs` | refused, confined, vetted and truthful calls, for every table of methods |
| `ServiceRegistry` | every method of the eighteen services as data for `ConfigService` |
| `Screens` | screen stack, modals, tasks, blocking calls; parameterised by the screens |
| `ScreenRegistry` | every configuration screen and Qt module as data for `Screens` |
| `Screens_proofs` | staged changes stay, saves are kept, what a screen shows is true, for every table of screens |
| `MCScreens`, `MCFirewall` | which screens are opened, alone or one after the other; the firewall screen on a ruleset written by hand |
| `UserChanges`, `RepoChanges`, `MCTransactions` | the two transactional screens |
| `Transactions_proofs` | staged changes are tried; no repository is forgotten |
| `Software`, `PackageSets`, `MCSoftware` | package list and flows; world and package sets |
| `Packages_proofs` | completed runs, countdowns and the list are honest; what a commit carries is saved, staged or touched since |
| `Customs`, `Drydock`, `Gangway` | launchers, icons, identities; Wine barrels; remote desktop profiles |
| `Flotilla` | virtual machines |
| `Interop_proofs` | no installed disk is allocated again; records, ISOs and domains agree; an install that exits with 0 has done its plan, or all but a manual last step |
| `MCInterop` | the foreign-app modules, in five kinds of behaviour |

Definitions named `X_something` next to a definition `X` are plausible bugs of
that code; replacing `X` by one of them makes the property it was written for
fail. They show that the properties can fail.

### InstallEngine and InstallRegistry

A step is a record: its StateStore `key`; how `is_satisfied` decides (`gate` with
the `marks`, `facts` and `mnts` it reads); whether its commands run in the chroot;
whether it opens it; and `ops`, its effects in the order the code performs them,
each with what the command needs to succeed. An effect wipes the disk (`zap`), acts
on the disk (`blk`), mounts (`root`, `mount`), or changes the tree under the target
root (`write`; `create`, which refuses to do it twice, as `useradd` does).
`InstallRegistry` writes each step class of `registry.py` in that form and the two
registry builders as sequences of them. File contents are one fact per file.

The target root is a plain directory of the live system until a disk is mounted on
it. `Where` is the volume a path under the root resolves to at this moment;
`fs` and `stateFile` are kept per volume. That is what makes "the state file moves
when `<root>/etc` appears" and "a mount hides what was written before" come out as
in the code.

| Action | Code |
|---|---|
| `StartRun` | `InstallerRun._run`: new StateStore (`_load`), new context with its snapshot of the mounts |
| `PassOver`, `BeginStep` | `is_satisfied` at the top of the loop |
| `RunOp`, `FailOp` | one command of `run`; a non-zero exit reaches `on_failure` with nothing undone |
| `FinishStep` | `opened_chroot`, `mark` (and its save), next index |
| `SaveFails` | the save inside `mark` raises outside the `try` (the loop's own mark, a skip), so it ends the run; memory has the mark, the file has not |
| `OwnSaveFails` | the save raises inside the `run` of a step that marks itself (`saves`, eight step classes): a failure like any other, on which the user is asked; the mark stays in memory, so RETRY passes over the step and the run goes on ahead of its file |
| `Retry`, `Skip`, `Abort` | the three answers of `on_failure`; a skip marks the step |
| `Complete`, `Teardown` | the end of the loop; the `finally` clause, one unmount at a time |
| `Kill`, `Reboot` | the process dies; the live system restarts and `/run` is lost |
| `Remount`, `Unmount` | the user, between runs |

### RootBackend

An operation is a session and a position in its plan. The loop's state is `stage`
and `handler`: while a handler waits for polkit (`auth`) or for a synchronous
command (`run`), nothing else is dispatched.

| Action | Code |
|---|---|
| `Activate` | bus activation by the first call to an absent service |
| `Dispatch` | a handler up to its first blocking point: queries answer, the busy check refuses, others go to polkit |
| `Refuse` | polkit says no or times out, or the arguments are invalid: an error, nothing started |
| `StartStreaming`, `SpawnFails` | answer, `_begin_op`, spawn; or the spawn raises after the operation has been counted |
| `StartBlocking`, `FinishBlocking` | SyncRepos, Deselect: `_begin_op`, run, `_end_op`, answer |
| `StartSide`, `SideDone` | kernel builds and stage3 installs, which do not use the count |
| `StreamDone` | `on_done`: `Finished` to all who have subscribed, `_end_op`, touch |
| `IdleExit` | `_idle_check` |
| `Call`, `Receive`, `Return` | the run screen's `_run_one` and `_run`, the same for the Qt stream |
| `Tick`, `Upgrade`, `External` | time, new code on disk, an emerge run by hand |

### OutputStream

`Chunk`, `Eof`, `Flush` and `Done` are the callbacks of the streamers in
`service.py`, `kernel.py` and `stage3.py`, which share their code line by line. The
bytes are chosen as they are read, so every way of cutting an output into chunks is
a behaviour. `Split` takes them one at a time (`SplitByte`), as `bytes.split` does.

### Stage3Runner

`Unpack` is the D-Bus method with its confinement check; `AfterDownload`, `AfterSig`,
`AfterGpg`, `Extract` and `AfterUnpack` are the continuations of the runner. The
digest file may list the right hash, a wrong one or none, for each algorithm; the
tarball may be missing, cut, another file, or the published one. A work directory that cannot be
made or a command that cannot be started (`Run`) raises out of the callback, and the runner is
not heard of again (`lost`); `ServiceExits` is the idle check of the process it runs in, under
which an unpack goes on by itself (`orphaned`).

### Keyring

`mem[p]` is the decrypted copy of process `p`. Every change goes through `Commit`:
memory first, then the file, where the save may fail or the process be killed before
or after `os.replace`, and then the bus object and the answer. `owed` records, for each
object, the states that the answers so far allow; a failed request allows the state
before and the one after. `CreateBegin` and `CreateEnd` are two actions because the
key derivation lies between `exists()` and the write. `BeginDelete`, `DeleteNext` and
`DeleteEnd` are the deletion of a collection, one save per item.

### ConfigText, ConfigService and ServiceRegistry

A file is a sequence of lines, each an active setting, a commented-out one, the opening
or closing of a block, or something else. `ApplyEdit` dispatches to one operator per
editor: those that replace the first line of a key (`confd`, `sshd`, `fstab`, `grub`,
`ini`), those that remove all of its lines and append (`net`, `atom`, `doas`, `wpa`,
`make`), and those that render a whole file (`dropin`, `hosts`). `ReadValue` is GeST's
reader of the same file and `Consumer` the program that owns it.

| Action of `ConfigService` | Code |
|---|---|
| `Call`, `Authorize` | the dispatch and `check_authorization`, which blocks the loop; `guard_config_root` |
| `CheckArg` | a validator that raises `ValueError`, or `guard_provision_target` |
| `Succeed`, `CommandFails`, `OsError` | one command or file replacement: done, refused by the tool, or raising -- which ends the call with an answer, or without one in the methods of `Silent` |
| `SkipLive` | a step left out when `is_target(root)` |
| `Answer` | the reply |
| `Kill` | the backend dies between two steps |

`ServiceRegistry` writes each handler as the sequence of its checks and changes, with
what a failure means there (stop, go on and answer False, or best effort) and whether an
`OSError` is caught where it is raised. 27 methods do not catch it (`SilentMethods` in
`MCServices`): with the tool missing, or for `Scan` with a reply of the wrong type, they
answer nothing.

### Screens and ScreenRegistry

`ScreenRegistry` describes a screen by what it loads, when, and what each key sends and
does with the reply; the header of `Screens` lists the vocabulary. A task goes through
`build` (arguments taken), `call`, `ok`/`refused`/`raised`, `read`, `show`; other tasks
and the user's keys come between, except in a blocking frontend. `Tasks` is the set of
coroutines there can be at a time (six in the run); a key that needs one more waits. History
variables say how the screens were used (`undisturbed`, `current`, `stray`, `added`, and the
fields of a screen set since its load, `set`), so that a property can say exactly what it
does not promise. An operation that changes what its screen shows and is not followed by a load
(mounting, installing a bootloader, building a kernel, masking a service from its detail screen
over the list) `Leaves` the screen behind, and nothing is promised of what it shows afterwards.
A `marked` screen (the firewall's) tells its own file from one written by hand (`byhand`), and
shows its defaults for the latter (`Seen`).

### UserChanges and RepoChanges

The staging actions are the keys and forms of the screens; `pending` and `marks` are the
pending objects. An OK or Accept is a task with the operations it took over, one call per
step, each of which may be refused by the system's state, fail by itself, or never get
through. Between the replay of an Accept and its writes, `WriteState`, `BeginEdits` and
`LocateEdit` are the loop over the staged edits, which awaits at each turn: when an edit is staged or
discarded meanwhile the loop ends with `RuntimeError` and the Accept with it, before anything is
written. The systems behind (accounts; `repos.conf` and GeST's records) are functions of
the calls, external to the repository.

### Software and PackageSets

`stack` is the screen stack, with one record per screen: the package list, a loading
screen with its unresolved plan, a review with its countdown, a run with its operations
and their exit codes, the modal at its end, and help or log texts over any of them.
Coroutines act on the frame they belong to, wherever it is in the stack. `sys` is what is
installed, out of date and wanted; emerge is a function on it. A key may be pressed while
the list is being read (`SoftNext`), or not (`SoftSettled`): two loads that overlap end in
either order and the later to end stays, so `ListTrue` is about the second, as the run is.
`PackageSets` has the staged
sets, the marks on @world, and the commits, which await between their calls and may overlap:
nothing in the code refuses a second one, and the one that ends well clears all that is staged.

### Customs, Drydock, Gangway, Flotilla

A command line is a list of steps left to do, each one change on disk or one host tool;
a command may be killed between two, and two terminals interleave. `excused` collects the
desktop ids that the commands are known to leave behind (an overwritten barrel, commands
overlapping on one file). `Flotilla` has one command at a time, since `virsh` and the
vessel's directory are per vessel, and the guest, which installs itself and shuts down.

## 3. Runs

Eight passing runs, one per group of components, and four runs in which TLC shows that the code does
something other than what a line of the repository says.

| Run | States | What it shows |
|---|---|---|
| `install_resume` | 81 582 | A rootless install under any two of a failing command or save, a kill and a reboot. `StoreMatchesFiles`: memory and files agree at every moment of a run, but for the marks of self-marking steps whose save failed. `MarksNeverLost`: no save drops a mark. `SessionNeverRepartitions`. `NoFaultNoFailure`: the order of the steps gives every command what it needs, also in a resumed run. `AdminReachable`: root is locked only when a wheel user and its rule exist. |
| `install_desktop` | 48 185 | A desktop install with `/home`, two accounts and opt-in modules, under any two of two faults and an unmount by hand. `CompleteMeansInstalled`: a run that reports success has put every effect of every requested, not skipped step on the disk. `ChrootInv`: commands in the chroot find the pseudo-filesystems, and a run that returns leaves none mounted. |
| `backend` | 963 994 | *crowd*: three sessions compete for the service while it idles out, is upgraded and fails to spawn, and emerges are run by hand. *apart*: one session with two streaming operations, one that polls the status and makes a synchronous call, one stage3 install. `OneOperation`, `MergeNeverCut`, and `ImplementsLock`, the refinement of `PackageLock`. `BackendInv`: the service is locked exactly while an operation runs, or after one that did not start; a refused operation has started nothing. In *apart*: `TruthApart` (a screen reports what its own commands did, and its second operation is never refused because of the first) and, with fairness, `SessionsFinish`. |
| `services` | 645 011 | *stream*: two commands, every way of cutting their output into chunks, the timer at any moment: `StreamInv` (nothing lost, bounded batches, no line without a flush pending, silence after the exit code) and `LinesGetOut`. *stage3*: two requests at once, every digest file and tarball, any command failing or not starting, the service leaving: `OnlyVerifiedUnpacked`, `Stage3Inv` (confined roots, success means unpacked, no leftovers behind an announced end) and `EveryRunEnds` (announced once, or lost in one of the two ways above). *keyring*: daemon and `keychainctl`, one at a time on the vault, with a failing save or a kill: `PromisesKept`, `ObjectsMatchVault`. *text*: every file of up to three lines, two edits, every editor. `TextInv`: what was written is what GeST and the file's owner read, other keys and the user's own lines stay, saving twice is saving once. *calls*: every method with any argument wrong, any command failing or missing, any root, a kill at any step. `SvcInv`: a refused call has changed nothing, a call for a target stays inside it, only vetted files go live, no temporary file is left. `AnswersTrue`: True means done, and what was done is a prefix of what was to be done. `Answered`: a call is answered, unless the process is killed or a step of a silent method raises. |
| `screens` | 516 168 | Every kind of screen, alone and after another, two edits (four where changes are staged), calls failing before or after the change, one edit made outside GeST. `SavedKept`: used one save at a time, no save undoes another. `ScreensInv`: a settled screen that has made no change it does not follow shows what is there. `StagedKept`: staged changes leave only when the user says so. `TasksEnd`. |
| `transactions` | 3 416 071 | Users and groups: three staged changes without faults, or two with faults, dialogues and a second OK under way; repositories: two marks, two Accepts, a fault. `UsersInv`: if any order lets all staged changes take effect, the replay does; the list belongs to its tab. `StagedSafe`: a change leaves the list tried or by consent. `ReposInv`: an Accept reported as complete is complete. `NeverForgotten`: no repository vanishes from both records, unless the marks change under the loop over the edits. |
| `interop` | 733 234 | Drydock alone with a kill or a failing tool; Drydock in two terminals; Drydock and Gangway in two terminals; Gangway with faults; Flotilla with faults. `LaunchersInv`: each launcher, icon and identity has an owner at every step, each program its launcher, the database is current. `ExitZeroComplete`: an install with status 0 has done all of its plan, in order, but for a manual step at its very end. `VesselInv`: the defined domain is the saved vessel's; a provisioned vessel has its ISO. `DiskKept`: no command but `rm` touches an installed disk. |
| `software` | 2 685 392 | The package list and three flows, with one fault or one text opened over a screen, in each accept mode; package sets with three edits and two commits. `PackagesInv`: what ends as Completed had every command succeed and is so. `AskedOnly`: a countdown starts at most one run, never one the user stopped. `ListTrue`: the list is that of the system. `CommitKeeps`: an edit a commit carried is on disk or still staged, or its set was touched meanwhile by a key or another commit. |

### Where the code and its documentation differ

| Run | What TLC finds |
|---|---|
| `install_retry_user` | `useradd` succeeds, the group command after it fails, the user retries: `CreateUser.is_satisfied` sees the name and passes over the rest; root is then locked with no wheel user (`registry.py:1057`). |
| `kept_removed` | A Clean Up review is reloaded with packages kept: the choice is forgotten at once and the rows are drawn again only when the new plan is there (`cleanup.py:150`). F10 in between runs a full depclean, which removes packages the screen shows as kept, although "A ✓ marks a package for removal" (`cleanup.py:106`). |
| `firewall` | A ruleset written by hand is read as none; the screen shows "Not applied yet — showing a safe default", and its save replaces the ruleset (`firewall.py:28-30`), although "the UI leaves it untouched" (`nft.py:7-8`) and it is to be "read-only" (`nft.py:106-107`). |
| `manual_last` | A plan whose last step is manual leaves nothing skipped behind the halt, so `ExecReport.ok` is true and `drydock install` exits with 0, although "a manual halt or a failure both make the run incomplete" (`executor.py:47-48`). |

Met while modelling, kept out of the passing runs by the choice of plan or by a stated
condition of the property, and listed as hazards:

- a step that marks itself and whose save fails is passed over by RETRY, with its mark in memory
  only, although "the step was never marked done" (`engine.py:14`); a kill then loses the mark;
- a pseudo-filesystem mount fails after earlier ones succeeded and the user aborts:
  `opened_chroot` is still false and nothing is unmounted (`engine.py:88`);
- a process killed inside the chroot leaves the pseudo-filesystems mounted; the resumed run
  passes over `PrepareChroot`, so its `opened_chroot` stays false too and it does not unmount
  them either: `ChrootInv` is checked and proved without kills (`engine.py:88`);
- the run file names steps, not a disk: a second install of the session, onto another
  disk, passes over partitioning (`context.py:53`);
- a store reads the target's file when it is built, not when the target is mounted later:
  after an unmount by hand between two runs of a session, the resumed run does not have
  the target's marks in memory (`context.py:106`); `install_resume` has no unmount;
- `MountTarget` and `SetTimezoneLocale` pass over a partial effect (`registry.py:138`);
- `WriteConfigStep` takes a file that the package has just installed for its own
  (`registry.py:1204`, plans with `sshd`);
- a kernel build does not count as activity, so the idle check can end the process under
  it, with no `Finished` (`kernel.py:179`);
- `Finished` names no operation: with two sessions streaming, one takes the other's result
  for its own (`runscreen.py:206`): in the *crowd* of the run `backend`, about which `TruthApart`
  says nothing;
- a spawn that raises leaves the lock held with nothing running (`service.py:676`), for good
  (`StuckForGood`): also in the *crowd*;
- a stage3 command that does not start, or the idle exit under a runner, ends it with no
  `Finished` and a work directory on the target (`stage3.py:103`, `service.py:264`);
- a tool that is not installed leaves the methods of `SilentMethods` without an answer
  (`bootloader.py:145`, `wifi.py:129`);
- "Nothing was changed." is shown also when an earlier operation of the same run
  succeeded (`runscreen.py:248`); `BackendInv` is about the operation refused;
- with the daemon running, `keychainctl`'s changes and its new passphrase are undone by
  the daemon's next save (`vault.py:126`); two `keychainctl init` at once both pass
  `exists()` (`vault.py:82`);
- `nftables.nft` is written before `nft -c` looks at it (`firewall.py:132`): what is loaded
  has been checked, the file may hold a rejected ruleset;
- a key mentioned twice, or inside a `Match` block, is not always the line edited
  (`sshd/config.py:92`);
- two overlapping saves of one file lose one of them (`dns.py:112`); a save that succeeds
  pops whatever screen is on top (`system.py:34`);
- a change staged while an OK, an Accept or a commit is under way can be dropped untried
  (`users.py:374`, `repos.py:530`, `world.py:506`); staging or discarding an edit while an Accept
  loops over the edits ends it with `RuntimeError`, and a repository it had taken out of
  `repos.conf` is forgotten (`repos.py:545`); of two overlapping commits the first clears what only
  the second carries, which is lost when the second's write fails (`world.py:506`);
- a screen goes on showing what a mount, a bootloader install, a kernel build or a mask has
  changed (`disk.py:120`, `bootloader.py:121`, `kernel.py:51`, `services.py:217`);
- a plan resolved while a help text is open leaves its loading screen waiting
  (`proposal.py:334`);
- update and sync runs started from the list do not tell it (`software/reader.py:42`);
- overlapping drydock commands lose updates of `identity.json`
  (`identity_store.py:58`);
- after a failed disk allocation no later launch allocates (`flotilla/cli.py:254`), and a
  cut download counts as cached (`flotilla/cli.py:137`).

### Bounds, and why they are enough

- **Install.** The step lists are complete registries, not shortened, of two plans that
  differ in `/home`, the desktop, the GPU driver, the accounts, the admin model and the
  opt-in modules; both are UEFI, x86 and genkernel installs with the firmware allowed, so
  the BIOS, arm64 and distribution-kernel variants of a step are modelled and not run. `MaxTroubles = 2`
  allows every pair of a fault, a kill and a reboot (or two faults, or a fault and an
  unmount) at every position, which is what a resume gone wrong needs: one trouble to
  leave a partial state and one to hit the resumed run. The process is killed, and
  commands fail, only in the steps of `SoundlyGated`, those whose `is_satisfied` asks for
  what the step does last. The others (mounting the target, preparing the chroot,
  creating users, timezone and locale) are known to pass over a partial effect, as listed
  above. One disk, since the code does not tell disks apart. `Skippable` names one or two
  steps so that skipping happens.
- **Backend.** `IdleTimeout = 1` tick: the clock only matters by having run out or not.
  Three sessions in each cast: exclusion and mixing of signals are about pairs, and the third
  stands for the rest. Plans take every class of method through the service. Spawning
  fails at most once; afterwards the lock is held until the process exits.
  The cast *apart* has no spawn failure and at most one streaming session per interface, for the
  reasons listed above.
- **Stream.** A batch of 2 lines, chunks of up to 4 bytes and 5 bytes per command reach:
  empty lines, a line over several chunks, more lines in a chunk than a batch holds, an
  unterminated last line, and two batches from one chunk. The constants of the code (64
  KiB, 200 lines) differ only in size.
- **Stage3.** Two requests with equal or different roots; requests meet only in `target`.
- **Keyring.** Two collections, two items, two passphrases, one failing save or one kill,
  ids never reused. `Alone = TRUE`: `keychainctl` is documented as working before the
  daemon starts.
- **Configuration.** Three lines hold a key twice, a block around one line, or a key
  between two lines of the user's; two edits show what the second one makes of the first.
  All methods are called; a second call is one that shares an object with the first
  (`Related`), since handlers meet only there.
- **Screens.** Two items (one edited, one to be kept), two edits, one edit from outside.
  A screen that stages its changes, opened alone, has four: a second edit and a second
  save, which is what a stale baseline needs to undo the first.
  Screens that differ in names only are explored once (`Kind`); pairs of visits are those
  in which a task of the first outlives it.
- **Transactions.** Three staged changes are the longest dependency the replay sorts
  (group, user, membership). The *busy* part trades the third change for faults, dialogues
  and a second OK.
- **Software.** An application and a library it needs, three flows in a row (an uninstall,
  the Clean Up it offers, and one more), one fault or one text over a screen.
- **Interop.** Two barrels and two programs whose names make two pairs share a desktop id;
  two terminals; four commands, of which three in the *alone* part; one fault or kill.

Deadlock is checked in the install runs, where the environment can
always take a step; the cfg turns it off in the runs in which every session, command or
request may have come to its end, or every bound may have been used up.

### Fairness

- `RootBackend`: weak fairness of the loop (`Activate`, `Dispatch`), of a handler's return
  from polkit (`call_sync` has a default timeout, after which the call fails), of the end
  of a command (`FinishBlocking`, `StreamDone`, `SideDone`: a command that never ends is
  outside the claim), and of each frontend's event loop. None for `IdleExit`, `Tick`,
  `Upgrade` and `External`. It is asked of the behaviours of the cast *apart*, where every frontend
  is to end. `SessionsFinish` leaves out sessions that call the kernel and
  stage3 services, which the idle exit may leave waiting for ever.
- `OutputStream`: weak fairness of `Flush` only, a GLib timeout on a running loop; a
  command may go on for ever and its lines still get out.
- `Stage3Runner`: weak fairness per request: each command that has started ends. None for
  `ServiceExits`.
- `ConfigService`: weak fairness of `Handle`: a handler runs on the main loop until it
  answers, and its commands are run synchronously.
- `Screens`: weak fairness of each task: a call ends with a reply, a refusal or an
  exception, at the latest when the bus times out.
- The other runs state safety only: the user decides how they go on.

## 4. Proofs

`tlapm` checks every proof from the definitions above; nothing is assumed but the named
`ASSUME`s on the constants, which TLC evaluates in the runs.

- **Installer** (`InstallEngine_proofs`). `TypeCorrect`: for every step list, every set of
  disks and all bounds. `NeverRepartitions`: `SessionNeverRepartitions` for the same. The
  property is about a step being taken and is not inductive: `SessionInv` adds that while
  a run is under way the store has all the marks of the run file, and that a step gated by
  its mark alone runs only while memory lacks the mark. `ZapAssumption` (only a step gated
  by its mark alone wipes a disk, as `Partition` does) connects the two; TLC evaluates it
  on the real registries.
  `StoreIsOnDisk` (`StoreMatchesFiles`: the marks in memory are those of the visible files, and
  beyond them only those of self-marking steps whose save has failed) and `MarksStay` (`MarksNeverLost`) hold for every
  step list that wipes the disk before it mounts the root (`OrderAssumption`, evaluated on
  the real registries), under `Undisturbed`: one disk, never unmounted by hand, and neither
  the wipe nor the mount skipped. The hypothesis is that of `install_resume`; without it
  the property is false, as listed above. `StoreInv` adds to it that a disk without `/etc`
  has no state file and a wiped one has no `/etc` until it is mounted (`DiskFresh`), and
  that the position in the list says whether the wipe is marked and the root mounted, and
  whether the run's snapshot of the mounts is still right (`Position`).
  `ChrootPrepared` (a command in the chroot finds the pseudo-filesystems) and `ChrootClean`
  (`ChrootInv`, without kills) hold for every step list with a step that creates `<root>/etc`
  before `/etc/fstab` and a later one that mounts the four pseudo-filesystems before anything
  runs in the chroot (`ChrootAssumption`), when the user skips neither and neither that step
  nor the teardown is cut short (`ChrootWhole`), since `is_satisfied` and the teardown look
  at `proc` alone. `ChrootIInv` says where `etc` is (`EtcThere`), that the four are mounted
  all or none (`AllOrNone`), only by a run that has got that far (`Bound`, `OwnMounts`).
  `InstalledWhenComplete` (`CompleteMeansInstalled`), `NothingRefused`
  (`NoFaultNoFailure`) and `LockedLast` (`AdminReachable`) hold for every step list whose
  steps are passed over by their own mark, by what they do last, or by something that is done
  whole or not at all (`GatesAssumption`), under `Dependable`: one disk; the wipe, the mount
  and the chroot steps are not skipped; the steps that pass for complete when they are half
  done (`MountTarget`, `PrepareChroot`, `SetTimezoneLocale`, `CreateUser`) and the teardown
  are not interrupted; and each command's needs are met by a step that comes before it, is
  requested, and is not skipped (`Provided`). All of it is true of the registries and
  constants of the two runs. Kills, reboots, retries, aborts, unmounts and the skipping of
  every other step are covered. The invariant is one conjunct per thing a step is passed over by:
  what is marked is on the disk (`StoresTrue`), what passes for complete by a file is
  (`FilesTrue`, `WholesTrue`), or by a mount (`MountsTrue`), and so everything behind the
  position of the run is in place (`Progress`).
- **Root service** (`RootBackend_proofs`). `BackendTypeCorrect`, `MutualExclusion`
  (`OneOperation`), `NeverCut` (`MergeNeverCut`) and `LockImplemented` (`ImplementsLock`)
  for any sessions and plans. The invariant is `TypeOK /\ LockInv /\ CallInv`. `LockInv`
  is the service's bookkeeping: the count is 0 or 1, a stream holds the label, and a
  package call waiting for polkit has found the count 0, where it stays because the loop
  is blocked. `CallInv` says that each operation is called once and has not been started
  before its call is answered; without it the refinement fails, because an operation that
  has ended could take the lock again.
  `ServiceTellsTruth` (`BackendInv`) has no hypothesis: it puts together `LockedTruly` (an
  operation under way counts as active, and only it or a failure to spawn does) and `RefusalsTrue`
  (an operation answered as refused or not started has started nothing), whose invariants say of
  the service's count what it counts (`HeldInv`) and of every message under way that names a
  refusal that its operation was not begun (`RefusalInv`). `StuckForGood`: once the count is held
  with nothing running, which a spawn that raises brings about, no later step of anybody releases
  it. That a screen reports the result of its own commands (`OwnResult`), and that its next
  operation is not refused because of its last (`OwnOpNeverBlocks`), is false when two frontends
  stream on one interface, since a `Finished` names no operation; both are model-checked for frontends
  that share none (`TruthApart`) and not proved.
- **Output** (`Services_proofs`). `NoLineLost`: `StreamInv` for any bytes, any cutting into
  chunks, any batch size and number of commands. `Split` is recursive, so each fact about it
  is proved through the smallest number that would not have it; the one the steps need is
  that what is carried over, followed by a chunk, splits as if it had been read at once.
  `StreamIInv` adds that what is carried over is the last piece of what has been read, and
  that the buffer is never full between two callbacks.
- **Stage3** (`Services_proofs`). `VerifiedBeforeUnpack` and `EndsTrue` (`Stage3Inv`)
  for any number of requests: only roots that the guard accepts are written, exit code 0
  means the verified tarball is in the root asked for, a run that has announced its end leaves no
  work directory. Commands that do not start and a service that leaves are covered. `Gated` strengthens them: past the hash check the tarball has passed it, past
  the call the root has been accepted.
- **Keychain** (`Services_proofs`). `KeptWhenAlone`: `PromisesKept` for any number of
  processes, objects, failing saves and kills, assuming `Alone`. The invariant `IInv` says
  that at most one process has the vault open (`OneOpen`), that the file and each open copy
  hold only objects with a promise and keep it (`Sound`), that without a file everything
  promised may be absent (`Unborn`), and that a vault being created is empty (`Fresh`).
  One lemma per kind of edit says which objects it touches; `EditSound` then does the step.
  `ObjectsServed`: `ObjectsMatchVault` without `Alone`: whatever `keychainctl` does to the
  file, the daemon serves the objects of the copy it has.
- **Configuration services** (`ConfigService_proofs`). `ServicesSafe` (`SvcInv`) and
  `AnswersAreTrue` (`AnswersTrue`) for every table of methods that has seven properties, each
  an `ASSUME` that TLC evaluates on the table of the eighteen services: arguments are
  checked before anything changes (`ChecksFirst`), commands on the running system are not
  run for a target (`RunsAreLive`), a vetted file is changed behind a check that stops the
  call (`CheckedBefore`), what was staged and accepted is placed by the next step
  (`PlacedNext`), a file that is repointed by a link is not among the vetted (`LinksUnchecked`), no
  method returns to an object behind a change that counts (`NoReturn`),
  and the shape of a record (`MethodShape`). So a method added to a service is covered once
  its row has these properties. The invariant relates the position in the handler to what
  lies about: each effect, temporary file and accepted check of the call was left by a step
  behind it (`Traced`), each check and each change that counts behind it has been made
  (`ChecksMade`, `ChangesMade`), and an accepted staged file is the next to be placed
  (`Waiting`).
- **Screens** (`Screens_proofs`). `StagedStay` (`StagedKept`), `SavesKept` (`SavedKept`) and
  `ScreensTrue` (`ScreensInv`) for every table of screens, every order of visits, any number
  of tasks, failing calls and outside edits. The table has to satisfy five `ASSUME`s, which
  TLC evaluates on the table of all screens: what a reply may lead to (`TableAssumption`), that
  a screen that asks before it is left is not popped by a reply of its own
  (`AskingAssumption`), which screens send only what was set (`KeepingAssumption`), and how a
  screen that is to show the truth comes by it (`ShowingAssumption`), and that a screen which may
  take the file for empty loads it once and does not show what is there (`MarkedAssumption`). The common part,
  `BaseInv`, is the shape of the stack, the phase of every task, and who is loading.
  `SoleInv` turns the history variables into a fact: as long as an object counts as
  undisturbed or current, at most one task is about it. On it rest `KeepInv` (the file, what
  a task carries and what the open screen would send agree with what was asked for) and
  `ShowInv` (what the view and the task under way say of the file, phase by phase).
- **Package management** (`Packages_proofs`). `CompletedTrue` and `PackagesHold`
  (`PackagesInv`), `AskedOnce` (`AskedOnly`), `ListIsTrue` (`ListTrue`) and `CommitsKept`
  (`CommitKeeps`), for any packages, requirements, flows, texts over screens, faults and
  sets. The stack changes in five ways (a frame changes in place, is pushed, is replaced,
  changes with a run put over it, or everything above a screen is cut); one lemma
  for each says that the new stack is well formed, that its runs are the old ones, and that a
  run which owes the list its changes stays as long as the list does (`Moves`), and every
  action is one of the five. `SoftIInv` is that shape and `HonestInv`: as long as a run has
  seen only zeros, what each of its commands was asked for is so, since a command achieves
  its goal (`Achieves`) and undoes none of the earlier ones (`Undisturbed`). `ListInv` says
  that the list differs from the system only while a load is under way or a run on the stack
  still owes it. `ListIsTrue` is about `SettledSpec`, in which a key waits for the list to
  be read; the others are about all behaviours. `SetsIInv` says, for every commit under
  way, that what it carries is still staged, or touched since by a key or another commit, and on
  the disk once written (`SoundAll`).
- **Transactions** (`Transactions_proofs`). `StagedTried` (`StagedSafe`) and `NoneForgotten`
  (`NeverForgotten`), each for any number of changes, tasks and faults. For
  the first, `TakenInv`: while a replay is under way everything on the list was taken by it or
  staged since. For the second, `RecordInv`: the list is what is on disk unless a load or an
  Accept is under way (`CurrentList`); a name that is to be added although it is listed as
  enabled, or staged to be disabled, is there (`MarksFit`); and an Accept that runs alone
  knows, phase by phase, what the two records hold (`Faithful`). Each step lemma proves the
  invariant and that a name leaves both records only by what the property excuses (`Held`).
  The steps of the loop over the edits keep them, or end the Accept in the one way the property names.
  `WrittenFacts` is about `Written`, the record after the files have been written one by one.
- **Virtual machines** (`Interop_proofs`). `DisksAreKept`: `DiskKept` for any vessels,
  commands, failing tools and kills. `DiskKept` is about a step; the invariant behind it,
  `DiskInv`, says that a disk with something on it belongs to a saved vessel (`Unsaved`),
  and that a command under way has "allocate" among its remaining steps only once, only
  while nothing is on the disk, and behind the "save" that records the vessel (`Sound`).
  Without the last part a kill between the two would leave an allocated disk that the next
  launch takes for a new vessel's.
  `VesselsAreTrue`: `VesselInv` for the same. `FleetInv` adds that the steps a command has
  left are in the order of `Rank` (`StepsFit`), that they say which of record, XML and
  domain already agree with the configuration the command works from (`CfgFits`,
  `Launching`), and that while no tool has failed and nothing was killed only such a
  command leaves a vessel ahead of its domain (`DomainsFit`).
- **Barrels and launchers** (`Interop_proofs`). `CompleteAtZero`: `ExitZeroComplete` for any
  barrels, finitely many programs, recipes, terminals, commands, failing tools and kills, in
  `LaunchersSpec`, the Drydock and Gangway steps that `MCInterop` composes. `PlanInv` says of every
  shell that its remaining steps end with the operations of its plan that its report does not
  list yet (`Remaining`), that what was done is the beginning of the plan (`InOrder`), and that
  with no step left and status 0 what is left of the plan is nothing, or one last manual step (`AtEnd`). What `ForEach`
  makes of a batch is a list of launcher steps by `FlattenType` and `OrderType`, which follow
  the definitions of the community modules up to the last element.

Only model-checked:

- Everything about liveness (`SessionsFinish`, `LinesGetOut`, `EveryRunEnds`, `Answered`,
  `TasksEnd`), which needs fairness and `ENABLED`; the four runs that expect a violation.
- `TruthApart`: see above.
- `TextInv`: the editors of `ConfigText` are folds, filters and searches over sequences of
  lines, and each needs an induction of its own over the lines, for every editor, reader and
  consumer.
- `UsersInv`: it compares the replay with every other order of the staged changes, that is,
  quantifies over permutations and the fold of the system's reactions along them.
- `ReposInv` (an Accept reported as complete is complete): needs, on top of the invariant of
  `NoneForgotten`, that the operations done so far are all still in effect on `repos.conf`
  and its records, for every pair of kinds of operation.
- `LaunchersInv`: that nothing dangles depends on which program each of the steps of a batch
  is about, in every order of the batches of two terminals.

## 5. Plan

1. Proofs: `ReposInv`, then `LaunchersInv`; an editor of `ConfigText` at a
   time; the order of the replay.
2. The Orphans screen and the pages of the install wizard, as further screens of
   `ScreenRegistry`.
3. `assemble.py` as a function checked against a reference definition.
