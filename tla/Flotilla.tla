------------------------------ MODULE Flotilla ------------------------------
(***************************************************************************)
(* Flotilla: virtual machines ("vessels") over libvirt and QEMU             *)
(* (gest/tui/flotilla/cli.py over gest/core/flotilla).  A command is a list *)
(* of steps: files of the vessel's directory, the image cache, and host     *)
(* tools that may fail; it may be killed between two of them.               *)
(***************************************************************************)
EXTENDS Naturals, Sequences, FiniteSets

CONSTANTS Vessels,
          MaxLaunches,     \* commands started in a behaviour
          MaxToolFaults    \* host tools that fail, commands that are killed

ASSUME FlotillaAssumption == {MaxLaunches, MaxToolFaults} \subseteq Nat

VARIABLES vstore,          \* <id>/config.json
          disk,            \* <id>/disk.qcow2
          unattend,        \* <id>/unattend.iso
          xml,             \* <id>/domain.xml
          domain,          \* libvirt: what each vessel is defined as
          running,         \* libvirt: the domains that are up
          cache,           \* ~/.cache/flotilla/images
          rdpProfiles,     \* the Gangway profiles saved by connect
          job,             \* the command under way
          launches, toolFaults

flotillaVars == <<vstore, disk, unattend, xml, domain, running, cache, rdpProfiles,
                  job, launches, toolFaults>>

Images == {"distro", "virtio-win"}         \* the catalogue's URL images
IsoArgs == {"", "path", "distro", "mido"}  \* --iso
Oses == {"windows", "linux"}
NoVessel == [saved |-> FALSE, os |-> "linux", iso |-> "", virtio |-> FALSE,
             provisioned |-> FALSE, entry |-> "console", profile |-> FALSE]
\* compile_domain reads these; the entry and the profile are not in the XML.
NoDomain == [os |-> "none", iso |-> "", virtio |-> FALSE, provisioned |-> FALSE]
CompileDomain(v) ==
    [os |-> v.os, iso |-> v.iso, virtio |-> v.virtio, provisioned |-> v.provisioned]
NoJob == [cmd |-> "none", on |-> "none", todo |-> <<>>, rc |-> 0, cfg |-> NoVessel]

FlotillaInit ==
    /\ vstore = [v \in Vessels |-> NoVessel]
    /\ disk = [v \in Vessels |-> "none"] /\ unattend = [v \in Vessels |-> "none"]
    /\ xml = [v \in Vessels |-> NoDomain] /\ domain = [v \in Vessels |-> NoDomain]
    /\ running = {} /\ cache = [i \in Images |-> "none"] /\ rdpProfiles = {}
    /\ job = NoJob /\ launches = 0 /\ toolFaults = 0

-----------------------------------------------------------------------------
(* The commands *)

Begin(cmd, v, todo, rc, cfg) ==
    /\ job.todo = <<>> /\ launches < MaxLaunches
    /\ job' = [cmd |-> cmd, on |-> v, todo |-> todo, rc |-> rc, cfg |-> cfg]
    /\ launches' = launches + 1
    /\ UNCHANGED <<vstore, disk, unattend, xml, domain, running, cache, rdpProfiles, toolFaults>>
If(cond, steps) == IF cond THEN steps ELSE <<>>

\* model.recommended with the flags; Windows names the cached driver image.
Recommended(os, iso) == [NoVessel EXCEPT !.saved = TRUE, !.os = os, !.iso = iso,
                                         !.virtio = os = "windows"]
\* _apply_provisioning: Windows only, and the ISO is built before anything of
\* it is recorded.
Provisioned(cfg) == [cfg EXCEPT !.provisioned = TRUE, !.entry = "rdp"]

CreateVessel(v, os, iso, provision, allocate) ==
    LET cfg == Recommended(os, iso)
        steps == If(provision, <<"build_unattend">>) \o <<"save">> \o If(allocate, <<"allocate">>)
    IN  IF vstore[v].saved \/ (provision /\ os # "windows")
          THEN Begin("create", v, <<>>, 1, NoVessel)
          ELSE Begin("create", v, steps, 0, IF provision THEN Provisioned(cfg) ELSE cfg)

\* Mutant: the disk is allocated whether or not the vessel is new.
Allocates_always(new, allocate) == allocate
Allocates(new, allocate) == new /\ allocate
\* Mutant: provisioned whatever the guest is.
ProvisionStep_any(cfg) == <<"build_unattend">>
ProvisionStep(cfg) == IF cfg.os = "windows" THEN <<"build_unattend">> ELSE <<"refuse">>
\* Mutant: the domain is written from the vessel as it was loaded.
LaunchSteps_defineFirst(tail, media) == <<"write_xml", "define">> \o media \o tail
LaunchSteps(tail, media) == media \o tail
Launch(v, os, iso, provision, allocate, start) ==
    LET new == ~vstore[v].saved
        base == IF new THEN Recommended(os, "") ELSE vstore[v]
        cfg == IF iso = "" THEN base ELSE [base EXCEPT !.iso = iso]
        media == If(iso = "distro", <<"fetch_distro">>)
                   \o If(cfg.os = "windows" /\ cfg.virtio, <<"fetch_virtio">>)
                   \o If(provision, ProvisionStep(cfg))
                   \o <<"save">> \o If(Allocates(new, allocate), <<"allocate">>)
    IN  IF iso = "mido"
          THEN Begin("launch", v, <<>>, 2, NoVessel)
          ELSE Begin("launch", v,
                     LaunchSteps(<<"write_xml", "define">> \o If(start, <<"start_anyway">>), media),
                     0, IF provision THEN Provisioned(cfg) ELSE cfg)

\* define, start, stop, connect and rm need the vessel; connect opens the
\* console or, for Windows, asks the guest for its address.
OnVessel(cmd, v, steps) ==
    IF vstore[v].saved THEN Begin(cmd, v, steps, 0, vstore[v])
                       ELSE Begin(cmd, v, <<>>, 1, NoVessel)
Define(v) == OnVessel("define", v, <<"write_xml", "define">>)
StartVessel(v) == OnVessel("start", v, <<"start">>)
Stop(v) == OnVessel("stop", v, <<"stop">>)
Rm(v) == OnVessel("rm", v, <<"undefine", "delete">>)
Connect(v, mode) ==
    LET entry == IF mode = "" THEN vstore[v].entry ELSE mode
    IN  IF vstore[v].saved /\ entry = "rdp" /\ vstore[v].os # "windows"
          THEN Begin("connect", v, <<>>, 2, NoVessel)
          ELSE OnVessel("connect", v, IF entry = "rdp" THEN <<"address", "save_profile">> ELSE <<>>)
\* list, show, xml, prereqs, console, images: a look.
LookAt(v) == OnVessel("look", v, <<>>)
\* address: the guest's, and nothing else.
ShowAddress(v) == OnVessel("look", v, <<"address">>)
Fetch(image, force) ==
    LET step == IF image = "distro" THEN IF force THEN "again_distro" ELSE "fetch_distro"
                                    ELSE IF force THEN "again_virtio" ELSE "fetch_virtio"
    IN  Begin("fetch", "none", <<step>>, 0, NoVessel)

-----------------------------------------------------------------------------
(* The steps *)

On(step) == job.todo # <<>> /\ Head(job.todo) = step
Moves == job' = [job EXCEPT !.todo = Tail(@)]
Ends == job' = [job EXCEPT !.todo = <<>>, !.rc = 1]
ToolFault == toolFaults < MaxToolFaults /\ toolFaults' = toolFaults + 1
ToolOk == UNCHANGED toolFaults

\* _ensure_url_image: a file in the cache is taken as it is.  curl writes to
\* the final name; a connection that breaks leaves what has come so far.
StepImage == [fetch_distro |-> "distro", fetch_virtio |-> "virtio-win",
              again_distro |-> "distro", again_virtio |-> "virtio-win"]
Fetching == DOMAIN StepImage
Cached(step) == cache[StepImage[step]] # "none" /\ step \in {"fetch_distro", "fetch_virtio"}
CutOff(step) == {cache, [cache EXCEPT ![StepImage[step]] = "cut"]}
FetchImage ==
    /\ \E step \in Fetching :
          /\ On(step)
          /\ \/ Cached(step) /\ Moves /\ ToolOk /\ UNCHANGED cache
             \/ ~Cached(step) /\ cache' = [cache EXCEPT ![StepImage[step]] = "whole"] /\ Moves /\ ToolOk
             \/ ~Cached(step) /\ ToolFault /\ Ends /\ cache' \in CutOff(step)
    /\ UNCHANGED <<vstore, disk, unattend, xml, domain, running, rdpProfiles, launches>>
Refuse ==
    /\ On("refuse") /\ Ends
    /\ UNCHANGED <<vstore, disk, unattend, xml, domain, running, cache, rdpProfiles, launches, toolFaults>>
\* Mutant: a failing xorriso is not noticed.
BuildFails_unnoticed == Moves
BuildFails == Ends
BuildUnattend ==
    /\ On("build_unattend")
    /\ \/ unattend' = [unattend EXCEPT ![job.on] = "whole"] /\ Moves /\ ToolOk
       \/ ToolFault /\ BuildFails /\ UNCHANGED unattend
    /\ UNCHANGED <<vstore, disk, xml, domain, running, cache, rdpProfiles, launches>>
SaveVessel ==
    /\ On("save") /\ Moves
    /\ vstore' = [vstore EXCEPT ![job.on] = job.cfg]
    /\ UNCHANGED <<disk, unattend, xml, domain, running, cache, rdpProfiles, launches, toolFaults>>
\* qemu-img create: a new image, whatever was there.  A failure is reported by
\* create, not by launch, and ends neither.
Allocate ==
    /\ On("allocate") /\ Moves
    /\ \/ disk' = [disk EXCEPT ![job.on] = "blank"] /\ ToolOk
       \/ ToolFault /\ UNCHANGED disk
    /\ UNCHANGED <<vstore, unattend, xml, domain, running, cache, rdpProfiles, launches>>
WriteDomainXml ==
    /\ On("write_xml") /\ Moves
    /\ xml' = [xml EXCEPT ![job.on] = CompileDomain(job.cfg)]
    /\ UNCHANGED <<vstore, disk, unattend, domain, running, cache, rdpProfiles, launches, toolFaults>>
DefineDomain ==
    /\ On("define")
    /\ \/ domain' = [domain EXCEPT ![job.on] = xml[job.on]] /\ Moves /\ ToolOk
       \/ ToolFault /\ Ends /\ UNCHANGED domain
    /\ UNCHANGED <<vstore, disk, unattend, xml, running, cache, rdpProfiles, launches>>
\* virsh start: the domain is defined, down, and its disk is there.
Bootable(v) == domain[v] # NoDomain /\ v \notin running /\ disk[v] # "none"
StartDomain ==
    /\ On("start") \/ On("start_anyway")
    /\ \/ Bootable(job.on) /\ running' = running \cup {job.on} /\ Moves /\ ToolOk
       \/ ~Bootable(job.on) /\ (IF On("start") THEN Ends ELSE Moves) /\ UNCHANGED <<running, toolFaults>>
       \/ Bootable(job.on) /\ ToolFault /\ (IF On("start") THEN Ends ELSE Moves) /\ UNCHANGED running
    /\ UNCHANGED <<vstore, disk, unattend, xml, domain, cache, rdpProfiles, launches>>
StopDomain ==
    /\ On("stop")
    /\ \/ job.on \in running /\ running' = running \ {job.on} /\ Moves
       \/ job.on \notin running /\ Ends /\ UNCHANGED running
    /\ UNCHANGED <<vstore, disk, unattend, xml, domain, cache, rdpProfiles, launches, toolFaults>>
\* The status is not looked at; a domain that is up stays up until it stops.
Undefine ==
    /\ On("undefine") /\ Moves
    /\ \/ domain' = [domain EXCEPT ![job.on] = NoDomain] /\ ToolOk
       \/ ToolFault /\ UNCHANGED domain
    /\ UNCHANGED <<vstore, disk, unattend, xml, running, cache, rdpProfiles, launches>>
DeleteVessel ==
    /\ On("delete") /\ Moves
    /\ vstore' = [vstore EXCEPT ![job.on] = NoVessel]
    /\ disk' = [disk EXCEPT ![job.on] = "none"] /\ unattend' = [unattend EXCEPT ![job.on] = "none"]
    /\ xml' = [xml EXCEPT ![job.on] = NoDomain]
    /\ UNCHANGED <<domain, running, cache, rdpProfiles, launches, toolFaults>>
\* Killed inside rmtree: any of the files may be gone; what is left of the
\* disk is nobody's.
DeleteCut ==
    /\ On("delete") /\ ToolFault
    /\ \E config, image \in BOOLEAN :
          /\ vstore' = [vstore EXCEPT ![job.on] = IF config THEN NoVessel ELSE @]
          /\ disk' = [disk EXCEPT ![job.on] = IF image \/ @ = "none" THEN "none" ELSE "left"]
    /\ unattend' = [unattend EXCEPT ![job.on] = "left"]
    /\ job' = NoJob
    /\ UNCHANGED <<xml, domain, running, cache, rdpProfiles, launches>>
\* The guest agent answers, or the guest is not up.
Address ==
    /\ On("address")
    /\ (job.on \in running /\ Moves) \/ Ends
    /\ UNCHANGED <<vstore, disk, unattend, xml, domain, running, cache, rdpProfiles, launches, toolFaults>>
SaveRdpProfile ==
    /\ On("save_profile") /\ Moves
    /\ rdpProfiles' = rdpProfiles \cup {job.on}
    /\ vstore' = [vstore EXCEPT ![job.on] = [job.cfg EXCEPT !.profile = TRUE]]
    /\ UNCHANGED <<disk, unattend, xml, domain, running, cache, launches, toolFaults>>
KillJob ==
    /\ job.todo # <<>> /\ ToolFault
    /\ job' = NoJob
    \* curl dies with its terminal.
    /\ IF \E step \in Fetching : On(step) /\ ~Cached(step)
         THEN cache' \in CutOff(Head(job.todo)) ELSE UNCHANGED cache
    /\ UNCHANGED <<vstore, disk, unattend, xml, domain, running, rdpProfiles, launches>>

\* The guest installs its system, and shuts down by itself.
GuestInstalls(v) ==
    /\ v \in running /\ disk[v] = "blank"
    /\ disk' = [disk EXCEPT ![v] = "installed"]
    /\ UNCHANGED <<vstore, unattend, xml, domain, running, cache, rdpProfiles, job, launches, toolFaults>>
GuestStops(v) ==
    /\ v \in running
    /\ running' = running \ {v}
    /\ UNCHANGED <<vstore, disk, unattend, xml, domain, cache, rdpProfiles, job, launches, toolFaults>>

FlotillaNext ==
    \/ \E v \in Vessels :
          \/ \E os \in Oses, provision, allocate \in BOOLEAN :
                \/ \E iso \in {"", "path"} : CreateVessel(v, os, iso, provision, allocate)
                \/ \E iso \in IsoArgs, start \in BOOLEAN :
                      Launch(v, os, iso, provision, allocate, start)
          \/ Define(v) \/ StartVessel(v) \/ Stop(v) \/ Rm(v) \/ LookAt(v) \/ ShowAddress(v)
          \/ \E mode \in {"", "rdp", "console"} : Connect(v, mode)
          \/ GuestInstalls(v) \/ GuestStops(v)
    \/ \E image \in Images, force \in BOOLEAN : Fetch(image, force)
    \/ FetchImage \/ Refuse \/ BuildUnattend \/ SaveVessel \/ Allocate \/ WriteDomainXml \/ DefineDomain
    \/ StartDomain \/ StopDomain \/ Undefine \/ DeleteVessel \/ DeleteCut
    \/ Address \/ SaveRdpProfile \/ KillJob
FlotillaSpec == FlotillaInit /\ [][FlotillaNext]_flotillaVars

-----------------------------------------------------------------------------
(* Properties *)

FltTypeOK ==
    /\ disk \in [Vessels -> {"none", "blank", "installed", "left"}]
    /\ unattend \in [Vessels -> {"none", "whole", "left"}]
    /\ cache \in [Images -> {"none", "cut", "whole"}]
    /\ \A v \in Vessels : vstore[v].os = "linux" => ~vstore[v].provisioned /\ vstore[v].entry = "console"
    /\ running \cup rdpProfiles \subseteq Vessels

\* What `flotilla xml` prints is what libvirt has: when a launch or a define
\* ends with status 0, and at any time between commands when nothing failed,
\* the defined domain is the one the saved vessel compiles to.
DomainCurrent ==
    job.todo = <<>> => \A v \in Vessels :
        \/ toolFaults = 0 /\ domain[v] # NoDomain
        \/ job.on = v /\ job.rc = 0 /\ job.cmd \in {"launch", "define"}
        => vstore[v].saved /\ domain[v] = CompileDomain(vstore[v])

\* A vessel recorded as provisioned has its ISO, whatever failed before; an
\* interrupted rm takes what it takes.
ProvisionedHasIso == \A v \in Vessels : vstore[v].provisioned => unattend[v] # "none"

\* The vessels, their ISOs and their domains, between any two steps.
VesselInv == FltTypeOK /\ DomainCurrent /\ ProvisionedHasIso

\* No command but rm touches a disk a guest has installed itself on: a second
\* launch of a vessel never allocates.
DiskKept == [][\A v \in Vessels : disk[v] = "installed" =>
                   disk'[v] # "blank" /\ (disk'[v] = "installed" \/ job.cmd = "rm")]_flotillaVars
=============================================================================
