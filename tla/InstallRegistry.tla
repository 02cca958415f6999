--------------------------- MODULE InstallRegistry ---------------------------
(***************************************************************************)
(* The install steps of gest/core/install/registry.py as the records        *)
(* InstallEngine runs, one definition per step class, and build_registry    *)
(* and build_minimal_registry as sequences of them.                         *)
(*                                                                         *)
(* An effect is kept when a later probe, a later command or a property      *)
(* reads it; the emerges and writes of one step that nothing tells apart    *)
(* are one effect.  `p` is the reviewed InstallPlan:                        *)
(*   uefi, home, swap, desktop, arm64, genkernel, nvidia, libre : BOOLEAN   *)
(*   users     sequence of [account, wheel, groups, password : STRING,      *)
(*             admin, setPassword : BOOLEAN]                                *)
(*   groups    the device groups that exist in the target                   *)
(*   admin     "traditional" | "sudo-augmented" | "rootless"                *)
(*   escalator "sudo" | "doas"                                              *)
(*   tier2     SUBSET {"sshd", "firewall", "sudo", "sysctl"}                *)
(*   shipped   the WriteConfigStep paths a package installs by itself       *)
(***************************************************************************)
EXTENDS Sequences, SequencesExt

Effect(kind, obj, needs) == [kind |-> kind, obj |-> obj, needs |-> needs]

\* write_under_root and the other host-side writes under the target root.
Write(f) == Effect("write", f, {})
\* A command run in the chroot: it needs the target's own userland.
InTarget(f) == Effect("write", f, {"stage3"})
Mount(m) == Effect("mount", m, {"root"})
\* A bind of the live system's pseudo-filesystem; the mountpoint is created
\* under the target root, whatever is mounted there.
Bind(m) == Effect("mount", m, {})

If(c, s) == IF c THEN s ELSE <<>>

\* The three gates of is_satisfied.
ByMarker(k) == [gate |-> "probe", marks |-> {k}, facts |-> {}, mnts |-> {}]
ByFacts(f) == [gate |-> "probe", marks |-> {}, facts |-> f, mnts |-> {}]
ByMount(m) == [gate |-> "probe", marks |-> {}, facts |-> {}, mnts |-> {m}]
Never == [gate |-> "never", marks |-> {}, facts |-> {}, mnts |-> {}]
Off == [gate |-> "off", marks |-> {}, facts |-> {}, mnts |-> {}]
When(c, g) == IF c THEN g ELSE Off

MkStep(key, g, chroot, opens, ops) ==
    [key |-> key, gate |-> g.gate, marks |-> g.marks, facts |-> g.facts,
     mnts |-> g.mnts, chroot |-> chroot, opens |-> opens,
     saves |-> FALSE, ops |-> ops]
\* A step whose run ends in ctx.state.mark(self).
Saving(s) == [s EXCEPT !.saves = TRUE]
\* FuncStep runs on the host, ArgvStep with chroot = True in the target.
HostStep(key, g, ops) == MkStep(key, g, FALSE, FALSE, ops)
ChrootStep(key, g, ops) == MkStep(key, g, TRUE, FALSE, ops)

-----------------------------------------------------------------------------
(* phase 1: prepare disk *)

\* apply_plan: validate, wipe and zap, partition, settle, mkfs and mkswap.
Partition ==
    HostStep("partition", ByMarker("partition"),
             <<Effect("zap", "disk", {}), Effect("blk", "table", {}),
               Effect("blk", "filesystems", {})>>)

MakeFilesystems ==
    HostStep("Make filesystems", ByMarker("partition"), <<>>)

\* mount_steps: the root first, then the deeper mount points, swap last.
MountTarget(p) ==
    HostStep("Mount the target", ByMount("root"),
             <<Effect("root", "root", {})>>
             \o If(p.uefi, <<Mount("efi")>>) \o If(p.home, <<Mount("home")>>)
             \o If(p.swap, <<Mount("swap")>>))

-----------------------------------------------------------------------------
(* phase 2: base system *)

\* The hash gate lies before tar; tar creates /etc and /etc/gentoo-release on
\* its way to the whole tree.
UnpackStage3 ==
    HostStep("unpack_stage3",
             [ByMarker("unpack_stage3") EXCEPT !.facts = {"release"}],
             <<Effect("noop", "download", {}), Effect("noop", "verify", {}),
               Write("etc"), Write("release"), Write("stage3")>>)

\* device_uuid reads the filesystems; the write creates <root>/etc.
WriteFstab ==
    HostStep("Generate /etc/fstab", ByFacts({"fstab"}),
             <<Write("etc"), Write("fstab")>>)

WriteMakeConf ==
    Saving(HostStep("write_make_conf", ByMarker("write_make_conf"),
                    <<Write("etc"), Write("make.conf")>>))

WriteReposConf ==
    Saving(HostStep("write_repos_conf", ByMarker("write_repos_conf"),
                    <<Write("etc"), Write("repos.conf")>>))

\* prepare_chroot: pseudo_mount_steps, then resolv_copy_step.
PrepareChroot ==
    MkStep("Prepare the chroot", ByMount("proc"), FALSE, TRUE,
           <<Bind("proc"), Bind("sys"), Bind("dev"), Bind("run"),
             Effect("write", "resolv.conf", {"etc"})>>)

\* The three --sync attempts and the webrsync fallback are one effect: it
\* fails when all four do.
SyncTree ==
    ChrootStep("sync_tree", ByMarker("sync_tree"), <<InTarget("tree")>>)

SetProfile ==
    ChrootStep("Select the profile", Never, <<InTarget("profile")>>)

EmergeWorld ==
    ChrootStep("emerge_world", ByMarker("emerge_world"), <<InTarget("world")>>)

ProvisionDesktop(p) ==
    Saving(HostStep("provision_desktop",
                    When(p.desktop, ByMarker("provision_desktop")),
                    <<Write("binpkgs"), Write("overlay")>>))

InstallDesktop(p) ==
    ChrootStep("install_desktop", When(p.desktop, ByMarker("install_desktop")),
               <<InTarget("desktop")>>)

CleanupDesktopBinpkgs(p) ==
    HostStep("cleanup_desktop_binpkgs",
             When(p.desktop, ByMarker("cleanup_desktop_binpkgs")),
             <<Effect("noop", "cleanup", {})>>)

-----------------------------------------------------------------------------
(* phase 3: configure *)

\* The probe reads /etc/timezone and that locale.conf exists; the localtime
\* link and locale.gen are written as well, the latter last.
SetTimezoneLocale ==
    HostStep("Set timezone and locale", ByFacts({"timezone", "locale.conf"}),
             <<Write("timezone"), Write("localtime"), Write("locale.conf"),
               Write("locale.gen")>>)

GenerateLocale ==
    ChrootStep("generate_locale", ByMarker("generate_locale"),
               <<InTarget("locale")>>)

\* Mutant: the probe reads systemd's file only.
SetHostname_oneFile ==
    HostStep("Set the hostname", ByFacts({"hostname"}),
             <<Write("hostname"), Write("conf.d/hostname")>>)

SetHostname ==
    HostStep("Set the hostname", ByFacts({"hostname", "conf.d/hostname"}),
             <<Write("hostname"), Write("conf.d/hostname")>>)

SetConsole ==
    HostStep("Set the console keymap", ByFacts({"conf.d/keymaps"}),
             <<Write("vconsole.conf"), Write("conf.d/keymaps")>>)

-----------------------------------------------------------------------------
(* phase 4: kernel & boot *)

InstallKernelSources(p) ==
    ChrootStep("install_kernel_sources", ByMarker("install_kernel_sources"),
               <<InTarget("sources")>> \o If(p.genkernel, <<InTarget("genkernel")>>)
               \o <<InTarget("usr/src/linux")>>)

StageKernelConfig(p) ==
    Saving(HostStep("stage_kernel_config",
                    When(p.genkernel, ByMarker("stage_kernel_config")),
                    <<Write("kernel.config")>>))

\* build_steps: genkernel does it all, make builds modules and kernel; both
\* need the source tree, and genkernel needs itself.
BuildKernel(p) ==
    LET built(f) == Effect("write", f, {"stage3", "usr/src/linux"})
    IN  ChrootStep("build_kernel", ByMarker("build_kernel"),
                   IF p.genkernel
                   THEN <<Effect("write", "kernel",
                                 {"stage3", "usr/src/linux", "genkernel"})>>
                   ELSE <<built("modules"), built("kernel")>>)

\* Libre marks and returns; otherwise firmware, and for NVIDIA the driver,
\* its modprobe file, the re-baked initramfs and the kernel command line.
InstallGpuDrivers(p) ==
    Saving(HostStep("install_gpu_drivers", ByMarker("install_gpu_drivers"),
                    If(~p.libre,
                       <<Write("package.license"), InTarget("firmware")>>
                       \o If(p.nvidia, <<Write("modprobe.conf"), InTarget("initramfs"),
                                         Write("gpu.cmdline")>>))))

ConfigureHibernateResume(p) ==
    Saving(HostStep("configure_hibernate_resume", ByMarker("configure_hibernate_resume"),
                    If(p.swap, <<Write("resume.cmdline")>>)))

\* emerge grub, grub-install (onto the mounted ESP under UEFI), grub-mkconfig.
InstallBootloader(p) ==
    ChrootStep("install_bootloader", ByMarker("install_bootloader"),
               <<InTarget("grub"),
                 Effect("write", "grub.image",
                        {"stage3"} \cup IF p.uefi THEN {"efi"} ELSE {}),
                 InTarget("grub.cfg")>>)

InstallBootStub(p) ==
    ChrootStep("install_boot_stub", When(p.arm64, ByMarker("install_boot_stub")),
               <<Effect("write", "m1n1", {"stage3", "efi"})>>)

-----------------------------------------------------------------------------
(* phase 5: users & network *)

RootPassword(p) == p.admin # "rootless"

SetRootPassword(p) ==
    ChrootStep("Set the root password", When(RootPassword(p), Never),
               <<InTarget("root.password")>>)

\* The device-group loop of a desktop account exits with the status of its
\* last group, render.
DeviceGroups(p, u) ==
    Effect("write", u.groups,
           {"stage3", u.account}
           \cup IF "render" \in p.groups THEN {} ELSE {"group render"})

\* useradd refuses an account that exists; gpasswd then adds it to wheel.
CreateUser(p) ==
    ChrootStep("Create user accounts",
               When(p.users # <<>>,
                    ByFacts({p.users[i].account : i \in DOMAIN p.users})),
               FlattenSeq([i \in DOMAIN p.users |->
                   <<Effect("create", p.users[i].account, {"stage3"})>>
                   \o If(p.users[i].admin,
                         <<Effect("write", p.users[i].wheel,
                                  {"stage3", p.users[i].account})>>)
                   \o If(p.desktop, <<DeviceGroups(p, p.users[i])>>)]))

SetUserPassword(p) ==
    LET named == SelectSeq(p.users, LAMBDA u : u.setPassword)
    IN  ChrootStep("Set user passwords", When(named # <<>>, Never),
                   [i \in DOMAIN named |->
                       Effect("write", named[i].password,
                              {"stage3", named[i].account})])

\* /etc/hosts, then NetworkManager or systemd-networkd and its resolver link.
ConfigureNetwork ==
    Saving(HostStep("configure_network", ByMarker("configure_network"),
                    <<Write("hosts"), InTarget("network")>>))

EnableDesktopSession(p) ==
    Saving(HostStep("enable_desktop_session",
                    When(p.desktop, ByMarker("enable_desktop_session")),
                    <<Write("greetd.conf"), InTarget("greetd")>>))

-----------------------------------------------------------------------------
(* phase 6: finish *)

ConfigureClock ==
    ChrootStep("configure_clock", ByMarker("configure_clock"),
               <<InTarget("adjtime"), InTarget("clock")>>)

\* Satisfied as soon as the path exists, whoever wrote it; `own` is the
\* content this step renders.
WriteConfigStep(label, path, own) ==
    HostStep(label, ByFacts({path}), <<Write(own), Write(path)>>)

ChrootCmdStep(key, fact) == ChrootStep(key, ByMarker(key), <<InTarget(fact)>>)

\* An emerge that also installs the package's own copy of `path`.
EmergeShipping(p, key, fact, path) ==
    ChrootStep(key, ByMarker(key),
               If(path \in p.shipped, <<InTarget(path)>>) \o <<InTarget(fact)>>)

\* The escalator and its rule for the wheel group.
Escalator(p) ==
    IF p.escalator = "doas"
    THEN <<ChrootCmdStep("admin_doas", "doas"),
           WriteConfigStep("Configure doas (wheel)", "doas.conf", "wheel rule")>>
    ELSE <<ChrootCmdStep("admin_sudo", "sudo"),
           WriteConfigStep("Configure sudo (wheel)", "sudoers.d/wheel", "wheel rule")>>

\* Mutant: root is locked before the escalator is in place.
AdminModelSteps_lockFirst(p) ==
    If(p.admin = "rootless",
       <<ChrootCmdStep("admin_lock_root", "root.locked")>>)
    \o If(p.admin # "traditional", Escalator(p))

\* The escalator for every model but traditional; rootless locks root last.
AdminModelSteps(p) ==
    If(p.admin # "traditional", Escalator(p))
    \o If(p.admin = "rootless",
          <<ChrootCmdStep("admin_lock_root", "root.locked")>>)

Tier2Steps(p) ==
    If("sshd" \in p.tier2,
       <<EmergeShipping(p, "tier2_openssh", "openssh", "sshd_config"),
         WriteConfigStep("Configure sshd", "sshd_config", "sshd settings"),
         ChrootCmdStep("tier2_sshd_enable", "sshd.enabled")>>)
    \o If("firewall" \in p.tier2,
          <<EmergeShipping(p, "tier2_nftables", "nftables", "nftables.conf"),
            WriteConfigStep("Configure the firewall", "nftables.conf", "ruleset"),
            ChrootCmdStep("tier2_nftables_enable", "nftables.enabled")>>)
    \o If("sudo" \in p.tier2,
          <<ChrootCmdStep("tier2_sudo", "sudo"),
            WriteConfigStep("Configure sudo (wheel)", "sudoers.d/wheel", "wheel rule")>>)
    \o If("sysctl" \in p.tier2,
          <<WriteConfigStep("Configure sysctl", "sysctl.d/gest", "sysctl values")>>)

\* build_registry: the order is the contract.
BuildRegistry(p) ==
    <<Partition, MakeFilesystems, MountTarget(p), UnpackStage3, WriteFstab,
      WriteMakeConf, WriteReposConf, PrepareChroot, SyncTree, SetProfile,
      EmergeWorld, ProvisionDesktop(p), InstallDesktop(p),
      CleanupDesktopBinpkgs(p), SetTimezoneLocale, GenerateLocale, SetHostname,
      SetConsole, InstallKernelSources(p), StageKernelConfig(p), BuildKernel(p),
      InstallGpuDrivers(p), ConfigureHibernateResume(p), InstallBootloader(p),
      InstallBootStub(p), SetRootPassword(p), CreateUser(p), SetUserPassword(p),
      ConfigureNetwork, EnableDesktopSession(p), ConfigureClock>>
    \o AdminModelSteps(p) \o Tier2Steps(p)

\* build_minimal_registry: the boot-critical subset.
BuildMinimalRegistry(p) ==
    <<Partition, MakeFilesystems, MountTarget(p), UnpackStage3, WriteFstab,
      WriteMakeConf, WriteReposConf, PrepareChroot, SyncTree, SetProfile,
      EmergeWorld, InstallKernelSources(p), StageKernelConfig(p),
      BuildKernel(p), ConfigureHibernateResume(p), InstallBootloader(p),
      InstallBootStub(p), SetRootPassword(p)>>

=============================================================================
