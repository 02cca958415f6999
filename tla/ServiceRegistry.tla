--------------------------- MODULE ServiceRegistry ---------------------------
(***************************************************************************)
(* The configuration interfaces of the root backend as method records for   *)
(* ConfigService, one definition per service class (gest/backend/*.py with  *)
(* the argv builders and validators they use).  A method with arguments     *)
(* that select different work is one record per selection.                  *)
(***************************************************************************)
EXTENDS Naturals, Sequences

St(op, obj) == [op |-> op, obj |-> obj, live |-> FALSE, fail |-> "stop",
                own |-> FALSE]
Arg(a) == St("arg", a)
Cmd(o) == St("run", o)
Put(f) == St("write", f)
GuardDisk == St("guard", "device")
Live(s) == [s EXCEPT !.live = TRUE]
BestEffort(s) == [s EXCEPT !.fail = "ignore"]
Suppressed(s) == [s EXCEPT !.fail = "suppress"]
GoOn(s) == [s EXCEPT !.fail = "goon"]
\* The step stands in a try of its own that answers its OSError.
Own(s) == [s EXCEPT !.own = TRUE]

ArgSeq(as) == [i \in 1..Len(as) |-> Arg(as[i])]

Method(name, root, os, steps) ==
    [name |-> name, polkit |-> TRUE, root |-> root, os |-> os,
     steps |-> steps]
\* Argument checks, then one command.
OneCommand(name, os, args, obj) ==
    Method(name, FALSE, os, ArgSeq(args) \o <<Cmd(obj)>>)

-----------------------------------------------------------------------------
(* backend/disk.py *)

\* What the argv builders and validators of core/disk look at, in order.
mount_argv == <<"mountpoint">>
valid_entry == <<"spec", "mountpoint", "fstype", "options", "dump/pass">>
sgdisk_argv == <<"device", "partitions">>
mkfs_argv == <<"device", "kind", "label">>
mkswap_argv == <<"device", "label">>
swapon_argv == <<"device">>

Mounts ==
    {OneCommand("Mount", TRUE, mount_argv, "mount"),
     OneCommand("Unmount", TRUE, mount_argv, "umount")}

\* valid_entry; then protected: the entry itself or the line it would replace.
\* The backup is a copy, taken when /etc/fstab exists.
FstabEntries ==
    {Method("WriteFstabEntry", FALSE, TRUE,
            ArgSeq(valid_entry) \o <<Arg("protected"), Put("fstab.gest.bak"),
                                     Put("fstab")>>),
     Method("RemoveFstabEntry", FALSE, TRUE,
            ArgSeq(<<"mountpoint", "protected">>)
            \o <<Put("fstab.gest.bak"), Put("fstab")>>)}

\* guard_provision_target reads /proc/mounts, _require_block_device the node;
\* the argv builders check sizes, type codes and labels before anything runs.
Partitioning ==
    {Method("PartitionDisk/wipe", FALSE, TRUE,
            <<GuardDisk>> \o ArgSeq(sgdisk_argv) \o <<Cmd("wipefs"), Cmd("zap"),
              Cmd("table"), Cmd("partprobe"), Cmd("settle")>>),
     Method("PartitionDisk/keep", FALSE, TRUE,
            <<GuardDisk>> \o ArgSeq(sgdisk_argv)
            \o <<Cmd("table"), Cmd("partprobe"), Cmd("settle")>>)}

Filesystems ==
    {Method("MakeFilesystem", FALSE, TRUE,
            <<GuardDisk>> \o ArgSeq(mkfs_argv) \o <<Cmd("mkfs")>>),
     Method("MakeSwap", FALSE, TRUE,
            <<GuardDisk>> \o ArgSeq(mkswap_argv) \o <<Cmd("mkswap")>>),
     OneCommand("SwapOn", TRUE, swapon_argv, "swapon"),
     OneCommand("SwapOff", TRUE, swapon_argv, "swapoff")}

\* MountAt takes a path under /mnt, /media or /run/media; WriteTargetFstab
\* the same kind of root and a text of valid entries only.
TargetAssembly ==
    {Method("MountAt", FALSE, TRUE,
            <<Arg("path"), GuardDisk, Arg("device"), Cmd("mkdir"),
              Cmd("mount at")>>),
     Method("WriteTargetFstab", FALSE, TRUE,
            <<Arg("root"), Arg("entries"), Put("target fstab")>>)}

-----------------------------------------------------------------------------
(* backend/users.py, with the argv builders of core/users/commands.py; the  *)
(* handler has no OSError clause                                            *)

useradd_argv == <<"name", "comment", "shell", "home", "groups">>
usermod_argv == <<"name", "comment", "shell", "groups", "nothing to do">>
useradd_defaults_argv ==
    <<"group", "home", "shell", "inactive", "expire", "nothing to do">>
chpasswd_input == <<"name", "password">>

UserAccounts ==
    {OneCommand("AddUser", FALSE, useradd_argv, "passwd"),
     OneCommand("ModifyUser", FALSE, usermod_argv, "passwd"),
     OneCommand("DeleteUser", FALSE, <<"name">>, "passwd")}
Groups ==
    {OneCommand("AddGroup", FALSE, <<"name">>, "group"),
     OneCommand("DeleteGroup", FALSE, <<"name">>, "group"),
     OneCommand("SetGroupMember", FALSE, <<"group", "user">>, "group")}
Passwords ==
    {OneCommand("SetPassword", FALSE, chpasswd_input, "shadow"),
     OneCommand("SetDefaults", FALSE, useradd_defaults_argv,
                "useradd defaults")}

-----------------------------------------------------------------------------
(* backend/bootloader.py with core/bootloader/{commands,seamless}.py: no    *)
(* OSError clause in the handler; _configure_seamless and _sync_boot_theme  *)
(* answer the errors of their file writes, not those of the commands around *)
(* them.  Their root is not guarded.                                        *)

grub_install_argv(firmware) ==
    <<"firmware">> \o IF firmware = "uefi"
                      THEN <<"efi directory", "bootloader id", "boot directory">>
                      ELSE <<"disk", "boot directory">>
Grub ==
    {OneCommand("RegenerateGrub", FALSE, <<>>, "grub.cfg"),
     OneCommand("InstallGrub/uefi", FALSE, grub_install_argv("uefi"), "grub"),
     OneCommand("InstallGrub/bios", FALSE, grub_install_argv("bios"), "grub")}

\* The theme steps stop at the first failure; plymouth-set-default-theme has
\* no root of its own.
seamless_steps == <<Cmd("theme dir"), Cmd("grub theme"), Cmd("plymouth theme")>>
SeamlessBoot ==
    {Method("ConfigureSeamlessBoot", FALSE, FALSE,
            <<Own(Put("default/grub"))>> \o seamless_steps)}

\* Emitted into a staging directory first; the scene is copied when the world
\* has one; the initramfs is rebuilt unless a target root is given.
boot_theme_installs ==
    <<Own(Put("plymouth script")), Own(Put("grub theme.txt"))>>
BootTheme ==
    {Method("SyncBootTheme/scene", FALSE, FALSE,
            ArgSeq(<<"accent", "world", "nothing to do">>)
            \o <<Cmd("staging")>> \o boot_theme_installs
            \o <<Own(Put("scene")), Cmd("initramfs")>>),
     Method("SyncBootTheme/target", FALSE, FALSE,
            ArgSeq(<<"accent", "world", "nothing to do">>)
            \o <<Cmd("staging")>> \o boot_theme_installs)}

-----------------------------------------------------------------------------
(* Single-command services without an OSError clause *)

\* backend/datetime.py: hwclock --systohc is best effort.
DateTime ==
    {Method("SetClock", FALSE, FALSE,
            <<Arg("timestamp"), Cmd("clock"),
              BestEffort(Cmd("hardware clock"))>>)}
Eselect ==
    {OneCommand("SetTarget", FALSE, <<"module", "target">>, "eselect")}
add_argv == <<"name", "type", "uri">>
Repos ==
    {OneCommand("Enable", FALSE, <<"name">>, "repos"),
     OneCommand("Disable", FALSE, <<"name">>, "repos"),
     OneCommand("Remove", FALSE, <<"name">>, "repos"),
     OneCommand("Add", FALSE, add_argv, "repos")}
\* backend/services.py on systemd or OpenRC; OpenRC cannot mask.
Services ==
    {OneCommand("Control", FALSE, <<"name", "action">>, "service state"),
     OneCommand("SetEnabled", FALSE, <<"name">>, "service boot"),
     OneCommand("SetMasked/systemd", FALSE, <<"name">>, "service mask"),
     Method("SetMasked/openrc", FALSE, FALSE,
            <<Arg("name"), St("guard", "unsupported")>>)}

-----------------------------------------------------------------------------
(* Services that write a file and make it take effect *)

\* backend/envd.py and backend/sysctl.py.
Envd ==
    {Method("ApplyVars", TRUE, TRUE,
            <<Arg("name"), Arg("value"), Put("env.d/99gest"),
              Live(Cmd("env-update"))>>)}
Sysctl ==
    {Method("ApplySettings/some", TRUE, TRUE,
            <<Arg("key"), Arg("value"), Put("sysctl.d/10-gest.conf"),
              Live(Cmd("sysctl -p"))>>),
     Method("ApplySettings/none", TRUE, TRUE,
            <<Put("sysctl.d/10-gest.conf")>>)}

\* backend/firewall.py: the ruleset is written over the old one and only then
\* checked with nft -c; it is loaded only when the check passes.
valid_policy == <<"policy", "ports">>
Firewall ==
    {Method("ApplyPolicy", TRUE, TRUE,
            ArgSeq(valid_policy) \o <<Put("nftables.nft"),
              St("check", "nftables.nft"), Live(Cmd("live ruleset"))>>),
     Method("EnableAtBoot", FALSE, TRUE,
            <<Cmd("saved ruleset"), Cmd("nftables at boot")>>)}

\* backend/firewalld.py: every permanent change is tried, then the reload.
firewall_cmd_argv == <<"zone", "services", "ports">>
Firewalld ==
    {Method("ApplyChanges", FALSE, FALSE,
            ArgSeq(firewall_cmd_argv)
            \o <<GoOn(Cmd("remove services")), GoOn(Cmd("add services")),
                 GoOn(Cmd("remove ports")), GoOn(Cmd("add ports")),
                 GoOn(Cmd("reload"))>>)}

\* backend/network.py
Network ==
    {OneCommand("SetLink", TRUE, <<"iface">>, "link"),
     Method("SetInterfaceConfig", TRUE, TRUE,
            ArgSeq(<<"iface", "method", "address", "gateway">>)
            \o <<Put("conf.d/net")>>),
     Method("SetResolvers", TRUE, TRUE,
            <<Arg("nameservers"), Arg("search"), Put("resolv.conf")>>),
     Method("SetHosts", TRUE, TRUE, <<Arg("entries"), Put("hosts")>>)}

\* backend/portage.py: every path and body of the batch is validated before
\* the first file is written; a later write may still fail.
validate_one(n) == IF n = 1 THEN <<Arg("path 1"), Arg("content 1")>>
                   ELSE <<Arg("path 2"), Arg("content 2")>>
PortageWrites ==
    {Method("WriteConfig", FALSE, TRUE,
            <<Arg("empty batch")>> \o validate_one(1) \o validate_one(2) \o <<Put("surface 1"), Put("surface 2")>>)}
PortageTrust ==
    {Method("SetupTrust", FALSE, TRUE, <<Cmd("binpkg keyring")>>)}

\* _write_checked and sshd's _apply_config: stage, check, replace.
Checked(f) == <<St("stage", f), St("check", f), St("place", f)>>

\* backend/privilege.py; a disabled sudo rule is unlinked.
Privilege ==
    {Method("SetSudo/on", TRUE, TRUE,
            <<Arg("group")>> \o Checked("sudoers.d/gest")),
     Method("SetSudo/off", TRUE, TRUE,
            <<Arg("group"), Put("no sudoers.d/gest")>>),
     Method("SetDoas", TRUE, TRUE, <<Arg("group")>> \o Checked("doas.conf"))}

\* backend/sshd.py: the reload is best effort.
Sshd ==
    {Method("ApplyConfig", TRUE, TRUE,
            <<Arg("port"), Arg("root login")>> \o Checked("sshd_config")
            \o <<Live(BestEffort(Cmd("sshd reload")))>>)}

\* backend/ssh.py: DeployKey only reads and asks nobody; the known_hosts scan
\* is best effort.
DeployKeys ==
    {[Method("DeployKey", FALSE, TRUE, <<>>) EXCEPT !.polkit = FALSE],
     Method("EnsureDeployKey/new", FALSE, FALSE,
            <<Cmd("deploy key"), BestEffort(Cmd("known_hosts"))>>),
     Method("EnsureDeployKey/present", FALSE, FALSE,
            <<BestEffort(Cmd("known_hosts"))>>)}

\* backend/system.py; /etc/localtime is repointed by a temporary link under a
\* fixed name.
Repointed(f) == <<St("link", f), St("rename", f)>>
Identity ==
    {Method("SetHostname", TRUE, TRUE,
            <<Arg("hostname"), Put("conf.d/hostname"),
              Live(Cmd("hostname"))>>),
     Method("SetTimezone", TRUE, TRUE,
            <<Arg("zone"), Arg("zoneinfo file"), Put("timezone")>>
            \o Repointed("localtime")),
     Method("SetLocale", TRUE, TRUE,
            <<Arg("locale"), Put("env.d/02locale"), Put("locale.conf")>>)}
Console ==
    {Method("SetKeymap", TRUE, TRUE, <<Arg("keymap"), Put("conf.d/keymaps")>>),
     Method("SetConsoleFont", TRUE, TRUE,
            <<Arg("font"), Put("conf.d/consolefont")>>)}

\* backend/wifi.py: wpa_passphrase only hashes; wpa_cli reconfigure is best
\* effort; Scan changes nothing, and what the OSError clause returns, (bs), is
\* not of Scan's type, (bas): the bus sends no reply.
Wifi ==
    {Method("AddNetwork/secured", TRUE, TRUE,
            <<Arg("ssid"), Arg("passphrase"), St("check", "network block"),
              Put("wpa_supplicant.conf"),
              Live(Suppressed(Cmd("wpa_supplicant")))>>),
     Method("AddNetwork/open", TRUE, TRUE,
            <<Arg("ssid"), Put("wpa_supplicant.conf"),
              Live(Suppressed(Cmd("wpa_supplicant")))>>),
     Method("RemoveNetwork", TRUE, TRUE,
            <<Arg("ssid"), Put("wpa_supplicant.conf"),
              Live(Suppressed(Cmd("wpa_supplicant")))>>),
     Method("Scan", FALSE, FALSE, <<St("check", "scan")>>)}

-----------------------------------------------------------------------------
AllMethods ==
    Mounts \cup FstabEntries \cup Partitioning \cup Filesystems
    \cup TargetAssembly \cup UserAccounts \cup Groups \cup Passwords
    \cup Grub \cup SeamlessBoot \cup BootTheme \cup DateTime \cup Eselect
    \cup Repos \cup Services \cup Envd \cup Sysctl \cup Firewall
    \cup Firewalld \cup Network \cup PortageWrites \cup PortageTrust
    \cup Privilege \cup Sshd \cup DeployKeys \cup Identity \cup Console
    \cup Wifi
=============================================================================
