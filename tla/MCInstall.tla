------------------------------ MODULE MCInstall ------------------------------
(* Instances of the install engine for TLC: plans and the registries built  *)
(* from them.                                                               *)
EXTENDS InstallEngine, InstallRegistry

Alice == [account |-> "account alice", wheel |-> "wheel alice",
          password |-> "password alice", groups |-> "groups alice",
          admin |-> TRUE, setPassword |-> TRUE]
Bob == [account |-> "account bob", wheel |-> "wheel bob",
        password |-> "password bob", groups |-> "groups bob",
        admin |-> FALSE, setPassword |-> TRUE]

BasePlan == [uefi |-> TRUE, home |-> FALSE, swap |-> TRUE, desktop |-> FALSE,
             arm64 |-> FALSE, genkernel |-> TRUE, nvidia |-> FALSE,
             libre |-> FALSE, users |-> <<Alice>>, admin |-> "rootless",
             escalator |-> "sudo",
             tier2 |-> {}, shipped |-> {}, groups |-> {"render"}]
DesktopPlan == [BasePlan EXCEPT !.home = TRUE, !.desktop = TRUE,
                  !.nvidia = TRUE, !.users = <<Alice, Bob>>,
                  !.admin = "sudo-augmented", !.escalator = "doas",
                  !.tier2 = {"firewall", "sysctl"}]

RootlessSteps == BuildRegistry(BasePlan)
DesktopSteps == BuildRegistry(DesktopPlan)
MinimalSteps == BuildMinimalRegistry([BasePlan EXCEPT !.admin = "traditional"])

\* Steps whose is_satisfied asks for something the step does last.
SoundlyGated ==
    {"partition", "unpack_stage3", "Generate /etc/fstab", "write_make_conf",
     "write_repos_conf", "sync_tree", "Select the profile", "emerge_world",
     "provision_desktop", "install_desktop", "cleanup_desktop_binpkgs",
     "generate_locale", "Set the hostname", "Set the console keymap",
     "install_kernel_sources", "stage_kernel_config", "build_kernel",
     "install_gpu_drivers", "configure_hibernate_resume",
     "install_bootloader", "install_boot_stub", "Set the root password",
     "Set user passwords", "configure_network", "enable_desktop_session",
     "configure_clock", "admin_sudo", "Configure sudo (wheel)",
     "admin_doas", "Configure doas (wheel)", "admin_lock_root", "tier2_openssh", "tier2_sshd_enable",
     "tier2_nftables", "tier2_nftables_enable", "tier2_sudo",
     "Configure the firewall", "Configure sysctl"}

\* The administrator of the plans.
AliceAdmin == {"account alice", "wheel alice", "wheel rule"}
=============================================================================
