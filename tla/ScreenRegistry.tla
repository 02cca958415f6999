--------------------------- MODULE ScreenRegistry ---------------------------
(***************************************************************************)
(* Every configuration screen of the urwid frontend (gest/tui/screens) and  *)
(* every module of the Qt one (gest/qt/modules) as a record for Screens:    *)
(* what it shows, how it loads, and what each of its keys or buttons sends  *)
(* and does with the reply.                                                 *)
(***************************************************************************)
EXTENDS Naturals, Sequences

Op(via, carries, ok, bad) ==
    [via |-> via, carries |-> carries, needs |-> FALSE, ok |-> ok, bad |-> bad]
Key(carries, ok, bad) == Op("key", carries, ok, bad)
Form(carries, ok, bad) == Op("modal", carries, ok, bad)
Sel(op) == [op EXCEPT !.needs = TRUE]
Edit == Key("stage", {}, {})
EditForm == Form("stage", {}, {})
Reload == {"reload"}

Tui(name, shows, load, ops) ==
    [name |-> name, shows |-> shows, load |-> load, ops |-> ops,
     asks |-> FALSE, blocks |-> FALSE, truth |-> TRUE, marked |-> FALSE]
Asking(s) == [s EXCEPT !.asks = TRUE]
\* The call is made in the key handler itself.
Blocking(s) == [s EXCEPT !.blocks = TRUE]
\* No baseline: what it shows is the user's draft.
Draft(s) == [s EXCEPT !.truth = FALSE]
\* Tells its own file from one written by hand.
Marked(s) == [s EXCEPT !.marked = TRUE]
Qt(name, shows, ops) == Blocking(Tui(name, shows, "init", ops))

-----------------------------------------------------------------------------
(* urwid *)

HostnameScreen == Tui("hostname", "hostname", "init", [apply |-> Key("one", {"pop"}, {})])
\* Timezone, locale, keymap and console font.
ChoiceScreen == Tui("timezone", "timezone", "async", [apply |-> Sel(Key("one", {"pop"}, {}))])
DnsScreen == Tui("dns", "resolv.conf", "init",
                 [field |-> Edit, apply |-> Key("work", {"pop"}, {})])
HostsScreen == Tui("hosts", "hosts", "init",
                   [add |-> Form("view", Reload, {}), edit |-> Sel(Form("view", Reload, {})),
                    remove |-> Sel(Key("view", Reload, {}))])
SysctlScreen == Tui("sysctl", "sysctl", "init",
                    [add |-> Form("view", Reload, {}), edit |-> Sel(Form("view", Reload, {})),
                     remove |-> Sel(Key("view", Reload, {}))])
EnvdScreen == Tui("envd", "envd", "init",
                  [add |-> Form("view", Reload, {}), edit |-> Sel(Form("view", Reload, {})),
                   remove |-> Sel(Key("view", Reload, {}))])
\* NTP on: enable and start, off: stop and disable; only the start's or the
\* stop's result counts.
DateTimeScreen == Tui("datetime", "clock", "async",
                      [set_clock |-> Form("one", Reload, Reload),
                       ntp |-> Sel(Key("one", Reload, Reload)), refresh |-> Key("read", {}, {})])
\* The configuration form reads the interface's file itself; the list does
\* not show it.
NetworkScreen == Tui("network", "interfaces", "async",
                     [link |-> Sel(Key("one", Reload, Reload)),
                      configure |-> Sel(Form("side", {}, {})), refresh |-> Key("read", {}, {})])
\* Enter opens the detail of the list's cached service over it.  Masking there
\* brings the detail up to date and not the list below: the detail is the
\* list's dialogue.
ServicesScreen == Tui("services", "services", "async",
                      [control |-> Sel(Key("one", Reload, Reload)),
                       enable |-> Sel(Key("one", Reload, Reload)),
                       mask |-> Sel(Key("one", Reload, Reload)),
                       detail |-> Sel(Form("one", {}, {}))])
\* The scan's answer pushes the list of networks.
WifiScreen == Tui("wifi", "wifi", "init",
                  [add |-> Form("one", Reload, {}), remove |-> Sel(Form("one", Reload, {})),
                   scan |-> Key("side", {"push"}, {})])
FirewalldApply == Form("diff", {"working"}, {})
FirewalldScreen == Asking(Tui("firewalld", "zone", "init",
                              [add_service |-> EditForm, add_port |-> EditForm,
                               remove |-> Edit, apply |-> FirewalldApply]))
SshdApply == Form("work", {"sent"}, {})
SshdScreen == Asking(Tui("sshd", "sshd_config", "init",
                         [toggle |-> Edit, port |-> EditForm,
                          apply |-> SshdApply]))
FirewallApply == Form("work", {}, {})
FirewallScreen == Marked(Draft(Tui("firewall", "nftables", "init",
                            [toggle |-> Edit, ports |-> EditForm,
                             apply |-> FirewallApply, at_boot |-> Form("side", {}, {})])))
EselectScreen == Tui("eselect", "eselect", "async", [set |-> Sel(Key("one", Reload, Reload))])
PrivilegeScreen == Tui("privilege", "escalation", "init",
                       [sudo |-> Form("one", Reload, {}), doas |-> Form("one", Reload, {})])
LicensesScreen == Tui("licenses", "package.license", "async",
                      [add |-> Form("fresh", Reload, Reload), edit |-> Sel(Form("fresh", Reload, Reload)),
                       remove |-> Sel(Form("fresh", Reload, Reload)),
                       global |-> Form("fresh", Reload, Reload)])
MakeconfScreen == Tui("makeconf", "make.conf", "async",
                      [edit |-> Sel(Form("fresh", Reload, Reload)), add |-> Form("fresh", Reload, Reload)])
HwFlagsScreen == Tui("hwflags", "make.conf flags", "async",
                     [apply |-> Key("fresh", Reload, Reload), edit |-> Form("fresh", Reload, Reload)])
BinhostScreen == Tui("binhost", "binrepos", "async",
                     [save |-> Form("fresh", Reload, Reload), remove |-> Sel(Form("fresh", Reload, Reload)),
                      feature |-> Key("fresh", Reload, Reload), getuto |-> Key("side", {}, {})])
MirrorScreen == Tui("mirrors", "gentoo.conf", "init",
                    [choose |-> Key("fresh", {"pop"}, {}), custom |-> Form("fresh", {"pop"}, {})])
\* The result of the write is not looked at: the screen closes (and the rebuild
\* of the package opens) either way.
UseFlagScreen == Tui("useflags", "package.use", "async",
                     [cycle |-> Sel(Edit), apply |-> Key("now", {"pop", "push"}, {"pop", "push"})])
KeywordsScreen == Tui("keywords", "package.accept_keywords", "init",
                      [cycle |-> Edit, apply |-> Key("now", {"pop"}, {"pop"})])
\* The table and what is mounted, of which only the table's forms load again:
\* mount and unmount do not, and the partition screen opens over this one.
DiskScreen == Tui("disk", "fstab", "async",
                  [mount |-> Sel(Key("one", {}, {})), partition |-> Form("one", {}, {}), add |-> Form("one", Reload, Reload),
                   edit |-> Sel(Form("one", Reload, Reload)), remove |-> Sel(Form("one", Reload, Reload))])
\* The detected loader is shown, and not detected again after an install.
BootloaderScreen == Tui("bootloader", "boot", "async",
                        [regenerate |-> Sel(Key("side", {}, {})), install |-> Form("one", {}, {})])
\* A build leaves a .config behind: the screen goes on saying it is missing.
KernelScreen == Tui("kernel", "kernel", "async", [build |-> Sel(Form("one", {}, {}))])
PreferencesScreen == Blocking(Tui("prefs", "gest.ini", "init",
                                  [mode |-> Key("one", {"shown"}, {}), timer |-> Key("one", {"shown"}, {})]))
DeployKeyScreen == Tui("deploykey", "ssh key", "async", [generate |-> Key("one", {"shown"}, {})])
LogsScreen == Tui("logs", "logs", "async", [refresh |-> Sel(Key("read", {}, {}))])
HardwareScreen == Tui("hardware", "hardware", "async", <<>>)

TuiScreens ==
    {HostnameScreen, ChoiceScreen, DnsScreen, HostsScreen, SysctlScreen, EnvdScreen,
     DateTimeScreen, NetworkScreen, ServicesScreen, WifiScreen,
     FirewalldScreen, SshdScreen, FirewallScreen, EselectScreen, PrivilegeScreen,
     LicensesScreen, MakeconfScreen, HwFlagsScreen, BinhostScreen, MirrorScreen,
     UseFlagScreen, KeywordsScreen, DiskScreen, BootloaderScreen, KernelScreen,
     PreferencesScreen, DeployKeyScreen, LogsScreen, HardwareScreen}

-----------------------------------------------------------------------------
(* Qt *)

HostnameModule == Qt("qt hostname", "hostname", [apply |-> Key("one", {"shown"}, {})])
ChoiceModule == Qt("qt locale", "locale", [apply |-> Sel(Key("one", {"shown"}, {}))])
DnsModule == Qt("qt dns", "resolv.conf", [field |-> Edit, apply |-> Key("work", {"sent"}, {})])
\* The edit goes into the module's entries before the call and stays there.
HostsModule == Qt("qt hosts", "hosts",
                  [add |-> Form("view", {"shown"}, {"shown"}), edit |-> Sel(Form("view", {"shown"}, {"shown"})),
                   remove |-> Sel(Key("view", {"shown"}, {"shown"}))])
ServicesModule == Qt("qt services", "services",
                     [control |-> Sel(Key("one", Reload, Reload)), enable |-> Sel(Key("one", Reload, Reload))])
\* No field for PermitEmptyPasswords: the settings sent have its default.
SshdModule == Qt("qt sshd", "sshd_config", [field |-> Edit, apply |-> Key("form", Reload, Reload)])
SysctlModule == Qt("qt sysctl", "sysctl", [set |-> Key("fresh", Reload, Reload)])
EnvdModule == Qt("qt envd", "envd", [set |-> Key("fresh", Reload, Reload)])
UsersModule == Qt("qt users", "users",
                  [password |-> Sel(Key("side", {}, {})), delete |-> Sel(Key("one", Reload, Reload)),
                   add |-> Key("one", Reload, {})])
NetworkModule == Qt("qt network", "interfaces",
                    [apply |-> Sel(Key("side", {}, {})), link |-> Sel(Key("one", Reload, {}))])
WifiModule == Qt("qt wifi", "wifi",
                 [remove |-> Sel(Key("one", Reload, Reload)), add |-> Key("one", Reload, {})])
BinhostModule == Qt("qt binhost", "binrepos",
                    [save |-> Key("fresh", Reload, {}), delete |-> Key("fresh", Reload, {}),
                     feature |-> Key("fresh", Reload, Reload), trust |-> Key("side", {}, {})])
HwFlagsModule == Qt("qt hwflags", "make.conf flags", [apply |-> Key("fresh", {"shown"}, {})])
ReposModule == Qt("qt repos", "repos",
                  [act |-> Sel(Key("one", Reload, Reload)), add |-> Key("one", Reload, {})])
WorldModule == Qt("qt world", "world", [deselect |-> Sel(Key("one", Reload, {}))])
LicensesModule == Qt("qt licenses", "package.license",
                     [set_atom |-> Key("fresh", Reload, {}), set_global |-> Key("fresh", {"shown"}, {})])
MakeConfModule == Qt("qt makeconf", "make.conf", [set |-> Key("fresh", Reload, {})])
ClockModule == Qt("qt clock", "clock", [set |-> Key("one", Reload, Reload)])
PrivilegeModule == Qt("qt privilege", "escalation", [apply |-> Key("one", Reload, Reload)])
EselectModule == Qt("qt eselect", "eselect", [set |-> Sel(Key("one", Reload, Reload))])
NewsModule == Qt("qt news", "news",
                 [read |-> Sel(Key("one", Reload, {})), mark_all |-> Key("one", Reload, {})])
\* A combo box keeps what was chosen even when saving it fails.
PreferencesModule == Qt("qt prefs", "gest.ini",
                        [mode |-> Key("one", {"shown"}, {"shown"}), timer |-> Key("one", {"shown"}, {"shown"})])
FirewallModule == Qt("qt firewall", "nftables", [at_boot |-> Key("side", {}, {})])
BootloaderModule == Qt("qt bootloader", "boot", [regenerate |-> Key("side", {}, {})])

QtModules ==
    {HostnameModule, ChoiceModule, DnsModule, HostsModule, ServicesModule, SshdModule,
     SysctlModule, EnvdModule, UsersModule, NetworkModule, WifiModule, BinhostModule,
     HwFlagsModule, ReposModule, WorldModule, LicensesModule, MakeConfModule,
     ClockModule, PrivilegeModule, EselectModule, NewsModule, PreferencesModule,
     FirewallModule, BootloaderModule}
=============================================================================
