----------------------------- MODULE Collectors -----------------------------
(***************************************************************************)
(* What a collect reads on a device, and what its checks make of it: the   *)
(* commands, the parsers of their outputs, the checks. The agent runs the  *)
(* collectors and sends their result.                                      *)
(*                                                                         *)
(* A device is described by one setting per check. An output, and a parsed *)
(* value, is what the checks tell apart in it. Left out: the outputs that  *)
(* no check reads, and the texts of the evidence.                          *)
(***************************************************************************)
EXTENDS Naturals, Sequences, FiniteSets

None == "none"

-----------------------------------------------------------------------------
\* The controls, by check.

LINUX_CONTROL_MAP ==
  [os_supported |-> "LSRV-001", no_pending_security_updates |-> "LSRV-002",
   auto_updates_configured |-> "LSRV-003", ssh_root_disabled |-> "LSRV-010",
   ssh_password_disabled |-> "LSRV-011", pam_configured |-> "LSRV-013",
   firewall_active |-> "LSRV-020", rsyslog_active |-> "LSRV-030", auditd_active |-> "LSRV-032",
   antivirus_installed |-> "LSRV-041", file_permissions_ok |-> "LSRV-042"]

WINDOWS_CONTROL_MAP ==
  [os_supported |-> "WSRV-001", updates_recent |-> "WSRV-002", wsus_configured |-> "WSRV-003",
   admin_renamed |-> "WSRV-010", password_policy_ok |-> "WSRV-011",
   lockout_configured |-> "WSRV-012", firewall_all_enabled |-> "WSRV-030", rdp_nla |-> "WSRV-031",
   audit_policy_configured |-> "WSRV-040", logs_min_100mb |-> "WSRV-041",
   antivirus_active |-> "WSRV-051"]

OPNSENSE_CONTROL_MAP ==
  [firmware_up_to_date |-> "OPNS-001", no_pkg_vulnerabilities |-> "OPNS-002",
   ssh_root_disabled |-> "OPNS-020", ssh_password_disabled |-> "OPNS-021",
   limited_shell_accounts |-> "OPNS-025", pf_enabled |-> "OPNS-030",
   pf_rules_defined |-> "OPNS-031", suricata_active |-> "OPNS-040",
   syslog_remote_configured |-> "OPNS-050", vpn_configured |-> "OPNS-060",
   carp_ha_configured |-> "OPNS-070", config_backups_exist |-> "OPNS-071",
   webgui_https |-> "OPNS-010", no_any_any_rules |-> "OPNS-033", rules_documented |-> "OPNS-035",
   ids_ips_mode |-> "OPNS-042", firewall_logging |-> "OPNS-051", ntp_configured |-> "OPNS-053",
   dnssec_enabled |-> "OPNS-080", no_unused_interfaces |-> "OPNS-081",
   wan_bogon_blocked |-> "OPNS-082"]

-----------------------------------------------------------------------------
\* A command that fails leaves the text of its error as its output. The session
\* may also be lost: no later command answers, and the collect still succeeds.

TimedOut == "ERROR: timed out"
Lost     == "ERROR: SSH session not active"
Errors   == {TimedOut, Lost}

\* The outputs of the commands, with at most one fault.
Reads(commands, printed) ==
  LET all == [i \in DOMAIN commands |-> printed[commands[i]]]
      cut(k) == [i \in DOMAIN commands |-> IF i < k THEN all[i] ELSE Lost]
      named(o) == [c \in {commands[i] : i \in DOMAIN commands} |->
                     o[CHOOSE i \in DOMAIN commands : commands[i] = c]]
  IN  {named(o) : o \in {cut(k) : k \in 1 .. Len(commands) + 1}
                        \cup {[all EXCEPT ![i] = TimedOut] : i \in DOMAIN commands}}

-----------------------------------------------------------------------------
\* Linux.

\* The settings of a device, the good ones first.
LinuxSettings ==
  [os_supported |-> [good |-> {"lts"}, poor |-> {"eol", "rhel7"}],
   no_pending_security_updates |-> [good |-> {"patched"}, poor |-> {"apt", "yum"}],
   auto_updates_configured |-> [good |-> {"unattended"}, poor |-> {"manual"}],
   ssh_root_disabled |-> [good |-> {"no"}, poor |-> {"yes", "without-password", "unset"}],
   ssh_password_disabled |-> [good |-> {"no"}, poor |-> {"yes", "unset"}],
   pam_configured |-> [good |-> {"minlen"}, poor |-> {"no_minlen", "no_pam"}],
   firewall_active |-> [good |-> {"ufw", "nft"}, poor |-> {"ufw_off", "no_rules", "no_tool"}],
   rsyslog_active |-> [good |-> {"active"}, poor |-> {"inactive"}],
   auditd_active |-> [good |-> {"active"}, poor |-> {"inactive"}],
   antivirus_installed |-> [good |-> {"clamav"}, poor |-> {"absent"}],
   file_permissions_ok |-> [good |-> {"640", "000"}, poor |-> {"644"}]]

LINUX_COMMANDS ==
  <<"os_release", "apt_security", "unattended_upgrades", "ufw_status", "iptables_rules",
    "nftables_rules", "ssh_root_login", "ssh_password_auth", "rsyslog_active", "auditd_active",
    "passwd_perms", "antivirus", "pam_pwquality">>

Directive(s) == IF s = "unset" THEN "NOT_SET" ELSE s

\* apt alone counts the security updates; iptables lists its chains with or
\* without rules; `is-active` prints "inactive" before the last echo prints NONE.
LinuxPrints(s) ==
  [os_release |-> s.os_supported,
   apt_security |-> IF s.no_pending_security_updates = "apt" THEN "3" ELSE "0",
   unattended_upgrades |-> IF s.auto_updates_configured = "unattended" THEN "1" ELSE "0",
   ufw_status |-> CASE s.firewall_active = "ufw" -> "Status: active"
                    [] s.firewall_active = "ufw_off" -> "Status: inactive"
                    [] OTHER -> "NOT_INSTALLED",
   iptables_rules |-> IF s.firewall_active = "no_tool" THEN "" ELSE "Chain",
   nftables_rules |-> IF s.firewall_active = "nft" THEN "table" ELSE "",
   ssh_root_login |-> Directive(s.ssh_root_disabled),
   ssh_password_auth |-> Directive(s.ssh_password_disabled),
   rsyslog_active |-> s.rsyslog_active,
   auditd_active |-> s.auditd_active,
   passwd_perms |-> s.file_permissions_ok,
   antivirus |-> IF s.antivirus_installed = "absent" THEN "inactive NONE" ELSE "active",
   pam_pwquality |-> IF s.pam_configured = "no_pam" THEN "NOT_CONFIGURED" ELSE s.pam_configured]

\* Mutant: whatever ufw says but "active", the other tools are asked.
FirewallStatusAsksOn(o) ==
  IF o.ufw_status = "Status: active" THEN "ufw_active"
  ELSE IF o.nftables_rules # "" THEN "nftables_active"
  ELSE IF o.iptables_rules = "Chain" THEN "iptables_active" ELSE "none_detected"

FirewallStatus(o) ==
  CASE o.ufw_status = "Status: active" -> "ufw_active"
    [] o.ufw_status \notin {"Status: active", "NOT_INSTALLED", "Status: inactive"} -> "ufw_inactive"
    [] o.ufw_status \in {"NOT_INSTALLED", "Status: inactive"} ->
         IF o.nftables_rules # "" THEN "nftables_active"
         ELSE IF o.iptables_rules = "Chain" THEN "iptables_active" ELSE "none_detected"

ParseSSH(o) ==
  [os_supported |-> o.os_release,
   no_pending_security_updates |-> IF o.apt_security = "3" THEN "3" ELSE "0",
   auto_updates_configured |-> o.unattended_upgrades,
   ssh_root_disabled |-> o.ssh_root_login,
   ssh_password_disabled |-> o.ssh_password_auth,
   pam_configured |-> o.pam_pwquality,
   firewall_active |-> FirewallStatus(o),
   rsyslog_active |-> o.rsyslog_active,
   auditd_active |-> o.auditd_active,
   antivirus_installed |-> o.antivirus,
   file_permissions_ok |-> o.passwd_perms]

\* Mutant: any value of the directive is taken for "no".
SaysAnything == {"no", "yes", "without-password", "NOT_SET", Lost}

\* The outputs that have the letters "no" in them, in lower case.
SaysNo == {"no", "NOT_SET", Lost}

\* _evaluate_linux_check: the values each check accepts. The end of life of RHEL
\* is looked up by a word that its name does not have.
LinuxAccepts ==
  [os_supported |-> {"lts", "rhel7", ""} \cup Errors, no_pending_security_updates |-> {"0"},
   auto_updates_configured |-> {"1"}, ssh_root_disabled |-> SaysNo,
   ssh_password_disabled |-> SaysNo, pam_configured |-> {"minlen"},
   firewall_active |-> {"ufw_active", "iptables_active", "nftables_active"},
   rsyslog_active |-> {"active"}, auditd_active |-> {"active"},
   antivirus_installed |-> {"active", "inactive NONE"} \cup Errors,
   file_permissions_ok |-> {"640"}]

\* The tools that the state of the firewall is taken from: each is asked when the
\* one before it told that it has none.
FirewallTools(o) ==
  {"ufw_status"}
  \cup IF o.ufw_status \notin {"NOT_INSTALLED", "Status: inactive"} THEN {}
       ELSE {"nftables_rules"} \cup IF o.nftables_rules = "" THEN {"iptables_rules"} ELSE {}

\* The commands whose outputs `o` each check was decided on.
LinuxReads(o) ==
  [os_supported |-> {"os_release"}, no_pending_security_updates |-> {"apt_security"},
   auto_updates_configured |-> {"unattended_upgrades"},
   ssh_root_disabled |-> {"ssh_root_login"}, ssh_password_disabled |-> {"ssh_password_auth"},
   pam_configured |-> {"pam_pwquality"}, firewall_active |-> FirewallTools(o),
   rsyslog_active |-> {"rsyslog_active"}, auditd_active |-> {"auditd_active"},
   antivirus_installed |-> {"antivirus"}, file_permissions_ok |-> {"passwd_perms"}]

-----------------------------------------------------------------------------
\* Windows.

\* "fr" is a date, or an audit policy, as a French Windows prints it.
WindowsSettings ==
  [os_supported |-> [good |-> {"2022"}, poor |-> {"2012"}],
   updates_recent |-> [good |-> {"this month", "this month fr"}, poor |-> {"old", "never"}],
   wsus_configured |-> [good |-> {"server"}, poor |-> {"key only", "no key"}],
   admin_renamed |-> [good |-> {"renamed"}, poor |-> {"administrator"}],
   password_policy_ok |-> [good |-> {"14"}, poor |-> {"8"}],
   lockout_configured |-> [good |-> {"5"}, poor |-> {"Never"}],
   firewall_all_enabled |-> [good |-> {"on"}, poor |-> {"one off"}],
   rdp_nla |-> [good |-> {"nla", "closed"}, poor |-> {"open"}],
   audit_policy_configured |-> [good |-> {"Success", "fr"}, poor |-> {"No Auditing"}],
   logs_min_100mb |-> [good |-> {"128"}, poor |-> {"20"}],
   antivirus_active |-> [good |-> {"defender", "other"}, poor |-> {"off", "antispyware"}]]

WINDOWS_COMMANDS ==
  <<"os_info", "last_update_date", "wsus_config", "firewall_profiles", "rdp_enabled", "rdp_nla",
    "admin_account", "password_policy", "event_log_sizes", "audit_policy", "defender_status">>

\* `net accounts`: the length of a password and the lockout, together.
NetAccounts ==
  [o \in {"14 5", "14 Never", "8 5", "8 Never"} |->
     <<IF o \in {"14 5", "14 Never"} THEN "14" ELSE "8",
       IF o \in {"14 5", "8 5"} THEN "5" ELSE "Never">>]

\* rdp_enabled prints fDenyTSConnections; a key without WUServer prints nothing.
WindowsPrints(s) ==
  [os_info |-> s.os_supported,
   last_update_date |-> IF s.updates_recent = "never" THEN "" ELSE s.updates_recent,
   wsus_config |-> CASE s.wsus_configured = "no key" -> "NOT_CONFIGURED"
                     [] s.wsus_configured = "key only" -> ""
                     [] s.wsus_configured = "server" -> "server",
   firewall_profiles |-> s.firewall_all_enabled,
   rdp_enabled |-> IF s.rdp_nla = "closed" THEN "1" ELSE "0",
   rdp_nla |-> IF s.rdp_nla = "open" THEN "0" ELSE "1",
   admin_account |-> s.admin_renamed,
   password_policy |-> CHOOSE o \in DOMAIN NetAccounts :
                         NetAccounts[o] = <<s.password_policy_ok, s.lockout_configured>>,
   event_log_sizes |-> s.logs_min_100mb,
   audit_policy |-> s.audit_policy_configured,
   defender_status |-> CASE s.antivirus_active = "defender" -> "True"
                         [] s.antivirus_active = "antispyware" -> "False True"
                         [] OTHER -> "False"]

\* The profiles are all on until a line of four words says that one is not: the
\* three words of a command that timed out say nothing.
ParseWinRM(o) ==
  LET accounts == IF o.password_policy \in Errors THEN <<"0", "0">>
                  ELSE NetAccounts[o.password_policy]
  IN
  [os_supported |-> IF o.os_info \in Errors THEN "Windows Server" ELSE o.os_info,
   updates_recent |-> o.last_update_date,
   wsus_configured |-> o.wsus_config,
   admin_renamed |-> IF o.admin_account = "administrator" THEN "administrator" ELSE "renamed",
   password_policy_ok |-> accounts[1],
   lockout_configured |-> accounts[2],
   firewall_all_enabled |-> IF o.firewall_profiles \in {"on", TimedOut} THEN "on" ELSE "one off",
   rdp_nla |-> IF o.rdp_enabled # "0" THEN "closed" ELSE IF o.rdp_nla = "1" THEN "nla" ELSE "open",
   audit_policy_configured |-> o.audit_policy,
   logs_min_100mb |-> o.event_log_sizes,
   antivirus_active |-> o.defender_status]

\* _evaluate_windows_check, `month` months after the first collect: an update is
\* recent for thirty days, by the clock of who asks.
WindowsAccepts(month) ==
  [os_supported |-> {"2022", "Windows Server"},
   updates_recent |-> IF month = 0 THEN {"this month"} ELSE {},
   wsus_configured |-> {"server", ""}, admin_renamed |-> {"renamed"},
   password_policy_ok |-> {"14"}, lockout_configured |-> {"5"}, firewall_all_enabled |-> {"on"},
   rdp_nla |-> {"closed", "nla"}, audit_policy_configured |-> {"Success"},
   logs_min_100mb |-> {"128"}, antivirus_active |-> {"True", "False True"}]

WindowsReads(o) ==
  [os_supported |-> {"os_info"}, updates_recent |-> {"last_update_date"},
   wsus_configured |-> {"wsus_config"}, admin_renamed |-> {"admin_account"},
   password_policy_ok |-> {"password_policy"}, lockout_configured |-> {"password_policy"},
   firewall_all_enabled |-> {"firewall_profiles"},
   rdp_nla |-> {"rdp_enabled"} \cup IF o.rdp_enabled = "0" THEN {"rdp_nla"} ELSE {},
   audit_policy_configured |-> {"audit_policy"}, logs_min_100mb |-> {"event_log_sizes"},
   antivirus_active |-> {"defender_status"}]

-----------------------------------------------------------------------------
\* OPNsense: config.xml by SFTP, with commands through its menu as an addition;
\* without SFTP, commands that its menu does not run.

OpnsenseSettings ==
  [firmware_up_to_date |-> [good |-> {"EXIT=0"}, poor |-> {"EXIT=1"}],
   no_pkg_vulnerabilities |-> [good |-> {"0 problem"}, poor |-> {"10 problem", "3 problem"}],
   ssh_root_disabled |-> [good |-> {"no"}, poor |-> {"yes"}],
   ssh_password_disabled |-> [good |-> {"no"}, poor |-> {"yes"}],
   limited_shell_accounts |-> [good |-> {"3 accounts", "4 without shell"}, poor |-> {"4 accounts"}],
   pf_enabled |-> [good |-> {"Enabled"}, poor |-> {"Disabled"}],
   pf_rules_defined |-> [good |-> {"rules"}, poor |-> {"no rules"}],
   suricata_active |-> [good |-> {"RUNNING"}, poor |-> {"NOT_RUNNING"}],
   syslog_remote_configured |-> [good |-> {"remote"}, poor |-> {"NONE"}],
   vpn_configured |-> [good |-> {"tunnel"}, poor |-> {""}],
   carp_ha_configured |-> [good |-> {"carp"}, poor |-> {""}],
   config_backups_exist |-> [good |-> {"1"}, poor |-> {"0"}],
   webgui_https |-> [good |-> {"https"}, poor |-> {"http"}],
   no_any_any_rules |-> [good |-> {"0"}, poor |-> {"1"}],
   rules_documented |-> [good |-> {"all"}, poor |-> {"not all"}],
   ids_ips_mode |-> [good |-> {"1"}, poor |-> {"0"}],
   firewall_logging |-> [good |-> {"half"}, poor |-> {"few"}],
   ntp_configured |-> [good |-> {"2"}, poor |-> {"1", "0"}],
   dnssec_enabled |-> [good |-> {"1"}, poor |-> {"0"}],
   no_unused_interfaces |-> [good |-> {"0"}, poor |-> {"1"}],
   wan_bogon_blocked |-> [good |-> {"both"}, poor |-> {"one", "none"}]]

\* What the menu may give: no shell; the text of the commands, echoed between
\* the marks; the outputs up to the one that the time ran out on. pfctl counts its
\* entries whether pf is enabled or not, and that is taken for a sign that it is.
DYNAMIC_CMDS == <<"firmware_up_to_date", "no_pkg_vulnerabilities", "pf_enabled">>

Echoed == "echoed"

First(n) == {DYNAMIC_CMDS[i] : i \in 1 .. n}

Dynamics(s) ==
  {[c \in First(n) |-> IF c = "pf_enabled" THEN "Enabled" ELSE s[c]] : n \in 0 .. 3}
  \cup {[c \in First(3) |-> Echoed]}

\* The users are counted whatever their shell is; pf runs unless the menu denies it.
FromConfig(s, dynamic) ==
  LET file == [s EXCEPT !.limited_shell_accounts = IF @ = "3 accounts" THEN @ ELSE "4 accounts",
                        !.firmware_up_to_date = None, !.no_pkg_vulnerabilities = None,
                        !.pf_enabled = "Enabled",
                        !.firewall_logging = IF s.pf_rules_defined = "rules" THEN @ ELSE "few",
                        !.ids_ips_mode = IF s.suricata_active = "RUNNING" THEN @ ELSE "0"]
  IN  [c \in DOMAIN s |-> IF c \in DOMAIN dynamic THEN dynamic[c] ELSE file[c]]

ConfigOnly ==
  {"webgui_https", "no_any_any_rules", "rules_documented", "ids_ips_mode", "firewall_logging",
   "ntp_configured", "dnssec_enabled", "no_unused_interfaces", "wan_bogon_blocked"}

\* In the menu every command prints the same: nothing, or its error.
FromMenu(output) ==
  [f \in DOMAIN OPNSENSE_CONTROL_MAP |-> IF f \in ConfigOnly THEN None ELSE output]

\* In a shell they print what is asked: of root's login the whole line, and those of
\* the VPN and of CARP have a word for its absence.
FromShell(s) ==
  [f \in DOMAIN s |->
     CASE f \in ConfigOnly -> None
       [] f = "pf_enabled" -> "Enabled"
       [] f = "ssh_root_disabled" ->
            IF s[f] = "no" THEN "PermitRootLogin no" ELSE "PermitRootLogin yes"
       [] f = "vpn_configured" -> IF s[f] = "" THEN "NOT_RUNNING" ELSE s[f]
       [] f = "carp_ha_configured" -> IF s[f] = "" THEN "NO_CARP" ELSE s[f]
       [] f = "limited_shell_accounts" -> IF s[f] = "4 accounts" THEN s[f] ELSE "3 accounts"
       [] OTHER -> s[f]]

\* Each data, with the checks that it was read for.
OpnsenseReads(s) ==
  {[data |-> FromConfig(s, d),
    read |-> (DOMAIN s \ First(3)) \cup {c \in DOMAIN d : d[c] # Echoed}] : d \in Dynamics(s)}
  \cup {[data |-> FromMenu(o), read |-> {}] : o \in {"", TimedOut}}
  \cup {[data |-> FromShell(s),
         read |-> DOMAIN s \ (ConfigOnly \cup {"vpn_configured", "carp_ha_configured"})]}

\* _evaluate_opnsense_check. A field that the data lack is as the check takes it,
\* and "10 problem" has "0 problem" in it.
OpnsenseAccepts ==
  [firmware_up_to_date |-> {"EXIT=0"}, no_pkg_vulnerabilities |-> {"0 problem", "10 problem", ""},
   ssh_root_disabled |-> {"no", ""}, ssh_password_disabled |-> {"no"},
   limited_shell_accounts |-> {"3 accounts", ""} \cup Errors, pf_enabled |-> {"Enabled"},
   pf_rules_defined |-> {"rules"}, suricata_active |-> {"RUNNING"} \cup Errors,
   syslog_remote_configured |-> {"remote"} \cup Errors, vpn_configured |-> {"tunnel", "NOT_RUNNING"} \cup Errors,
   carp_ha_configured |-> {"carp", "NO_CARP"} \cup Errors, config_backups_exist |-> {"1"},
   webgui_https |-> {"https", None}, no_any_any_rules |-> {"0", None},
   rules_documented |-> {"all", None}, ids_ips_mode |-> {"1"}, firewall_logging |-> {"half"},
   ntp_configured |-> {"2"}, dnssec_enabled |-> {"1"}, no_unused_interfaces |-> {"0", None},
   wan_bogon_blocked |-> {"both"}]

=============================================================================
