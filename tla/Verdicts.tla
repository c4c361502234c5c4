------------------------------ MODULE Verdicts ------------------------------
(***************************************************************************)
(* The verdicts that the backend gives without an auditor: a device, the   *)
(* collects, the network scan and the configuration file that tell of it,  *)
(* and the assessment that each of them prefills.                          *)
(*                                                                         *)
(* The device has one setting per check, ports open and flaws in its       *)
(* configuration, a few of which are poor. Left out: the evidence, the     *)
(* counts, and who asks.                                                   *)
(***************************************************************************)
EXTENDS Collectors, Functions

CONSTANTS Collects,   \* the collects of the device
          Kinds,      \* the kinds of device
          MaxPoor     \* bound on what is poor in the device

ASSUME KindsAssumption == Kinds \subseteq {"linux", "windows", "opnsense", "fortigate", "switch"}

VARIABLES device,     \* what the device is
          collected,  \* each collect
          scans,      \* the ports that each finished pipeline found open
          analyses,   \* the findings of each configuration file
          verdicts,   \* the results of the assessment, by control
          month       \* the current month

verdictVars == <<device, collected, scans, analyses, verdicts, month>>

-----------------------------------------------------------------------------
\* Devices and profiles.

Settings(kind) ==
  CASE kind = "linux" -> LinuxSettings
    [] kind = "windows" -> WindowsSettings
    [] kind = "opnsense" -> OpnsenseSettings
    [] OTHER -> <<>>

\* The profile that is made for a kind of device; a switch has none.
ProfileOf ==
  [linux |-> "linux_server", windows |-> "windows_server", opnsense |-> "opnsense",
   fortigate |-> "fortigate", switch |-> None]

\* detect_collect_profile: what a host of the scan is collected as. SSH alone is
\* taken for Linux, and WinRM alone for Windows, whatever the system is.
DetectProfile(os, ssh, winrm) ==
  IF os = "opnsense" /\ ssh THEN "opnsense"
  ELSE IF os = "windows" /\ winrm THEN "windows_server"
  ELSE IF os = "linux" /\ ssh THEN "linux_server"
  ELSE IF ssh /\ ~winrm THEN "linux_server"
  ELSE IF winrm /\ ~ssh THEN "windows_server"
  ELSE None

\* Mutant: WinRM is forgotten.
MethodBySSH(profile) == "ssh"

MethodOf(profile) == IF profile = "windows_server" THEN "winrm" ELSE "ssh"

\* What the scan may tell of a device: its system or nothing, and its ports.
Signals(kind) == {kind, ""} \X BOOLEAN \X (IF kind = "windows" THEN BOOLEAN ELSE {FALSE})

-----------------------------------------------------------------------------
\* The other sources of verdicts.

NMAP_CONTROL_MAP ==
  {<<"23/tcp", "SW-004">>, <<"23/tcp", "LSRV-021">>, <<"21/tcp", "SW-004">>,
   <<"69/udp", "SW-004">>, <<"161/udp", "SW-030">>, <<"3389/tcp", "WSRV-031">>}

Ports == {m[1] : m \in NMAP_CONTROL_MAP}

\* Mutant: a port is matched by the service of any control.
ExposedByAny(open) == IF open = {} THEN {} ELSE {m[2] : m \in NMAP_CONTROL_MAP}

Exposed(open) == {m[2] : m \in {x \in NMAP_CONTROL_MAP : x[1] \in open}}

\* The findings of the parsers, by the flaw of the configuration. The control of
\* each is the one that its map entry was written for.
Flaws(kind) ==
  CASE kind = "fortigate" ->
         [old_version |-> "FW-001", http |-> "FW-002", http_and_https |-> "FW-002",
          telnet |-> "FW-002", any_any_any |-> "FW-011", service_all |-> "FW-014",
          no_log |-> "FW-020", weak_vpn |-> "FW-040", snmp_public |-> "FW-050",
          ping_on_wan |-> None]
    [] kind = "opnsense" ->
         [http |-> "FW-002", any_any |-> "FW-011", no_log |-> "FW-020", no_dns |-> None,
          root_user |-> None]
    [] OTHER -> <<>>

FINDING_CONTROL_MAP == {"FW-001", "FW-002", "FW-011", "FW-014", "FW-020", "FW-040", "FW-050"}

\* The findings of OPNsense whose words are not the keywords of their control.
Unmatched(kind) == IF kind = "opnsense" THEN {"http", "any_any"} ELSE {}

Matching(kind, findings) == {Flaws(kind)[f] : f \in findings \ Unmatched(kind)}

-----------------------------------------------------------------------------
\* The assessment: the controls of the frameworks made for the device.

Framework(kind) ==
  CASE kind = "linux" -> Range(LINUX_CONTROL_MAP) \cup {"LSRV-021"}
    [] kind = "windows" -> Range(WINDOWS_CONTROL_MAP)
    [] kind = "opnsense" -> Range(OPNSENSE_CONTROL_MAP) \cup FINDING_CONTROL_MAP
    [] kind = "fortigate" -> FINDING_CONTROL_MAP
    [] kind = "switch" -> {"SW-004", "SW-030"}

NotAssessed == [status |-> "not_assessed", by |-> None, of |-> None]

\* Those of the controls that the assessment has are given their verdict.
Prefill(compliant, others, by, of) ==
  verdicts' = [r \in DOMAIN verdicts |->
                IF r \in compliant \cup others
                THEN [status |-> IF r \in compliant THEN "compliant" ELSE "non_compliant",
                      by |-> by, of |-> of]
                ELSE verdicts[r]]

-----------------------------------------------------------------------------
\* Collects.

NoCollect == [status |-> None]
Deleted   == [status |-> "deleted"]

Checks(kind) == DOMAIN Settings(kind)

\* An agent that collects with the commands of another system reads nothing.
Nothing == [c \in Range(LINUX_COMMANDS) |-> ""]

Answered(commands, o) == {f \in DOMAIN commands : \A c \in commands[f] : o[c] \notin Errors}

\* What a collect may bring: the parsed data and, for the properties, the checks
\* decided on commands that answered and what the others were left with.
Reading(data, read) ==
  [data |-> data, read |-> read, left |-> {<<f, data[f]>> : f \in DOMAIN data \ read}]

Readings(kind, profile, s) ==
  CASE profile = "linux_server" /\ kind = "linux" ->
         {Reading(ParseSSH(o), Answered(LinuxReads(o), o))
            : o \in Reads(LINUX_COMMANDS, LinuxPrints(s))}
    [] profile = "windows_server" ->
         {Reading(ParseWinRM(o), Answered(WindowsReads(o), o))
            : o \in Reads(WINDOWS_COMMANDS, WindowsPrints(s))}
    [] profile = "opnsense" -> {Reading(r.data, r.read) : r \in OpnsenseReads(s)}
    [] profile = "linux_server" /\ kind # "linux" ->
         {[data |-> ParseSSH(Nothing), read |-> {}, left |-> {}]}
    [] profile = "fortigate" -> {[data |-> <<>>, read |-> {}, left |-> {}]}

\* _analyze_collect_findings goes by the profile, then by the method.
Findings(profile, method, data, at) ==
  CASE profile = "opnsense" ->
         {OPNSENSE_CONTROL_MAP[f] : f \in {x \in DOMAIN data : data[x] \notin OpnsenseAccepts[x]}}
    [] profile = "fortigate" -> {}
    [] profile \notin {"opnsense", "fortigate"} /\ method = "winrm" ->
         {WINDOWS_CONTROL_MAP[f] : f \in {x \in DOMAIN data : data[x] \notin WindowsAccepts(at)[x]}}
    [] profile \notin {"opnsense", "fortigate"} /\ method = "ssh" ->
         {LINUX_CONTROL_MAP[f] : f \in {x \in DOMAIN data : data[x] \notin LinuxAccepts[x]}}

\* A collect is made for a profile: the one of the device, by its auditor, or the
\* one that a pipeline detects.
Create(c, profile, identified) ==
  /\ collected[c] = NoCollect /\ profile # None
  /\ collected' = [collected EXCEPT
       ![c] = [status |-> "running", profile |-> profile, identified |-> identified,
               method |-> MethodOf(profile)]]
  /\ UNCHANGED <<device, scans, analyses, verdicts, month>>

CreateByAuditor(c) == Create(c, ProfileOf[device.kind], FALSE)

CreateByPipeline(c) ==
  \E s \in Signals(device.kind) :
    Create(c, DetectProfile(s[1], s[2], s[3]),
           s[1] # "" /\ IF s[1] = "windows" THEN s[3] ELSE s[2])

\* For the properties, the collect keeps the month it was made in.
HydrateOK(c) ==
  LET p == collected[c].profile
      m == collected[c].method
  IN  /\ collected[c].status = "running"
      /\ \E r \in Readings(device.kind, p, device.setting) :
           collected' = [collected EXCEPT
             ![c] = [status |-> "success", profile |-> p, identified |-> collected[c].identified,
                     method |-> m, data |-> r.data, findings |-> Findings(p, m, r.data, month),
                     read |-> r.read, left |-> r.left, at |-> month]]
      /\ UNCHANGED <<device, scans, analyses, verdicts, month>>

\* The connection failed, or the agent.
HydrateFailed(c) ==
  /\ collected[c].status = "running"
  /\ collected' = [collected EXCEPT ![c].status = "failed"]
  /\ UNCHANGED <<device, scans, analyses, verdicts, month>>

RemoveCollect(c) ==
  /\ collected[c] \notin {NoCollect, Deleted}
  /\ collected' = [collected EXCEPT ![c] = Deleted]
  /\ UNCHANGED <<device, scans, analyses, verdicts, month>>

\* The map is the one of the method, and the checks are evaluated anew.
PrefillFromCollect(c) ==
  /\ collected[c].status = "success"
  /\ LET d == collected[c].data
         control == IF collected[c].method = "winrm" THEN WINDOWS_CONTROL_MAP ELSE LINUX_CONTROL_MAP
         accepts == IF collected[c].method = "winrm" THEN WindowsAccepts(month) ELSE LinuxAccepts
         here == {f \in DOMAIN control : control[f] \in DOMAIN verdicts}
         passed == {f \in here : d[f] \in accepts[f]}
     IN  Prefill({control[f] : f \in passed}, {control[f] : f \in here \ passed}, "collect", c)
  /\ UNCHANGED <<device, collected, scans, analyses, month>>

-----------------------------------------------------------------------------
\* Scan and configuration.

ScanEnds ==
  /\ scans = {}
  /\ scans' = {device.open}
  /\ UNCHANGED <<device, collected, analyses, verdicts, month>>

\* A port that is not open proves nothing.
PrefillFromPipeline ==
  /\ \E open \in scans : Prefill({}, Exposed(open), "pipeline_nmap", None)
  /\ UNCHANGED <<device, collected, scans, analyses, month>>

UploadConfig ==
  /\ analyses = {} /\ DOMAIN Flaws(device.kind) # {}
  /\ analyses' = {device.flaws}
  /\ UNCHANGED <<device, collected, scans, verdicts, month>>

\* A control that no finding matches is compliant.
PrefillFromConfig ==
  /\ \E findings \in analyses :
       LET matched == Matching(device.kind, findings)
       IN  Prefill(FINDING_CONTROL_MAP \ matched, matched, "config_parser", None)
  /\ UNCHANGED <<device, collected, scans, analyses, month>>

-----------------------------------------------------------------------------
\* The device and the time.

AllGood(s) == [f \in DOMAIN s |-> CHOOSE v \in s[f].good : TRUE]

\* A device in order but for a few of its settings.
Devices(kind) ==
  LET s == Settings(kind)
      all(f) == s[f].good \cup s[f].poor
      odd == {F \in SUBSET DOMAIN s : Cardinality(F) <= MaxPoor}
  IN  {[kind |-> kind, setting |-> g, open |-> {}, flaws |-> {}] : g \in
        UNION {{[f \in DOMAIN s |-> IF f \in F THEN g[f] ELSE AllGood(s)[f]] :
                  g \in {h \in [F -> UNION {all(f) : f \in F}] : \A f \in F : h[f] \in all(f)}}
                : F \in odd}}

Exposures(kind) ==
  {[kind |-> kind, setting |-> AllGood(Settings(kind)), open |-> o, flaws |-> x] :
     o \in {O \in SUBSET Ports : Cardinality(O) <= MaxPoor},
     x \in {X \in SUBSET DOMAIN Flaws(kind) : Cardinality(X) <= MaxPoor}}

MonthPasses ==
  /\ month = 0
  /\ month' = 1
  /\ UNCHANGED <<device, collected, scans, analyses, verdicts>>

VerdictInit ==
  /\ device \in UNION {Devices(k) \cup Exposures(k) : k \in Kinds}
  /\ collected = [c \in Collects |-> NoCollect]
  /\ scans = {}
  /\ analyses = {}
  /\ verdicts = [r \in Framework(device.kind) |-> NotAssessed]
  /\ month = 0

CollectStep(c) ==
  \/ CreateByAuditor(c) \/ CreateByPipeline(c)
  \/ HydrateOK(c) \/ HydrateFailed(c)
  \/ RemoveCollect(c)
  \/ PrefillFromCollect(c)

VerdictNext ==
  \/ \E c \in Collects : CollectStep(c)
  \/ ScanEnds \/ PrefillFromPipeline
  \/ UploadConfig \/ PrefillFromConfig
  \/ MonthPasses

VerdictSpec == VerdictInit /\ [][VerdictNext]_verdictVars

-----------------------------------------------------------------------------
\* Type invariant: each record has the fields of its status, a collect has the
\* method of its profile (_PROFILE_METHOD), and only a control of the framework
\* is given a verdict.
VerdictTypes ==
  /\ device.kind \in Kinds
  /\ \A c \in Collects :
       \/ collected[c] \in {NoCollect, Deleted}
       \/ /\ collected[c].status \in {"running", "success", "failed"}
          /\ collected[c].profile \in Range(ProfileOf) \ {None}
          /\ collected[c].method \in {"ssh", "winrm"}
          /\ collected[c].method = "winrm" <=> collected[c].profile = "windows_server"
          /\ "findings" \in DOMAIN collected[c] <=> collected[c].status = "success"
  /\ scans \subseteq SUBSET Ports
  /\ analyses \subseteq SUBSET DOMAIN Flaws(device.kind)
  /\ DOMAIN verdicts = Framework(device.kind)
  /\ \A r \in DOMAIN verdicts :
       /\ verdicts[r].status \in {"not_assessed", "compliant", "non_compliant"}
       /\ verdicts[r].by \in {None, "collect", "pipeline_nmap", "config_parser"}
       /\ verdicts[r] = NotAssessed <=> verdicts[r].by = None
  /\ month \in 0 .. 1

-----------------------------------------------------------------------------
\* Collects.

Control(kind) ==
  CASE kind = "linux" -> LINUX_CONTROL_MAP
    [] kind = "windows" -> WINDOWS_CONTROL_MAP
    [] kind = "opnsense" -> OPNSENSE_CONTROL_MAP
    [] OTHER -> <<>>

\* What the check asks of the device; an update is good in the month it came.
Satisfied(kind, f, s, at) ==
  /\ s[f] \in Settings(kind)[f].good
  /\ f = "updates_recent" => at = 0
  /\ f = "ids_ips_mode" => s["suricata_active"] = "RUNNING"
  /\ f = "firewall_logging" => s["pf_rules_defined"] = "rules"

\* The settings, and the one text, that their check takes for what they are not.
Misjudged(kind) ==
  CASE kind = "linux" ->
         {<<"os_supported", "rhel7">>, <<"no_pending_security_updates", "yum">>,
          <<"ssh_root_disabled", "unset">>, <<"ssh_password_disabled", "unset">>,
          <<"firewall_active", "ufw_off">>, <<"firewall_active", "no_rules">>,
          <<"antivirus_installed", "absent">>, <<"file_permissions_ok", "000">>}
    [] kind = "windows" ->
         {<<"updates_recent", "this month fr">>, <<"wsus_configured", "key only">>,
          <<"audit_policy_configured", "fr">>, <<"antivirus_active", "other">>,
          <<"antivirus_active", "antispyware">>}
    [] kind = "opnsense" ->
         {<<"limited_shell_accounts", "4 without shell">>, <<"pf_enabled", "Disabled">>,
          <<"no_pkg_vulnerabilities", "10 problem">>,
          <<"ssh_root_disabled", "PermitRootLogin no">>}
    [] OTHER -> {}

\* The checks that pass on the value that a command which told nothing left behind.
ClearedUnread(kind) ==
  CASE kind = "linux" ->
         ({"os_supported", "antivirus_installed"} \X Errors)
         \cup ({"ssh_root_disabled", "ssh_password_disabled"} \X {Lost})
         \cup {<<"no_pending_security_updates", "0">>, <<"firewall_active", "nftables_active">>}
    [] kind = "windows" ->
         {<<"os_supported", "Windows Server">>, <<"admin_renamed", "renamed">>,
          <<"firewall_all_enabled", "on">>, <<"rdp_nla", "closed">>}
    [] kind = "opnsense" ->
         ({"ssh_root_disabled", "no_pkg_vulnerabilities", "limited_shell_accounts"} \X {""})
         \cup ({"limited_shell_accounts", "suricata_active", "syslog_remote_configured",
               "vpn_configured", "carp_ha_configured"} \X {TimedOut})
         \cup ({"webgui_https", "no_any_any_rules", "rules_documented", "no_unused_interfaces"}
               \X {None})
         \cup {<<"vpn_configured", "NOT_RUNNING">>, <<"carp_ha_configured", "NO_CARP">>,
               <<"vpn_configured", "tunnel">>, <<"carp_ha_configured", "carp">>,
               <<"pf_enabled", "Enabled">>}
    [] OTHER -> {}

Succeeded == {c \in Collects : collected[c].status = "success"}

\* A host that the scan identified is collected with its own commands; and, but
\* for what is named above, a successful collect has a finding about a check that
\* was decided on commands that answered exactly when the device does not satisfy
\* it. Some ninety rules read a text that a tool, in its version and its language,
\* prints.
FindingsAreTrue ==
  \A c \in Succeeded :
    LET kind == device.kind
        s == device.setting
    IN  /\ collected[c].identified /\ kind \in {"linux", "windows", "opnsense"}
             => collected[c].profile = ProfileOf[kind]
        /\ \A f \in collected[c].read :
             \/ {<<f, s[f]>>, <<f, collected[c].data[f]>>} \cap Misjudged(kind) # {}
             \/ (Control(kind)[f] \in collected[c].findings <=> ~Satisfied(kind, f, s, collected[c].at))

\* But for the checks named above, what a collect could not read is a finding: a
\* command that timed out, or a session that was lost, clears nothing, be it the
\* first that the check consults or a later one.
UnreadIsFlagged ==
  \A c \in Succeeded :
    \A x \in collected[c].left \ ClearedUnread(device.kind) :
      Control(device.kind)[x[1]] \in collected[c].findings

-----------------------------------------------------------------------------
\* Verdicts.

\* A verdict says what its source says, whatever was prefilled before it: a
\* collect's is that of its findings, but for the age of the updates, which is
\* judged again; a scan's is never that a control is satisfied, and rests on a
\* port of that control; that of a FortiGate's file is that of its flaws.
VerdictsHaveASource ==
  \A r \in DOMAIN verdicts :
    LET v == verdicts[r]
    IN  /\ v.by = "collect" /\ v.of \in Succeeded /\ r # "WSRV-002"
             => (v.status = "non_compliant" <=> r \in collected[v.of].findings)
        /\ v.by = "pipeline_nmap" =>
             /\ v.status = "non_compliant"
             /\ \E p \in device.open : <<p, r>> \in NMAP_CONTROL_MAP
        /\ v.by = "config_parser" /\ device.kind = "fortigate" =>
             (v.status = "compliant" <=> \A f \in device.flaws : Flaws("fortigate")[f] # r)

\* Violated by the code: a control is found compliant by a configuration file only
\* when the analysis of that file has no finding about it.
NothingFoundIsCleared ==
  \A r \in DOMAIN verdicts :
    verdicts[r].by = "config_parser" /\ verdicts[r].status = "compliant" =>
      \A findings \in analyses : \A f \in findings : Flaws(device.kind)[f] # r

=============================================================================
