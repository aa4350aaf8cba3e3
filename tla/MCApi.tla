------------------------------- MODULE MCApi -------------------------------
(* Configurations that Normalize accepts, and requests that reach every    *)
(* branch of the handlers, for model checking ApiRequests.                 *)
EXTENDS ApiRequests, TLC

Config(profile, commands, mode, redact) ==
    [profile |-> profile, any |-> commands = "any", listed |-> commands = "listed", shell |-> commands = "any",
     mode |-> mode, supplement |-> FALSE, redact |-> redact, audit |-> TRUE]

MCConfigs ==
    {Config("full_trust", "any", m, FALSE) : m \in {"off", "sensitive_only", "all_write"}}
    \cup {Config("observe", "listed", m, TRUE) : m \in {"sensitive_only", "all_write"}}
    \cup {[Config("observe", "none", "off", TRUE) EXCEPT !.audit = FALSE],
          [Config("observe", "none", "sensitive_only", TRUE) EXCEPT !.supplement = TRUE]}

(* The adapters with actions that the registry knows as sensitive.         *)
Guarded == {"qnap/firmware/action", "qnap/certificates/action", "qnap/storage/action", "qnap/virtual-switch/action"}

(* The paths with bodies of their own: actions, what they are about, and   *)
(* the fields they take besides dry_run, which every client may send.      *)
Bodied ==
    [p \in Exec |-> <<{""}, {"", "wipe", "other", "bad stdin"}, {}>>]
    @@ [p \in Qpkg |-> <<{"start", "restart", "remove", "unknown"}, {"", "QnapAIControl", "other"}, {"async"}>>]
    @@ [p \in Adapter \ Guarded |-> <<{"list", "install", "unknown"}, {"other"}, {"async"}>>]
    @@ [p \in Guarded |->
            <<{"list", "install", "delete", "format", "replace", "restore", "unknown"}, {"other"}, {"async"}>>]
    @@ [p \in Power |-> <<{"", "reboot", "shutdown"}, {""}, {}>>]
    @@ [p \in {"users/manage", "groups/manage"} |->
            <<{"create", "delete", "password", "unknown"}, {"", "admin", "other"}, {}>>]
    @@ [p \in {"files/write", "files/append"} |-> <<{""}, {"ordinary", "outside", "bad content"}, {}>>]
    @@ ("files/manage" :> <<{"delete", "mkdir", "unknown"}, {"critical", "ordinary", "bad mode"}, {"recursive"}>>)
    @@ ("files/tree" :> <<{"copy_tree", "sync_tree", "unknown"}, {"ordinary"}, {}>>)
    @@ ("files/grep" :> <<{""}, {"", "ordinary"}, {}>>)
    @@ ("jobs" :> <<{"argv", "script"}, {"", "wipe", "other", "bad stdin"}, {"command.dry_run", "command.argv"}>>)
    @@ ("network/manage" :> <<{"set_mtu", "set_state", "address_add", "route_delete"}, Value, {}>>)
    @@ ("docker/command" :> <<{"volume", "system", "builder", "run", "unknown"}, {"prune", "rm", "ls", "bad stdin"}, {"async"}>>)
    @@ ("docker/reconstruct" :> <<{""}, {"", "name"}, {}>>)
    @@ ("system/process/action" :> <<{"TERM", "unknown"}, {"init", "process"}, {}>>)
    @@ ("system/services/action" :> <<{"restart", "unknown"}, {"", "name"}, {}>>)
    @@ ("storage/snapshots/action" :> <<{"create", "delete", "restore"}, {"volume", "dataset"}, {}>>)
    @@ ("storage/disks/id/smart-test" :> <<{"short", "unknown"}, {""}, {}>>)
    @@ ("storage/raid-groups/id/action" :> <<{"scrub_start", "unknown"}, {""}, {}>>)
    @@ ("qnap/probe" :> <<{""}, {"", "path"}, {}>>)
    @@ ("acl" :> <<{""}, {"", "path"}, {}>>)
    @@ ("acl/set" :> <<{""}, {"", "path"}, {}>>)
    @@ ("approvals" :> <<{"approve", "deny", "unknown"}, {""}, {}>>)

Unbodied ==
    inventoried \cup commandReads \cup (bodyReads \ {"files/grep"})
    \cup {"files/list", "files/stat", "jobs/id", "jobs/id/logs", "jobs/id/cancel", "logs/tail",
          "qnap/certificates/inspect", "status/snapshot", "admin/token", "admin/token/reveal",
          "admin/token/generate", "admin/settings", "nowhere"}

(* The other forms of a body are sent with all fields of the path but      *)
(* dry_run, or with none.                                                  *)
Bodies(p) ==
    IF p \in Unbodied THEN {NoBody, BadBody, Body("", "", {"dry_run"})}
    ELSE {BadBody} \cup {Body(a, w, o) : a \in Bodied[p][1], w \in Bodied[p][2],
                                         o \in SUBSET (Bodied[p][3] \cup {"dry_run"})}
         \cup {[Body(a, w, {}) EXCEPT !.form = "folded"] : a \in Bodied[p][1], w \in Bodied[p][2]}
         \cup {[Body(a, w, Bodied[p][3]) EXCEPT !.form = "trailing"] : a \in Bodied[p][1], w \in Bodied[p][2]}

(* Reads with many answers, whatever the method: a GET stands for all.     *)
Unvaried == Described \cup {"docker/reconstruct", "status/snapshot"}

Paths == Unbodied \cup DOMAIN Bodied

MCRequests ==
    {[method |-> "GET", path |-> p, body |-> NoBody] : p \in Paths}
    \cup {[method |-> m, path |-> p, body |-> NoBody] : m \in {"HEAD", "DELETE"}, p \in Paths \ Unvaried}
    \cup UNION {{[method |-> "POST", path |-> p, body |-> b] : b \in Bodies(p)} : p \in Paths \ Unvaried}
    \cup {[method |-> "PUT", path |-> "admin/token", body |-> b] : b \in {NoBody, BadBody}}
    \cup {[method |-> "POST", path |-> "docker/reconstruct", body |-> Body("", w, {})] : w \in {"", "name"}}

-----------------------------------------------------------------------------
(* Containers: a plain one, and each of its parts varied by itself.        *)
Plain ==
    [config |-> {}, host |-> {}, Image |-> TRUE, Entrypoint |-> 0, Env |-> {},
     check |-> [test |-> "absent", timing |-> {}], NetworkMode |-> "", Binds |-> {}, Mounts |-> <<>>,
     Volumes |-> {}, Networks |-> [n \in Net |-> NoEndpoint]]

AMount(options, rw) == [Type : {"bind", "tmpfs", "npipe"}, Source : {"a", ""}, Destination : {"x"}, RW : rw, options : options]

MCDocuments ==
    {[Plain EXCEPT !.config = c] : c \in {{f} : f \in ConfigField}}
    \cup {[Plain EXCEPT !.host = h] : h \in {{f} : f \in HostField}}
    \cup {[Plain EXCEPT !.Image = i, !.Entrypoint = n, !.Env = e, !.NetworkMode = m] :
              i \in BOOLEAN, n \in 0 .. 2, e \in SUBSET Env, m \in {"", "host"}}
    \cup {[Plain EXCEPT !.check = [test |-> c, timing |-> t]] :
              c \in {"absent", "NONE", "short", "CMD-SHELL", "CMD", "other"}, t \in {{}, {"Interval"}}}
    \cup {[Plain EXCEPT !.Binds = b, !.Mounts = <<m, n>>, !.Volumes = v] :
              b \in {{}, {<<"a", "x">>}, {<<"a", "x", "ro">>}},
              m \in AMount({{}, {"NoCopy"}, {"Propagation"}, {"Separator"}}, BOOLEAN), n \in AMount({{}}, {TRUE}),
              v \in {{}, {"x"}}}
    \cup {[Plain EXCEPT !.Networks = n] :
              n \in [Net -> {{}, {"MacAddress"}, {"Address"}, {"Aliases", "DriverOpts"}, NoEndpoint}]}

(* Files of /proc/net: absent, refused, or up to two lines, whole or not.  *)
MCTables ==
    {Absent, [Absent EXCEPT !.open = "refused"]}
    \cup [open : {"ok"}, lines : {<<>>, <<{}>>, <<{"short"}, {}>>, <<{}, {"destination"}>>}, broken : BOOLEAN]

MCNeighbors ==
    [Interface : {"eth0", "router", "dev"}, MAC : {"", "mac"}, State : {"STALE"}, flags : {{}, {"router"}}]

=============================================================================
