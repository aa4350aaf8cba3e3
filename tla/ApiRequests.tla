----------------------------- MODULE ApiRequests -----------------------------
(***************************************************************************)
(* The way of an authenticated request through the agent: its risk         *)
(* (agent/internal/operations/registry.go), the read-only supplement, the  *)
(* approval and the audit record (agent/internal/api/control.go,           *)
(* supplement.go), and the handlers (server.go, v2_routes.go, admin.go).   *)
(* The status snapshot's goroutines are in StatusSnapshot, what tickets do *)
(* under concurrency in Approval, the kernel's tables and the arguments of *)
(* ip in NetworkTables, the container's description in Reconstruction.     *)
(*                                                                         *)
(* A request has a method, a path (without its /v1/) and a body: its form, *)
(* its action (an action, subcommand or kind), what it is about, and the   *)
(* boolean fields it sets.  Values are classes, as far as registry and     *)
(* handlers tell them apart.  A handler is the set of its outcomes: the    *)
(* status, what it changes on the NAS, and what the job that it starts     *)
(* will change.                                                            *)
(*                                                                         *)
(* The registry and the handlers read a body by two ways of their own, so  *)
(* its form tells which of them read it: "exact" is one JSON value with    *)
(* keys as the handlers spell them, "folded" has them in another case,     *)
(* "trailing" has bytes after its first value, "invalid" is not JSON.      *)
(***************************************************************************)
EXTENDS NetworkTables, StatusSnapshot, Reconstruction

Body(action, what, opts) == [form |-> "exact", action |-> action, what |-> what, opts |-> opts]
NoBody == Body("", "", {})
BadBody == [NoBody EXCEPT !.form = "invalid"]

None == [op |-> "none", action |-> "", what |-> ""]
Effect(op, action, what) == [op |-> op, action |-> action, what |-> what]

Adapter == {"qnap/vm/action", "qnap/hbs/action", "qnap/iscsi/action", "qnap/certificates/action",
            "qnap/virtual-switch/action", "qnap/system-settings/action", "qnap/firmware/action",
            "qnap/notifications/action", "qnap/storage/action", "shares/manage"}

-----------------------------------------------------------------------------
(* The registry.                                                           *)

Reading == {"GET", "HEAD", "OPTIONS"}
Power == {"system/reboot", "system/shutdown", "system/power"}
Exec == {"exec", "shell"}
Qpkg == {"qnap/qpkg/manage", "qnap/qpkg/action"}

(* The fields of a body as the registry has them: one json.Unmarshal of    *)
(* the whole body into a map, whose error is dropped and whose keys are    *)
(* looked up as they are spelled.                                          *)
operationPayload(body) == IF body.form = "exact" THEN body ELSE NoBody

(* Actions stand for the keywords that the registry looks for in them:     *)
(* "install" for install, apply, update and upgrade, "delete" for delete   *)
(* and remove, "format" for destroy, format and wipe, "replace" for        *)
(* replace and import, "restore" for restore, rollback and revert, "list"  *)
(* for the reading ones.  Commands are of two kinds: those that            *)
(* dangerousCommand and dangerousShell know ("wipe") and others.           *)

(* A job may have an argv beside its script ("command.argv", one that is   *)
(* not known as dangerous): the registry looks at the argv alone.          *)
commandFromPayload(path, body) ==
    IF path = "jobs" /\ "command.argv" \in body.opts THEN "other" ELSE body.what
dangerousCommand(command) == command = "wipe"
criticalPath(what) == what = "critical"
sensitiveNetworkChange(body) ==
    \/ body.action = "set_state" /\ body.what = "down"
    \/ body.action \in {"route_add", "route_delete"} /\ body.what = "default"
sensitiveDockerChange(body) ==
    <<body.action, body.what>> \in {<<"system", "prune">>, <<"volume", "prune">>, <<"volume", "rm">>}

sensitiveAction(path) ==
    CASE path = "qnap/firmware/action" -> {"install"}
      [] path = "qnap/certificates/action" -> {"delete", "replace"}
      [] path = "qnap/storage/action" -> {"delete", "format", "restore"}
      [] path = "storage/snapshots/action" -> {"restore"}
      [] OTHER -> {}
readAction == {"list"}

(* Mutant: only one of the two routes for packages is known.               *)
SensitiveByOneRoute(path, body) ==
    \/ path \in Power
    \/ path \in Exec \cup {"jobs"} /\ dangerousCommand(commandFromPayload(path, body))
    \/ path = "qnap/qpkg/manage" /\ body.action = "remove"
    \/ body.action \in sensitiveAction(path)

Sensitive(path, body) ==
    \/ path \in Power
    \/ path \in Exec \cup {"jobs"} /\ dangerousCommand(commandFromPayload(path, body))
    \/ path = "files/manage" /\ body.action = "delete" /\ ("recursive" \in body.opts \/ criticalPath(body.what))
    \/ path = "network/manage" /\ sensitiveNetworkChange(body)
    \/ path = "docker/command" /\ sensitiveDockerChange(body)
    \/ path \in Qpkg /\ body.action = "remove"
    \/ path = "users/manage" /\ body.what = "admin" /\ body.action \in {"delete", "password"}
    \/ path = "qnap/virtual-switch/action" /\ body.action \notin readAction
    \/ body.action \in sensitiveAction(path)

Resolve(r) ==
    IF r.method \in Reading \/ (r.method = "POST" /\ r.path \in {"files/read", "files/checksum"}) THEN "read"
    ELSE IF Sensitive(r.path, operationPayload(r.body)) THEN "sensitive"
    ELSE "write"

requiresApproval(mode, r) ==
    /\ r.path # "approvals"
    /\ CASE mode = "all_write" -> Resolve(r) # "read"
         [] mode = "sensitive_only" -> Resolve(r) = "sensitive"
         [] OTHER -> FALSE

supplementReadAllowed(r) ==
    \/ r.method = "GET" /\ r.path \in {"health", "shares", "shares/smb-status", "files/list", "files/stat"}
    \/ r.method = "POST" /\ r.path \in {"files/read", "files/checksum"}

-----------------------------------------------------------------------------
(* Replies.                                                                *)

Outcome(status, effect, job) == [status |-> status, effect |-> effect, job |-> job]
Reply(S) == {Outcome(s, None, None) : s \in S}

(* How a command ends, as a status.  "error" is one that no command        *)
(* reported: a missing tool, a refused argument.                           *)
respondCommand(kind) ==
    CASE kind = "ok" -> 200
      [] kind = "non_zero_exit" -> 422
      [] kind = "timeout" -> 504
      [] kind = "cancelled" -> 408
      [] kind = "start_failed" -> 403
      [] kind = "not_found" -> 404
      [] OTHER -> 500

Ran == {"ok", "non_zero_exit", "timeout", "cancelled"}
NotRun == {"start_failed", "not_found", "error"}

(* A command that is started may have had its effect however it ends.      *)
Started(effect) ==
    {Outcome(respondCommand(k), effect, None) : k \in Ran} \cup Reply({respondCommand(k) : k \in NotRun})
Read == Started(None)
Queued(effect) == {Outcome(200, None, effect)}

fileErr == {404, 403, 500}

(* Mutant: unknown fields are ignored.                                     *)
decodeLoosely(r, fields) == r.method \in {"POST", "PUT", "PATCH"} => r.body.form # "invalid"

(* The request as the handler sees it: only three methods are decoded, the *)
(* decoder takes the first JSON value and keys in any case, and a field    *)
(* that the handler does not have is an error.                             *)
Decoding == {"POST", "PUT", "PATCH"}
decode(r, fields) == r.method \in Decoding => r.body.form # "invalid" /\ r.body.opts \subseteq fields
seen(r) == IF r.method \in Decoding THEN r.body ELSE NoBody

Decoded(r, fields, outcomes) == IF decode(r, fields) THEN outcomes ELSE Reply({400})
PostOnly(r, outcomes) == IF r.method = "POST" THEN outcomes ELSE Reply({405})
dry(r) == "dry_run" \in seen(r).opts
async(r) == "async" \in seen(r).opts

-----------------------------------------------------------------------------
(* Handlers.  c is the configuration: profile, any (every command is       *)
(* allowed), listed (the commands of the model are in the list), shell,    *)
(* audit (the audit log is on and has a path).                             *)

(* An inventory answers, or fails with the status of its route: a set of   *)
(* pairs of path and status, with 200 for those that cannot fail.          *)
agentInventories == {"health", "capabilities", "qnap/discovery"} \X {200}
systemInventories ==
    ({"system/overview"} \X {200}) \cup ({"system/info", "system/resources", "system/ntp"} \X {500})
    \cup ({"system/sockets"} \X {501})
networkInventories ==
    ({"network/info", "network/dns"} \X {200}) \cup ({"network/interfaces", "network/routes"} \X {500})
ipv6Inventories == {"network/ipv6/routes", "network/ipv6/neighbors"} \X {503}
storageInventories ==
    ({"storage/overview", "storage/snapshots/capabilities"} \X {200})
    \cup ({"storage/disks", "storage/raid-groups", "storage/pools", "storage/volumes", "storage/snapshots"} \X {500})
    \cup ({"storage/disk-io"} \X {503}) \cup ({"storage/disks/id"} \X {404})
identityInventories == {"users", "groups"} \X {500}
shareInventories == ({"shares", "shares/nfs"} \X {501}) \cup ({"shares/smb-status"} \X {503})
logInventories == ({"audit/tail"} \X {500}) \cup ({"logs"} \X {200})
ecosystemInventories == ({"qnap/ecosystem"} \X {200}) \cup ({"qnap/ups"} \X {503})
otherInventories ==
    ({"system/thermal"} \X {200}) \cup ({"network/virtual-switches", "qnap/qpkg"} \X {500})
    \cup ({"system/services"} \X {501})

inventories ==
    agentInventories \cup systemInventories \cup networkInventories \cup ipv6Inventories \cup storageInventories
    \cup identityInventories \cup shareInventories \cup logInventories \cup ecosystemInventories \cup otherInventories
inventoried == {i[1] : i \in inventories}
inventory(r) == Reply({200} \cup {i[2] : i \in {j \in inventories : j[1] = r.path}})

(* Commands that only read.                                                *)
dockerReads == {"docker/info", "docker/containers", "docker/images"}
dockerReports == {"docker/health", "docker/compose-projects"}
commandReads == {"system/processes", "storage/disks/id/smart"} \cup dockerReads \cup dockerReports

run(c, effect, dryRun) ==
    IF ~c.any /\ ~c.listed THEN Reply({respondCommand("start_failed")})
    ELSE IF dryRun THEN Reply({200})
    ELSE Started(effect)

(* Neither init nor an unknown signal.                                     *)
Signal(pid, signal) == pid = "process" /\ signal = "TERM"

processAction(r) ==
    LET e == Effect("process", seen(r).action, seen(r).what)
    IN  Decoded(r, {}, IF Signal(seen(r).what, seen(r).action)
                       THEN {Outcome(200, e, None)} \cup Reply({400}) ELSE Reply({400}))

(* "restart" stands for the six actions of a service.                      *)
ServiceAction(name, action) == name # "" /\ action = "restart"

serviceAction(r) ==
    Decoded(r, {}, IF ServiceAction(seen(r).what, seen(r).action)
                   THEN Started(Effect("service", "restart", seen(r).what)) ELSE Reply({500}))

power(c, r) ==
    IF r.method = "GET" THEN Reply({200})
    ELSE Decoded(r, {}, CASE seen(r).action \notin {"reboot", "shutdown"} -> Reply({400})
                          [] c.profile # "full_trust" -> Reply({403})
                          [] OTHER -> run(c, Effect("power", seen(r).action, ""), FALSE))

(* Mutant: the method is not looked at.                                    *)
powerRouteAnyMethod(c, r) ==
    run(c, Effect("power", IF r.path = "system/shutdown" THEN "shutdown" ELSE "reboot", ""), FALSE)

(* The body is replaced by the action of the path.                         *)
powerRoute(c, r) ==
    LET action == IF r.path = "system/shutdown" THEN "shutdown" ELSE "reboot"
    IN  PostOnly(r, power(c, [r EXCEPT !.body = Body(action, "", {})]))

qnapProbe(c, r) ==
    PostOnly(r, IF c.profile # "full_trust" THEN Reply({403})
                ELSE Decoded(r, {"dry_run"}, IF seen(r).what = "" THEN Reply({400})
                                             ELSE Reply({503}) \cup run(c, Effect("probe", "", ""), dry(r))))

(* The script of a shell, or its legacy form, needs a shell on the NAS.    *)
exec(c, r) ==
    LET b == seen(r)
        e == Effect("command", r.path, b.what)
    IN  PostOnly(r, Decoded(r, {"dry_run"},
            CASE r.path = "shell" /\ ~c.shell -> Reply({403})
              [] r.path = "shell" /\ b.what = "" -> Reply({400})
              [] b.what = "bad stdin" -> Reply({400})
              [] b.what = "" -> Reply({500})
              [] OTHER -> run(c, e, dry(r)) \cup (IF r.path = "shell" THEN Reply({503}) ELSE {})))

(* A script takes the place of the argv that may be beside it.             *)
jobListOrStart(c, r) ==
    LET b == seen(r)
        runs == (c.any \/ c.listed) /\ "command.dry_run" \notin b.opts
        e == IF runs THEN Effect("command", b.action, b.what) ELSE None
    IN  IF r.method = "GET" THEN Reply({200})
        ELSE PostOnly(r, Decoded(r, {"command.dry_run", "command.argv"},
            CASE b.action = "script" /\ ~c.shell -> Reply({403})
              [] b.what \in {"", "bad stdin"} -> Reply({400})
              [] OTHER -> Queued(e) \cup (IF b.action = "script" THEN Reply({503}) ELSE {})))

jobByID(r) ==
    CASE r.path = "jobs/id/logs" -> IF r.method = "GET" THEN Reply({200, 404}) ELSE Reply({405})
      [] r.path = "jobs/id/cancel" ->
             PostOnly(r, {Outcome(200, Effect("cancel", "", ""), None)} \cup Reply({404}))
      [] OTHER -> Reply({200, 404})

(* Files.  An error of the file service may come after part of the work.   *)
filesDone(e) ==
    {Outcome(200, e, None)} \cup {Outcome(s, x, None) : s \in fileErr, x \in {e, None}}

textReads == {"files/read-text", "files/read-lines", "files/grep"}
bodyReads == {"files/read", "files/search", "files/tail", "files/du", "files/checksum"} \cup textReads
fileReads(r) ==
    CASE r.path \in {"files/list", "files/stat"} -> Reply({200} \cup fileErr)
      [] r.path = "files/grep" /\ decode(r, {}) /\ seen(r).what = "" -> Reply({400})
      [] OTHER -> Decoded(r, {}, Reply({200} \cup fileErr))

fileWrite(r) ==
    Decoded(r, {"dry_run"}, IF seen(r).what = "bad content" THEN Reply({400})
                            ELSE IF dry(r) THEN Reply({200})
                            ELSE IF seen(r).what = "ordinary" THEN filesDone(Effect("files", "write", "ordinary"))
                            ELSE Reply(fileErr))

fileAppend(r) ==
    Decoded(r, {}, CASE seen(r).what = "bad content" -> Reply({400})
                     [] seen(r).what = "ordinary" -> filesDone(Effect("files", "append", "ordinary"))
                     [] OTHER -> Reply(fileErr))

fileManage(r) ==
    LET b == seen(r)
        e == IF b.action = "delete"
             THEN Effect("delete", IF "recursive" \in b.opts THEN "recursive" ELSE "one", b.what)
             ELSE Effect("files", b.action, b.what)
    IN  Decoded(r, {"recursive"}, CASE b.what = "bad mode" -> Reply({400})
                                    [] b.action \in {"delete", "mkdir"} /\ b.what \notin {"", "bad mode"} -> filesDone(e)
                                    [] OTHER -> Reply({500}))

fileTree(r) ==
    Decoded(r, {}, IF seen(r).action \notin {"copy_tree", "sync_tree"} THEN Reply({400})
                   ELSE filesDone(Effect("files", seen(r).action, seen(r).what)))

(* Snapshots of the network are taken before and after the command.        *)
networkManage(r) ==
    LET b == seen(r)
        args == CommandArgs(b.action, IF b = NoBody THEN "" ELSE "valid", b.what, "")
    IN  Decoded(r, {"dry_run"}, CASE args = <<>> -> Reply({400})
                                  [] dry(r) -> Reply({200})
                                  [] OTHER -> Started(Effect("network", b.action, b.what)))

(* The subcommands the agent knows: those that can prune, and "run" for    *)
(* the others.                                                             *)
Pruning == {"system", "volume", "builder", "image", "container", "network"}
Allowed(sub) == sub \in Pruning \cup {"run"}

dockerCommand(r) ==
    LET b == seen(r)
        e == Effect("docker", b.action, b.what)
    IN  Decoded(r, {"dry_run", "async"},
            IF ~Allowed(b.action) \/ b.what = "bad stdin" THEN Reply({400})
            ELSE IF dry(r) THEN Reply({200})
            ELSE IF async(r) THEN Queued(e)
            ELSE Started(e))

(* Without a name or an answer from docker there is nothing to rebuild.    *)
dockerReconstruct(r) ==
    Decoded(r, {}, Reply(IF seen(r).what = "" THEN {500} ELSE {respondCommand(k) : k \in (Ran \cup NotRun) \ {"ok"}}))

qpkgArgs(name, action) == name # "" /\ action \in {"start", "stop", "remove"}

(* A restart is a stop and a start: an error may come after the stop.      *)
qpkgCommand(e) ==
    IF e.action = "restart" THEN Started(e) \cup {Outcome(respondCommand(k), e, None) : k \in NotRun} ELSE Started(e)

(* The agent's own restart begins after its answer.                        *)
scheduleQACSRestart(b) == b.action = "restart" /\ b.what = "QnapAIControl"

qpkgManage(r) ==
    LET b == seen(r)
        e == Effect("qpkg", b.action, b.what)
    IN  Decoded(r, {"dry_run", "async"},
            IF ~qpkgArgs(b.what, IF b.action = "restart" THEN "start" ELSE b.action) THEN Reply({400})
            ELSE IF dry(r) THEN Reply({200})
            ELSE IF scheduleQACSRestart(b) \/ async(r) THEN Queued(e)
            ELSE qpkgCommand(e))

(* An adapter's action has a configured command, or it is not implemented. *)
configured(action) == action \notin {"", "unknown"}

ecosystemCommand(c, r) ==
    LET b == seen(r)
        e == IF b.action \in readAction THEN None ELSE Effect(r.path, b.action, b.what)
    IN  PostOnly(r, Decoded(r, {"dry_run", "async"},
            IF ~configured(b.action) THEN Reply({501})
            ELSE IF ~c.any /\ ~c.listed THEN Reply({403})
            ELSE IF dry(r) THEN Reply({200})
            ELSE IF async(r) THEN Queued(e)
            ELSE run(c, e, FALSE)))

certificateInspect(r) == PostOnly(r, Decoded(r, {}, Reply(fileErr) \cup Read))

logTail(r) == IF r.method = "GET" THEN Reply({200, 400}) ELSE Decoded(r, {}, Reply({200, 400}))

-----------------------------------------------------------------------------
(* Jobs of the storage routes: an unknown kind or action is found by the   *)
(* job, not by the handler.  "create" stands for clone as well.            *)
StartSmart(kind) == kind = "short"
SnapshotAction(action) == action \in {"create", "delete", "restore"}
CreateQTSSnapshot(action) == action = "create"

smartTest(r) ==
    Decoded(r, {}, Queued(IF StartSmart(seen(r).action) THEN Effect("smart", seen(r).action, "") ELSE None))

snapshotAction(r) ==
    LET b == seen(r)
        known == IF b.what = "volume" THEN CreateQTSSnapshot(b.action) ELSE SnapshotAction(b.action)
    IN  Decoded(r, {}, Queued(IF known THEN Effect("snapshot", b.action, b.what) ELSE None))

(* The state is read, written, and read back.                              *)
RAIDAction(action, dryRun) ==
    CASE action # "scrub_start" -> Reply({422})
      [] dryRun -> Reply({200, 422})
      [] OTHER -> {Outcome(s, Effect("raid", action, ""), None) : s \in {200, 409, 422}} \cup Reply({422})

raidAction(c, r) ==
    PostOnly(r, IF c.profile # "full_trust" THEN Reply({403})
                ELSE Decoded(r, {"dry_run"}, RAIDAction(seen(r).action, dry(r))))

ManageUser(action, name) == name # "" /\ action \in {"create", "delete", "password"}
ManageGroup(action, name) == name # "" /\ action \in {"create", "delete"}

manageIdentity(r) ==
    LET b == seen(r)
        known == IF r.path = "users/manage" THEN ManageUser(b.action, b.what) ELSE ManageGroup(b.action, b.what)
    IN  Decoded(r, {}, IF known THEN Started(Effect(r.path, b.action, b.what)) ELSE Reply({500}))

(* Without its tool the mode of the path is read instead.                  *)
ACL(path) == IF path = "" THEN Reply({500}) ELSE Read
SetACL(path) == IF path = "" THEN Reply({500}) ELSE Started(Effect("acl", "", path))

acl(r) == Decoded(r, {}, ACL(seen(r).what))
aclSet(r) == Decoded(r, {}, SetACL(seen(r).what))

(* The rotation itself is in TokenRotation.                                *)
updateToken == {Outcome(s, Effect("token", "", ""), None) : s \in {200, 500}} \cup Reply({400, 401, 500, 503})
adminRoute(r) ==
    CASE r.path = "admin/token" -> CASE r.method = "GET" -> Reply({200})
                                     [] r.method = "PUT" -> Decoded(r, {}, updateToken)
                                     [] OTHER -> Reply({405})
      [] r.path = "admin/token/reveal" -> PostOnly(r, Reply({200, 409, 500, 503}))
      [] r.path = "admin/token/generate" -> PostOnly(r, updateToken)
      [] OTHER -> IF r.method = "GET" THEN Reply({200}) ELSE Reply({405})

routes(c, r) ==
    CASE r.path \in inventoried -> inventory(r)
      [] r.path \in commandReads -> Read
      [] r.path \in bodyReads \cup {"files/list", "files/stat"} -> fileReads(r)
      [] r.path = "system/process/action" -> processAction(r)
      [] r.path = "system/services/action" -> serviceAction(r)
      [] r.path = "system/power" -> power(c, r)
      [] r.path \in {"system/reboot", "system/shutdown"} -> powerRoute(c, r)
      [] r.path = "qnap/probe" -> qnapProbe(c, r)
      [] r.path \in Exec -> exec(c, r)
      [] r.path = "jobs" -> jobListOrStart(c, r)
      [] r.path \in {"jobs/id", "jobs/id/logs", "jobs/id/cancel"} -> jobByID(r)
      [] r.path = "files/write" -> fileWrite(r)
      [] r.path = "files/append" -> fileAppend(r)
      [] r.path = "files/manage" -> fileManage(r)
      [] r.path = "files/tree" -> fileTree(r)
      [] r.path = "network/manage" -> networkManage(r)
      [] r.path = "docker/command" -> dockerCommand(r)
      [] r.path = "docker/reconstruct" -> dockerReconstruct(r)
      [] r.path \in Qpkg -> qpkgManage(r)
      [] r.path \in Adapter -> ecosystemCommand(c, r)
      [] r.path = "qnap/certificates/inspect" -> certificateInspect(r)
      [] r.path = "logs/tail" -> logTail(r)
      [] r.path = "storage/disks/id/smart-test" -> smartTest(r)
      [] r.path = "storage/snapshots/action" -> snapshotAction(r)
      [] r.path = "storage/raid-groups/id/action" -> raidAction(c, r)
      [] r.path \in {"users/manage", "groups/manage"} -> manageIdentity(r)
      [] r.path = "acl" -> acl(r)
      [] r.path = "acl/set" -> aclSet(r)
      [] r.path \in {"admin/token", "admin/token/reveal", "admin/token/generate", "admin/settings"} -> adminRoute(r)
      [] OTHER -> Reply({404})

-----------------------------------------------------------------------------
CONSTANTS
    Configs,    \* configurations the agent may run with
    Requests,   \* requests clients send
    Documents,  \* inspect documents of containers
    Tables,     \* states of a file of /proc/net
    Neighbors   \* neighbours the kernel knows

ASSUME DocumentsAssumption == \A d \in Documents : d \in Document
ASSUME NetworkAssumption == (\A n \in Neighbors : n \in Neighbor) /\ (\A t \in Tables : t \in Table)

-----------------------------------------------------------------------------
(* Replies that describe the NAS: what was read, what the reply says of it *)
(* and the status.                                                         *)
Description(of, from, says, ok, failure) ==
    [of |-> of, from |-> from, says |-> says, status |-> IF ok THEN 200 ELSE failure]
NoAnswer == Description("", "", "", TRUE, 0)

networkRoutes ==
    {LET says == Routes(v4, v6) IN Description("routes", <<v4, v6>>, says, says.err = "none", 500) :
     v4 \in Tables, v6 \in Tables}

networkIPv6Routes ==
    {LET says == IPv6Routes(v6) IN Description("ipv6_routes", v6, says, says.err = "none", 503) : v6 \in Tables}

networkIPv6Neighbors ==
    {LET source == NeighborsContext(from.ndisc, from.cache, from.ip)
         items == parseNeighbors({SpellNeighbor(from.entry, from.form)})
     IN  Description("neighbors", from, [items |-> items, from |-> source.from], source.err = "none", 503) :
     from \in [ndisc : Tables, cache : {Absent}, ip : {"ok"}, entry : Neighbors, form : {"flags_first"}]
              \cup [ndisc : {Absent}, cache : Tables, ip : {"ok", "failed"}, entry : Neighbors,
                   form : {"flags_first", "flags_last", "position"}]}

(* The list of interfaces may fail as a whole.                             *)
networkInterfaces ==
    {Description("counters", <<sys, row>>, interfaceCounters(sys, row), ok, 500) :
     sys \in {{}, {"rx_bytes"}, Counter}, row \in {{}, {"rx_bytes"}, Counter}, ok \in BOOLEAN}

Reconstruct(redact) ==
    {Description("container", d, buildReconstruction(d, redact), TRUE, 0) : d \in Documents}

Described == {"network/routes", "network/ipv6/routes", "network/ipv6/neighbors", "network/interfaces"}
description(c, r) ==
    CASE r.path = "network/routes" -> networkRoutes
      [] r.path = "network/ipv6/routes" -> networkIPv6Routes
      [] r.path = "network/ipv6/neighbors" -> networkIPv6Neighbors
      [] r.path = "network/interfaces" -> networkInterfaces
      [] r.path = "docker/reconstruct" /\ decode(r, {}) /\ seen(r).what # "" -> Reconstruct(c.redact)
      [] OTHER -> {}

-----------------------------------------------------------------------------

NoRequest == [method |-> "", path |-> "", body |-> NoBody]
NoTicket == [req |-> NoRequest, state |-> "none"]
NoJob == [effect |-> None, req |-> NoRequest, granted |-> FALSE]
NoRecord == [result |-> "none", risk |-> "", event |-> ""]

VARIABLES
    conf,       \* the configuration
    phase,      \* where the request is: "idle", "handler", "snapshot" or "audit"
    req,        \* the request
    event,      \* the approval event its audit record will carry
    status,     \* the status of the reply
    ticket,     \* the ticket the client holds
    grant,      \* the request that was approved last and has not run since
    job,        \* what a job or the goroutine of the restart is about to change
    done,       \* changes made on the NAS since the request arrived
    answer,     \* what the reply describes, if it does
    record      \* the audit record of the request

apiVars == <<conf, phase, req, event, status, ticket, grant, job, done, answer, record>>
vars == <<apiVars, snapVars>>

ApiInit ==
    /\ conf \in Configs
    /\ phase = "idle"
    /\ req = NoRequest
    /\ event = ""
    /\ status = 0
    /\ ticket = NoTicket
    /\ grant = NoRequest
    /\ job = NoJob
    /\ done = {}
    /\ answer = NoAnswer
    /\ record = NoRecord

Init == ApiInit /\ SnapInit

(* Bounds: one request is in flight, and its job ends before the next.     *)
(* The holder of a ticket decides on it, or repeats the request as it was  *)
(* or with another action.                                                 *)
RequestsTo == [p \in {r.path : r \in Requests} \cup {"approvals"} |-> {r \in Requests : r.path = p}]
FollowsUp(r) ==
    \/ r.path = "approvals" /\ r.method = "POST" /\ ticket.state \in {"pending", "approved"}
    \/ /\ r.path = ticket.req.path /\ r.method = ticket.req.method
       /\ [r.body EXCEPT !.action = ""] = [ticket.req.body EXCEPT !.action = ""]

Sent ==
    IF phase # "idle" \/ job # NoJob THEN {}
    ELSE IF ticket # NoTicket THEN {r \in RequestsTo["approvals"] \cup RequestsTo[ticket.req.path] : FollowsUp(r)}
    ELSE IF req = NoRequest THEN Requests
    ELSE {}

(* The part of operationControl before the handler.                        *)
Arrives(r) ==
    /\ phase = "idle"
    /\ req' = r
    /\ done' = {}
    /\ record' = NoRecord
    /\ UNCHANGED <<conf, grant, job, answer, snapVars>>

Refused(s, e) == phase' = "audit" /\ status' = s /\ event' = e
Passed(e) == phase' = "handler" /\ status' = 0 /\ event' = e

Outside(r) == conf.supplement /\ ~supplementReadAllowed(r)

RefuseSupplement(r) ==
    /\ Arrives(r)
    /\ Outside(r)
    /\ Refused(403, "")
    /\ UNCHANGED ticket

RequestApproval(r) ==
    /\ Arrives(r)
    /\ ~Outside(r) /\ requiresApproval(conf.mode, r)
    /\ ticket = NoTicket
    /\ ticket' = [req |-> r, state |-> "pending"]
    /\ Refused(409, "approval_requested")

(* The ticket is bound to method, path and body.                           *)
Valid(r) == ticket.state = "approved" /\ ticket.req = r

Consume(r) ==
    /\ Arrives(r)
    /\ ~Outside(r) /\ requiresApproval(conf.mode, r)
    /\ Valid(r)
    /\ ticket' = [ticket EXCEPT !.state = "used"]
    /\ Passed("approval_executed")

RefuseTicket(r) ==
    /\ Arrives(r)
    /\ ~Outside(r) /\ requiresApproval(conf.mode, r)
    /\ ticket # NoTicket /\ ~Valid(r)
    /\ Refused(409, "approval_refused")
    /\ UNCHANGED ticket

Pass(r) ==
    /\ Arrives(r)
    /\ ~Outside(r) /\ ~requiresApproval(conf.mode, r)
    /\ Passed("")
    /\ UNCHANGED ticket

-----------------------------------------------------------------------------
Answer(s) == phase' = "audit" /\ status' = s

Change(effect) == [effect |-> effect, req |-> req, granted |-> grant = req]

Served(o) ==
    /\ done' = IF o.effect = None THEN done ELSE done \cup {Change(o.effect)}
    /\ job' = IF o.job = None THEN job ELSE Change(o.job)
    /\ grant' = IF grant = req THEN NoRequest ELSE grant
    /\ UNCHANGED <<conf, req, event, ticket, answer, record, snapVars>>

Handle ==
    /\ phase = "handler"
    /\ req.path \notin {"approvals", "status/snapshot"} \cup Described
    /\ \E o \in routes(conf, req) : Answer(o.status) /\ Served(o)

(* A handler that panics, before its change or after it: the HTTP server   *)
(* closes the connection without a reply, the recorder has no status, and  *)
(* the deferred audit record is still written.                             *)
Panic ==
    /\ phase = "handler"
    /\ \E o \in routes(conf, req) : Answer(0) /\ Served(o)

Describe ==
    /\ phase = "handler"
    /\ \E a \in description(conf, req) : answer' = a /\ Answer(a.status)
    /\ UNCHANGED <<conf, req, event, ticket, grant, job, done, record, snapVars>>

(* The decision on a ticket.                                               *)
approvalRoute ==
    LET decided == ticket.state = "pending"
        approve == req.body.action = "approve"
    IN  /\ phase = "handler"
        /\ req.path = "approvals"
        /\ Answer(CASE req.method # "POST" -> 405
                    [] ~decode(req, {}) \/ req.body.action \notin {"approve", "deny"} -> 400
                    [] ~decided -> 409
                    [] OTHER -> 200)
        /\ ticket' = IF status' = 200 THEN [ticket EXCEPT !.state = IF approve THEN "approved" ELSE "denied"]
                     ELSE ticket
        /\ grant' = IF status' = 200 /\ approve THEN ticket.req ELSE grant
        /\ UNCHANGED <<conf, req, event, job, done, answer, record, snapVars>>

StartSnapshot ==
    /\ phase = "handler"
    /\ req.path = "status/snapshot"
    /\ statusSnapshot
    /\ phase' = "snapshot"
    /\ UNCHANGED <<conf, req, event, status, ticket, grant, job, done, answer, record>>

AnswerSnapshot ==
    /\ phase = "snapshot"
    /\ answerSnapshot
    /\ Answer(200)
    /\ UNCHANGED <<conf, req, event, ticket, grant, job, done, answer, record>>

(* A job, or the agent's own restart, makes its change or fails.           *)
RunJob ==
    /\ job # NoJob
    /\ done' \in {done, done \cup {job}}
    /\ job' = NoJob
    /\ UNCHANGED <<conf, phase, req, event, status, ticket, grant, answer, record, snapVars>>

Succeeded(s) == s \in 200 .. 299

(* What a log that is told of an event holds of it: nothing when it is     *)
(* off or has no path, and nothing when its directory, its file or the     *)
(* write fails, which nobody is told.                                      *)
Write(e) == IF conf.audit THEN {e, NoRecord} ELSE {NoRecord}

(* Mutant: an approval shows in the record of a success only.              *)
auditSuccessOnly ==
    LET told == IF status = 0 THEN 200 ELSE status
    IN  /\ phase = "audit"
        /\ phase' = "idle"
        /\ snap' = "off"
        /\ answer' = NoAnswer
        /\ record' \in Write([result |-> IF Succeeded(told) THEN "success" ELSE "failed", risk |-> Resolve(req),
                              event |-> IF Succeeded(told) THEN event ELSE ""])
        /\ UNCHANGED <<conf, req, event, status, ticket, grant, job, done, entry, partial, thermal, context>>

(* The deferred audit record of operationControl.  A reply without a       *)
(* status counts as 200.                                                   *)
auditOperation ==
    LET risk == Resolve(req)
        told == IF status = 0 THEN 200 ELSE status
        result == CASE event \notin {"", "approval_executed"} -> event
                    [] told = 409 /\ risk = "sensitive" -> "approval_required"
                    [] Succeeded(told) -> "success"
                    [] OTHER -> "failed"
    IN  /\ phase = "audit"
        /\ phase' = "idle"
        /\ snap' = "off"
        /\ answer' = NoAnswer
        /\ record' \in Write([result |-> result, risk |-> risk, event |-> event])
        /\ UNCHANGED <<conf, req, event, status, ticket, grant, job, done, entry, partial, thermal, context>>

(* The process dies, by a fault, a restart of the service or a reboot that *)
(* it carried out itself: tickets, jobs and the request are gone.  Or      *)
(* another client begins when the last one is served, and what that one    *)
(* saw and held is forgotten.                                              *)
Afresh ==
    /\ req' = NoRequest /\ event' = "" /\ status' = 0 /\ ticket' = NoTicket /\ grant' = NoRequest
    /\ job' = NoJob /\ done' = {} /\ answer' = NoAnswer /\ record' = NoRecord
    /\ phase' = "idle" /\ snap' = "off"
    /\ entry' = [m \in Module |-> "running"] /\ partial' = FALSE /\ thermal' = NoThermal /\ context' = "live"
    /\ UNCHANGED conf

Crash == phase # "idle" /\ Afresh
Begin == phase = "idle" /\ job = NoJob /\ Afresh

Collecting ==
    /\ Goroutine \/ contextEnds
    /\ UNCHANGED apiVars

Next ==
    \/ \E r \in Sent : RefuseSupplement(r) \/ RequestApproval(r) \/ Consume(r) \/ RefuseTicket(r) \/ Pass(r)
    \/ Handle \/ Panic \/ Describe \/ approvalRoute \/ StartSnapshot \/ Collecting \/ AnswerSnapshot
    \/ RunJob \/ auditOperation \/ Crash \/ Begin

Spec == Init /\ [][Next]_vars

-----------------------------------------------------------------------------
(* What a change does, without looking at how its request was classified:  *)
(* the operations that the documentation names as sensitive                *)
(* (docs/confirmations.md), and the volumes and certificates that the      *)
(* registry adds to them.                                                  *)
Routed == {"route_add", "route_delete"}
Destructive(e) ==
    \/ e.op = "power"
    \/ e.op = "command" /\ e.what = "wipe"
    \/ e.op = "delete" /\ (e.action = "recursive" \/ e.what = "critical")
    \/ e.op = "network" /\ (e.what \in {"down", "default"} \/ (e.what = "any" /\ e.action \in Routed))
    \/ e.op = "docker" /\ ((e.what = "prune" /\ e.action \in Pruning) \/ (e.what = "rm" /\ e.action = "volume"))
    \/ e.op = "qpkg" /\ e.action = "remove"
    \/ e.op = "users/manage" /\ e.what = "admin" /\ e.action # "create"
    \/ e.op = "snapshot" /\ e.action = "restore"
    \/ e.op = "qnap/firmware/action" /\ e.action = "install"
    \/ e.op = "qnap/storage/action" /\ e.action \in {"delete", "format", "restore"}
    \/ e.op = "qnap/certificates/action" /\ e.action \in {"delete", "replace"}
    \/ e.op = "qnap/virtual-switch/action"

(* The paths for which the registry needs no body to call them sensitive.  *)
KnownByPath == Power \cup {"qnap/virtual-switch/action"}

(* Requests for a destructive change that the registry takes for an        *)
(* ordinary write: a body that only the handler can read, a prune that is  *)
(* neither of the system nor of volumes, the default route by its network  *)
(* 0.0.0.0/0 or ::/0, and a script with an argv beside it.                 *)
Overlooked(r) ==
    \/ r.body.form # "exact" /\ r.path \notin KnownByPath
    \/ r.path = "docker/command" /\ r.body.what = "prune" /\ r.body.action \notin {"system", "volume"}
    \/ r.path = "network/manage" /\ r.body.what = "any"
    \/ r.path = "jobs" /\ "command.argv" \in r.body.opts

(* In mode all_write every change was approved for exactly the request     *)
(* that makes it, at once or by a job, and the approval was not spent      *)
(* before.  In mode sensitive_only the same holds of a destructive change, *)
(* whichever of its routes, methods and forms the request took, unless the *)
(* request is one of Overlooked, and then the change is always made        *)
(* without an approval (control.go, operationControl and operationPayload; *)
(* registry.go, Resolve; server.go, decode).                               *)
ChangesAreApproved ==
    \A e \in done :
        /\ conf.mode = "all_write" => e.granted
        /\ conf.mode = "sensitive_only" /\ Destructive(e.effect) => (e.granted <=> ~Overlooked(e.req))

(* Nothing on the NAS is changed for a request that counts as a read, nor  *)
(* for any request to the read-only supplement, although most handlers do  *)
(* not look at the method (registry.go, Resolve; supplement.go).           *)
ReadsChangeNothing ==
    \A e \in done : Resolve(e.req) # "read" /\ ~conf.supplement

(* The routes that change something and never look at the body.            *)
Undecoded == {"system/reboot", "system/shutdown", "jobs/id/cancel", "admin/token/generate"}

(* A request with dry_run changes nothing, at once or by a job: a handler  *)
(* either honours the field or refuses it as unknown.  The routes that     *)
(* discard the body are the exception (server.go, decode, powerRoute and   *)
(* jobByID; admin.go, adminTokenGenerate).                                 *)
DryRunChangesNothing ==
    \A e \in done : "dry_run" \in e.req.body.opts => e.req.path \in Undecoded

(* A record that reached the log is honest once its request is over: it    *)
(* says success exactly when the client was told so or was told nothing;   *)
(* it never calls a change a read; an approval that the request consumed   *)
(* shows in it, whether the handler made its change, failed or panicked,   *)
(* and only then; and beside it stands how the handler ended, never that   *)
(* an approval is still required (control.go, auditOperation; audit.go,    *)
(* Write).                                                                 *)
AuditIsHonest ==
    phase = "idle" /\ record # NoRecord =>
        /\ record.result = "success" <=> Succeeded(status) \/ status = 0
        /\ \A e \in done : record.risk # "read" /\ (e.granted => record.event = "approval_executed")
        /\ ticket.state = "used" /\ ticket.req = req =>
               record.event = "approval_executed" \/ (record.event = "approval_refused" /\ done = {})
        /\ record.event = "approval_executed" =>
               ticket.state = "used" /\ ticket.req = req /\ record.result \in {"success", "failed"}

(* What a reader of a table file gets, when it gets an answer at all.      *)
WholeTable(file, items) ==
    \/ file.open = "absent"
    \/ file.open = "ok" /\ ~file.broken /\ {i \in DOMAIN file.lines : file.lines[i] = {}} \subseteq items

WholeAnswer(a) ==
    CASE a.of = "routes" ->
             /\ WholeTable(a.from[1], a.says.ipv4) /\ WholeTable(a.from[2], a.says.ipv6)
             /\ <<Absent, Absent>> # a.from
      [] a.of = "ipv6_routes" -> a.from # Absent /\ WholeTable(a.from, a.says.items)
      [] a.of = "neighbors" /\ a.from.form # "position" -> a.says.items = {a.from.entry}
      [] a.of = "neighbors" /\ a.from.form = "position" ->
             \A n \in a.says.items :
                 /\ n.State = a.from.entry.State
                 /\ n.Interface \in {a.from.entry.Interface, Unset} \/ a.from.entry.Interface = "dev"
      [] a.of = "counters" ->
             \/ /\ a.says.known \in {a.from[1], a.from[2]}
                /\ a.says.Available = (a.says.known # {})
             \/ ~a.says.Available /\ a.says.known = {} /\ a.from[1] = {}
      [] OTHER -> TRUE

(* A reply with success is whole: every table of routes that the NAS has   *)
(* was read to its end, with all of its well-formed lines, and at least    *)
(* one is there; a neighbour is the one the kernel wrote, whatever the     *)
(* order of its fields and even when its device has a keyword's name; one  *)
(* given by position has its state, and its device or none, unless that is *)
(* named "dev"; and counters come from one source (network.go, Routes,     *)
(* NeighborsContext, parseNeighborLine and interfaceCounters).             *)
TablesAreWhole == phase = "audit" /\ status = 200 => WholeAnswer(answer)

(* The loss report of a reconstruction is exact, but for the keys, volumes *)
(* and options that ReportIsExact names, for which the code may claim an   *)
(* equivalence that does not hold; and when the agent redacts, none of the *)
(* three forms of the reply shows a secret (reconstruct.go,                *)
(* buildReconstruction and redactInspectEnvironment).                      *)
LossReportIsExact ==
    answer.of = "container" =>
        ReportIsExact(answer.from, answer.says) /\ (conf.redact => SecretsAreRedacted(answer.says))

-----------------------------------------------------------------------------
(* Inductive strengthenings, for the proofs in ApiRequestsProofs.          *)

(* What was changed for the request, and what its job will change.         *)
Changes == done \cup ({job} \ {NoJob})

(* A ticket, and a grant, is for a request that needs one; while the       *)
(* ticket is approved the grant is not spent, and a handler that needs it  *)
(* has just used it.                                                       *)
TicketInv ==
    /\ ticket # NoTicket =>
        /\ ticket = [req |-> ticket.req, state |-> ticket.state]
        /\ requiresApproval(conf.mode, ticket.req) /\ ~Outside(ticket.req)
    /\ ticket.state = "approved" => grant = ticket.req
    /\ grant # NoRequest => requiresApproval(conf.mode, grant)
    /\ phase = "handler" => ~Outside(req)
    /\ phase = "handler" /\ requiresApproval(conf.mode, req) =>
        grant = req /\ ticket.state = "used" /\ event = "approval_executed"

(* The event and, once it is written, the record tell how the request got  *)
(* past the approval and how it ended; the handler of a sensitive request  *)
(* never answers 409 itself, which the record would take for a request     *)
(* for approval.                                                           *)
RecordInv ==
    /\ event \in {"", "approval_requested", "approval_refused", "approval_executed"}
    /\ event = "approval_executed" => ticket.state = "used" /\ ticket.req = req
    /\ ticket.state = "used" /\ ticket.req = req => event \in {"approval_executed", "approval_refused"}
    /\ event \notin {"", "approval_executed"} =>
        phase # "handler" /\ phase # "snapshot" /\ status = 409 /\ Changes = {}
    /\ phase = "audit" /\ event = "approval_executed" /\ status = 409 => Resolve(req) # "sensitive"
    /\ phase = "idle" /\ record # NoRecord =>
        /\ record = [result |-> record.result, risk |-> Resolve(req), event |-> event]
        /\ record.result = "success" <=> Succeeded(status) \/ status = 0
        /\ event = "approval_executed" => record.result \in {"success", "failed"}

(* What the three properties ask of a change, that it is the current       *)
(* request's, and that it was granted to a request that consumed a ticket. *)
ChangeInv ==
    \A e \in Changes :
        /\ e.req = req
        /\ e.granted => requiresApproval(conf.mode, e.req) /\ event = "approval_executed"
        /\ conf.mode = "all_write" => e.granted
        /\ conf.mode = "sensitive_only" /\ Destructive(e.effect) => (e.granted <=> ~Overlooked(e.req))
        /\ Resolve(e.req) # "read" /\ ~conf.supplement
        /\ "dry_run" \in e.req.body.opts => e.req.path \in Undecoded

ApiInv == TicketInv /\ RecordInv /\ ChangeInv

(* For LossReportIsExact: a description of a container is one that         *)
(* buildReconstruction makes of a document, with the configuration's       *)
(* redaction.                                                              *)
ContainerInv ==
    answer.of = "container" =>
        \E d \in Documents :
            answer = Description("container", d, buildReconstruction(d, conf.redact), TRUE, 0)

(* For TablesAreWhole: a request is answered as it ends, with the status   *)
(* of its description.                                                     *)
AnswerInv ==
    /\ phase # "audit" => answer = NoAnswer
    /\ answer # NoAnswer => status = answer.status
    /\ answer.status = 200 => WholeAnswer(answer)

=============================================================================
