-------------------------- MODULE ApiRequestsProofs --------------------------
(***************************************************************************)
(* Proofs about ApiRequests, for any configurations and any requests: what *)
(* every handler may change is settled first, one lemma for each, then the *)
(* way of a request through the approval and the audit.  The status        *)
(* snapshot is proved for any modules and any number of fans and disks,    *)
(* the report of a reconstruction for every document.                      *)
(***************************************************************************)
EXTENDS ApiRequests, WellFoundedInduction, SequenceTheorems, TLAPS

(* The outcome changes nothing but e, at once or by a job.                 *)
Makes(o, e) == {o.effect, o.job} \subseteq {e, None}

(* What a request may change: nothing without a method whose body is read, *)
(* nothing destructive that the registry would not know from the body that *)
(* the handler read, or overlooks; and with dry_run only what never looks  *)
(* at the body.                                                            *)
Proper(r, e) ==
    /\ r.method \in Decoding
    /\ r.path \notin {"files/read", "files/checksum"}
    /\ Destructive(e) => Sensitive(r.path, r.body) \/ Overlooked(r)
    /\ "dry_run" \in r.body.opts => r.path \in Undecoded

Lawful(r, o) == \A e \in {o.effect, o.job} \ {None} : Proper(r, e)

(* An outcome that changes nothing is lawful.                              *)
LEMMA NothingIsLawful ==
    ASSUME NEW r, NEW o, Makes(o, None)
    PROVE  Lawful(r, o)
BY DEF Makes, Lawful

(* An outcome whose only change is proper is lawful.                       *)
LEMMA ProperIsLawful ==
    ASSUME NEW r, NEW o, NEW e, Makes(o, e), Proper(r, e)
    PROVE  Lawful(r, o)
BY DEF Makes, Lawful

(* What the sets of outcomes are made of.                                  *)
LEMMA ReplyMakes ==
    ASSUME NEW S, NEW o \in Reply(S)
    PROVE  Makes(o, None)
BY DEF Reply, Outcome, Makes

(* A command that is started makes its change; one that is not, none.      *)
LEMMA StartedMakes ==
    ASSUME NEW e, NEW o \in Started(e)
    PROVE  Makes(o, e)
<1>1. CASE o \in {Outcome(respondCommand(k), e, None) : k \in Ran}
  BY <1>1 DEF Outcome, Makes
<1>2. CASE o \in Reply({respondCommand(k) : k \in NotRun})
  BY <1>2, ReplyMakes DEF Makes
<1> QED
  BY <1>1, <1>2 DEF Started

(* A job that is queued will make its change.                              *)
LEMMA QueuedMakes ==
    ASSUME NEW e, NEW o \in Queued(e)
    PROVE  Makes(o, e)
BY DEF Queued, Outcome, Makes

(* run makes its change, and none when it is a dry run.                    *)
LEMMA RunMakes ==
    ASSUME NEW c, NEW e, NEW dryRun, NEW o \in run(c, e, dryRun)
    PROVE  Makes(o, e) /\ (dryRun => Makes(o, None))
BY ReplyMakes, StartedMakes DEF run, Makes

(* A call of the file service makes its change or, failing, none.          *)
LEMMA FilesMakes ==
    ASSUME NEW e, NEW o \in filesDone(e)
    PROVE  Makes(o, e)
BY DEF filesDone, Outcome, Makes

(* A package command, also a restart cut in half, makes its change.        *)
LEMMA QpkgMakes ==
    ASSUME NEW e, NEW o \in qpkgCommand(e)
    PROVE  Makes(o, e)
<1>1. CASE o \in {Outcome(respondCommand(k), e, None) : k \in NotRun}
  BY <1>1 DEF Outcome, Makes
<1> QED
  BY <1>1, StartedMakes DEF qpkgCommand

(* Without a decoded body the handler sees no action and nothing it could  *)
(* be about; with one it sees the body, whatever form that has.            *)
LEMMA SeenBody ==
    ASSUME NEW r
    PROVE  /\ r.method \notin Decoding =>
                seen(r).action = "" /\ seen(r).what = "" /\ seen(r) = NoBody
           /\ r.method \in Decoding => seen(r) = r.body
BY DEF seen, NoBody, Body

-----------------------------------------------------------------------------
(* Handlers that change files.                                             *)
LEMMA FileWriteLawful ==
    ASSUME NEW r, r.path = "files/write", NEW o \in fileWrite(r)
    PROVE  Lawful(r, o)
<1> DEFINE e == Effect("files", "write", "ordinary")
<1>1. \/ Makes(o, None)
      \/ decode(r, {"dry_run"}) /\ ~ dry(r) /\ seen(r).what = "ordinary" /\ Makes(o, e)
  BY ReplyMakes, FilesMakes DEF fileWrite, Decoded
<1>2. ASSUME ~ dry(r), seen(r).what = "ordinary" PROVE Proper(r, e)
  BY <1>2, SeenBody DEF Proper, Effect, Destructive, dry
<1> QED
  BY <1>1, <1>2, NothingIsLawful, ProperIsLawful

(* fileAppend changes files by a decoded body, never destructively.        *)
LEMMA FileAppendLawful ==
    ASSUME NEW r, r.path = "files/append", NEW o \in fileAppend(r)
    PROVE  Lawful(r, o)
<1> DEFINE e == Effect("files", "append", "ordinary")
<1>1. \/ Makes(o, None)
      \/ decode(r, {}) /\ seen(r).what = "ordinary" /\ Makes(o, e)
  BY ReplyMakes, FilesMakes DEF fileAppend, Decoded
<1>2. ASSUME decode(r, {}), seen(r).what = "ordinary" PROVE Proper(r, e)
  BY <1>2, SeenBody DEF Proper, Effect, Destructive, decode
<1> QED
  BY <1>1, <1>2, NothingIsLawful, ProperIsLawful

(* A recursive or critical delete of fileManage is one to the registry.    *)
LEMMA FileManageLawful ==
    ASSUME NEW r, r.path = "files/manage", NEW o \in fileManage(r)
    PROVE  Lawful(r, o)
<1> DEFINE b == seen(r)
           e == IF b.action = "delete"
                THEN Effect("delete", IF "recursive" \in b.opts THEN "recursive" ELSE "one", b.what)
                ELSE Effect("files", b.action, b.what)
<1>1. \/ Makes(o, None)
      \/ decode(r, {"recursive"}) /\ b.action \in {"delete", "mkdir"} /\ Makes(o, e)
  <2>1. \/ o \in Reply({400}) \/ o \in Reply({500})
        \/ decode(r, {"recursive"}) /\ b.action \in {"delete", "mkdir"} /\ o \in filesDone(e)
    <3> HIDE DEF b
    <3> QED
      BY DEF fileManage, Decoded, b
  <2> HIDE DEF e
  <2> QED
    BY <2>1, ReplyMakes, FilesMakes
<1>2. ASSUME decode(r, {"recursive"}), b.action \in {"delete", "mkdir"} PROVE Proper(r, e)
  <2>1. r.method \in Decoding /\ b = r.body
    BY <1>2, SeenBody
  <2>2. Destructive(e) => Sensitive(r.path, r.body)
    BY <2>1 DEF Effect, Destructive, Sensitive, criticalPath
  <2> QED
    BY <1>2, <2>1, <2>2 DEF Proper, decode
<1> QED
  BY <1>1, <1>2, NothingIsLawful, ProperIsLawful

(* fileTree copies by a decoded body and has no dry run.                   *)
LEMMA FileTreeLawful ==
    ASSUME NEW r, r.path = "files/tree", NEW o \in fileTree(r)
    PROVE  Lawful(r, o)
<1> DEFINE e == Effect("files", seen(r).action, seen(r).what)
<1>1. \/ Makes(o, None)
      \/ decode(r, {}) /\ seen(r).action \in {"copy_tree", "sync_tree"} /\ Makes(o, e)
  BY ReplyMakes, FilesMakes DEF fileTree, Decoded
<1>2. ASSUME decode(r, {}), seen(r).action \in {"copy_tree", "sync_tree"} PROVE Proper(r, e)
  BY <1>2, SeenBody DEF Proper, Effect, Destructive, decode
<1> QED
  BY <1>1, <1>2, NothingIsLawful, ProperIsLawful

-----------------------------------------------------------------------------
(* Handlers of the system: processes, services, power, probes, commands.   *)
LEMMA ProcessLawful ==
    ASSUME NEW r, r.path = "system/process/action", NEW o \in processAction(r)
    PROVE  Lawful(r, o)
<1> DEFINE e == Effect("process", seen(r).action, seen(r).what)
<1>1. \/ Makes(o, None)
      \/ decode(r, {}) /\ seen(r).what = "process" /\ Makes(o, e)
  BY ReplyMakes DEF processAction, Decoded, Signal, Outcome, Makes
<1>2. ASSUME decode(r, {}), seen(r).what = "process" PROVE Proper(r, e)
  BY <1>2, SeenBody DEF Proper, Effect, Destructive, decode
<1> QED
  BY <1>1, <1>2, NothingIsLawful, ProperIsLawful

(* serviceAction restarts by a decoded body and has no dry run.            *)
LEMMA ServiceLawful ==
    ASSUME NEW r, r.path = "system/services/action", NEW o \in serviceAction(r)
    PROVE  Lawful(r, o)
<1> DEFINE e == Effect("service", "restart", seen(r).what)
<1>1. \/ Makes(o, None)
      \/ decode(r, {}) /\ seen(r).what # "" /\ Makes(o, e)
  BY ReplyMakes, StartedMakes DEF serviceAction, Decoded, ServiceAction
<1>2. ASSUME decode(r, {}), seen(r).what # "" PROVE Proper(r, e)
  BY <1>2, SeenBody DEF Proper, Effect, Destructive, decode
<1> QED
  BY <1>1, <1>2, NothingIsLawful, ProperIsLawful

(* Every change of power is one that the registry calls sensitive.         *)
LEMMA PowerLawful ==
    ASSUME NEW c, NEW r, r.path = "system/power", NEW o \in power(c, r)
    PROVE  Lawful(r, o)
<1> DEFINE e == Effect("power", seen(r).action, "")
<1>1. \/ Makes(o, None)
      \/ decode(r, {}) /\ seen(r).action \in {"reboot", "shutdown"} /\ Makes(o, e)
  BY ReplyMakes, RunMakes DEF power, Decoded
<1>2. ASSUME decode(r, {}), seen(r).action \in {"reboot", "shutdown"} PROVE Proper(r, e)
  BY <1>2, SeenBody DEF Proper, Sensitive, Power, decode
<1> QED
  BY <1>1, <1>2, NothingIsLawful, ProperIsLawful

(* The two routes of their own are sensitive by their paths.               *)
LEMMA PowerRouteLawful ==
    ASSUME NEW c, NEW r, r.path \in {"system/reboot", "system/shutdown"}, NEW o \in powerRoute(c, r)
    PROVE  Lawful(r, o)
<1>1. Makes(o, None) \/ r.method = "POST"
  BY ReplyMakes DEF powerRoute, PostOnly
<1>2. ASSUME NEW e, r.method = "POST" PROVE Proper(r, e)
  BY <1>2 DEF Proper, Sensitive, Power, Decoding, Undecoded
<1> QED
  BY <1>1, <1>2, NothingIsLawful DEF Lawful

(* qnapProbe runs nothing for a dry run.                                   *)
LEMMA ProbeLawful ==
    ASSUME NEW c, NEW r, r.path = "qnap/probe", NEW o \in qnapProbe(c, r)
    PROVE  Lawful(r, o)
<1> DEFINE e == Effect("probe", "", "")
<1>1. Makes(o, None) \/ (r.method = "POST" /\ ~ dry(r) /\ Makes(o, e))
  BY ReplyMakes, RunMakes DEF qnapProbe, PostOnly, Decoded
<1>2. ASSUME r.method = "POST", ~ dry(r) PROVE Proper(r, e)
  BY <1>2, SeenBody DEF Proper, Effect, Destructive, dry, Decoding
<1> QED
  BY <1>1, <1>2, NothingIsLawful, ProperIsLawful

(* A wiping command of exec is sensitive by the same words.                *)
LEMMA ExecLawful ==
    ASSUME NEW c, NEW r, r.path \in Exec, NEW o \in exec(c, r)
    PROVE  Lawful(r, o)
<1> DEFINE e == Effect("command", r.path, seen(r).what)
<1>1. Makes(o, None) \/ (r.method = "POST" /\ ~ dry(r) /\ Makes(o, e))
  <2>1. (\E S : o \in Reply(S)) \/ (r.method = "POST" /\ o \in run(c, e, dry(r)))
    BY DEF exec, PostOnly, Decoded
  <2>2. ASSUME o \in run(c, e, dry(r)) PROVE Makes(o, e) /\ (dry(r) => Makes(o, None))
    BY <2>2, RunMakes
  <2> QED
    BY <2>1, <2>2, ReplyMakes
<1>2. ASSUME r.method = "POST", ~ dry(r) PROVE Proper(r, e)
  <2>1. r.method \in Decoding /\ seen(r) = r.body
    BY <1>2, SeenBody DEF Decoding
  <2>2. Destructive(e) => Sensitive(r.path, r.body)
    BY <2>1 DEF Effect, Destructive, Sensitive, dangerousCommand, commandFromPayload, Exec
  <2> QED
    BY <1>2, <2>1, <2>2 DEF Proper, dry, Exec
<1> QED
  BY <1>1, <1>2, NothingIsLawful, ProperIsLawful

(* A wiping command of a job is sensitive as one of exec is, unless an     *)
(* argv beside the script hides it.                                        *)
LEMMA JobsLawful ==
    ASSUME NEW c, NEW r, r.path = "jobs", NEW o \in jobListOrStart(c, r)
    PROVE  Lawful(r, o)
<1> DEFINE b == seen(r)
           runs == (c.any \/ c.listed) /\ "command.dry_run" \notin b.opts
           e == IF runs THEN Effect("command", b.action, b.what) ELSE None
<1>1. Makes(o, None) \/ (r.method = "POST" /\ decode(r, {"command.dry_run", "command.argv"}) /\ Makes(o, e))
  BY ReplyMakes, QueuedMakes DEF jobListOrStart, PostOnly, Decoded
<1>2. ASSUME r.method = "POST", decode(r, {"command.dry_run", "command.argv"}) PROVE Proper(r, e)
  <2>1. r.method \in Decoding /\ b = r.body
    BY <1>2, SeenBody DEF Decoding
  <2>2. Destructive(e) => Sensitive(r.path, r.body) \/ Overlooked(r)
    BY <2>1 DEF Effect, None, Destructive, Sensitive, dangerousCommand, commandFromPayload, Overlooked
  <2> QED
    BY <1>2, <2>1, <2>2 DEF Proper, decode
<1> QED
  BY <1>1, <1>2, NothingIsLawful, ProperIsLawful

(* jobByID changes something by a cancellation only.                       *)
LEMMA JobByIDLawful ==
    ASSUME NEW r, r.path \in {"jobs/id", "jobs/id/logs", "jobs/id/cancel"}, NEW o \in jobByID(r)
    PROVE  Lawful(r, o)
<1> DEFINE e == Effect("cancel", "", "")
<1>1. Makes(o, None) \/ (r.path = "jobs/id/cancel" /\ r.method = "POST" /\ Makes(o, e))
  <2>1. \/ \E S : o \in Reply(S)
        \/ r.path = "jobs/id/cancel" /\ r.method = "POST" /\ o = Outcome(200, e, None)
    BY DEF jobByID, PostOnly
  <2>2. ASSUME o = Outcome(200, e, None) PROVE Makes(o, e)
    BY <2>2 DEF Outcome, Makes
  <2> QED
    BY <2>1, <2>2, ReplyMakes
<1>2. ASSUME r.path = "jobs/id/cancel", r.method = "POST" PROVE Proper(r, e)
  BY <1>2 DEF Proper, Effect, Destructive, Decoding, Undecoded
<1> QED
  BY <1>1, <1>2, NothingIsLawful, ProperIsLawful

-----------------------------------------------------------------------------
(* Handlers of the network, of containers, packages and adapters.          *)
LEMMA NetworkArguments ==
    ASSUME NEW action, NEW iface, NEW value, CommandArgs(action, iface, value, "") # <<>>
    PROVE  /\ iface = "valid"
           /\ value = "down" => action = "set_state"
           /\ value = "default" => action \in {"route_add", "route_delete"}
<1>1. ASSUME iface # "valid" PROVE FALSE
  BY <1>1 DEF CommandArgs
<1>2. ASSUME value = "down", action # "set_state" PROVE FALSE
  BY <1>2 DEF CommandArgs
<1>3. ASSUME value = "default", action \notin {"route_add", "route_delete"} PROVE FALSE
  BY <1>3 DEF CommandArgs
<1> QED
  BY <1>1, <1>2, <1>3

(* networkManage takes down only what the registry calls sensitive, and    *)
(* what it overlooks: the default route by another name.                   *)
LEMMA NetworkLawful ==
    ASSUME NEW r, r.path = "network/manage", NEW o \in networkManage(r)
    PROVE  Lawful(r, o)
<1> DEFINE b == seen(r)
           args == CommandArgs(b.action, IF b = NoBody THEN "" ELSE "valid", b.what, "")
           e == Effect("network", b.action, b.what)
<1>1. Makes(o, None) \/ (args # <<>> /\ ~ dry(r) /\ Makes(o, e))
  BY ReplyMakes, StartedMakes DEF networkManage, Decoded
<1>2. ASSUME args # <<>>, ~ dry(r) PROVE Proper(r, e)
  <2> DEFINE iface == IF b = NoBody THEN "" ELSE "valid"
             action == b.action
             value == b.what
  <2>1. CommandArgs(action, iface, value, "") # <<>>
    BY <1>2
  <2> HIDE DEF iface, action, value
  <2>2. /\ iface = "valid"
        /\ value = "down" => action = "set_state"
        /\ value = "default" => action \in {"route_add", "route_delete"}
    BY <2>1, NetworkArguments
  <2>3. /\ b # NoBody
        /\ b.what = "down" => b.action = "set_state"
        /\ b.what = "default" => b.action \in {"route_add", "route_delete"}
    BY <2>2 DEF iface, action, value
  <2>4. r.method \in Decoding /\ b = r.body
    BY <2>3, SeenBody
  <2>5. Destructive(e) => Sensitive(r.path, r.body) \/ Overlooked(r)
    BY <2>3, <2>4 DEF Effect, Destructive, Sensitive, sensitiveNetworkChange, Overlooked
  <2> QED
    BY <1>2, <2>4, <2>5 DEF Proper, dry
<1> QED
  BY <1>1, <1>2, NothingIsLawful, ProperIsLawful

(* dockerCommand prunes, or removes a volume, only as a sensitive request  *)
(* or as one that is overlooked.                                           *)
LEMMA DockerLawful ==
    ASSUME NEW r, r.path = "docker/command", NEW o \in dockerCommand(r)
    PROVE  Lawful(r, o)
<1> DEFINE b == seen(r)
           e == Effect("docker", b.action, b.what)
<1>1. Makes(o, None) \/ (Allowed(b.action) /\ ~ dry(r) /\ Makes(o, e))
  BY ReplyMakes, StartedMakes, QueuedMakes DEF dockerCommand, Decoded
<1>2. ASSUME Allowed(b.action), ~ dry(r) PROVE Proper(r, e)
  <2>1. r.method \in Decoding /\ b = r.body
    BY <1>2, SeenBody DEF Allowed, Pruning
  <2>2. Destructive(e) => Sensitive(r.path, r.body) \/ Overlooked(r)
    BY <2>1 DEF Effect, Destructive, Sensitive, sensitiveDockerChange, Overlooked
  <2> QED
    BY <1>2, <2>1, <2>2 DEF Proper, dry
<1> QED
  BY <1>1, <1>2, NothingIsLawful, ProperIsLawful

(* qpkgManage removes a package only as a sensitive request.               *)
LEMMA QpkgLawful ==
    ASSUME NEW r, r.path \in Qpkg, NEW o \in qpkgManage(r)
    PROVE  Lawful(r, o)
<1> DEFINE b == seen(r)
           e == Effect("qpkg", b.action, b.what)
<1>1. Makes(o, None) \/ (b.what # "" /\ ~ dry(r) /\ Makes(o, e))
  BY ReplyMakes, QpkgMakes, QueuedMakes DEF qpkgManage, Decoded, qpkgArgs
<1>2. ASSUME b.what # "", ~ dry(r) PROVE Proper(r, e)
  <2>1. r.method \in Decoding /\ b = r.body
    BY <1>2, SeenBody
  <2>2. Destructive(e) => Sensitive(r.path, r.body)
    BY <2>1 DEF Effect, Destructive, Sensitive
  <2> QED
    BY <1>2, <2>1, <2>2 DEF Proper, dry, Qpkg
<1> QED
  BY <1>1, <1>2, NothingIsLawful, ProperIsLawful

(* What an adapter destroys the registry calls sensitive by its path.      *)
LEMMA AdapterLawful ==
    ASSUME NEW c, NEW r, r.path \in Adapter, NEW o \in ecosystemCommand(c, r)
    PROVE  Lawful(r, o)
<1> DEFINE b == seen(r)
           e == IF b.action \in readAction THEN None ELSE Effect(r.path, b.action, b.what)
<1>1. Makes(o, None) \/ (r.method = "POST" /\ ~ dry(r) /\ Makes(o, e))
  BY ReplyMakes, RunMakes, QueuedMakes DEF ecosystemCommand, PostOnly, Decoded
<1>2. ASSUME r.method = "POST", ~ dry(r) PROVE Proper(r, e)
  <2>1. r.method \in Decoding /\ b = r.body
    BY <1>2, SeenBody DEF Decoding
  <2>2. Destructive(e) => Sensitive(r.path, r.body)
    BY <2>1 DEF Effect, None, Destructive, Sensitive, sensitiveAction, Adapter
  <2>3. r.path \notin {"files/read", "files/checksum"}
    BY DEF Adapter
  <2> QED
    BY <1>2, <2>1, <2>2, <2>3 DEF Proper, dry
<1> QED
  BY <1>1, <1>2, NothingIsLawful, ProperIsLawful

-----------------------------------------------------------------------------
(* Handlers of storage, identities, access lists and the token.            *)
LEMMA SmartLawful ==
    ASSUME NEW r, r.path = "storage/disks/id/smart-test", NEW o \in smartTest(r)
    PROVE  Lawful(r, o)
<1> DEFINE e == IF StartSmart(seen(r).action) THEN Effect("smart", seen(r).action, "") ELSE None
<1>1. Makes(o, None) \/ (decode(r, {}) /\ StartSmart(seen(r).action) /\ Makes(o, e))
  BY ReplyMakes, QueuedMakes DEF smartTest, Decoded
<1>2. ASSUME decode(r, {}), StartSmart(seen(r).action) PROVE Proper(r, e)
  BY <1>2, SeenBody DEF Proper, Effect, Destructive, decode, StartSmart
<1> QED
  BY <1>1, <1>2, NothingIsLawful, ProperIsLawful

(* snapshotAction restores only as a sensitive request.                    *)
LEMMA SnapshotsLawful ==
    ASSUME NEW r, r.path = "storage/snapshots/action", NEW o \in snapshotAction(r)
    PROVE  Lawful(r, o)
<1> DEFINE b == seen(r)
           known == IF b.what = "volume" THEN CreateQTSSnapshot(b.action)
                    ELSE SnapshotAction(b.action)
           e == IF known THEN Effect("snapshot", b.action, b.what) ELSE None
<1>1. Makes(o, None) \/ (decode(r, {}) /\ known /\ Makes(o, e))
  BY ReplyMakes, QueuedMakes DEF snapshotAction, Decoded
<1>2. ASSUME decode(r, {}), known PROVE Proper(r, e)
  <2>1. r.method \in Decoding /\ b = r.body
    BY <1>2, SeenBody DEF CreateQTSSnapshot, SnapshotAction
  <2>2. Destructive(e) => Sensitive(r.path, r.body)
    BY <1>2, <2>1 DEF Effect, Destructive, Sensitive, sensitiveAction
  <2> QED
    BY <1>2, <2>1, <2>2 DEF Proper, decode
<1> QED
  BY <1>1, <1>2, NothingIsLawful, ProperIsLawful

(* raidAction changes by a decoded body, and nothing for a dry run.        *)
LEMMA RaidLawful ==
    ASSUME NEW c, NEW r, r.path = "storage/raid-groups/id/action", NEW o \in raidAction(c, r)
    PROVE  Lawful(r, o)
<1> DEFINE e == Effect("raid", seen(r).action, "")
<1>1. Makes(o, None) \/ (r.method = "POST" /\ ~ dry(r) /\ Makes(o, e))
  <2> DEFINE done3 == {Outcome(s, e, None) : s \in {200, 409, 422}}
  <2>1. \/ \E S : o \in Reply(S)
        \/ r.method = "POST" /\ o \in RAIDAction(seen(r).action, dry(r))
    BY DEF raidAction, PostOnly, Decoded
  <2>2. ASSUME o \in RAIDAction(seen(r).action, dry(r))
        PROVE  \/ o \in Reply({422}) \/ o \in Reply({200, 422})
               \/ ~ dry(r) /\ o \in done3
    BY <2>2 DEF RAIDAction
  <2>3. ASSUME o \in done3 PROVE Makes(o, e)
    <3> HIDE DEF e
    <3> QED BY <2>3 DEF Outcome, Makes
  <2> HIDE DEF done3
  <2> QED
    BY <2>1, <2>2, <2>3, ReplyMakes
<1>2. ASSUME r.method = "POST", ~ dry(r) PROVE Proper(r, e)
  BY <1>2, SeenBody DEF Proper, Effect, Destructive, dry, Decoding
<1> QED
  BY <1>1, <1>2, NothingIsLawful, ProperIsLawful

(* manageIdentity changes an administrator only as a sensitive request.    *)
LEMMA IdentityLawful ==
    ASSUME NEW r, r.path \in {"users/manage", "groups/manage"}, NEW o \in manageIdentity(r)
    PROVE  Lawful(r, o)
<1> DEFINE b == seen(r)
           known == IF r.path = "users/manage" THEN ManageUser(b.action, b.what)
                    ELSE ManageGroup(b.action, b.what)
           e == Effect(r.path, b.action, b.what)
<1>1. Makes(o, None) \/ (decode(r, {}) /\ known /\ Makes(o, e))
  BY ReplyMakes, StartedMakes DEF manageIdentity, Decoded
<1>2. ASSUME decode(r, {}), known PROVE Proper(r, e)
  <2>1. r.method \in Decoding /\ b = r.body
    BY <1>2, SeenBody DEF ManageUser, ManageGroup
  <2>2. Destructive(e) => Sensitive(r.path, r.body)
    BY <1>2, <2>1 DEF Effect, Destructive, Sensitive, ManageUser
  <2> QED
    BY <1>2, <2>1, <2>2 DEF Proper, decode
<1> QED
  BY <1>1, <1>2, NothingIsLawful, ProperIsLawful

(* Both routes change lists by a decoded body and have no dry run.         *)
LEMMA AclLawful ==
    ASSUME NEW r, r.path \in {"acl", "acl/set"}, NEW o,
           o \in acl(r) \/ (r.path = "acl/set" /\ o \in aclSet(r))
    PROVE  Lawful(r, o)
<1> DEFINE e == Effect("acl", "", seen(r).what)
<1>1. Makes(o, None) \/ (decode(r, {}) /\ seen(r).what # "" /\ Makes(o, e))
  BY ReplyMakes, StartedMakes DEF acl, aclSet, ACL, SetACL, Read, Decoded
<1>2. ASSUME decode(r, {}), seen(r).what # "" PROVE Proper(r, e)
  BY <1>2, SeenBody DEF Proper, Effect, Destructive, decode
<1> QED
  BY <1>1, <1>2, NothingIsLawful, ProperIsLawful

(* The token changes by PUT or POST only; the other routes only read.      *)
LEMMA AdminLawful ==
    ASSUME NEW r,
           r.path \in {"admin/token", "admin/token/reveal", "admin/token/generate", "admin/settings"},
           NEW o \in adminRoute(r)
    PROVE  Lawful(r, o)
<1> DEFINE e == Effect("token", "", "")
<1>1. \A x \in updateToken : Makes(x, e)
  <2> SUFFICES ASSUME NEW x \in updateToken PROVE Makes(x, e)
    OBVIOUS
  <2>1. x \in Reply({400, 401, 500, 503}) \/ x \in {Outcome(s, e, None) : s \in {200, 500}}
    BY DEF updateToken
  <2>2. ASSUME Makes(x, None) PROVE Makes(x, e)
    BY <2>2 DEF Makes
  <2>3. ASSUME x \in {Outcome(s, e, None) : s \in {200, 500}} PROVE Makes(x, e)
    <3> HIDE DEF e
    <3> QED BY <2>3 DEF Outcome, Makes
  <2> HIDE DEF e
  <2>4. CASE x \in Reply({400, 401, 500, 503})
    BY <2>2, <2>4, ReplyMakes
  <2> QED
    BY <2>1, <2>3, <2>4
<1>2. \/ Makes(o, None)
      \/ r.path = "admin/token" /\ r.method = "PUT" /\ decode(r, {}) /\ Makes(o, e)
      \/ r.path = "admin/token/generate" /\ r.method = "POST" /\ Makes(o, e)
  <2>1. \/ \E S : o \in Reply(S)
        \/ r.path = "admin/token" /\ r.method = "PUT" /\ decode(r, {}) /\ o \in updateToken
        \/ r.path = "admin/token/generate" /\ r.method = "POST" /\ o \in updateToken
    BY DEF adminRoute, PostOnly, Decoded
  <2> QED
    BY <1>1, <2>1, ReplyMakes
<1>3. ASSUME r.path = "admin/token", r.method = "PUT", decode(r, {}) PROVE Proper(r, e)
  BY <1>3 DEF Proper, Effect, Destructive, decode, Decoding
<1>4. ASSUME r.path = "admin/token/generate", r.method = "POST" PROVE Proper(r, e)
  BY <1>4 DEF Proper, Effect, Destructive, Undecoded, Decoding
<1> QED
  BY <1>2, <1>3, <1>4, NothingIsLawful, ProperIsLawful

-----------------------------------------------------------------------------
(* Handlers that only read.                                                *)
LEMMA ReadersMake ==
    ASSUME NEW r, NEW o,
           \/ o \in inventory(r) \/ o \in Read \/ o \in fileReads(r) \/ o \in dockerReconstruct(r)
           \/ o \in certificateInspect(r) \/ o \in logTail(r)
    PROVE  Makes(o, None)
<1>1. ASSUME o \in Read PROVE Makes(o, None)
  BY <1>1, StartedMakes DEF Read
<1>2. CASE o \in inventory(r)
  BY <1>2, ReplyMakes DEF inventory
<1>3. CASE o \in fileReads(r)
  BY <1>3, ReplyMakes DEF fileReads, Decoded
<1>4. CASE o \in dockerReconstruct(r)
  BY <1>4, ReplyMakes DEF dockerReconstruct, Decoded
<1>5. CASE o \in certificateInspect(r)
  BY <1>1, <1>5, ReplyMakes DEF certificateInspect, PostOnly, Decoded
<1>6. CASE o \in logTail(r)
  BY <1>6, ReplyMakes DEF logTail, Decoded
<1> QED
  BY <1>1, <1>2, <1>3, <1>4, <1>5, <1>6

(* Every outcome of every route is lawful.                                 *)
LEMMA RoutesLawful ==
    ASSUME NEW c, NEW r, NEW o \in routes(c, r)
    PROVE  Lawful(r, o)
<1>1. \/ o \in inventory(r) \/ o \in Read \/ o \in fileReads(r) \/ o \in dockerReconstruct(r)
      \/ o \in certificateInspect(r) \/ o \in logTail(r) \/ o \in Reply({404})
      \/ r.path = "system/process/action" /\ o \in processAction(r)
      \/ r.path = "system/services/action" /\ o \in serviceAction(r)
      \/ r.path = "system/power" /\ o \in power(c, r)
      \/ r.path \in {"system/reboot", "system/shutdown"} /\ o \in powerRoute(c, r)
      \/ r.path = "qnap/probe" /\ o \in qnapProbe(c, r)
      \/ r.path \in Exec /\ o \in exec(c, r)
      \/ r.path = "jobs" /\ o \in jobListOrStart(c, r)
      \/ r.path \in {"jobs/id", "jobs/id/logs", "jobs/id/cancel"} /\ o \in jobByID(r)
      \/ r.path = "files/write" /\ o \in fileWrite(r)
      \/ r.path = "files/append" /\ o \in fileAppend(r)
      \/ r.path = "files/manage" /\ o \in fileManage(r)
      \/ r.path = "files/tree" /\ o \in fileTree(r)
      \/ r.path = "network/manage" /\ o \in networkManage(r)
      \/ r.path = "docker/command" /\ o \in dockerCommand(r)
      \/ r.path \in Qpkg /\ o \in qpkgManage(r)
      \/ r.path \in Adapter /\ o \in ecosystemCommand(c, r)
      \/ r.path = "storage/disks/id/smart-test" /\ o \in smartTest(r)
      \/ r.path = "storage/snapshots/action" /\ o \in snapshotAction(r)
      \/ r.path = "storage/raid-groups/id/action" /\ o \in raidAction(c, r)
      \/ r.path \in {"users/manage", "groups/manage"} /\ o \in manageIdentity(r)
      \/ r.path = "acl" /\ o \in acl(r)
      \/ r.path = "acl/set" /\ o \in aclSet(r)
      \/ r.path \in {"admin/token", "admin/token/reveal", "admin/token/generate", "admin/settings"}
             /\ o \in adminRoute(r)
  BY DEF routes
<1>2. ASSUME o \in Reply({404}) PROVE Lawful(r, o)
  BY <1>2, ReplyMakes, NothingIsLawful
<1>3. ASSUME \/ o \in inventory(r) \/ o \in Read \/ o \in fileReads(r) \/ o \in dockerReconstruct(r)
             \/ o \in certificateInspect(r) \/ o \in logTail(r)
      PROVE  Lawful(r, o)
  BY <1>3, ReadersMake, NothingIsLawful
<1> QED
  BY <1>1, <1>2, <1>3, ProcessLawful, ServiceLawful, PowerLawful, PowerRouteLawful, ProbeLawful,
     ExecLawful, JobsLawful, JobByIDLawful, FileWriteLawful, FileAppendLawful, FileManageLawful,
     FileTreeLawful, NetworkLawful, DockerLawful, QpkgLawful, AdapterLawful, SmartLawful,
     SnapshotsLawful, RaidLawful, IdentityLawful, AclLawful, AdminLawful

(* The decision on a ticket has an action of its own and is no route here. *)
LEMMA ApprovalsMakeNothing ==
    ASSUME NEW c, NEW r, r.path = "approvals", NEW o \in routes(c, r)
    PROVE  Makes(o, None)
<1>1. \/ o \in inventory(r) \/ o \in Read \/ o \in fileReads(r) \/ o \in dockerReconstruct(r)
      \/ o \in certificateInspect(r) \/ o \in logTail(r) \/ o \in Reply({404})
  BY DEF routes, Exec, Qpkg, Adapter
<1> QED
  BY <1>1, ReadersMake, ReplyMakes

(* A request that is overlooked is not sensitive to the registry.          *)
LEMMA OverlookedIsWrite ==
    ASSUME NEW r, Overlooked(r)
    PROVE  ~Sensitive(r.path, operationPayload(r.body))
<1> DEFINE b == operationPayload(r.body)
<1>1. b = r.body \/ b = NoBody
  BY DEF operationPayload
<1>2. NoBody.action = "" /\ NoBody.what = ""
  BY DEF NoBody, Body
<1>3. CASE r.body.form # "exact" /\ r.path \notin KnownByPath
  <2>1. b = NoBody
    BY <1>3 DEF operationPayload
  <2> QED
    BY <1>2, <1>3, <2>1 DEF Sensitive, KnownByPath, dangerousCommand, commandFromPayload, sensitiveNetworkChange,
                            sensitiveDockerChange, sensitiveAction
<1>4. CASE r.path = "docker/command" /\ r.body.what = "prune" /\ r.body.action \notin {"system", "volume"}
  BY <1>1, <1>2, <1>4 DEF Sensitive, Power, Exec, Qpkg, sensitiveDockerChange, sensitiveAction
<1>5. CASE r.path = "network/manage" /\ r.body.what = "any"
  BY <1>1, <1>2, <1>5 DEF Sensitive, Power, Exec, Qpkg, sensitiveNetworkChange, sensitiveAction
<1>6. CASE r.path = "jobs" /\ "command.argv" \in r.body.opts
  BY <1>1, <1>2, <1>6 DEF Sensitive, Power, Exec, Qpkg, dangerousCommand, commandFromPayload, sensitiveAction
<1> QED
  BY <1>3, <1>4, <1>5, <1>6 DEF Overlooked

(* What the registry says of a request that changes something: it is no    *)
(* read, and a destructive change is sensitive unless it is overlooked.    *)
LEMMA ProperRisk ==
    ASSUME NEW r, NEW e, Proper(r, e)
    PROVE  Resolve(r) # "read" /\ (Destructive(e) => (Resolve(r) = "sensitive" <=> ~Overlooked(r)))
<1>1. /\ Resolve(r) # "read"
      /\ Resolve(r) = "sensitive" <=> Sensitive(r.path, operationPayload(r.body))
  BY DEF Proper, Resolve, Decoding, Reading
<1>2. ASSUME Destructive(e), ~Overlooked(r) PROVE Sensitive(r.path, operationPayload(r.body))
  <2>1. CASE r.body.form = "exact"
    BY <1>2, <2>1 DEF Proper, operationPayload
  <2>2. CASE r.body.form # "exact"
    <3>1. r.path \in Power \/ r.path = "qnap/virtual-switch/action"
      BY <1>2, <2>2 DEF Overlooked, KnownByPath
    <3>2. operationPayload(r.body).action = ""
      BY <2>2 DEF operationPayload, NoBody, Body
    <3> QED
      BY <3>1, <3>2 DEF Sensitive, readAction
  <2> QED
    BY <2>1, <2>2
<1> QED
  BY <1>1, <1>2, OverlookedIsWrite

(* The supplement only lets through what counts as a read.                 *)
LEMMA SupplementReads ==
    ASSUME NEW r, supplementReadAllowed(r)
    PROVE  Resolve(r) = "read"
BY DEF supplementReadAllowed, Resolve, Reading

-----------------------------------------------------------------------------
(* The status of an outcome is never the one that asks for an approval.    *)
Plain(o) == o.status # 409

(* A reply has one of its statuses.                                        *)
LEMMA ReplyStatus ==
    ASSUME NEW S, NEW o \in Reply(S)
    PROVE  o.status \in S
BY DEF Reply, Outcome

(* No command ends with a conflict.                                        *)
LEMMA CommandStatus ==
    ASSUME NEW k
    PROVE  respondCommand(k) # 409
BY DEF respondCommand

(* A command that is started, or is not, answers how it ended.             *)
LEMMA StartedStatus ==
    ASSUME NEW e, NEW o \in Started(e)
    PROVE  Plain(o)
<1>1. CASE o \in {Outcome(respondCommand(k), e, None) : k \in Ran}
  BY <1>1, CommandStatus DEF Outcome, Plain
<1>2. CASE o \in Reply({respondCommand(k) : k \in NotRun})
  BY <1>2, CommandStatus, ReplyStatus DEF Plain
<1> QED
  BY <1>1, <1>2 DEF Started

(* So do the handlers built on commands, jobs and files.                   *)
LEMMA DoneStatus ==
    ASSUME NEW c, NEW e, NEW dryRun, NEW o,
           o \in run(c, e, dryRun) \/ o \in Queued(e) \/ o \in filesDone(e) \/ o \in qpkgCommand(e) \/ o \in Read
    PROVE  Plain(o)
<1>1. CASE o \in run(c, e, dryRun)
  <2>1. o \in Reply({respondCommand("start_failed")}) \/ o \in Reply({200}) \/ o \in Started(e)
    BY <1>1 DEF run
  <2>2. o \in Reply({respondCommand("start_failed")}) => Plain(o)
    BY CommandStatus, ReplyStatus DEF Plain
  <2>3. o \in Reply({200}) => Plain(o)
    BY ReplyStatus DEF Plain
  <2> QED
    BY <2>1, <2>2, <2>3, StartedStatus
<1>2. CASE o \in Queued(e)
  BY <1>2 DEF Queued, Outcome, Plain
<1>3. CASE o \in filesDone(e)
  BY <1>3 DEF filesDone, fileErr, Outcome, Plain
<1>4. CASE o \in qpkgCommand(e)
  <2>1. o \in Started(e) \/ o \in {Outcome(respondCommand(k), e, None) : k \in NotRun}
    BY <1>4 DEF qpkgCommand
  <2>2. o \in {Outcome(respondCommand(k), e, None) : k \in NotRun} => Plain(o)
    BY CommandStatus DEF Outcome, Plain
  <2> QED
    BY <2>1, <2>2, StartedStatus
<1>5. CASE o \in Read
  BY <1>5, StartedStatus DEF Read
<1> QED
  BY <1>1, <1>2, <1>3, <1>4, <1>5

(* No inventory fails with a conflict.                                     *)
LEMMA InventoryStatus ==
    ASSUME NEW r, NEW o \in inventory(r)
    PROVE  Plain(o)
<1>1. \A i \in agentInventories \cup systemInventories \cup networkInventories \cup ipv6Inventories : i[2] # 409
  BY DEF agentInventories, systemInventories, networkInventories, ipv6Inventories
<1>2. \A i \in storageInventories \cup identityInventories \cup shareInventories : i[2] # 409
  BY DEF storageInventories, identityInventories, shareInventories
<1>3. \A i \in logInventories \cup ecosystemInventories \cup otherInventories : i[2] # 409
  BY DEF logInventories, ecosystemInventories, otherInventories
<1>4. \A i \in inventories : i[2] # 409
  BY <1>1, <1>2, <1>3 DEF inventories
<1>5. o.status \in {200} \cup {i[2] : i \in {j \in inventories : j[1] = r.path}}
  BY ReplyStatus DEF inventory
<1> QED
  BY <1>4, <1>5 DEF Plain

(* The paths of sensitive requests.                                        *)
GuardedAdapter == {"qnap/firmware/action", "qnap/certificates/action", "qnap/storage/action",
                   "qnap/virtual-switch/action"}
Guarded ==
    Power \cup Exec \cup Qpkg \cup GuardedAdapter
    \cup {"jobs", "files/manage", "network/manage", "docker/command", "users/manage", "storage/snapshots/action"}

(* No other path is sensitive.                                             *)
LEMMA SensitivePaths ==
    ASSUME NEW r, Resolve(r) = "sensitive"
    PROVE  r.path \in Guarded
<1> DEFINE b == operationPayload(r.body)
<1>1. Sensitive(r.path, b)
  BY DEF Resolve
<1>2. b.action \in sensitiveAction(r.path) => r.path \in GuardedAdapter \cup {"storage/snapshots/action"}
  BY DEF sensitiveAction, GuardedAdapter
<1> HIDE DEF b
<1> QED
  BY <1>1, <1>2 DEF Sensitive, Guarded, GuardedAdapter

(* A reply without a conflict among its statuses.                          *)
LEMMA PlainReply ==
    ASSUME NEW S, 409 \notin S, NEW o \in Reply(S)
    PROVE  Plain(o)
BY ReplyStatus DEF Plain

(* The handlers of commands, of files and of jobs answer no conflict.      *)
LEMMA CommandsArePlain ==
    ASSUME NEW c, NEW r, NEW o,
           \/ o \in power(c, r) \/ o \in powerRoute(c, r) \/ o \in exec(c, r) \/ o \in jobListOrStart(c, r)
           \/ o \in fileManage(r) \/ o \in snapshotAction(r)
    PROVE  Plain(o)
<1>1. ASSUME NEW q, o \in power(c, q) PROVE Plain(o)
  <2> DEFINE now == FALSE
  <2>1. \/ o \in Reply({200}) \/ o \in Reply({400}) \/ o \in Reply({403})
        \/ \E e : o \in run(c, e, now)
    BY <1>1 DEF power, Decoded
  <2> HIDE DEF now
  <2> QED
    BY <2>1, PlainReply, DoneStatus
<1>2. CASE o \in powerRoute(c, r)
  <2>1. o \in Reply({405}) \/ \E q : o \in power(c, q)
    BY <1>2 DEF powerRoute, PostOnly
  <2> QED
    BY <1>1, <2>1, PlainReply
<1>3. CASE o \in exec(c, r)
  <2>1. \/ o \in Reply({405}) \/ o \in Reply({400}) \/ o \in Reply({403}) \/ o \in Reply({500}) \/ o \in Reply({503})
        \/ \E e : o \in run(c, e, dry(r))
    BY <1>3 DEF exec, PostOnly, Decoded
  <2> QED
    BY <2>1, PlainReply, DoneStatus
<1>4. CASE o \in jobListOrStart(c, r)
  <2>1. \/ o \in Reply({405}) \/ o \in Reply({400}) \/ o \in Reply({403}) \/ o \in Reply({200}) \/ o \in Reply({503})
        \/ \E e : o \in Queued(e)
    BY <1>4 DEF jobListOrStart, PostOnly, Decoded
  <2> QED
    BY <2>1, PlainReply, DoneStatus
<1>5. CASE o \in fileManage(r)
  <2>1. o \in Reply({400}) \/ o \in Reply({500}) \/ \E e : o \in filesDone(e)
    BY <1>5 DEF fileManage, Decoded
  <2> QED
    BY <2>1, PlainReply, DoneStatus
<1>6. CASE o \in snapshotAction(r)
  <2>1. o \in Reply({400}) \/ \E e : o \in Queued(e)
    BY <1>6 DEF snapshotAction, Decoded
  <2> QED
    BY <2>1, PlainReply, DoneStatus
<1> QED
  BY <1>1, <1>2, <1>3, <1>4, <1>5, <1>6

(* The handlers of the network, containers, packages, adapters and         *)
(* identities answer no conflict.                                          *)
LEMMA ManagersArePlain ==
    ASSUME NEW c, NEW r, NEW o,
           \/ o \in networkManage(r) \/ o \in dockerCommand(r) \/ o \in qpkgManage(r)
           \/ o \in ecosystemCommand(c, r) \/ o \in manageIdentity(r)
    PROVE  Plain(o)
<1>1. CASE o \in networkManage(r)
  <2>1. o \in Reply({400}) \/ o \in Reply({200}) \/ \E e : o \in Started(e)
    BY <1>1 DEF networkManage, Decoded
  <2> QED
    BY <2>1, PlainReply, StartedStatus
<1>2. CASE o \in dockerCommand(r)
  <2>1. o \in Reply({400}) \/ o \in Reply({200}) \/ \E e : o \in Started(e) \/ o \in Queued(e)
    BY <1>2 DEF dockerCommand, Decoded
  <2> QED
    BY <2>1, PlainReply, StartedStatus, DoneStatus
<1>3. CASE o \in qpkgManage(r)
  <2>1. o \in Reply({400}) \/ o \in Reply({200}) \/ \E e : o \in qpkgCommand(e) \/ o \in Queued(e)
    BY <1>3 DEF qpkgManage, Decoded
  <2> QED
    BY <2>1, PlainReply, DoneStatus
<1>4. CASE o \in ecosystemCommand(c, r)
  <2> DEFINE now == FALSE
  <2>1. \/ o \in Reply({405}) \/ o \in Reply({400}) \/ o \in Reply({501}) \/ o \in Reply({403}) \/ o \in Reply({200})
        \/ \E e : o \in run(c, e, now) \/ o \in Queued(e)
    BY <1>4 DEF ecosystemCommand, PostOnly, Decoded
  <2> HIDE DEF now
  <2> QED
    BY <2>1, PlainReply, DoneStatus
<1>5. CASE o \in manageIdentity(r)
  <2>1. o \in Reply({400}) \/ o \in Reply({500}) \/ \E e : o \in Started(e)
    BY <1>5 DEF manageIdentity, Decoded
  <2> QED
    BY <2>1, PlainReply, StartedStatus
<1> QED
  BY <1>1, <1>2, <1>3, <1>4, <1>5

(* The handlers that only read answer no conflict.                         *)
LEMMA ReadersArePlain ==
    ASSUME NEW r, NEW o,
           \/ o \in inventory(r) \/ o \in Read \/ o \in fileReads(r) \/ o \in dockerReconstruct(r)
           \/ o \in certificateInspect(r) \/ o \in logTail(r) \/ o \in Reply({404})
    PROVE  Plain(o)
<1>1. CASE o \in fileReads(r)
  <2>1. o \in Reply({400}) \/ o \in Reply({200} \cup fileErr)
    BY <1>1 DEF fileReads, Decoded
  <2> QED
    BY <2>1, PlainReply DEF fileErr
<1>2. CASE o \in dockerReconstruct(r)
  <2> DEFINE S == {respondCommand(k) : k \in (Ran \cup NotRun) \ {"ok"}}
  <2>1. o \in Reply({400}) \/ o \in Reply({500}) \/ o \in Reply(S)
    BY <1>2 DEF dockerReconstruct, Decoded
  <2>2. 409 \notin S
    BY CommandStatus
  <2> HIDE DEF S
  <2> QED
    BY <2>1, <2>2, PlainReply
<1>3. CASE o \in certificateInspect(r)
  <2>1. o \in Reply({405}) \/ o \in Reply({400}) \/ o \in Reply(fileErr) \/ o \in Read
    BY <1>3 DEF certificateInspect, PostOnly, Decoded
  <2> QED
    BY <2>1, PlainReply, DoneStatus DEF fileErr
<1>4. CASE o \in logTail(r)
  <2>1. o \in Reply({400}) \/ o \in Reply({200, 400})
    BY <1>4 DEF logTail, Decoded
  <2> QED
    BY <2>1, PlainReply
<1> QED
  BY <1>1, <1>2, <1>3, <1>4, InventoryStatus, DoneStatus, PlainReply

(* No handler of a sensitive request answers with the status that the      *)
(* audit takes for a request for approval.                                 *)
LEMMA NoConflict ==
    ASSUME NEW c, NEW r, NEW o \in routes(c, r), Resolve(r) = "sensitive"
    PROVE  o.status # 409
<1>1. r.path \in Guarded
  BY SensitivePaths
<1>2. \/ o \in inventory(r) \/ o \in Read \/ o \in fileReads(r) \/ o \in dockerReconstruct(r)
      \/ o \in certificateInspect(r) \/ o \in logTail(r) \/ o \in Reply({404})
      \/ o \in power(c, r) \/ o \in powerRoute(c, r) \/ o \in exec(c, r) \/ o \in jobListOrStart(c, r)
      \/ o \in fileManage(r) \/ o \in networkManage(r) \/ o \in dockerCommand(r) \/ o \in qpkgManage(r)
      \/ o \in ecosystemCommand(c, r) \/ o \in snapshotAction(r) \/ o \in manageIdentity(r)
  BY <1>1 DEF routes, Guarded, GuardedAdapter, Power, Exec, Qpkg
<1> QED
  BY <1>2, CommandsArePlain, ManagersArePlain, ReadersArePlain DEF Plain

-----------------------------------------------------------------------------
(* No request has been served yet.                                         *)
LEMMA InitApi == Init => ApiInv
<1> SUFFICES ASSUME Init PROVE ApiInv
  OBVIOUS
<1>1. /\ phase = "idle" /\ req = NoRequest /\ event = "" /\ ticket = NoTicket /\ grant = NoRequest
      /\ done = {} /\ job = NoJob /\ record = NoRecord
  BY DEF Init, ApiInit
<1>2. NoTicket.state = "none"
  BY DEF NoTicket
<1>3. Changes = {}
  BY <1>1 DEF Changes
<1> QED
  BY <1>1, <1>2, <1>3 DEF ApiInv, TicketInv, RecordInv, ChangeInv

(* A ticket is spent by the handler it was approved for, and by no other.  *)
LEMMA TicketStep == ApiInv /\ [Next]_vars => TicketInv'
<1> SUFFICES ASSUME ApiInv, [Next]_vars PROVE TicketInv'
  OBVIOUS
<1> USE DEF ApiInv, TicketInv
<1>1. ASSUME NEW r \in Sent, RefuseSupplement(r) PROVE TicketInv'
  BY <1>1 DEF RefuseSupplement, Arrives, Refused, Outside
<1>2. ASSUME NEW r \in Sent, RequestApproval(r) PROVE TicketInv'
  BY <1>2 DEF RequestApproval, Arrives, Refused, Outside
<1>3. ASSUME NEW r \in Sent, Consume(r) PROVE TicketInv'
  BY <1>3 DEF Consume, Arrives, Passed, Valid, Outside, NoTicket
<1>4. ASSUME NEW r \in Sent, RefuseTicket(r) PROVE TicketInv'
  BY <1>4 DEF RefuseTicket, Arrives, Refused, Outside
<1>5. ASSUME NEW r \in Sent, Pass(r) PROVE TicketInv'
  BY <1>5 DEF Pass, Arrives, Passed, Outside
<1>n. NoTicket.state = "none"
  BY DEF NoTicket
<1>s. ASSUME phase = "handler", phase' = "audit", grant' = (IF grant = req THEN NoRequest ELSE grant),
             UNCHANGED <<conf, ticket>>
      PROVE  TicketInv'
  <2>1. ticket.state = "approved" => grant = ticket.req /\ grant # req
    BY <1>n, <1>s
  <2> QED
    BY <1>s, <2>1 DEF Outside
<1>6. CASE Handle \/ Panic
  BY <1>6, <1>s DEF Handle, Panic, Served, Answer
<1>7. CASE Describe
  BY <1>7 DEF Describe, Answer, Outside
<1>8. CASE approvalRoute
  <2>1. phase' = "audit" /\ conf' = conf /\ (status' = 200 => ticket.state = "pending")
    BY <1>8 DEF approvalRoute, Answer
  <2>2. CASE status' = 200
    <3>1. ticket # NoTicket
      BY <1>n, <2>1, <2>2
    <3>2. /\ ticket' = [ticket EXCEPT !.state = IF req.body.action = "approve" THEN "approved" ELSE "denied"]
          /\ grant' = IF req.body.action = "approve" THEN ticket.req ELSE grant
      BY <1>8, <2>2 DEF approvalRoute
    <3>3. /\ ticket'.req = ticket.req
          /\ ticket'.state = IF req.body.action = "approve" THEN "approved" ELSE "denied"
          /\ ticket' = [req |-> ticket'.req, state |-> ticket'.state]
      BY <3>1, <3>2
    <3> QED
      BY <2>1, <3>1, <3>2, <3>3 DEF Outside
  <2>3. CASE status' # 200
    <3>1. UNCHANGED <<ticket, grant>>
      BY <1>8, <2>3 DEF approvalRoute
    <3> QED
      BY <2>1, <3>1 DEF Outside
  <2> QED
    BY <2>2, <2>3
<1>9. CASE StartSnapshot
  BY <1>9 DEF StartSnapshot, Outside
<1>10. CASE Collecting
  BY <1>10 DEF Collecting, apiVars, Outside
<1>11. CASE AnswerSnapshot
  BY <1>11 DEF AnswerSnapshot, Answer, Outside
<1>12. CASE RunJob
  BY <1>12 DEF RunJob, Outside
<1>13. CASE auditOperation
  BY <1>13 DEF auditOperation, Outside
<1>14. CASE Crash \/ Begin
  BY <1>14, <1>n DEF Crash, Begin, Afresh
<1>15. CASE UNCHANGED vars
  BY <1>15 DEF vars, apiVars, Outside
<1> QED
  BY <1>1, <1>2, <1>3, <1>4, <1>5, <1>6, <1>7, <1>8, <1>9, <1>10, <1>11, <1>12, <1>13, <1>14, <1>15
     DEF Next

(* The record tells what the request was and how it ended.                 *)
LEMMA RecordStep == ApiInv /\ [Next]_vars => RecordInv'
<1> SUFFICES ASSUME ApiInv, [Next]_vars PROVE RecordInv'
  OBVIOUS
<1> USE DEF ApiInv
<1>0. \A r \in Sent : phase = "idle" /\ job = NoJob
  BY DEF Sent
<1>n. NoTicket.state = "none"
  BY DEF NoTicket
<1>t. ticket.state = "used" => requiresApproval(conf.mode, ticket.req) /\ ~Outside(ticket.req)
  BY <1>n DEF TicketInv
<1>1. ASSUME NEW r \in Sent, RefuseSupplement(r) PROVE RecordInv'
  BY <1>1, <1>t DEF RefuseSupplement, Arrives, Refused, RecordInv
<1>2. ASSUME NEW r \in Sent, RequestApproval(r) PROVE RecordInv'
  BY <1>0, <1>2 DEF RequestApproval, Arrives, Refused, RecordInv, Changes
<1>3. ASSUME NEW r \in Sent, Consume(r) PROVE RecordInv'
  BY <1>3 DEF Consume, Arrives, Passed, Valid, RecordInv, TicketInv, NoTicket
<1>4. ASSUME NEW r \in Sent, RefuseTicket(r) PROVE RecordInv'
  BY <1>0, <1>4 DEF RefuseTicket, Arrives, Refused, RecordInv, Changes
<1>5. ASSUME NEW r \in Sent, Pass(r) PROVE RecordInv'
  BY <1>5, <1>t DEF Pass, Arrives, Passed, RecordInv
<1>a. ASSUME phase \in {"handler", "snapshot"}, phase' = "audit", UNCHANGED <<req, event, ticket>>,
             status' = 409 => Resolve(req) # "sensitive"
      PROVE  RecordInv'
  BY <1>a DEF RecordInv
<1>6. CASE Handle \/ Panic
  <2>1. PICK o \in routes(conf, req) : status' = o.status \/ status' = 0
    BY <1>6 DEF Handle, Panic, Answer
  <2>2. status' = 409 => Resolve(req) # "sensitive"
    BY <2>1, NoConflict
  <2> QED
    BY <1>6, <1>a, <2>2 DEF Handle, Panic, Served, Answer
<1>7. CASE Describe
  <2>1. req.path \in Described \cup {"docker/reconstruct"}
    BY <1>7 DEF Describe, description, Described
  <2>2. Resolve(req) # "sensitive"
    BY <2>1, SensitivePaths DEF Described, Guarded, GuardedAdapter, Power, Exec, Qpkg
  <2> QED
    BY <1>7, <1>a, <2>2 DEF Describe, Answer
<1>8. CASE approvalRoute
  <2>1. /\ phase = "handler" /\ phase' = "audit"
        /\ ticket.state # "pending" => status' \in {400, 405, 409}
        /\ status' # 200 => ticket' = ticket
        /\ UNCHANGED <<req, event>> /\ req.path = "approvals"
    BY <1>8 DEF approvalRoute, Answer
  <2>2. ticket.state # "pending" => ticket' = ticket
    BY <2>1
  <2>3. phase = "handler" /\ phase' = "audit" /\ UNCHANGED <<req, event>>
    BY <2>1
  <2>4. Resolve(req) # "sensitive"
    BY <2>1, SensitivePaths DEF Guarded, GuardedAdapter, Power, Exec, Qpkg
  <2>5. ticket'.state = "used" => ticket' = ticket
    BY <1>8 DEF approvalRoute
  <2> QED
    BY <2>2, <2>3, <2>4, <2>5 DEF RecordInv
<1>9. CASE StartSnapshot
  BY <1>9 DEF StartSnapshot, RecordInv
<1>10. CASE Collecting
  BY <1>10 DEF Collecting, apiVars, RecordInv, Changes
<1>11. CASE AnswerSnapshot
  BY <1>11, <1>a DEF AnswerSnapshot, Answer
<1>12. CASE RunJob
  BY <1>12 DEF RunJob, RecordInv, Changes
<1>13. CASE auditOperation
  <2> DEFINE told == IF status = 0 THEN 200 ELSE status
             result == CASE event \notin {"", "approval_executed"} -> event
                         [] told = 409 /\ Resolve(req) = "sensitive" -> "approval_required"
                         [] Succeeded(told) -> "success"
                         [] OTHER -> "failed"
  <2>1. /\ phase = "audit" /\ phase' = "idle"
        /\ UNCHANGED <<req, event, status, ticket, job, done>>
    BY <1>13 DEF auditOperation
  <2>2. record' # NoRecord => record' = [result |-> result, risk |-> Resolve(req), event |-> event]
    BY <1>13 DEF auditOperation, Write
  <2>3. ~Succeeded(409) /\ (Succeeded(told) <=> Succeeded(status) \/ status = 0)
    BY DEF Succeeded
  <2>4. told = 409 <=> status = 409
    OBVIOUS
  <2> HIDE DEF told
  <2>5. /\ result = "success" <=> Succeeded(told)
        /\ event = "approval_executed" => result \in {"success", "failed"}
    <3>1. CASE event \notin {"", "approval_executed"}
      <4>1. status = 409 /\ event # "success"
        BY <3>1 DEF RecordInv
      <4>2. ~Succeeded(told) /\ told = 409
        BY <2>3, <2>4, <4>1
      <4>3. result \in {event, "approval_required"}
        BY <3>1, <4>2
      <4> QED
        BY <3>1, <4>1, <4>2, <4>3
    <3>2. CASE event \in {"", "approval_executed"} /\ told = 409 /\ Resolve(req) = "sensitive"
      <4>1. event = ""
        BY <2>1, <2>4, <3>2 DEF RecordInv
      <4>2. ~Succeeded(told)
        BY <2>3, <3>2
      <4>3. result = "approval_required"
        BY <3>2, <4>2
      <4> QED
        BY <4>1, <4>2, <4>3
    <3>3. CASE event \in {"", "approval_executed"} /\ ~(told = 409 /\ Resolve(req) = "sensitive") /\ Succeeded(told)
      BY <3>3
    <3>4. CASE event \in {"", "approval_executed"} /\ ~(told = 409 /\ Resolve(req) = "sensitive") /\ ~Succeeded(told)
      BY <3>4
    <3> QED
      BY <3>1, <3>2, <3>3, <3>4
  <2> HIDE DEF result
  <2>6. record' # NoRecord =>
            /\ record' = [result |-> record'.result, risk |-> Resolve(req), event |-> event]
            /\ record'.result = result
    BY <2>2
  <2>7. record' # NoRecord =>
            /\ record' = [result |-> record'.result, risk |-> Resolve(req'), event |-> event']
            /\ record'.result = "success" <=> Succeeded(status') \/ status' = 0
            /\ event' = "approval_executed" => record'.result \in {"success", "failed"}
    BY <2>1, <2>3, <2>5, <2>6
  <2>8. Changes' = Changes
    BY <2>1 DEF Changes
  <2> QED
    BY <2>1, <2>7, <2>8 DEF RecordInv
<1>14. CASE Crash \/ Begin
  BY <1>14, <1>n DEF Crash, Begin, Afresh, RecordInv
<1>15. CASE UNCHANGED vars
  BY <1>15 DEF vars, apiVars, RecordInv, Changes
<1> QED
  BY <1>1, <1>2, <1>3, <1>4, <1>5, <1>6, <1>7, <1>8, <1>9, <1>10, <1>11, <1>12, <1>13, <1>14, <1>15
     DEF Next

(* A change is proper for its request, and approved if it must be.         *)
LEMMA ChangeStep == ApiInv /\ [Next]_vars => ChangeInv'
<1> SUFFICES ASSUME ApiInv, [Next]_vars PROVE ChangeInv'
  OBVIOUS
<1>0. ASSUME NEW r \in Sent, Arrives(r) PROVE ChangeInv'
  BY <1>0 DEF Sent, Arrives, ChangeInv, Changes
<1>1. CASE Handle \/ Panic
  <2>1. PICK o \in routes(conf, req) : Served(o)
    BY <1>1 DEF Handle, Panic
  <2>2. Changes' \subseteq Changes \cup {Change(e) : e \in {o.effect, o.job} \ {None}}
    BY <2>1 DEF Served, Changes
  <2>3. phase = "handler" /\ UNCHANGED <<conf, req, event>>
    BY <1>1, <2>1 DEF Handle, Panic, Served
  <2>4. ASSUME NEW e \in {o.effect, o.job} \ {None}
        PROVE  /\ Change(e).req = req /\ Change(e).effect = e
               /\ Change(e).granted => requiresApproval(conf.mode, req) /\ event = "approval_executed"
               /\ conf.mode = "all_write" => Change(e).granted
               /\ conf.mode = "sensitive_only" /\ Destructive(e) => (Change(e).granted <=> ~Overlooked(req))
               /\ Resolve(req) # "read" /\ ~conf.supplement
               /\ "dry_run" \in req.body.opts => req.path \in Undecoded
    <3>1. Proper(req, e)
      BY RoutesLawful DEF Lawful
    <3>2. Resolve(req) # "read" /\ (Destructive(e) => (Resolve(req) = "sensitive" <=> ~Overlooked(req)))
      BY <3>1, ProperRisk
    <3>3. ~conf.supplement
      BY <2>3, <3>2, SupplementReads DEF ApiInv, TicketInv, Outside
    <3>4. grant = req <=> requiresApproval(conf.mode, req)
      <4>1. req # NoRequest
        <5>1. NoRequest.method = ""
          BY DEF NoRequest
        <5> QED
          BY <3>1, <5>1 DEF Proper, Decoding
      <4> QED
        BY <2>3, <4>1 DEF ApiInv, TicketInv
    <3>5. requiresApproval(conf.mode, req) => event = "approval_executed"
      BY <2>3 DEF ApiInv, TicketInv
    <3>6. req.path # "approvals"
      BY ApprovalsMakeNothing DEF Makes
    <3>7. /\ conf.mode = "all_write" => requiresApproval(conf.mode, req)
          /\ conf.mode = "sensitive_only" => (requiresApproval(conf.mode, req) <=> Resolve(req) = "sensitive")
      BY <3>2, <3>6 DEF requiresApproval
    <3>8. /\ Change(e).req = req /\ Change(e).effect = e
          /\ Change(e).granted <=> grant = req
      BY DEF Change
    <3> QED
      BY <3>1, <3>2, <3>3, <3>4, <3>5, <3>7, <3>8 DEF Proper
  <2> QED
    BY <2>2, <2>3, <2>4 DEF ApiInv, ChangeInv
<1>2. CASE \/ Describe \/ approvalRoute \/ StartSnapshot \/ Collecting \/ AnswerSnapshot
           \/ auditOperation \/ UNCHANGED vars
  <2>1. UNCHANGED <<conf, req, event, done, job>>
    BY <1>2 DEF Describe, approvalRoute, StartSnapshot, Collecting, AnswerSnapshot, auditOperation,
                vars, apiVars
  <2> QED
    BY <2>1 DEF ApiInv, ChangeInv, Changes
<1>3. CASE RunJob
  <2>1. UNCHANGED <<conf, req, event>> /\ Changes' \subseteq Changes
    BY <1>3 DEF RunJob, Changes
  <2> QED
    BY <2>1 DEF ApiInv, ChangeInv
<1>4. CASE Crash \/ Begin
  BY <1>4 DEF Crash, Begin, Afresh, ChangeInv, Changes
<1> QED
  BY <1>0, <1>1, <1>2, <1>3, <1>4
     DEF Next, RefuseSupplement, RequestApproval, Consume, RefuseTicket, Pass

(* The inductive invariant of a request's way through the agent.           *)
LEMMA ApiInductive == Spec => []ApiInv
<1>1. ApiInv /\ [Next]_vars => ApiInv'
  BY TicketStep, RecordStep, ChangeStep DEF ApiInv
<1> QED
  BY InitApi, <1>1, PTL DEF Spec

(* In mode all_write no change is made without an approval of exactly its  *)
(* request, and in mode sensitive_only a destructive change is made with   *)
(* one exactly when its request is not overlooked, whatever requests are   *)
(* sent in whatever order.                                                 *)
THEOREM ChangesNeedApproval == Spec => []ChangesAreApproved
<1>1. ApiInv => ChangesAreApproved
  BY DEF ApiInv, ChangeInv, Changes, ChangesAreApproved
<1> QED
  BY <1>1, ApiInductive, PTL

(* Nothing is changed for a request that counts as a read, nor by a        *)
(* read-only supplement.                                                   *)
THEOREM ReadsAreHarmless == Spec => []ReadsChangeNothing
<1>1. ApiInv => ReadsChangeNothing
  BY DEF ApiInv, ChangeInv, Changes, ReadsChangeNothing
<1> QED
  BY <1>1, ApiInductive, PTL

(* A request with dry_run changes nothing where the body is read at all.   *)
THEOREM DryRunsAreHarmless == Spec => []DryRunChangesNothing
<1>1. ApiInv => DryRunChangesNothing
  BY DEF ApiInv, ChangeInv, Changes, DryRunChangesNothing
<1> QED
  BY <1>1, ApiInductive, PTL

(* A record that reached the log agrees with the reply and the effects of  *)
(* its request, and shows the approval that the request consumed.          *)
THEOREM AuditsAreHonest == Spec => []AuditIsHonest
<1>1. ApiInv => AuditIsHonest
  <2> SUFFICES ASSUME ApiInv, phase = "idle", record # NoRecord
               PROVE  /\ record.result = "success" <=> Succeeded(status) \/ status = 0
                      /\ \A e \in done :
                             record.risk # "read" /\ (e.granted => record.event = "approval_executed")
                      /\ ticket.state = "used" /\ ticket.req = req =>
                             \/ record.event = "approval_executed"
                             \/ record.event = "approval_refused" /\ done = {}
                      /\ record.event = "approval_executed" =>
                             ticket.state = "used" /\ ticket.req = req /\ record.result \in {"success", "failed"}
    BY DEF AuditIsHonest
  <2>1. /\ record = [result |-> record.result, risk |-> Resolve(req), event |-> event]
        /\ record.result = "success" <=> Succeeded(status) \/ status = 0
        /\ event = "approval_executed" => record.result \in {"success", "failed"}
    BY DEF ApiInv, RecordInv
  <2>2. record.risk = Resolve(req) /\ record.event = event
    BY <2>1
  <2>3. \A e \in done : Resolve(req) # "read" /\ (e.granted => event = "approval_executed")
    BY DEF ApiInv, ChangeInv, Changes
  <2>4. event = "approval_executed" => ticket.state = "used" /\ ticket.req = req
    BY DEF ApiInv, RecordInv
  <2>5. ticket.state = "used" /\ ticket.req = req =>
            event = "approval_executed" \/ (event = "approval_refused" /\ done = {})
    BY DEF ApiInv, RecordInv, Changes
  <2> QED
    BY <2>1, <2>2, <2>3, <2>4, <2>5
<1> QED
  BY <1>1, ApiInductive, PTL

-----------------------------------------------------------------------------
(* A report has the fields it starts with.                                 *)
Report(t) ==
    t = [at |-> t.at, left |-> t.left, sensors |-> t.sensors,
         skipped |-> t.skipped, done |-> t.done,
         partial |-> t.partial, available |-> t.available]

(* The next question moves the report on and changes nothing else in it.   *)
LEMMA AskedKeeps ==
    ASSUME NEW t, NEW promised, Report(t)
    PROVE  /\ Report(asked(t, promised))
           /\ asked(t, promised).sensors = t.sensors /\ asked(t, promised).skipped = t.skipped
           /\ asked(t, promised).done = t.done /\ asked(t, promised).partial = t.partial
           /\ asked(t, promised).available = t.available
           /\ t.at \in Nat => asked(t, promised).at \in Nat
<1> DEFINE a == asked(t, promised)
<1>1. PICK at, left : /\ a = [t EXCEPT !.at = at, !.left = left]
                      /\ at \in {t.at, t.at + 1, (t.at + 1) + 1}
  <2> DEFINE next == t.at + 1
             count == IF next = 4 THEN (IF promised > FanCap THEN FanCap ELSE promised)
                      ELSE IF next = 6 THEN (IF promised > DiskCap THEN DiskCap ELSE promised)
                      ELSE 1
  <2>1. a = IF t.left > 1 THEN [t EXCEPT !.left = @ - 1]
            ELSE IF count > 0 THEN [t EXCEPT !.at = next, !.left = count]
            ELSE [t EXCEPT !.at = next + 1, !.left = 1]
    BY DEF asked, after
  <2> HIDE DEF count, next, a
  <2>2. \/ a = [t EXCEPT !.at = t.at, !.left = t.left - 1]
        \/ a = [t EXCEPT !.at = next, !.left = count]
        \/ a = [t EXCEPT !.at = next + 1, !.left = 1]
    BY <2>1 DEF Report
  <2> QED
    BY <2>2 DEF next
<1> HIDE DEF a
<1>2. /\ Report(a) /\ a.sensors = t.sensors /\ a.skipped = t.skipped /\ a.done = t.done
      /\ a.partial = t.partial /\ a.available = t.available /\ a.at = at
  BY <1>1 DEF Report
<1>3. t.at \in Nat => a.at \in Nat
  BY <1>1, <1>2
<1> QED
  BY <1>2, <1>3 DEF a

(* No snapshot has been asked for yet.                                     *)
LEMMA InitSnap == Init => SnapInv
<1> SUFFICES ASSUME Init PROVE SnapInv
  OBVIOUS
<1>1. /\ snap = "off" /\ entry = [m \in Module |-> "running"] /\ partial = FALSE
      /\ thermal = NoThermal /\ context = "live"
  BY DEF Init, SnapInit
<1> QED
  BY <1>1 DEF SnapInv, NoThermal

(* One question of the thermal goroutine.                                  *)
LEMMA GetStep == SnapInv /\ get => SnapInv'
<1> SUFFICES ASSUME SnapInv, get PROVE SnapInv'
  OBVIOUS
<1> DEFINE skip == [thermal EXCEPT !.skipped = @ + 1]
           more == [thermal EXCEPT !.sensors = @ + 1]
<1>1. PICK t, p : /\ thermal' = asked(t, p)
                  /\ \/ t = skip /\ context # "live"
                     \/ t = thermal
                     \/ t = more
  BY DEF get
<1>2. /\ Report(t) /\ t.at \in Nat /\ t.sensors \in Nat /\ t.skipped \in Nat
      /\ t.done = thermal.done /\ t.partial = thermal.partial /\ t.available = thermal.available
      /\ t.skipped = thermal.skipped \/ context # "live"
  <2>1. CASE t = skip /\ context # "live"
    BY <2>1 DEF SnapInv, Report
  <2>2. CASE t = thermal
    BY <2>2 DEF SnapInv, Report
  <2>3. CASE t = more
    BY <2>3 DEF SnapInv, Report
  <2> QED BY <1>1, <2>1, <2>2, <2>3
<1>3. ~ thermal.done
  <2>1. Len(Stage) \in Nat
    BY DEF Stage
  <2> QED
    BY <2>1 DEF get, SnapInv
<1>4. UNCHANGED <<snap, entry, partial, context>>
  BY DEF get
<1>5. /\ Report(thermal') /\ thermal'.at \in Nat
      /\ thermal'.sensors = t.sensors /\ thermal'.skipped = t.skipped
      /\ thermal'.done = t.done /\ thermal'.partial = t.partial /\ thermal'.available = t.available
  BY <1>1, <1>2, AskedKeeps
<1>6. snap = "collecting"
  BY DEF get
<1>7. thermal'.skipped > 0 => context' # "live"
  BY <1>2, <1>4, <1>5 DEF SnapInv
<1> QED
  BY <1>2, <1>3, <1>4, <1>5, <1>6, <1>7 DEF SnapInv, Report

(* Every step keeps the flag in line with the entries.                     *)
LEMMA SnapStep == SnapInv /\ [Next]_vars => SnapInv'
<1> SUFFICES ASSUME SnapInv, [Next]_vars PROVE SnapInv'
  OBVIOUS
<1>1. CASE StartSnapshot
  <2>1. PICK hwmon \in 0 .. 1 : thermal' = [NoThermal EXCEPT !.sensors = hwmon]
    BY <1>1 DEF StartSnapshot, statusSnapshot
  <2>2. /\ snap' = "collecting" /\ entry' = [m \in Module |-> "running"] /\ partial' = FALSE
        /\ context' = "live"
    BY <1>1 DEF StartSnapshot, statusSnapshot
  <2>3. thermal' = [at |-> 1, left |-> 1, sensors |-> hwmon, skipped |-> 0, done |-> FALSE,
                    partial |-> FALSE, available |-> TRUE]
    BY <2>1 DEF NoThermal
  <2>4. hwmon \in Nat
    BY <2>1
  <2> QED
    BY <2>2, <2>3, <2>4 DEF SnapInv
<1>2. ASSUME NEW m \in Module, addEntry(m) PROVE SnapInv'
  <2>1. PICK result \in {"ok", "failed"} :
            /\ entry' = [entry EXCEPT ![m] = result]
            /\ partial' = (partial \/ result = "failed")
    BY <1>2 DEF addEntry
  <2>2. entry[m] = "running" /\ snap = "collecting" /\ UNCHANGED <<snap, thermal, context>>
    BY <1>2 DEF addEntry
  <2>3. DOMAIN entry' = Module
        /\ \A k \in Module : entry'[k] = IF k = m THEN result ELSE entry[k]
    BY <2>1 DEF SnapInv
  <2>4. partial' <=> (thermal'.partial \/ \E k \in Module : entry'[k] = "failed")
    BY <2>1, <2>2, <2>3 DEF SnapInv
  <2> QED
    BY <2>2, <2>3, <2>4 DEF SnapInv
<1>3. CASE get
  BY <1>3, GetStep
<1>4. CASE thermalEntry
  <2>1. /\ thermal' = [thermal EXCEPT !.done = TRUE, !.partial = (context # "live"),
                                      !.available = (context = "live" \/ thermal.sensors > 0)]
        /\ partial' = (partial \/ context # "live")
        /\ snap = "collecting" /\ thermal.at > Len(Stage) /\ ~ thermal.done
        /\ UNCHANGED <<snap, entry, context>>
    BY <1>4 DEF thermalEntry
  <2>2. Report(thermal)
    BY DEF SnapInv, Report
  <2>3. /\ Report(thermal') /\ thermal'.at = thermal.at /\ thermal'.done = TRUE
        /\ thermal'.partial = (context # "live")
        /\ thermal'.available = (context = "live" \/ thermal.sensors > 0)
        /\ thermal'.sensors = thermal.sensors /\ thermal'.skipped = thermal.skipped
    BY <2>1, <2>2 DEF Report
  <2>4. partial' <=> (thermal'.partial \/ \E m \in Module : entry'[m] = "failed")
    BY <2>1, <2>3 DEF SnapInv
  <2> QED
    BY <2>1, <2>3, <2>4 DEF SnapInv, Report
<1>5. CASE contextEnds
  BY <1>5 DEF contextEnds, SnapInv
<1>6. CASE AnswerSnapshot
  BY <1>6 DEF AnswerSnapshot, answerSnapshot, Collected, SnapInv
<1>7. CASE auditOperation
  BY <1>7 DEF auditOperation, SnapInv
<1>8. CASE Crash \/ Begin
  <2>1. /\ snap' = "off" /\ entry' = [m \in Module |-> "running"] /\ partial' = FALSE
        /\ thermal' = NoThermal /\ context' = "live"
    BY <1>8 DEF Crash, Begin, Afresh
  <2> QED
    BY <2>1 DEF SnapInv, NoThermal
<1>9. ASSUME UNCHANGED snapVars PROVE SnapInv'
  BY <1>9 DEF snapVars, SnapInv
<1> QED
  BY <1>1, <1>2, <1>3, <1>4, <1>5, <1>6, <1>7, <1>8, <1>9
     DEF Next, RefuseSupplement, RequestApproval, Consume, RefuseTicket, Pass, Arrives, Handle, Panic, Served,
         Describe, approvalRoute, Collecting, Goroutine, RunJob, vars

(* The flag of a snapshot is exact, for any modules, any number of fans    *)
(* and disks, and any order of the goroutines.                             *)
THEOREM SnapshotFlagsAreExact == Spec => []SnapshotFlagIsExact
<1>1. SnapInv => SnapshotFlagIsExact
  BY DEF SnapInv, SnapshotFlagIsExact
<1> QED
  BY <1>1, InitSnap, SnapStep, PTL DEF Spec

-----------------------------------------------------------------------------
(* The reconstruction of a container: what each list of parts contributes, *)
(* as a membership for any one setting; then what becomes of that setting. *)

(* What a set of parts contributes to each of the three results.           *)
RunOf(P) == UNION {p.run : p \in P}
ComposeOf(P) == UNION {p.compose : p \in P}
LossOf(P) == UNION {p.loss : p \in P}

(* A setting is contributed by a part that has it.                         *)
LEMMA Contributes ==
    ASSUME NEW P, NEW x
    PROVE  /\ x \in RunOf(P) <=> \E p \in P : x \in p.run
           /\ x \in ComposeOf(P) <=> \E p \in P : x \in p.compose
           /\ x \in LossOf(P) <=> \E p \in P : x \in p.loss
BY DEF RunOf, ComposeOf, LossOf

(* The three sides of a part.                                              *)
LEMMA Sides ==
    ASSUME NEW a, NEW b, NEW c
    PROVE  Part(a, b, c).run = a /\ Part(a, b, c).compose = b /\ Part(a, b, c).loss = c
BY DEF Part

(* The three sides of a part that is written in both forms, or is lost.    *)
LEMMA KeySides ==
    ASSUME NEW F
    PROVE  /\ Both(F).run = Keys(F) /\ Both(F).compose = Keys(F) /\ Both(F).loss = {}
           /\ addLoss(F).run = {} /\ addLoss(F).compose = {} /\ addLoss(F).loss = Keys(F)
BY DEF Both, addLoss, Part

(* The variables that are redacted, and the settings that variables are.   *)
Secrets(d, redact) == IF redact THEN d.Env \cap SecretEnv ELSE {}
EnvOf(E) == {<<"Env", e>> : e \in E}

(* A key or a variable of Config is written in both forms or reported: the *)
(* report has StdinOnce, a missing image, an entrypoint of several words   *)
(* and the variables that are redacted.                                    *)
LEMMA ConfigParts ==
    ASSUME NEW d, NEW redact, NEW x
    PROVE  LET P == appendConfig(d, redact)
               w == \/ x \in Keys(d.config \cap ConfigEmitted)
                    \/ d.Image /\ x \in Keys({"Image"})
                    \/ d.Entrypoint = 1 /\ x \in Keys({"Entrypoint"})
                    \/ x \in EnvOf(d.Env \ Secrets(d, redact))
           IN  /\ x \in RunOf(P) <=> w
               /\ x \in ComposeOf(P) <=> w
               /\ x \in LossOf(P) <=> \/ x \in Keys(d.config \cap {"StdinOnce"})
                                      \/ ~d.Image /\ x \in Keys({"Image"})
                                      \/ d.Entrypoint \notin {0, 1} /\ x \in Keys({"Entrypoint"})
                                      \/ x \in EnvOf(Secrets(d, redact))
<1> DEFINE s == Secrets(d, redact)
           p1 == Both(d.config \cap ConfigEmitted)
           p2 == addLoss(d.config \cap {"StdinOnce"})
           p3 == IF d.Image THEN Both({"Image"}) ELSE addLoss({"Image"})
           p4 == CASE d.Entrypoint = 0 -> addLoss({})
                   [] d.Entrypoint = 1 -> Both({"Entrypoint"})
                   [] OTHER -> addLoss({"Entrypoint"})
           p5 == Part(EnvOf(d.Env \ s), EnvOf(d.Env \ s), EnvOf(s))
<1>1. appendConfig(d, redact) = {p1, p2, p3, p4, p5}
  BY DEF appendConfig, Secrets, EnvOf
<1>2. /\ x \in p3.run <=> d.Image /\ x \in Keys({"Image"})
      /\ x \in p3.compose <=> d.Image /\ x \in Keys({"Image"})
      /\ x \in p3.loss <=> ~d.Image /\ x \in Keys({"Image"})
  BY KeySides
<1>3. /\ x \in p4.run <=> d.Entrypoint = 1 /\ x \in Keys({"Entrypoint"})
      /\ x \in p4.compose <=> d.Entrypoint = 1 /\ x \in Keys({"Entrypoint"})
      /\ x \in p4.loss <=> d.Entrypoint \notin {0, 1} /\ x \in Keys({"Entrypoint"})
  <2>1. CASE d.Entrypoint = 0
    BY <2>1, KeySides DEF Keys
  <2>2. CASE d.Entrypoint = 1
    BY <2>2, KeySides
  <2>3. CASE d.Entrypoint \notin {0, 1}
    BY <2>3, KeySides
  <2> QED
    BY <2>1, <2>2, <2>3
<1>4. /\ p1.run = Keys(d.config \cap ConfigEmitted) /\ p1.loss = {}
      /\ p1.compose = Keys(d.config \cap ConfigEmitted)
      /\ p2.run = {} /\ p2.compose = {} /\ p2.loss = Keys(d.config \cap {"StdinOnce"})
  BY KeySides
<1>5. p5.run = EnvOf(d.Env \ s) /\ p5.compose = EnvOf(d.Env \ s) /\ p5.loss = EnvOf(s)
  BY Sides
<1> HIDE DEF p1, p2, p3, p4, p5
<1> QED
  BY <1>1, <1>2, <1>3, <1>4, <1>5, Contributes

(* A healthcheck reaches both forms as a shell command or disabled, and is *)
(* reported in every other form.                                           *)
LEMMA HealthcheckParts ==
    ASSUME NEW check
    PROVE  LET P == appendHealthcheck(check)
               x == <<"Healthcheck">>
           IN  /\ x \in RunOf(P) <=> check.test \in {"NONE", "CMD-SHELL"}
               /\ x \in ComposeOf(P) <=> check.test # "absent"
               /\ x \in LossOf(P) <=> check.test \notin {"absent", "NONE", "CMD-SHELL"}
               /\ LossOf(P) \subseteq {x}
               /\ \A y \in RunOf(P) \cup ComposeOf(P) : y = x \/ \E t : y = <<"Healthcheck", t>>
<1> DEFINE x == <<"Healthcheck">>
           timing == {<<"Healthcheck", t>> : t \in check.timing}
<1>1. x \notin timing /\ \A y \in timing : \E t : y = <<"Healthcheck", t>>
  OBVIOUS
<1> DEFINE P == appendHealthcheck(check)
<1>2. /\ check.test = "absent" => P = {}
      /\ check.test = "NONE" => P = {Part({x}, {x}, {})}
      /\ check.test = "CMD-SHELL" => P = {Part({x} \cup timing, {x} \cup timing, {})}
      /\ check.test \notin {"absent", "NONE", "CMD-SHELL"} => P = {Part(timing, {x} \cup timing, {x})}
  BY DEF appendHealthcheck
<1> SUFFICES /\ x \in RunOf(P) <=> check.test \in {"NONE", "CMD-SHELL"}
             /\ x \in ComposeOf(P) <=> check.test # "absent"
             /\ x \in LossOf(P) <=> check.test \notin {"absent", "NONE", "CMD-SHELL"}
             /\ LossOf(P) \subseteq {x}
             /\ \A y \in RunOf(P) \cup ComposeOf(P) : y = x \/ \E t : y = <<"Healthcheck", t>>
  OBVIOUS
<1> HIDE DEF x, timing, P
<1>3. CASE check.test = "absent"
  BY <1>2, <1>3, Contributes
<1>4. CASE check.test = "NONE"
  BY <1>2, <1>4, Contributes, Sides
<1>5. CASE check.test = "CMD-SHELL"
  <2> DEFINE both == {x} \cup timing
             p == Part(both, both, {})
  <2>1. P = {p}
    BY <1>2, <1>5
  <2> HIDE DEF both
  <2>2. p.run = both /\ p.compose = both /\ p.loss = {}
    BY Sides
  <2> HIDE DEF p
  <2>3. RunOf(P) = both /\ ComposeOf(P) = both /\ LossOf(P) = {}
    BY <2>1, <2>2 DEF RunOf, ComposeOf, LossOf
  <2> QED
    BY <1>1, <1>5, <2>3 DEF both
<1>6. CASE check.test \notin {"absent", "NONE", "CMD-SHELL"}
  <2> DEFINE both == {x} \cup timing
             p == Part(timing, both, {x})
  <2>1. P = {p}
    BY <1>2, <1>6
  <2> HIDE DEF both
  <2>2. p.run = timing /\ p.compose = both /\ p.loss = {x}
    BY Sides
  <2> HIDE DEF p
  <2>3. RunOf(P) = timing /\ ComposeOf(P) = both /\ LossOf(P) = {x}
    BY <2>1, <2>2 DEF RunOf, ComposeOf, LossOf
  <2> QED
    BY <1>1, <1>6, <2>3 DEF both
<1> QED
  BY <1>3, <1>4, <1>5, <1>6

(* The three lists that read the keys of HostConfig.                       *)
HostParts(d) == appendHostConfig(d) \cup appendPorts(d) \cup collectUnknownFields(d)

(* What becomes of a key of HostConfig, and of the keys nobody recognizes. *)
LEMMA HostSettings ==
    ASSUME NEW d, NEW x
    PROVE  LET P == HostParts(d)
               w == \/ x \in Keys(d.host \cap HostEmitted) \/ x \in Keys(d.host \cap ResourceEmitted)
                    \/ x \in Keys(d.host \cap {"LogConfig"}) \/ x \in Keys(d.host \cap {"PortBindings"})
           IN  /\ x \in RunOf(P) <=> \/ w
                                     \/ x \in Keys(d.host \cap {"PublishAllPorts"})
                                     \/ d.NetworkMode = "host" /\ x \in Keys({"NetworkMode"})
               /\ x \in ComposeOf(P) <=> w \/ (d.NetworkMode # "" /\ x \in Keys({"NetworkMode"}))
               /\ x \in LossOf(P) <=>
                      \/ x \in Keys(d.host \cap HostReported) \/ x \in Keys(d.host \cap ResourceReported)
                      \/ x \in Keys((d.config \ recognizedConfigField) \cup (d.host \ recognizedHostConfigField))
<1> DEFINE p1 == Both(d.host \cap HostEmitted)
           p2 == addLoss(d.host \cap HostReported)
           p3 == Part(Keys(d.host \cap {"PublishAllPorts"}), {}, {})
           r4 == IF d.NetworkMode = "host" THEN {<<"NetworkMode">>} ELSE {}
           c4 == IF d.NetworkMode # "" THEN {<<"NetworkMode">>} ELSE {}
           p4 == Part(r4, c4, {})
           p5 == Both(d.host \cap ResourceEmitted)
           p6 == addLoss(d.host \cap ResourceReported)
           p7 == Both(d.host \cap {"LogConfig"})
           p8 == Both(d.host \cap {"PortBindings"})
           p9 == addLoss((d.config \ recognizedConfigField) \cup (d.host \ recognizedHostConfigField))
<1>1. HostParts(d) = {p1, p2, p3, p4, p5, p6, p7, p8, p9}
  BY DEF HostParts, appendHostConfig, appendResourceFlags, appendLogging, appendPorts, collectUnknownFields
<1> HIDE DEF r4, c4
<1>2. /\ p1.run = Keys(d.host \cap HostEmitted)
      /\ p1.compose = Keys(d.host \cap HostEmitted) /\ p1.loss = {}
      /\ p5.run = Keys(d.host \cap ResourceEmitted)
      /\ p5.compose = Keys(d.host \cap ResourceEmitted) /\ p5.loss = {}
      /\ p7.run = Keys(d.host \cap {"LogConfig"})
      /\ p7.compose = Keys(d.host \cap {"LogConfig"}) /\ p7.loss = {}
      /\ p8.run = Keys(d.host \cap {"PortBindings"})
      /\ p8.compose = Keys(d.host \cap {"PortBindings"}) /\ p8.loss = {}
  BY KeySides
<1>3. /\ p2.run = {} /\ p2.compose = {} /\ p2.loss = Keys(d.host \cap HostReported)
      /\ p6.run = {} /\ p6.compose = {} /\ p6.loss = Keys(d.host \cap ResourceReported)
      /\ p9.run = {} /\ p9.compose = {}
      /\ p9.loss = Keys((d.config \ recognizedConfigField) \cup (d.host \ recognizedHostConfigField))
  BY KeySides
<1>4. /\ p3.run = Keys(d.host \cap {"PublishAllPorts"}) /\ p3.compose = {} /\ p3.loss = {}
      /\ p4.run = r4 /\ p4.compose = c4 /\ p4.loss = {}
  BY Sides
<1>5. /\ x \in r4 <=> d.NetworkMode = "host" /\ x \in Keys({"NetworkMode"})
      /\ x \in c4 <=> d.NetworkMode # "" /\ x \in Keys({"NetworkMode"})
  BY DEF r4, c4, Keys
<1> HIDE DEF p1, p2, p3, p4, p5, p6, p7, p8, p9
<1>6. x \in RunOf(HostParts(d)) <=>
          \/ x \in p1.run \/ x \in p2.run \/ x \in p3.run \/ x \in p4.run \/ x \in p5.run
          \/ x \in p6.run \/ x \in p7.run \/ x \in p8.run \/ x \in p9.run
  BY <1>1, Contributes
<1>7. x \in ComposeOf(HostParts(d)) <=>
          \/ x \in p1.compose \/ x \in p2.compose \/ x \in p3.compose \/ x \in p4.compose
          \/ x \in p5.compose \/ x \in p6.compose \/ x \in p7.compose \/ x \in p8.compose
          \/ x \in p9.compose
  BY <1>1, Contributes
<1>8. x \in LossOf(HostParts(d)) <=>
          \/ x \in p1.loss \/ x \in p2.loss \/ x \in p3.loss \/ x \in p4.loss \/ x \in p5.loss
          \/ x \in p6.loss \/ x \in p7.loss \/ x \in p8.loss \/ x \in p9.loss
  BY <1>1, Contributes
<1> QED
  BY <1>2, <1>3, <1>4, <1>5, <1>6, <1>7, <1>8

(* A volume of a form is read back as the parts it was written from.       *)
LEMMA TargetOf ==
    ASSUME NEW form, NEW S, NEW v \in Seq(S), v # <<>>, <<"Volume">> \o v \in form
    PROVE  volumeTarget(v) \in Targets(form)
<1> DEFINE w == <<"Volume">> \o v
<1>1. /\ w \in Seq(S \cup {"Volume"})
      /\ Len(w) = Len(v) + 1 /\ Len(v) > 0 /\ Len(w) > 1 /\ w[1] = "Volume"
      /\ \A i \in 1 .. Len(v) : w[i + 1] = v[i]
  OBVIOUS
<1>2. Tail(w) = v
  <2> HIDE DEF w
  <2>1. Tail(w) \in Seq(S \cup {"Volume"}) /\ Len(Tail(w)) = Len(v)
    BY <1>1
  <2>2. \A i \in 1 .. Len(v) : Tail(w)[i] = v[i]
    BY <1>1
  <2>3. v \in Seq(S \cup {"Volume"})
    OBVIOUS
  <2> QED
    BY <2>1, <2>2, <2>3, SeqEqual
<1> QED
  BY <1>1, <1>2 DEF Targets

(* What a volume is written from.                                          *)
Word == Place \cup {"", "ro"}

(* A mount is written with its destination as the target, but for Compose  *)
(* when it is anonymous and read-only.                                     *)
LEMMA MountValues ==
    ASSUME NEW m \in Mount
    PROVE  /\ runValue(m) \in Seq(Word) /\ runValue(m) # <<>>
           /\ composeValue(m) \in Seq(Word) /\ composeValue(m) # <<>>
           /\ volumeTarget(runValue(m)) = m.Destination
           /\ volumeTarget(composeValue(m)) = IF m.Source = "" /\ ~m.RW THEN "ro" ELSE m.Destination
<1>1. m.Source \in Word /\ m.Destination \in Word /\ "ro" \in Word /\ m.RW \in BOOLEAN
  BY DEF Mount, Word
<1> DEFINE ro == readonly(m)
<1>2. ro \in Seq(Word) /\ (m.RW => Len(ro) = 0) /\ (~m.RW => Len(ro) = 1 /\ ro[1] = "ro")
  BY <1>1 DEF readonly
<1> HIDE DEF ro
<1>3. ASSUME NEW a \in Word, NEW b \in Word
      PROVE  /\ <<a, b>> \o ro \in Seq(Word) /\ <<a, b>> \o ro # <<>>
             /\ volumeTarget(<<a, b>> \o ro) = b
  <2>1. /\ <<a, b>> \o ro \in Seq(Word)
        /\ Len(<<a, b>> \o ro) = 2 + Len(ro) /\ (<<a, b>> \o ro)[2] = b
    BY <1>2
  <2> QED
    BY <1>2, <2>1 DEF volumeTarget
<1>4. ASSUME NEW b \in Word
      PROVE  /\ <<b>> \o ro \in Seq(Word) /\ <<b>> \o ro # <<>>
             /\ volumeTarget(<<b>> \o ro) = IF m.RW THEN b ELSE "ro"
  <2>1. /\ <<b>> \o ro \in Seq(Word)
        /\ Len(<<b>> \o ro) = 1 + Len(ro) /\ (<<b>> \o ro)[1] = b
        /\ ~m.RW => (<<b>> \o ro)[2] = "ro"
    BY <1>2
  <2> QED
    BY <1>1, <1>2, <2>1 DEF volumeTarget
<1>5. /\ runValue(m) = <<m.Source, m.Destination>> \o ro
      /\ m.Source = "" => composeValue(m) = <<m.Destination>> \o ro
      /\ m.Source # "" => composeValue(m) = <<m.Source, m.Destination>> \o ro
  BY DEF runValue, composeValue, ro
<1>6. runValue(m) \in Seq(Word) /\ runValue(m) # <<>> /\ volumeTarget(runValue(m)) = m.Destination
  BY <1>1, <1>3, <1>5
<1>7. CASE m.Source = ""
  BY <1>1, <1>4, <1>5, <1>6, <1>7
<1>8. CASE m.Source # ""
  BY <1>1, <1>3, <1>5, <1>6, <1>8
<1> QED
  BY <1>7, <1>8

(* The two lists that write volumes, the mounts that are reported, and the *)
(* volumes of the image that no mount is at.                               *)
MountParts(d) == appendMounts(d) \cup appendConfigVolumes(d)
Lost(d) == {i \in DOMAIN d.Mounts : ~skipped(d, i) /\ ~renderable(d.Mounts[i])}
Untargeted(d) == d.Volumes \ {volumeTarget(v) : v \in volumesOf(d)}

(* What the volumes of the two forms are written from: binds, mounts that  *)
(* are not skipped with their details on the command line alone, and the   *)
(* volumes of the image without a mount.                                   *)
LEMMA VolumeParts ==
    ASSUME NEW d
    PROVE  LET P == MountParts(d)
           IN  /\ \A v \in d.Binds : <<"Volume">> \o v \in RunOf(P) /\ <<"Volume">> \o v \in ComposeOf(P)
               /\ \A i \in written(d) : /\ <<"Volume">> \o runValue(d.Mounts[i]) \in RunOf(P)
                                        /\ <<"Volume">> \o composeValue(d.Mounts[i]) \in ComposeOf(P)
               /\ \A t \in Untargeted(d) : <<"Volume", t>> \in RunOf(P) /\ <<"Volume", t>> \in ComposeOf(P)
               /\ LossOf(P) = {<<"Mounts", d.Mounts[i].Destination>> : i \in Lost(d)}
               /\ \A i \in written(d) : \A o \in details(d.Mounts[i]) :
                      <<"Volume", d.Mounts[i].Destination, o>> \in RunOf(P)
               /\ \A y \in ComposeOf(P) :
                      (\E v \in volumesOf(d) : y = <<"Volume">> \o v) \/ (\E t : y = <<"Volume", t>>)
               /\ \A y \in RunOf(P) \cup ComposeOf(P) :
                      (\E v : /\ y = <<"Volume">> \o v
                              /\ v \in volumesOf(d) \cup {runValue(d.Mounts[i]) : i \in written(d)})
                      \/ (\E t : y = <<"Volume", t>>) \/ (\E t, o : y = <<"Volume", t, o>>)
<1> DEFINE compose == {<<"Volume">> \o v : v \in volumesOf(d)}
           values == {runValue(d.Mounts[i]) : i \in written(d)}
           runs == {<<"Volume">> \o v : v \in d.Binds \cup values}
           opts(i) == {<<"Volume", d.Mounts[i].Destination, o>> : o \in details(d.Mounts[i])}
           options == UNION {opts(i) : i \in written(d)}
           losses == {<<"Mounts", d.Mounts[i].Destination>> : i \in Lost(d)}
           new == {<<"Volume", t>> : t \in Untargeted(d)}
           r1 == runs \cup options
           p1 == Part(r1, compose, losses)
           p2 == Part(new, new, {})
<1>1. MountParts(d) = {p1, p2}
  BY DEF MountParts, appendMounts, appendConfigVolumes, Lost, Untargeted
<1> HIDE DEF r1, compose, losses, new
<1>2. /\ p1.run = r1 /\ p1.compose = compose /\ p1.loss = losses
      /\ p2.run = new /\ p2.compose = new /\ p2.loss = {}
  BY Sides
<1> HIDE DEF p1, p2
<1>3. RunOf(MountParts(d)) = r1 \cup new
  BY <1>1, <1>2 DEF RunOf
<1>4. ComposeOf(MountParts(d)) = compose \cup new
  BY <1>1, <1>2 DEF ComposeOf
<1>5. LossOf(MountParts(d)) = losses
  BY <1>1, <1>2 DEF LossOf
<1>6. \A v \in d.Binds : <<"Volume">> \o v \in r1 /\ <<"Volume">> \o v \in compose
  BY DEF r1, compose, volumesOf
<1>7. \A i \in written(d) : /\ <<"Volume">> \o runValue(d.Mounts[i]) \in r1
                            /\ <<"Volume">> \o composeValue(d.Mounts[i]) \in compose
  BY DEF r1, compose, volumesOf
<1>8. \A t \in Untargeted(d) : <<"Volume", t>> \in new
  BY DEF new
<1>9. \A y \in new : \E t : y = <<"Volume", t>>
  BY DEF new
<1>10. \A y \in compose : \E v : y = <<"Volume">> \o v /\ v \in volumesOf(d)
  BY DEF compose
<1>11. \A y \in runs : \E v : y = <<"Volume">> \o v /\ v \in volumesOf(d) \cup values
  BY DEF volumesOf
<1>12. \A y \in options : \E t, o : y = <<"Volume", t, o>>
  OBVIOUS
<1>13. \A i \in written(d) : \A o \in details(d.Mounts[i]) :
            <<"Volume", d.Mounts[i].Destination, o>> \in options
  OBVIOUS
<1> HIDE DEF runs, options, values
<1>14. /\ \A y \in r1 : y \in runs \/ y \in options
       /\ \A y \in options : y \in r1
  BY DEF r1
<1>15. /\ \A i \in written(d) : \A o \in details(d.Mounts[i]) :
              <<"Volume", d.Mounts[i].Destination, o>> \in RunOf(MountParts(d))
       /\ \A y \in ComposeOf(MountParts(d)) :
              (\E v \in volumesOf(d) : y = <<"Volume">> \o v) \/ (\E t : y = <<"Volume", t>>)
  BY <1>3, <1>4, <1>9, <1>10, <1>13, <1>14
<1> QED
  BY <1>3, <1>4, <1>5, <1>6, <1>7, <1>8, <1>9, <1>10, <1>11, <1>12, <1>14, <1>15 DEF losses, values

(* A set of numbers that is not empty has a least one.                     *)
LEMMA Least ==
    ASSUME NEW T, T \subseteq Nat, T # {}
    PROVE  \E x \in T : \A y \in T : x <= y
<1> DEFINE R == OpToRel(<,Nat)
<1>1. IsWellFoundedOn(R, Nat)
  BY NatLessThanWellFounded
<1>2. \A x, y \in Nat : y < x => <<y, x>> \in R
  BY DEF OpToRel
<1> HIDE DEF R
<1>3. \E x \in T : \A y \in T : ~ (<<y, x>> \in R)
  BY <1>1, WFMin
<1>4. PICK x \in T : \A y \in T : ~ (<<y, x>> \in R)
  BY <1>3
<1>5. \A y \in T : ~ (y < x)
  BY <1>2, <1>4
<1>6. \A y \in T : x <= y
  BY <1>5
<1> QED BY <1>6

(* A mount with a destination is a target of both forms, or it is lost: a  *)
(* mount that was skipped has the target of a bind or of the first mount   *)
(* with its source and destination, which was written.                     *)
LEMMA MountsAreTold ==
    ASSUME NEW d \in Document, NEW r, NEW i \in DOMAIN d.Mounts,
           RunOf(MountParts(d)) \subseteq r.run, ComposeOf(MountParts(d)) \subseteq r.compose,
           LossOf(MountParts(d)) \subseteq r.loss
    PROVE  LET t == d.Mounts[i].Destination
           IN  \/ <<"Mounts", t>> \in r.loss
               \/ t \in Targets(r.run) /\ t \in Targets(r.compose) \cup MisreadTargets(d)
<1> DEFINE t == d.Mounts[i].Destination
<1>1. /\ d.Mounts \in Seq(Mount) /\ \A b \in d.Binds : b \in Seq(Place \cup {"ro"}) /\ b # <<>>
      /\ \A j \in DOMAIN d.Mounts : d.Mounts[j] \in Mount
      /\ DOMAIN d.Mounts \subseteq Nat
  <2>1. d.Mounts \in Seq(Mount) /\ d.Binds \in SUBSET (Seq(Place \cup {"ro"}) \ {<<>>})
    BY DEF Document
  <2> HIDE DEF Mount
  <2>2. \A j \in DOMAIN d.Mounts : d.Mounts[j] \in Mount /\ j \in Nat
    BY <2>1
  <2>3. \A b \in d.Binds : b \in Seq(Place \cup {"ro"}) /\ b # <<>>
    BY <2>1
  <2> QED
    BY <2>1, <2>2, <2>3
<1>2. ASSUME NEW j \in written(d), d.Mounts[j].Destination = t
      PROVE  t \in Targets(r.run) /\ t \in Targets(r.compose) \cup MisreadTargets(d)
  <2> DEFINE m == d.Mounts[j]
  <2>1. m \in Mount /\ j \in DOMAIN d.Mounts
    BY <1>1 DEF written
  <2>2. <<"Volume">> \o runValue(m) \in r.run /\ <<"Volume">> \o composeValue(m) \in r.compose
    BY VolumeParts
  <2>3. t \in Targets(r.run)
    BY <1>2, <2>1, <2>2, MountValues, TargetOf
  <2>4. CASE m.Source = "" /\ ~m.RW
    BY <1>2, <2>1, <2>3, <2>4 DEF MisreadTargets
  <2>5. CASE ~ (m.Source = "" /\ ~m.RW)
    <3>1. t \in Targets(r.compose)
      BY <1>2, <2>1, <2>2, <2>5, MountValues, TargetOf
    <3> QED
      BY <2>3, <3>1
  <2> QED
    BY <2>4, <2>5
<1>3. ASSUME NEW b \in d.Binds, mountKey(d.Mounts[i]) = bindTargetKey(b)
      PROVE  t \in Targets(r.run) /\ t \in Targets(r.compose) \cup MisreadTargets(d)
  <2>1. b \in Seq(Place \cup {"ro"}) /\ b # <<>>
    BY <1>1
  <2>2. Len(b) >= 2 /\ b[2] = t
    <3>1. CASE Len(b) < 2
      BY <1>3, <3>1 DEF mountKey, bindTargetKey
    <3>2. CASE ~ (Len(b) < 2)
      BY <1>3, <2>1, <3>2 DEF mountKey, bindTargetKey
    <3> QED
      BY <3>1, <3>2
  <2>3. volumeTarget(b) = t
    BY <2>2 DEF volumeTarget
  <2>4. <<"Volume">> \o b \in r.run /\ <<"Volume">> \o b \in r.compose
    BY VolumeParts
  <2> QED
    BY <2>1, <2>3, <2>4, TargetOf
<1>4. CASE ~skipped(d, i) /\ renderable(d.Mounts[i])
  BY <1>2, <1>4 DEF written
<1>5. CASE ~skipped(d, i) /\ ~renderable(d.Mounts[i])
  <2>1. i \in Lost(d)
    BY <1>5 DEF Lost
  <2>2. <<"Mounts", t>> \in LossOf(MountParts(d))
    BY <2>1, VolumeParts
  <2> QED
    BY <2>2
<1>6. CASE mountKey(d.Mounts[i]) \in {bindTargetKey(b) : b \in d.Binds}
  BY <1>3, <1>6
<1>7. CASE /\ mountKey(d.Mounts[i]) \notin {bindTargetKey(b) : b \in d.Binds}
           /\ \E j \in 1 .. i - 1 : mountKey(d.Mounts[j]) = mountKey(d.Mounts[i]) /\ renderable(d.Mounts[j])
  <2> DEFINE T == {j \in 1 .. i - 1 : mountKey(d.Mounts[j]) = mountKey(d.Mounts[i]) /\ renderable(d.Mounts[j])}
  <2>1. T \subseteq Nat /\ T # {}
    BY <1>1, <1>7
  <2>2. PICK j \in T : \A k \in T : j <= k
    BY <2>1, Least
  <2>3. j \in DOMAIN d.Mounts /\ j \in Nat
    BY <1>1
  <2>4. ~ \E k \in 1 .. j - 1 : mountKey(d.Mounts[k]) = mountKey(d.Mounts[j]) /\ renderable(d.Mounts[k])
    <3> SUFFICES ASSUME NEW k \in 1 .. j - 1, mountKey(d.Mounts[k]) = mountKey(d.Mounts[j]),
                        renderable(d.Mounts[k])
                 PROVE  FALSE
      OBVIOUS
    <3>1. k \in T
      BY <1>1, <2>3
    <3> QED
      BY <2>2, <2>3, <3>1
  <2>5. j \in written(d)
    BY <1>7, <2>3, <2>4 DEF written, skipped
  <2>6. d.Mounts[j].Destination = t
    BY <2>2 DEF mountKey
  <2> QED
    BY <1>2, <2>5, <2>6
<1> QED
  BY <1>4, <1>5, <1>6, <1>7 DEF skipped

(* The details of a mount are never part of a Compose volume, and a mount  *)
(* that is written has them on the command line.                           *)
LEMMA DetailsAreTold ==
    ASSUME NEW d \in Document, NEW i \in DOMAIN d.Mounts, NEW o \in details(d.Mounts[i])
    PROVE  LET x == <<"Volume", d.Mounts[i].Destination, o>>
           IN  /\ x \notin ComposeOf(MountParts(d))
               /\ i \in written(d) => x \in RunOf(MountParts(d))
<1> DEFINE t == d.Mounts[i].Destination
           x == <<"Volume", t, o>>
<1>1. d.Mounts \in Seq(Mount) /\ d.Binds \in SUBSET (Seq(Place \cup {"ro"}) \ {<<>>})
  BY DEF Document
<1>2. \A j \in written(d) : d.Mounts[j] \in Mount
  <2> HIDE DEF Mount
  <2> QED
    BY <1>1 DEF written
<1>3. \A v \in volumesOf(d) : v \in Seq(Word)
  <2>1. \A v \in d.Binds : v \in Seq(Word)
    <3> SUFFICES ASSUME NEW v \in d.Binds PROVE v \in Seq(Word)
      OBVIOUS
    <3>1. v \in Seq(Place \cup {"ro"}) /\ Place \cup {"ro"} \subseteq Word
      BY <1>1 DEF Word
    <3> QED
      BY <3>1
  <2> QED
    BY <1>2, <2>1, MountValues DEF volumesOf
<1>4. o \notin Word
  BY ReconstructionAssumption DEF details, Word
<1>5. ASSUME NEW v \in Seq(Word), x = <<"Volume">> \o v PROVE FALSE
  <2> DEFINE w == <<"Volume">> \o v
             n == Len(v)
             l == Len(w)
  <2>1. n \in Nat /\ l = n + 1 /\ \A k \in 1 .. n : w[k + 1] = v[k] /\ v[k] \in Word
    OBVIOUS
  <2>2. Len(x) = 3 /\ x[3] = o
    OBVIOUS
  <2>3. w = x
    BY <1>5
  <2>4. l = 3 /\ w[3] = o
    BY <2>2, <2>3
  <2> HIDE DEF n, l, w, x
  <2>5. n = 2
    BY <2>1, <2>4
  <2>6. 2 \in 1 .. n /\ 2 + 1 = 3
    BY <2>5
  <2>7. w[3] = v[2] /\ v[2] \in Word
    BY <2>1, <2>6
  <2> QED
    BY <1>4, <2>4, <2>7
<1>6. \A u : x # <<"Volume", u>>
  OBVIOUS
<1> HIDE DEF x
<1>7. x \notin ComposeOf(MountParts(d))
  BY <1>3, <1>5, <1>6, VolumeParts
<1>8. i \in written(d) => x \in RunOf(MountParts(d))
  BY VolumeParts DEF x
<1> QED
  BY <1>7, <1>8 DEF x

(* A declared volume is a target of both forms.                            *)
LEMMA VolumesAreTold ==
    ASSUME NEW d \in Document, NEW r, NEW t \in d.Volumes,
           RunOf(MountParts(d)) \subseteq r.run, ComposeOf(MountParts(d)) \subseteq r.compose
    PROVE  t \in Targets(r.run) \cap Targets(r.compose)
<1>1. /\ t \in Place /\ t # "ro" /\ t \in Word
      /\ \A b \in d.Binds : b \in Seq(Place \cup {"ro"}) /\ b # <<>>
      /\ \A j \in written(d) : d.Mounts[j] \in Mount
  <2>1. d.Mounts \in Seq(Mount) /\ d.Binds \in SUBSET (Seq(Place \cup {"ro"}) \ {<<>>}) /\ t \in Place
    BY DEF Document
  <2> HIDE DEF Mount
  <2>2. \A j \in written(d) : d.Mounts[j] \in Mount
    BY <2>1 DEF written
  <2>3. \A b \in d.Binds : b \in Seq(Place \cup {"ro"}) /\ b # <<>>
    BY <2>1
  <2>4. t # "ro" /\ t \in Word
    BY <2>1, ReconstructionAssumption DEF Word
  <2> QED
    BY <2>1, <2>2, <2>3, <2>4
<1>2. CASE t \in Untargeted(d)
  <2>1. <<"Volume", t>> \in r.run /\ <<"Volume", t>> \in r.compose
    BY <1>2, VolumeParts
  <2>2. <<t>> \in Seq(Word) /\ <<t>> # <<>> /\ volumeTarget(<<t>>) = t
    BY <1>1 DEF volumeTarget
  <2>3. <<"Volume">> \o <<t>> = <<"Volume", t>>
    <3> DEFINE a == <<"Volume">> \o <<t>>
               b == <<"Volume", t>>
    <3>1. /\ a \in Seq({"Volume", t}) /\ b \in Seq({"Volume", t})
          /\ Len(a) = 2 /\ Len(b) = 2 /\ a[1] = b[1] /\ a[2] = b[2]
      OBVIOUS
    <3> HIDE DEF a, b
    <3>2. \A i \in 1 .. Len(a) : a[i] = b[i]
      BY <3>1
    <3>3. a = b
      BY <3>1, <3>2, SeqEqual
    <3> QED
      BY <3>3 DEF a, b
  <2> QED
    BY <2>1, <2>2, <2>3, TargetOf
<1>3. CASE t \notin Untargeted(d)
  <2>1. PICK v \in volumesOf(d) : t = volumeTarget(v)
    BY <1>3 DEF Untargeted
  <2>2. CASE v \in d.Binds
    BY <1>1, <2>1, <2>2, VolumeParts, TargetOf
  <2>3. CASE \E j \in written(d) : v = composeValue(d.Mounts[j])
    <3>1. PICK j \in written(d) : v = composeValue(d.Mounts[j])
      BY <2>3
    <3>2. <<"Volume">> \o runValue(d.Mounts[j]) \in r.run /\ <<"Volume">> \o v \in r.compose
      BY <3>1, VolumeParts
    <3>3. volumeTarget(runValue(d.Mounts[j])) = t
      BY <1>1, <2>1, <3>1, MountValues
    <3> QED
      BY <1>1, <2>1, <3>1, <3>2, <3>3, MountValues, TargetOf
  <2> QED
    BY <2>2, <2>3 DEF volumesOf
<1> QED
  BY <1>2, <1>3

(* The networks of a container, and what the endpoint of one contributes.  *)
Names(d) == {n \in Net : d.Networks[n] # NoEndpoint}
Single(d) == \A m, n \in Names(d) : m = n
NetOf(n, S) == {<<"Networks", n, a>> : a \in S}
EndpointParts(d, n) ==
    {Part({<<"Networks", n>>} \cup NetOf(n, d.Networks[n] \cap {"Aliases"}),
          {<<"Networks", n>>} \cup NetOf(n, d.Networks[n] \cap {"Aliases"}),
          NetOf(n, d.Networks[n] \cap {"Address", "DriverOpts"})),
     IF Single(d) THEN Part(NetOf(n, d.Networks[n] \cap {"MacAddress"}),
                            NetOf(n, d.Networks[n] \cap {"MacAddress"}), {})
     ELSE Part({}, {}, NetOf(n, d.Networks[n] \cap {"MacAddress"}))}

(* What the endpoint of one network contributes.                           *)
LEMMA EndpointSides ==
    ASSUME NEW d, NEW n, NEW x
    PROVE  LET P == EndpointParts(d, n)
               w == \/ x = <<"Networks", n>> \/ x \in NetOf(n, d.Networks[n] \cap {"Aliases"})
                    \/ Single(d) /\ x \in NetOf(n, d.Networks[n] \cap {"MacAddress"})
           IN  /\ (\E p \in P : x \in p.run) <=> w
               /\ (\E p \in P : x \in p.compose) <=> w
               /\ (\E p \in P : x \in p.loss) <=>
                      \/ x \in NetOf(n, d.Networks[n] \cap {"Address", "DriverOpts"})
                      \/ ~Single(d) /\ x \in NetOf(n, d.Networks[n] \cap {"MacAddress"})
<1> DEFINE e == {<<"Networks", n>>} \cup NetOf(n, d.Networks[n] \cap {"Aliases"})
           l == NetOf(n, d.Networks[n] \cap {"Address", "DriverOpts"})
           mac == NetOf(n, d.Networks[n] \cap {"MacAddress"})
           p1 == Part(e, e, l)
           p2 == IF Single(d) THEN Part(mac, mac, {}) ELSE Part({}, {}, mac)
<1>1. EndpointParts(d, n) = {p1, p2}
  BY DEF EndpointParts
<1>2. x \in e <=> x = <<"Networks", n>> \/ x \in NetOf(n, d.Networks[n] \cap {"Aliases"})
  OBVIOUS
<1> HIDE DEF e, l, mac
<1>3. p1.run = e /\ p1.compose = e /\ p1.loss = l
  BY Sides
<1>4. /\ x \in p2.run <=> Single(d) /\ x \in mac
      /\ x \in p2.compose <=> Single(d) /\ x \in mac
      /\ x \in p2.loss <=> ~Single(d) /\ x \in mac
  <2>1. CASE Single(d)
    BY <2>1, Sides
  <2>2. CASE ~Single(d)
    BY <2>2, Sides
  <2> QED
    BY <2>1, <2>2
<1> HIDE DEF p1, p2
<1> QED
  BY <1>1, <1>2, <1>3, <1>4 DEF l, mac

(* An attribute of a network is written in both forms or lost; nothing     *)
(* else comes of the networks.                                             *)
LEMMA NetworkParts ==
    ASSUME NEW d
    PROVE  LET P == appendNetworks(d)
           IN  /\ \A y \in RunOf(P) \cup ComposeOf(P) \cup LossOf(P) :
                      \E n : y = <<"Networks", n>> \/ \E a : y = <<"Networks", n, a>>
               /\ \A n \in Names(d) :
                  \A a \in d.Networks[n] \cap {"Address", "MacAddress", "DriverOpts", "Aliases"} :
                      LET x == <<"Networks", n, a>>
                      IN  (x \in RunOf(P) /\ x \in ComposeOf(P)) <=> x \notin LossOf(P)
<1> DEFINE P == appendNetworks(d)
<1>1. P = UNION {EndpointParts(d, n) : n \in Names(d)}
  BY DEF appendNetworks, EndpointParts, Names, Single, NetOf
<1> HIDE DEF P
<1>2. ASSUME NEW x
      PROVE  /\ x \in RunOf(P) <=> \E n \in Names(d) : \E p \in EndpointParts(d, n) : x \in p.run
             /\ x \in ComposeOf(P) <=> \E n \in Names(d) : \E p \in EndpointParts(d, n) : x \in p.compose
             /\ x \in LossOf(P) <=> \E n \in Names(d) : \E p \in EndpointParts(d, n) : x \in p.loss
  BY <1>1, Contributes
<1>3. \A n, S : \A y \in NetOf(n, S) : \E a : y = <<"Networks", n, a>>
  BY DEF NetOf
<1>4. \A n, m, a, S : <<"Networks", n, a>> \in NetOf(m, S) <=> n = m /\ a \in S
  BY DEF NetOf
<1>5. ASSUME NEW y \in RunOf(P) \cup ComposeOf(P) \cup LossOf(P)
      PROVE  \E n : y = <<"Networks", n>> \/ \E a : y = <<"Networks", n, a>>
  <2>1. PICK n \in Names(d) : \E p \in EndpointParts(d, n) : y \in p.run \/ y \in p.compose \/ y \in p.loss
    BY <1>2
  <2>2. y = <<"Networks", n>> \/ \E S : y \in NetOf(n, S)
    BY <2>1, EndpointSides
  <2> QED
    BY <1>3, <2>2
<1>6. ASSUME NEW n \in Names(d), NEW a \in d.Networks[n] \cap {"Address", "MacAddress", "DriverOpts", "Aliases"}
      PROVE  LET x == <<"Networks", n, a>>
             IN  (x \in RunOf(P) /\ x \in ComposeOf(P)) <=> x \notin LossOf(P)
  <2> DEFINE x == <<"Networks", n, a>>
  <2>1. \A m : x # <<"Networks", m>>
    OBVIOUS
  <2>2. \A m, S : x \in NetOf(m, S) <=> n = m /\ a \in S
    BY <1>4
  <2> SUFFICES (x \in RunOf(P) /\ x \in ComposeOf(P)) <=> x \notin LossOf(P)
    OBVIOUS
  <2> HIDE DEF x
  <2> DEFINE w == a = "Aliases" \/ (Single(d) /\ a = "MacAddress")
  <2>3. ASSUME NEW m \in Names(d)
        PROVE  /\ (\E p \in EndpointParts(d, m) : x \in p.run) <=> n = m /\ w
               /\ (\E p \in EndpointParts(d, m) : x \in p.compose) <=> n = m /\ w
               /\ (\E p \in EndpointParts(d, m) : x \in p.loss) <=>
                      n = m /\ (a \in {"Address", "DriverOpts"} \/ (~Single(d) /\ a = "MacAddress"))
    <3>1. /\ x \in NetOf(m, d.Networks[m] \cap {"Aliases"}) <=> n = m /\ a = "Aliases"
          /\ x \in NetOf(m, d.Networks[m] \cap {"MacAddress"}) <=> n = m /\ a = "MacAddress"
          /\ x \in NetOf(m, d.Networks[m] \cap {"Address", "DriverOpts"}) <=>
                 n = m /\ a \in {"Address", "DriverOpts"}
      BY <2>2
    <3> QED
      BY <2>1, <3>1, EndpointSides
  <2>6. x \in RunOf(P) <=> w
    BY <1>2, <2>3
  <2>7. x \in ComposeOf(P) <=> w
    BY <1>2, <2>3
  <2>8. x \in LossOf(P) <=> a \in {"Address", "DriverOpts"} \/ (~Single(d) /\ a = "MacAddress")
    BY <1>2, <2>3
  <2> QED
    BY <2>6, <2>7, <2>8
<1> QED
  BY <1>5, <1>6 DEF P

(* The parts of the reconstruction, list by list.                          *)
LEMMA Rebuilt ==
    ASSUME NEW d, NEW redact, NEW x
    PROVE  LET b == buildReconstruction(d, redact)
           IN  /\ x \in b.run <=> \/ x \in RunOf(appendConfig(d, redact)) \/ x \in RunOf(appendHealthcheck(d.check))
                                  \/ x \in RunOf(HostParts(d)) \/ x \in RunOf(MountParts(d))
                                  \/ x \in RunOf(appendNetworks(d))
               /\ x \in b.compose <=>
                      \/ x \in ComposeOf(appendConfig(d, redact)) \/ x \in ComposeOf(appendHealthcheck(d.check))
                      \/ x \in ComposeOf(HostParts(d)) \/ x \in ComposeOf(MountParts(d))
                      \/ x \in ComposeOf(appendNetworks(d))
               /\ x \in b.loss <=>
                      \/ x \in LossOf(appendConfig(d, redact)) \/ x \in LossOf(appendHealthcheck(d.check))
                      \/ x \in LossOf(HostParts(d)) \/ x \in LossOf(MountParts(d))
                      \/ x \in LossOf(appendNetworks(d))
<1> DEFINE P == appendConfig(d, redact) \cup appendHealthcheck(d.check) \cup appendHostConfig(d)
                \cup appendMounts(d) \cup appendPorts(d) \cup appendNetworks(d)
                \cup appendConfigVolumes(d) \cup collectUnknownFields(d)
           b == buildReconstruction(d, redact)
<1>1. b.run = RunOf(P) /\ b.compose = ComposeOf(P) /\ b.loss = LossOf(P)
  BY DEF buildReconstruction, RunOf, ComposeOf, LossOf
<1>2. \A p : p \in P <=> \/ p \in appendConfig(d, redact) \/ p \in appendHealthcheck(d.check)
                         \/ p \in HostParts(d) \/ p \in MountParts(d) \/ p \in appendNetworks(d)
  BY DEF HostParts, MountParts
<1> HIDE DEF P
<1>3. x \in RunOf(P) <=> \E p \in P : x \in p.run
  BY Contributes
<1>4. x \in ComposeOf(P) <=> \E p \in P : x \in p.compose
  BY Contributes
<1>5. x \in LossOf(P) <=> \E p \in P : x \in p.loss
  BY Contributes
<1>6. x \in b.run <=> \/ x \in RunOf(appendConfig(d, redact)) \/ x \in RunOf(appendHealthcheck(d.check))
                      \/ x \in RunOf(HostParts(d)) \/ x \in RunOf(MountParts(d))
                      \/ x \in RunOf(appendNetworks(d))
  BY <1>1, <1>2, <1>3, Contributes
<1>7. x \in b.compose <=>
          \/ x \in ComposeOf(appendConfig(d, redact)) \/ x \in ComposeOf(appendHealthcheck(d.check))
          \/ x \in ComposeOf(HostParts(d)) \/ x \in ComposeOf(MountParts(d))
          \/ x \in ComposeOf(appendNetworks(d))
  BY <1>1, <1>2, <1>4, Contributes
<1>8. x \in b.loss <=>
          \/ x \in LossOf(appendConfig(d, redact)) \/ x \in LossOf(appendHealthcheck(d.check))
          \/ x \in LossOf(HostParts(d)) \/ x \in LossOf(MountParts(d))
          \/ x \in LossOf(appendNetworks(d))
  BY <1>1, <1>2, <1>5, Contributes
<1> QED
  BY <1>6, <1>7, <1>8

(* The first word of what the lists other than the keys contribute.        *)
LEMMA Tags ==
    ASSUME NEW d \in Document, NEW y
    PROVE  /\ y \in RunOf(MountParts(d)) \cup ComposeOf(MountParts(d)) => y[1] = "Volume"
           /\ y \in LossOf(MountParts(d)) => y[1] = "Mounts"
           /\ y \in RunOf(appendNetworks(d)) \cup ComposeOf(appendNetworks(d)) \cup LossOf(appendNetworks(d)) =>
                  y[1] = "Networks"
           /\ LET P == appendHealthcheck(d.check)
              IN  y \in RunOf(P) \cup ComposeOf(P) \cup LossOf(P) => y[1] = "Healthcheck"
<1>1. /\ \A v \in volumesOf(d) \cup {runValue(d.Mounts[i]) : i \in written(d)} : (<<"Volume">> \o v)[1] = "Volume"
  <2>1. d.Mounts \in Seq(Mount) /\ d.Binds \in SUBSET (Seq(Place \cup {"ro"}) \ {<<>>})
    BY DEF Document
  <2>2. \A j \in written(d) : d.Mounts[j] \in Mount
    <3> HIDE DEF Mount
    <3> QED
      BY <2>1 DEF written
  <2>3. \A b \in d.Binds : (<<"Volume">> \o b)[1] = "Volume"
    <3> SUFFICES ASSUME NEW b \in d.Binds PROVE (<<"Volume">> \o b)[1] = "Volume"
      OBVIOUS
    <3>1. b \in Seq(Place \cup {"ro"})
      BY <2>1
    <3> QED
      BY <3>1
  <2>4. \A v \in Seq(Word) : (<<"Volume">> \o v)[1] = "Volume"
    OBVIOUS
  <2> QED
    BY <2>2, <2>3, <2>4, MountValues DEF volumesOf
<1>2. ASSUME y \in RunOf(MountParts(d)) \cup ComposeOf(MountParts(d)) PROVE y[1] = "Volume"
  <2>1. \/ \E v \in volumesOf(d) \cup {runValue(d.Mounts[i]) : i \in written(d)} : y = <<"Volume">> \o v
        \/ \E t : y = <<"Volume", t>>
        \/ \E t, o : y = <<"Volume", t, o>>
    BY <1>2, VolumeParts
  <2> QED
    BY <1>1, <2>1
<1>3. y \in LossOf(MountParts(d)) => y[1] = "Mounts"
  BY VolumeParts
<1>4. y \in RunOf(appendNetworks(d)) \cup ComposeOf(appendNetworks(d)) \cup LossOf(appendNetworks(d)) =>
                  y[1] = "Networks"
  BY NetworkParts
<1>5. LET P == appendHealthcheck(d.check)
      IN  y \in RunOf(P) \cup ComposeOf(P) \cup LossOf(P) => y[1] = "Healthcheck"
  BY HealthcheckParts
<1> QED
  BY <1>2, <1>3, <1>4, <1>5

(* The keys of a document that both forms have, and the ones in the report. *)
EmittedKey(d, k) ==
    \/ k \in d.config /\ k \in ConfigEmitted
    \/ d.Image /\ k = "Image"
    \/ d.Entrypoint = 1 /\ k = "Entrypoint"
    \/ k \in d.host /\ (k \in HostEmitted \/ k \in ResourceEmitted \/ k = "LogConfig" \/ k = "PortBindings")
ReportedKey(d, k) ==
    \/ k \in d.config /\ k = "StdinOnce"
    \/ ~d.Image /\ k = "Image"
    \/ d.Entrypoint \notin {0, 1} /\ k = "Entrypoint"
    \/ k \in d.host /\ (k \in HostReported \/ k \in ResourceReported)
    \/ k \in d.config /\ k \notin recognizedConfigField
    \/ k \in d.host /\ k \notin recognizedHostConfigField

(* What becomes of a key.                                                  *)
LEMMA KeysAreTold ==
    ASSUME NEW d \in Document, NEW redact, NEW k,
           k \notin {"Volume", "Mounts", "Networks", "Healthcheck", "Env"}
    PROVE  LET b == buildReconstruction(d, redact)
           IN  /\ EmittedKey(d, k) => <<k>> \in b.run /\ <<k>> \in b.compose
               /\ <<k>> \in b.compose => EmittedKey(d, k) \/ k = "NetworkMode"
               /\ <<k>> \in b.loss <=> ReportedKey(d, k)
<1> DEFINE x == <<k>>
           b == buildReconstruction(d, redact)
<1>1. x[1] \notin {"Volume", "Mounts", "Networks", "Healthcheck", "Env"}
  OBVIOUS
<1>2. \A F : x \in Keys(F) <=> k \in F
  BY DEF Keys
<1>3. \A E : x \notin EnvOf(E)
  <2>1. \A E : \A y \in EnvOf(E) : y[1] = "Env"
    BY DEF EnvOf
  <2> QED
    BY <1>1, <2>1
<1> SUFFICES /\ EmittedKey(d, k) => x \in b.run /\ x \in b.compose
             /\ x \in b.compose => EmittedKey(d, k) \/ k = "NetworkMode"
             /\ x \in b.loss <=> ReportedKey(d, k)
  OBVIOUS
<1> HIDE DEF x, b
<1>5. /\ x \in b.run <=> x \in RunOf(appendConfig(d, redact)) \/ x \in RunOf(HostParts(d))
      /\ x \in b.compose <=> x \in ComposeOf(appendConfig(d, redact)) \/ x \in ComposeOf(HostParts(d))
      /\ x \in b.loss <=> x \in LossOf(appendConfig(d, redact)) \/ x \in LossOf(HostParts(d))
  BY <1>1, Rebuilt, Tags DEF b
<1>6. /\ EmittedKey(d, k) => x \in RunOf(appendConfig(d, redact)) \/ x \in RunOf(HostParts(d))
      /\ EmittedKey(d, k) => x \in ComposeOf(appendConfig(d, redact)) \/ x \in ComposeOf(HostParts(d))
  BY <1>2, ConfigParts, HostSettings DEF EmittedKey
<1>7. /\ x \in ComposeOf(appendConfig(d, redact)) => EmittedKey(d, k)
      /\ x \in ComposeOf(HostParts(d)) => EmittedKey(d, k) \/ k = "NetworkMode"
  <2>1. x \in ComposeOf(appendConfig(d, redact)) => EmittedKey(d, k)
    <3>1. x \in ComposeOf(appendConfig(d, redact)) <=>
              \/ x \in Keys(d.config \cap ConfigEmitted)
              \/ d.Image /\ x \in Keys({"Image"})
              \/ d.Entrypoint = 1 /\ x \in Keys({"Entrypoint"})
              \/ x \in EnvOf(d.Env \ Secrets(d, redact))
      BY ConfigParts
    <3>2. /\ x \in Keys(d.config \cap ConfigEmitted) <=> k \in d.config \cap ConfigEmitted
          /\ x \in Keys({"Image"}) <=> k \in {"Image"}
          /\ x \in Keys({"Entrypoint"}) <=> k \in {"Entrypoint"}
      BY <1>2
    <3>3. x \notin EnvOf(d.Env \ Secrets(d, redact))
      BY <1>3
    <3> QED
      BY <3>1, <3>2, <3>3 DEF EmittedKey
  <2>2. x \in ComposeOf(HostParts(d)) => EmittedKey(d, k) \/ k = "NetworkMode"
    <3>1. x \in ComposeOf(HostParts(d)) =>
              \/ x \in Keys(d.host \cap HostEmitted) \/ x \in Keys(d.host \cap ResourceEmitted)
              \/ x \in Keys(d.host \cap {"LogConfig"}) \/ x \in Keys(d.host \cap {"PortBindings"})
              \/ x \in Keys({"NetworkMode"})
      BY HostSettings
    <3>2. /\ x \in Keys(d.host \cap HostEmitted) <=> k \in d.host \cap HostEmitted
          /\ x \in Keys(d.host \cap ResourceEmitted) <=> k \in d.host \cap ResourceEmitted
          /\ x \in Keys(d.host \cap {"LogConfig"}) <=> k \in d.host \cap {"LogConfig"}
          /\ x \in Keys(d.host \cap {"PortBindings"}) <=> k \in d.host \cap {"PortBindings"}
          /\ x \in Keys({"NetworkMode"}) <=> k \in {"NetworkMode"}
      BY <1>2
    <3> QED
      BY <3>1, <3>2 DEF EmittedKey
  <2> QED
    BY <2>1, <2>2
<1>8. x \in LossOf(appendConfig(d, redact)) <=>
          \/ k \in d.config /\ k = "StdinOnce"
          \/ ~d.Image /\ k = "Image"
          \/ d.Entrypoint \notin {0, 1} /\ k = "Entrypoint"
  <2>1. x \in LossOf(appendConfig(d, redact)) <=>
            \/ x \in Keys(d.config \cap {"StdinOnce"})
            \/ ~d.Image /\ x \in Keys({"Image"})
            \/ d.Entrypoint \notin {0, 1} /\ x \in Keys({"Entrypoint"})
            \/ x \in EnvOf(Secrets(d, redact))
    BY ConfigParts
  <2>2. /\ x \in Keys(d.config \cap {"StdinOnce"}) <=> k \in d.config \cap {"StdinOnce"}
        /\ x \in Keys({"Image"}) <=> k \in {"Image"}
        /\ x \in Keys({"Entrypoint"}) <=> k \in {"Entrypoint"}
    BY <1>2
  <2>3. x \notin EnvOf(Secrets(d, redact))
    BY <1>3
  <2> QED
    BY <2>1, <2>2, <2>3
<1>9. x \in LossOf(HostParts(d)) <=>
          \/ k \in d.host /\ (k \in HostReported \/ k \in ResourceReported)
          \/ k \in d.config /\ k \notin recognizedConfigField
          \/ k \in d.host /\ k \notin recognizedHostConfigField
  <2> DEFINE U == (d.config \ recognizedConfigField) \cup (d.host \ recognizedHostConfigField)
  <2>1. x \in LossOf(HostParts(d)) <=>
            \/ x \in Keys(d.host \cap HostReported) \/ x \in Keys(d.host \cap ResourceReported)
            \/ x \in Keys(U)
    BY HostSettings
  <2>2. /\ x \in Keys(d.host \cap HostReported) <=> k \in d.host \cap HostReported
        /\ x \in Keys(d.host \cap ResourceReported) <=> k \in d.host \cap ResourceReported
        /\ x \in Keys(U) <=> k \in U
    BY <1>2
  <2> QED
    BY <2>1, <2>2
<1>10. x \in LossOf(appendConfig(d, redact)) \/ x \in LossOf(HostParts(d)) <=> ReportedKey(d, k)
  BY <1>8, <1>9 DEF ReportedKey
<1> QED
  BY <1>5, <1>6, <1>7, <1>10

(* What a document has for keys, and the names that are none.              *)
LEMMA KeyNames ==
    ASSUME NEW d \in Document, NEW k,
           \/ k \in d.config \/ k \in d.host \/ k = "Image" \/ (k = "Entrypoint" /\ d.Entrypoint > 0)
    PROVE  k \notin {"Volume", "Mounts", "Networks", "Healthcheck", "Env", "NetworkMode"}
<1>1. d.config \subseteq ConfigField /\ d.host \subseteq HostField
  BY DEF Document
<1>2. k \in ConfigField \cup HostField \cup {"Image", "Entrypoint"}
  BY <1>1
<1> QED
  BY <1>2 DEF ConfigField, ConfigEmitted, ConfigIgnored, HostField, HostEmitted, HostReported, ResourceEmitted,
              ResourceReported, Blkio, HostIgnored

(* A silent key of the document is neither in Compose nor in the report.   *)
LEMMA SilentKeysAreLost ==
    ASSUME NEW d \in Document, NEW redact, NEW k, <<k>> \in SilentKeys,
           \/ k \in d.config \/ k \in d.host \/ k = "Image" \/ (k = "Entrypoint" /\ d.Entrypoint > 0)
    PROVE  LET b == buildReconstruction(d, redact)
           IN  <<k>> \notin b.compose /\ <<k>> \notin b.loss
<1>1. d.config \subseteq ConfigField /\ d.host \subseteq HostField
  BY DEF Document
<1>2. k \in ConfigIgnored \/ k \in HostIgnored \/ k = "PublishAllPorts"
  BY DEF SilentKeys, Keys
<1>3. ~EmittedKey(d, k)
  BY <1>2 DEF EmittedKey, ConfigIgnored, HostIgnored, ConfigEmitted, HostEmitted, ResourceEmitted, Blkio
<1>4. /\ k \in ConfigIgnored => k \in recognizedConfigField /\ k \notin HostField
      /\ k \notin ConfigIgnored => k \in recognizedHostConfigField /\ k \notin ConfigField
  BY <1>2 DEF recognizedConfigField, recognizedHostConfigField, ConfigField, HostField, ConfigIgnored, ConfigEmitted,
              HostIgnored, HostEmitted, HostReported, ResourceEmitted, ResourceReported, Blkio
<1>5. k \notin {"StdinOnce", "Image", "Entrypoint"} /\ k \notin HostReported /\ k \notin ResourceReported
  BY <1>2 DEF ConfigIgnored, HostIgnored, HostReported, ResourceReported
<1>6. ~ReportedKey(d, k)
  BY <1>1, <1>4, <1>5 DEF ReportedKey
<1> QED
  BY <1>3, <1>6, KeyNames, KeysAreTold

(* A misspelled key of the document is in both forms and in the report.    *)
LEMMA MisspelledKeysAreTold ==
    ASSUME NEW d \in Document, NEW redact, NEW k, <<k>> \in MisspelledKeys,
           \/ k \in d.config \/ k \in d.host \/ k = "Image" \/ (k = "Entrypoint" /\ d.Entrypoint > 0)
    PROVE  LET b == buildReconstruction(d, redact)
           IN  <<k>> \in b.run /\ <<k>> \in b.compose /\ <<k>> \in b.loss
<1>1. d.config \subseteq ConfigField
  BY DEF Document
<1>2. k \in Blkio
  BY DEF MisspelledKeys, Keys
<1>3. k \in d.host
  BY <1>1, <1>2 DEF Blkio, ConfigField, ConfigEmitted, ConfigIgnored
<1>4. EmittedKey(d, k) /\ ReportedKey(d, k)
  BY <1>2, <1>3 DEF EmittedKey, ReportedKey, ResourceEmitted, recognizedHostConfigField
<1> QED
  BY <1>4, KeyNames, KeysAreTold

(* Any other key of the document is in both forms or in the report.        *)
LEMMA KeysAreExact ==
    ASSUME NEW d \in Document, NEW redact, NEW k,
           \/ k \in d.config \/ k \in d.host \/ k = "Image" \/ (k = "Entrypoint" /\ d.Entrypoint > 0),
           <<k>> \notin SilentKeys \cup MisspelledKeys
    PROVE  LET b == buildReconstruction(d, redact)
           IN  (<<k>> \in b.run /\ <<k>> \in b.compose) <=> <<k>> \notin b.loss
<1>1. d.config \subseteq ConfigField /\ d.host \subseteq HostField /\ d.Image \in BOOLEAN /\ d.Entrypoint \in 0 .. 2
  BY DEF Document
<1>2. k \notin ConfigIgnored /\ k \notin HostIgnored /\ k # "PublishAllPorts" /\ k \notin Blkio
  BY DEF SilentKeys, MisspelledKeys, Keys
<1>3. EmittedKey(d, k) <=> ~ReportedKey(d, k)
  <2>1. CASE k \in d.config
    <3>1. k \in ConfigField /\ k \notin HostField /\ k \notin {"Image", "Entrypoint"}
      BY <1>1, <2>1 DEF ConfigField, ConfigEmitted, ConfigIgnored, HostField, HostEmitted, HostReported,
                        ResourceEmitted, ResourceReported, Blkio, HostIgnored
    <3>2. k \notin d.host
      BY <1>1, <3>1
    <3>3. k \in ConfigEmitted <=> ~ (k = "StdinOnce" \/ k \notin recognizedConfigField)
      BY <1>2, <3>1 DEF ConfigField, ConfigEmitted, ConfigIgnored, recognizedConfigField
    <3> QED
      BY <2>1, <3>1, <3>2, <3>3 DEF EmittedKey, ReportedKey
  <2>2. CASE k \in d.host
    <3>1. k \in HostField /\ k \notin ConfigField /\ k \notin {"Image", "Entrypoint"}
      BY <1>1, <2>2 DEF ConfigField, ConfigEmitted, ConfigIgnored, HostField, HostEmitted, HostReported,
                        ResourceEmitted, ResourceReported, Blkio, HostIgnored
    <3>2. k \notin d.config
      BY <1>1, <3>1
    <3>3. (k \in HostEmitted \/ k \in ResourceEmitted \/ k = "LogConfig" \/ k = "PortBindings") <=>
             ~ (k \in HostReported \/ k \in ResourceReported \/ k \notin recognizedHostConfigField)
      BY <1>2, <3>1 DEF HostField, HostEmitted, HostReported,
                        ResourceEmitted, ResourceReported, Blkio, HostIgnored, recognizedHostConfigField
    <3> QED
      BY <2>2, <3>1, <3>2, <3>3 DEF EmittedKey, ReportedKey
  <2>3. CASE k \notin d.config /\ k \notin d.host
    BY <1>1, <2>3 DEF EmittedKey, ReportedKey
  <2> QED
    BY <2>1, <2>2, <2>3
<1> QED
  BY <1>3, KeyNames, KeysAreTold

(* The report of a reconstruction is exact, for every document.            *)
LEMMA EveryReportIsExact ==
    ASSUME NEW d \in Document, NEW redact
    PROVE  ReportIsExact(d, buildReconstruction(d, redact))
<1> DEFINE b == buildReconstruction(d, redact)
<1>1. /\ RunOf(MountParts(d)) \subseteq b.run /\ ComposeOf(MountParts(d)) \subseteq b.compose
      /\ LossOf(MountParts(d)) \subseteq b.loss
  BY Rebuilt
<1>2. ASSUME NEW s \in Settings(d)
      PROVE  /\ s \in SilentKeys => s \notin b.compose /\ s \notin b.loss
             /\ s \in MisspelledKeys => s \in b.run /\ s \in b.compose /\ s \in b.loss
             /\ s \notin SilentKeys \cup MisspelledKeys => ((s \in b.run /\ s \in b.compose) <=> s \notin b.loss)
  <2>k. ASSUME \A F : s \notin Keys(F) PROVE s \notin SilentKeys \cup MisspelledKeys
    BY <2>k DEF SilentKeys, MisspelledKeys
  <2>1. CASE \E k : /\ s = <<k>>
                   /\ \/ k \in d.config \/ k \in d.host \/ k = "Image"
                      \/ (k = "Entrypoint" /\ d.Entrypoint > 0)
    <3>1. PICK k : /\ s = <<k>>
                   /\ \/ k \in d.config \/ k \in d.host \/ k = "Image"
                      \/ (k = "Entrypoint" /\ d.Entrypoint > 0)
      BY <2>1
    <3>2. s \in SilentKeys => s \notin b.compose /\ s \notin b.loss
      BY <3>1, SilentKeysAreLost
    <3>3. s \in MisspelledKeys => s \in b.run /\ s \in b.compose /\ s \in b.loss
      BY <3>1, MisspelledKeysAreTold
    <3>4. s \notin SilentKeys \cup MisspelledKeys => ((s \in b.run /\ s \in b.compose) <=> s \notin b.loss)
      BY <3>1, KeysAreExact
    <3> QED
      BY <3>2, <3>3, <3>4
  <2>2. CASE \E e \in d.Env : s = <<"Env", e>>
    <3>1. PICK e \in d.Env : s = <<"Env", e>>
      BY <2>2
    <3>2. \A F : s \notin Keys(F)
      BY <3>1 DEF Keys
    <3>3. \A E : s \in EnvOf(E) <=> e \in E
      BY <3>1 DEF EnvOf
    <3>4. s[1] = "Env"
      BY <3>1
    <3> HIDE DEF b
    <3>5. /\ s \in b.run <=> s \in RunOf(appendConfig(d, redact)) \/ s \in RunOf(HostParts(d))
          /\ s \in b.compose <=> s \in ComposeOf(appendConfig(d, redact)) \/ s \in ComposeOf(HostParts(d))
          /\ s \in b.loss <=> s \in LossOf(appendConfig(d, redact)) \/ s \in LossOf(HostParts(d))
      BY <3>4, Rebuilt, Tags DEF b
    <3>6. s \notin RunOf(HostParts(d)) /\ s \notin ComposeOf(HostParts(d)) /\ s \notin LossOf(HostParts(d))
      BY <3>2, <3>4, HostSettings
    <3>7. /\ s \in RunOf(appendConfig(d, redact)) <=> e \notin Secrets(d, redact)
          /\ s \in ComposeOf(appendConfig(d, redact)) <=> e \notin Secrets(d, redact)
          /\ s \in LossOf(appendConfig(d, redact)) <=> e \in Secrets(d, redact)
      <4>1. /\ s \in RunOf(appendConfig(d, redact)) <=> s \in EnvOf(d.Env \ Secrets(d, redact))
            /\ s \in ComposeOf(appendConfig(d, redact)) <=> s \in EnvOf(d.Env \ Secrets(d, redact))
            /\ s \in LossOf(appendConfig(d, redact)) <=> s \in EnvOf(Secrets(d, redact))
        BY <3>2, ConfigParts
      <4>2. /\ s \in EnvOf(d.Env \ Secrets(d, redact)) <=> e \in d.Env \ Secrets(d, redact)
            /\ s \in EnvOf(Secrets(d, redact)) <=> e \in Secrets(d, redact)
        BY <3>3
      <4> QED
        BY <4>1, <4>2
    <3> QED
      BY <2>k, <3>2, <3>5, <3>6, <3>7
  <2>3. CASE s = <<"Healthcheck">> /\ d.check.test # "absent"
    <3>1. \A F : "Healthcheck" \notin F => s \notin Keys(F)
      BY <2>3 DEF Keys
    <3>2. \A E : s \notin EnvOf(E)
      BY <2>3 DEF EnvOf
    <3>3. s[1] = "Healthcheck"
      BY <2>3
    <3>4. d.config \subseteq ConfigField /\ d.host \subseteq HostField
      BY DEF Document
    <3>5. "Healthcheck" \notin ConfigField \cup HostField
      BY DEF ConfigField, ConfigEmitted, ConfigIgnored, HostField, HostEmitted, HostReported,
             ResourceEmitted, ResourceReported, Blkio, HostIgnored
    <3>6. "Healthcheck" \notin d.config /\ "Healthcheck" \notin d.host
      BY <3>4, <3>5
    <3>7. /\ s \notin RunOf(appendConfig(d, redact)) /\ s \notin ComposeOf(appendConfig(d, redact))
          /\ s \notin LossOf(appendConfig(d, redact))
      BY <3>1, <3>2, <3>6, ConfigParts
    <3>8. s \notin RunOf(HostParts(d)) /\ s \notin ComposeOf(HostParts(d)) /\ s \notin LossOf(HostParts(d))
      BY <3>1, <3>3, <3>6, HostSettings
    <3> HIDE DEF b
    <3>9. /\ s \in b.run <=> s \in RunOf(appendHealthcheck(d.check))
          /\ s \in b.compose <=> s \in ComposeOf(appendHealthcheck(d.check))
          /\ s \in b.loss <=> s \in LossOf(appendHealthcheck(d.check))
      BY <3>3, <3>7, <3>8, Rebuilt, Tags DEF b
    <3>10. s \notin SilentKeys \cup MisspelledKeys
      BY <3>1 DEF SilentKeys, MisspelledKeys, ConfigIgnored, HostIgnored, Blkio
    <3> QED
      BY <2>3, <3>9, <3>10, HealthcheckParts
  <2>4. CASE \E n \in Names(d) : \E a \in d.Networks[n] : s = <<"Networks", n, a>>
    <3>n. PICK n \in Names(d) : \E a \in d.Networks[n] : s = <<"Networks", n, a>>
      BY <2>4
    <3>1. PICK a \in d.Networks[n] : s = <<"Networks", n, a>>
      BY <3>n
    <3>2. a \in {"Address", "MacAddress", "DriverOpts", "Aliases"}
      BY DEF Document, Names, Endpoint
    <3>3. \A F : s \notin Keys(F)
      BY <3>1 DEF Keys
    <3>4. \A E : s \notin EnvOf(E)
      BY <3>1 DEF EnvOf
    <3>5. s[1] = "Networks"
      BY <3>1
    <3>6. /\ s \notin RunOf(appendConfig(d, redact)) /\ s \notin ComposeOf(appendConfig(d, redact))
          /\ s \notin LossOf(appendConfig(d, redact))
      BY <3>3, <3>4, ConfigParts
    <3>7. s \notin RunOf(HostParts(d)) /\ s \notin ComposeOf(HostParts(d)) /\ s \notin LossOf(HostParts(d))
      BY <3>3, <3>5, HostSettings
    <3> HIDE DEF b
    <3>8. /\ s \in b.run <=> s \in RunOf(appendNetworks(d))
          /\ s \in b.compose <=> s \in ComposeOf(appendNetworks(d))
          /\ s \in b.loss <=> s \in LossOf(appendNetworks(d))
      BY <3>5, <3>6, <3>7, Rebuilt, Tags DEF b
    <3> QED
      BY <2>k, <3>1, <3>2, <3>3, <3>8, NetworkParts
  <2> QED
    BY <1>2, <2>1, <2>2, <2>3, <2>4 DEF Settings, Keys, Names
<1>3. ASSUME NEW i \in DOMAIN d.Mounts
      PROVE  LET t == d.Mounts[i].Destination
             IN  \/ <<"Mounts", t>> \in b.loss
                 \/ /\ t \in Targets(b.run)
                    /\ t \in Targets(b.compose) \cup MisreadTargets(d)
                    /\ \A o \in details(d.Mounts[i]) :
                           <<"Volume", t, o>> \notin b.compose /\ (<<"Volume", t, o>> \in b.run \/ skipped(d, i))
  <2> DEFINE t == d.Mounts[i].Destination
  <2>1. \/ <<"Mounts", t>> \in b.loss
        \/ t \in Targets(b.run) /\ t \in Targets(b.compose) \cup MisreadTargets(d)
    BY <1>1, MountsAreTold
  <2>2. ASSUME NEW o \in details(d.Mounts[i]) PROVE <<"Volume", t, o>> \notin b.compose
    <3> DEFINE x == <<"Volume", t, o>>
    <3>1. x[1] = "Volume" /\ (\A F : x \notin Keys(F)) /\ \A E : x \notin EnvOf(E)
      BY DEF Keys, EnvOf
    <3>2. x \notin ComposeOf(MountParts(d))
      BY DetailsAreTold
    <3> HIDE DEF x, b
    <3>3. x \notin ComposeOf(appendConfig(d, redact)) /\ x \notin ComposeOf(HostParts(d))
      BY <3>1, ConfigParts, HostSettings
    <3> QED
      BY <3>1, <3>2, <3>3, Rebuilt, Tags DEF b, x
  <2>3. <<"Mounts", t>> \in b.loss \/ skipped(d, i) \/ i \in written(d)
    <3>1. CASE i \in Lost(d)
      BY <1>1, <3>1, VolumeParts
    <3> QED
      BY <3>1 DEF Lost, written
  <2>4. ASSUME NEW o \in details(d.Mounts[i]), i \in written(d) PROVE <<"Volume", t, o>> \in b.run
    BY <1>1, <2>4, DetailsAreTold
  <2> QED
    BY <2>1, <2>2, <2>3, <2>4
<1>4. d.Volumes \subseteq Targets(b.run) \cap Targets(b.compose)
  BY <1>1, VolumesAreTold
<1> HIDE DEF b
<1>5. ReportIsExact(d, b)
  BY <1>2, <1>3, <1>4 DEF ReportIsExact
<1> QED
  BY <1>5 DEF b

(* With redaction no secret is in any of the three forms.                  *)
LEMMA SecretsStayOut ==
    ASSUME NEW d \in Document, NEW redact, redact
    PROVE  SecretsAreRedacted(buildReconstruction(d, redact))
<1> DEFINE b == buildReconstruction(d, redact)
<1> SUFFICES ASSUME NEW e \in SecretEnv
             PROVE  <<"Env", e>> \notin b.run \cup b.compose /\ e \notin b.inspect
  BY DEF SecretsAreRedacted
<1> DEFINE s == <<"Env", e>>
<1>1. \A F : s \notin Keys(F)
  BY DEF Keys
<1>2. \A E : s \in EnvOf(E) <=> e \in E
  BY DEF EnvOf
<1>3. s[1] = "Env"
  OBVIOUS
<1>4. e \notin b.inspect
  BY DEF buildReconstruction
<1> HIDE DEF b, s
<1>5. s \notin RunOf(HostParts(d)) /\ s \notin ComposeOf(HostParts(d))
  BY <1>1, <1>3, HostSettings
<1>6. s \notin RunOf(appendConfig(d, redact)) /\ s \notin ComposeOf(appendConfig(d, redact))
  <2>1. s \in RunOf(appendConfig(d, redact)) \/ s \in ComposeOf(appendConfig(d, redact)) =>
            s \in EnvOf(d.Env \ Secrets(d, redact))
    BY <1>1, ConfigParts
  <2>2. s \in EnvOf(d.Env \ Secrets(d, redact)) <=> e \in d.Env \ Secrets(d, redact)
    BY <1>2
  <2>3. e \notin d.Env \ Secrets(d, redact)
    BY DEF Secrets
  <2> QED
    BY <2>1, <2>2, <2>3
<1>7. s \notin b.run /\ s \notin b.compose
  BY <1>3, <1>5, <1>6, Rebuilt, Tags DEF b
<1> QED
  BY <1>4, <1>7 DEF s

(* Only the route of the reconstruction describes a container.             *)
LEMMA ContainersAreRebuilt ==
    ASSUME NEW c, NEW r, NEW a \in description(c, r), a.of = "container"
    PROVE  a \in Reconstruct(c.redact)
<1>1. \A x \in networkRoutes : x.of = "routes"
  BY DEF networkRoutes, Description
<1>2. ASSUME NEW x \in networkIPv6Routes PROVE x.of = "ipv6_routes"
  <2>1. PICK v6 \in Tables :
            x = LET says == IPv6Routes(v6) IN Description("ipv6_routes", v6, says, says.err = "none", 503)
    BY DEF networkIPv6Routes
  <2> QED
    BY <2>1 DEF Description
<1>3. ASSUME NEW x \in networkIPv6Neighbors PROVE x.of = "neighbors"
  <2> DEFINE source(f) == NeighborsContext(f.ndisc, f.cache, f.ip)
             items(f) == parseNeighbors({SpellNeighbor(f.entry, f.form)})
             of(f) == Description("neighbors", f, [items |-> items(f), from |-> source(f).from],
                                  source(f).err = "none", 503)
             F == [ndisc : Tables, cache : {Absent}, ip : {"ok"}, entry : Neighbors, form : {"flags_first"}]
                  \cup [ndisc : {Absent}, cache : Tables, ip : {"ok", "failed"}, entry : Neighbors,
                        form : {"flags_first", "flags_last", "position"}]
  <2>1. networkIPv6Neighbors = {of(f) : f \in F}
    BY Zenon DEF networkIPv6Neighbors
  <2> HIDE DEF F, source, items
  <2>2. PICK f \in F : x = of(f)
    BY <2>1
  <2> QED
    BY <2>2 DEF Description
<1>4. \A x \in networkInterfaces : x.of = "counters"
  BY DEF networkInterfaces, Description
<1>5. a \in networkRoutes \/ a \in networkIPv6Routes \/ a \in networkIPv6Neighbors
      \/ a \in networkInterfaces \/ a \in Reconstruct(c.redact)
  BY DEF description
<1> QED
  BY <1>1, <1>2, <1>3, <1>4, <1>5

(* Every step keeps the description one of a document, or drops it.        *)
LEMMA ContainerStep == ContainerInv /\ [Next]_vars => ContainerInv'
<1> SUFFICES ASSUME ContainerInv, [Next]_vars PROVE ContainerInv'
  OBVIOUS
<1>1. CASE Describe
  <2>1. PICK a \in description(conf, req) : answer' = a
    BY <1>1 DEF Describe
  <2>2. conf' = conf
    BY <1>1 DEF Describe
  <2>3. CASE a.of = "container"
    <3>1. a \in Reconstruct(conf.redact)
      BY <2>3, ContainersAreRebuilt
    <3> QED
      BY <2>1, <2>2, <3>1 DEF ContainerInv, Reconstruct
  <2>4. CASE a.of # "container"
    BY <2>1, <2>4 DEF ContainerInv
  <2> QED
    BY <2>3, <2>4
<1>2. ASSUME answer' = NoAnswer PROVE ContainerInv'
  BY <1>2 DEF ContainerInv, NoAnswer, Description
<1>3. ASSUME UNCHANGED <<conf, answer>> PROVE ContainerInv'
  BY <1>3 DEF ContainerInv
<1>4. CASE auditOperation \/ Crash \/ Begin
  BY <1>2, <1>4 DEF auditOperation, Crash, Begin, Afresh
<1>5. CASE Handle \/ Panic \/ approvalRoute \/ StartSnapshot \/ AnswerSnapshot \/ RunJob \/ Collecting
  BY <1>3, <1>5 DEF Handle, Panic, Served, approvalRoute, StartSnapshot, AnswerSnapshot, RunJob, Collecting, apiVars
<1>6. ASSUME NEW r, RefuseSupplement(r) \/ RequestApproval(r) \/ Consume(r) \/ RefuseTicket(r) \/ Pass(r)
      PROVE  ContainerInv'
  BY <1>3, <1>6 DEF RefuseSupplement, RequestApproval, Consume, RefuseTicket, Pass, Arrives
<1>7. CASE UNCHANGED vars
  BY <1>3, <1>7 DEF vars, apiVars
<1> QED
  BY <1>1, <1>4, <1>5, <1>6, <1>7 DEF Next

(* The loss report of every reconstruction, of any container, lists what   *)
(* one of the forms lacks and nothing else, but for the keys, targets and  *)
(* details that ReportIsExact names as left out without a word or listed   *)
(* by mistake; and no secret is shown under redaction.                     *)
THEOREM LossReportsAreExact == Spec => []LossReportIsExact
<1>1. Init => ContainerInv
  <2>1. NoAnswer.of # "container"
    BY DEF NoAnswer, Description
  <2> QED
    BY <2>1 DEF Init, ApiInit, ContainerInv
<1>2. ContainerInv => LossReportIsExact
  <2> SUFFICES ASSUME ContainerInv, answer.of = "container"
               PROVE  /\ ReportIsExact(answer.from, answer.says)
                      /\ conf.redact => SecretsAreRedacted(answer.says)
    BY DEF LossReportIsExact
  <2>1. PICK d \in Documents :
            answer = Description("container", d, buildReconstruction(d, conf.redact), TRUE, 0)
    BY DEF ContainerInv
  <2>2. answer.from = d /\ answer.says = buildReconstruction(d, conf.redact)
    BY <2>1 DEF Description
  <2>3. d \in Document
    BY DocumentsAssumption
  <2> QED
    BY <2>2, <2>3, EveryReportIsExact, SecretsStayOut
<1> QED
  BY <1>1, <1>2, ContainerStep, PTL DEF Spec

-----------------------------------------------------------------------------
(* The network's tables.  The words of a neighbour are read by a recursive *)
(* function, so recursion over the natural numbers comes first, stated for *)
(* sets and functions.                                                     *)

(* Induction over the natural numbers, for a set instead of a predicate.   *)
LEMMA SetInduction ==
    ASSUME NEW S, 0 \in S, \A n \in Nat : n \in S => n + 1 \in S
    PROVE  Nat \subseteq S
<1> SUFFICES ASSUME Nat \ S # {} PROVE FALSE
  OBVIOUS
<1>1. PICK x \in Nat \ S : \A y \in Nat \ S : x <= y
  BY Least
<1>2. x - 1 \in Nat /\ x - 1 \notin S
  BY <1>1
<1> QED BY <1>1, <1>2

(* Functions to iterate, one for each step, and their iterations from a.   *)
Steps(A, n) == [1 .. n -> [A -> A]]
Iterates(f, A, a, n, step) ==
    /\ f \in [0 .. n -> A]
    /\ f[0] = a
    /\ \A i \in 1 .. n : f[i] = step[i][f[i - 1]]

(* Recursion up to n: the iterations exist.                                *)
LEMMA Recursion ==
    ASSUME NEW A, NEW a \in A, NEW n \in Nat, NEW step \in Steps(A, n)
    PROVE  \E f : Iterates(f, A, a, n, step)
<1> USE DEF Steps, Iterates
<1> DEFINE Good(f, m) == f[0] = a /\ \A i \in 1 .. m : f[i] = step[i][f[i - 1]]
           S == {m \in Nat : m <= n => \E f \in [0 .. m -> A] : Good(f, m)}
<1>1. 0 \in S
  <2>1. [i \in 0 .. 0 |-> a] \in [0 .. 0 -> A]
    OBVIOUS
  <2>2. Good([i \in 0 .. 0 |-> a], 0)
    OBVIOUS
  <2> QED BY <2>1, <2>2
<1>2. ASSUME NEW m \in Nat, m \in S PROVE m + 1 \in S
  <2> SUFFICES ASSUME m + 1 <= n PROVE \E f \in [0 .. m + 1 -> A] : Good(f, m + 1)
    OBVIOUS
  <2>1. PICK f \in [0 .. m -> A] : Good(f, m)
    BY <1>2
  <2> DEFINE g == [i \in 0 .. m + 1 |-> IF i <= m THEN f[i] ELSE step[m + 1][f[m]]]
  <2>2. step[m + 1][f[m]] \in A
    <3>1. f[m] \in A /\ step[m + 1] \in [A -> A]
      OBVIOUS
    <3> QED BY <3>1
  <2>3. g \in [0 .. m + 1 -> A]
    BY <2>2
  <2>4. \A i \in 1 .. m + 1 : g[i] = step[i][g[i - 1]]
    <3> SUFFICES ASSUME NEW i \in 1 .. m + 1 PROVE g[i] = step[i][g[i - 1]]
      OBVIOUS
    <3>1. CASE i <= m
      BY <2>1, <3>1
    <3>2. CASE i = m + 1
      BY <2>1, <3>2
    <3> QED BY <3>1, <3>2
  <2>5. g[0] = a
    BY <2>1
  <2> QED
    BY <2>3, <2>4, <2>5
<1> HIDE DEF S
<1>3. n \in S
  BY <1>1, <1>2, SetInduction
<1> QED
  BY <1>3 DEF S

(* What is read of a neighbour, word by word.                              *)
FieldWord == STRING \cup {Unset, "addr", "dev", "lladdr", "router", "proxy", "mac"} \cup States
WordState == [item : [Interface : FieldWord, MAC : FieldWord, State : FieldWord, flags : SUBSET Flags],
             takes : {"nothing", "dev", "lladdr"}]
Scans(scan, words) ==
    /\ scan \in [0 .. Len(words) -> WordState]
    /\ scan[0] = Has(NoNeighbor)
    /\ \A i \in 1 .. Len(words) : scan[i] = neighborField(scan[i - 1], words[i])

(* A word keeps what is read of the right type.                            *)
LEMMA FieldType ==
    ASSUME NEW s \in WordState, NEW w \in FieldWord
    PROVE  neighborField(s, w) \in WordState
  BY DEF neighborField, WordState, isNeighborState, Has

(* What a word does where no keyword waits.                                *)
LEMMA FieldCases ==
    ASSUME NEW item
    PROVE  /\ \A w \in {"dev", "lladdr"} : neighborField(Has(item), w) = [item |-> item, takes |-> w]
           /\ \A w \in Flags : neighborField(Has(item), w) = Has([item EXCEPT !.flags = @ \cup {w}])
           /\ \A w \in States : neighborField(Has(item), w) = Has([item EXCEPT !.State = w])
<1>0. {"dev", "lladdr"} \cap States = {} /\ Flags \cap States = {} /\ {"dev", "lladdr"} \cap Flags = {}
  BY DEF States, Flags
<1>s. Has(item).item = item /\ Has(item).takes = "nothing"
  BY DEF Has
<1>1. ASSUME NEW w \in {"dev", "lladdr"} PROVE neighborField(Has(item), w) = [item |-> item, takes |-> w]
  BY <1>0, <1>s DEF neighborField, isNeighborState
<1>2. ASSUME NEW w \in Flags PROVE neighborField(Has(item), w) = Has([item EXCEPT !.flags = @ \cup {w}])
  BY <1>0, <1>s DEF neighborField, isNeighborState
<1>4. ASSUME NEW w \in States PROVE neighborField(Has(item), w) = Has([item EXCEPT !.State = w])
  BY <1>0, <1>s DEF neighborField, isNeighborState
<1> QED
  BY <1>1, <1>2, <1>4

(* The words have a reading.                                               *)
LEMMA ScanExists ==
    ASSUME NEW words \in Seq(FieldWord)
    PROVE  \E f : Scans(f, words)
<1> DEFINE n == Len(words)
           step == [i \in 1 .. n |-> [s \in WordState |-> neighborField(s, words[i])]]
<1>1. n \in Nat /\ \A i \in 1 .. n : words[i] \in FieldWord
  OBVIOUS
<1>2. step \in Steps(WordState, n)
  <2>1. \A i \in 1 .. n : \A s \in WordState : neighborField(s, words[i]) \in WordState
    BY <1>1, FieldType
  <2> QED
    BY <2>1 DEF Steps
<1>3. Has(NoNeighbor) \in WordState
  <2>1. Unset \in FieldWord
    BY DEF FieldWord
  <2>2. NoNeighbor \in [Interface : FieldWord, MAC : FieldWord, State : FieldWord, flags : SUBSET Flags]
    BY <2>1 DEF NoNeighbor
  <2> QED
    BY <2>2 DEF Has, WordState
<1>4. PICK f : Iterates(f, WordState, Has(NoNeighbor), n, step)
  BY <1>1, <1>2, <1>3, Recursion
<1>5. \A i \in 1 .. n : i - 1 \in 0 .. n /\ f[i - 1] \in WordState
  BY <1>1, <1>4 DEF Iterates
<1>6. \A i \in 1 .. n : f[i] = neighborField(f[i - 1], words[i])
  BY <1>4, <1>5 DEF Iterates
<1> QED
  BY <1>4, <1>6 DEF Iterates, Scans

(* The neighbour of the words is what their reading ends with, or has the  *)
(* first of them for its interface.                                        *)
LEMMA FieldsAreScanned ==
    ASSUME NEW words \in Seq(FieldWord)
    PROVE  \E f : /\ Scans(f, words)
                 /\ parseFields(words) =
                        LET item == f[Len(words)].item
                            next == IF words = <<>> THEN "dev" ELSE words[1]
                        IN  IF item.Interface = Unset /\ ~isNeighborKeyword(next) /\ ~isHardwareAddress(next)
                            THEN [item EXCEPT !.Interface = next] ELSE item
<1> DEFINE n == Len(words)
           F(f) == [i \in 0 .. n |-> IF i = 0 THEN Has(NoNeighbor) ELSE neighborField(f[i - 1], words[i])]
           scan == CHOOSE f : f = F(f)
<1>1. PICK f : Scans(f, words)
  BY ScanExists
<1>2. f = F(f)
  <2>1. \A i \in 0 .. n : f[i] = F(f)[i]
    BY <1>1 DEF Scans
  <2>2. DOMAIN f = 0 .. n /\ f = [i \in 0 .. n |-> f[i]]
    BY <1>1 DEF Scans
  <2> QED
    BY <2>1, <2>2
<1>3. scan = F(scan)
  BY <1>2
<1> HIDE DEF scan
<1>4. DOMAIN scan = 0 .. n /\ scan[0] = Has(NoNeighbor)
  BY <1>3
<1>5. \A i \in 1 .. n : scan[i] = neighborField(scan[i - 1], words[i])
  BY <1>3
<1> DEFINE S == {i \in Nat : i <= n => scan[i] = f[i]}
<1>6. 0 \in S
  BY <1>1, <1>4 DEF Scans
<1>7. ASSUME NEW i \in Nat, i \in S PROVE i + 1 \in S
  BY <1>1, <1>5, <1>7 DEF Scans
<1>8. Nat \subseteq S
  <2> HIDE DEF S
  <2> QED
    BY <1>6, <1>7, SetInduction
<1>9. n \in Nat /\ scan[n] = f[n]
  BY <1>8
<1>10. parseFields(words) =
           LET item == scan[n].item
               next == IF words = <<>> THEN "dev" ELSE words[1]
           IN  IF item.Interface = Unset /\ ~isNeighborKeyword(next) /\ ~isHardwareAddress(next)
               THEN [item EXCEPT !.Interface = next] ELSE item
  BY DEF parseFields, scan
<1> QED
  BY <1>1, <1>9, <1>10

(* The parts of a line, after the device.                                  *)
MacPart(n) == IF n.MAC = Unset THEN <<>> ELSE <<"lladdr", n.MAC>>
FlagPart(n, w) == IF w \in n.flags THEN <<w>> ELSE <<>>

(* A neighbour by its fields, and words that stand at a place of the line. *)
Item(i, m, s, g) == [Interface |-> i, MAC |-> m, State |-> s, flags |-> g]
At(words, b, part) ==
    /\ b \in Nat /\ Len(part) \in Nat /\ Len(words) \in Nat /\ b + Len(part) <= Len(words)
    /\ \A i \in 1 .. Len(part) : words[b + i] = part[i]

(* One word further.                                                       *)
LEMMA ScanStep ==
    ASSUME NEW words, NEW f, Scans(f, words), NEW b \in Nat, Len(words) \in Nat, b + 1 <= Len(words)
    PROVE  f[b + 1] = neighborField(f[b], words[b + 1])
<1>1. b + 1 \in 1 .. Len(words) /\ (b + 1) - 1 = b
  OBVIOUS
<1> QED
  BY <1>1 DEF Scans

(* What the words of a neighbour are read as, from any place in the line   *)
(* where no keyword waits: its link address,                               *)
LEMMA ReadsMac ==
    ASSUME NEW words, NEW f, Scans(f, words), NEW n, NEW b, At(words, b, MacPart(n)),
           NEW i, NEW s, NEW g, f[b] = Has(Item(i, Unset, s, g))
    PROVE  f[b + Len(MacPart(n))] = Has(Item(i, n.MAC, s, g))
<1>1. CASE n.MAC = Unset
  <2>1. Len(MacPart(n)) = 0
    BY <1>1 DEF MacPart
  <2>2. b + 0 = b
    BY DEF At
  <2> QED
    BY <1>1, <2>1, <2>2
<1>2. CASE n.MAC # Unset
  <2>1. Len(MacPart(n)) = 2 /\ words[b + 1] = "lladdr" /\ words[b + 2] = n.MAC
    BY <1>2 DEF MacPart, At
  <2>2. b \in Nat /\ b + 1 \in Nat /\ Len(words) \in Nat /\ b + 1 <= Len(words) /\ (b + 1) + 1 <= Len(words)
        /\ (b + 1) + 1 = b + 2
    BY <2>1 DEF At
  <2>3. f[b + 1] = neighborField(f[b], "lladdr")
    BY <2>1, <2>2, ScanStep
  <2>4. f[b + 2] = neighborField(f[b + 1], n.MAC)
    BY <2>1, <2>2, ScanStep
  <2>5. f[b + 1] = [item |-> Item(i, Unset, s, g), takes |-> "lladdr"]
    BY <2>3, FieldCases
  <2>6. f[b + 1].item = Item(i, Unset, s, g) /\ f[b + 1].takes = "lladdr"
    BY <2>5
  <2>7. f[b + 2] = Has([Item(i, Unset, s, g) EXCEPT !.MAC = n.MAC])
    BY <2>4, <2>6 DEF neighborField
  <2>8. [Item(i, Unset, s, g) EXCEPT !.MAC = n.MAC] = Item(i, n.MAC, s, g)
    BY DEF Item
  <2> QED
    BY <2>1, <2>7, <2>8
<1> QED
  BY <1>1, <1>2

(* a flag, if its word is there,                                           *)
LEMMA ReadsFlag ==
    ASSUME NEW words, NEW f, Scans(f, words), NEW n, NEW w \in Flags, NEW b, At(words, b, FlagPart(n, w)),
           NEW i, NEW m, NEW s, NEW g, f[b] = Has(Item(i, m, s, g))
    PROVE  f[b + Len(FlagPart(n, w))] = Has(Item(i, m, s, g \cup (n.flags \cap {w})))
<1>1. CASE w \notin n.flags
  <2>1. Len(FlagPart(n, w)) = 0
    BY <1>1 DEF FlagPart
  <2>2. b + 0 = b
    BY DEF At
  <2>3. g \cup (n.flags \cap {w}) = g
    BY <1>1
  <2> QED
    BY <2>1, <2>2, <2>3
<1>2. CASE w \in n.flags
  <2>1. Len(FlagPart(n, w)) = 1 /\ words[b + 1] = w
    BY <1>2 DEF FlagPart, At
  <2>2. b \in Nat /\ Len(words) \in Nat /\ b + 1 <= Len(words)
    BY <2>1 DEF At
  <2>3. f[b + 1] = neighborField(f[b], w)
    BY <2>1, <2>2, ScanStep
  <2>4. f[b + 1] = Has([Item(i, m, s, g) EXCEPT !.flags = @ \cup {w}])
    BY <2>3, FieldCases
  <2>5. [Item(i, m, s, g) EXCEPT !.flags = @ \cup {w}] = Item(i, m, s, g \cup {w})
    BY DEF Item
  <2>6. g \cup (n.flags \cap {w}) = g \cup {w}
    BY <1>2
  <2> QED
    BY <2>1, <2>4, <2>5, <2>6
<1> QED
  BY <1>1, <1>2

(* its state,                                                              *)
LEMMA ReadsState ==
    ASSUME NEW words, NEW f, Scans(f, words), NEW n, n.State \in States, NEW b, At(words, b, <<n.State>>),
           NEW i, NEW m, NEW s, NEW g, f[b] = Has(Item(i, m, s, g))
    PROVE  f[b + Len(<<n.State>>)] = Has(Item(i, m, n.State, g))
<1>1. Len(<<n.State>>) = 1 /\ words[b + 1] = n.State
  BY DEF At
<1>2. b \in Nat /\ Len(words) \in Nat /\ b + 1 <= Len(words)
  BY <1>1 DEF At
<1>3. f[b + 1] = neighborField(f[b], n.State)
  BY <1>1, <1>2, ScanStep
<1>4. f[b + 1] = Has([Item(i, m, s, g) EXCEPT !.State = n.State])
  BY <1>3, FieldCases
<1>5. [Item(i, m, s, g) EXCEPT !.State = n.State] = Item(i, m, n.State, g)
  BY DEF Item
<1> QED
  BY <1>1, <1>4, <1>5

(* and at the start its device, whatever its name.                         *)
LEMMA ReadsDevice ==
    ASSUME NEW words, NEW f, Scans(f, words), NEW n, At(words, 0, <<"dev", n.Interface>>)
    PROVE  f[2] = Has(Item(n.Interface, Unset, Unset, {}))
<1>1. words[1] = "dev" /\ words[2] = n.Interface /\ Len(words) >= 2 /\ Len(words) \in Nat
  BY DEF At
<1>2. f[0 + 1] = neighborField(f[0], words[0 + 1]) /\ f[1 + 1] = neighborField(f[1], words[1 + 1])
  BY <1>1, ScanStep
<1>3. f[1] = neighborField(Has(NoNeighbor), "dev") /\ f[2] = neighborField(f[1], n.Interface)
  BY <1>1, <1>2 DEF Scans
<1>4. f[1] = [item |-> NoNeighbor, takes |-> "dev"]
  BY <1>3, FieldCases
<1>5. f[1].item = NoNeighbor /\ f[1].takes = "dev"
  BY <1>4
<1>6. f[2] = Has([NoNeighbor EXCEPT !.Interface = n.Interface])
  BY <1>3, <1>5 DEF neighborField
<1>7. [NoNeighbor EXCEPT !.Interface = n.Interface] = Item(n.Interface, Unset, Unset, {})
  BY DEF NoNeighbor, Item
<1> QED
  BY <1>6, <1>7

(* A line of words begins with the address: the rest is read.              *)
LEMMA LineIsParsed ==
    ASSUME NEW rest \in Seq(FieldWord), NEW line, line = <<"addr">> \o rest
    PROVE  parseNeighbors({line}) = {parseFields(rest)}
<1> DEFINE at == CHOOSE i \in DOMAIN line : line[i] = "addr" /\ \A j \in 1 .. i - 1 : line[j] # "addr"
<1>1. /\ Len(line) = Len(rest) + 1 /\ DOMAIN line = 1 .. Len(rest) + 1 /\ line[1] = "addr"
      /\ \A i \in 1 .. Len(rest) : line[i + 1] = rest[i]
  OBVIOUS
<1>2. at = 1
  <2>1. 1 \in DOMAIN line /\ line[1] = "addr" /\ \A j \in 1 .. 1 - 1 : line[j] # "addr"
    BY <1>1
  <2>2. at \in DOMAIN line /\ line[at] = "addr" /\ \A j \in 1 .. at - 1 : line[j] # "addr"
    BY <2>1
  <2> HIDE DEF at
  <2>3. at > 1 => 1 \in 1 .. at - 1
    BY <1>1, <2>2
  <2> QED
    BY <1>1, <2>2, <2>3
<1>3. SubSeq(line, 2, Len(line)) = rest
  OBVIOUS
<1>4. parseNeighborLine(line) = parseFields(rest)
  <2>1. parseNeighborLine(line) = parseFields(SubSeq(line, at + 1, Len(line)))
    BY DEF parseNeighborLine
  <2> HIDE DEF at
  <2>2. at + 1 = 2
    BY <1>2
  <2> QED
    BY <1>3, <2>1, <2>2
<1>5. {m \in {line} : \E i \in DOMAIN m : m[i] = "addr"} = {line}
  BY <1>1
<1> QED
  BY <1>4, <1>5 DEF parseNeighbors

(* The parts are sequences of words.                                       *)
LEMMA PartTypes ==
    ASSUME NEW n \in Neighbor
    PROVE  /\ MacPart(n) \in Seq(FieldWord) /\ <<"dev", n.Interface>> \in Seq(FieldWord) /\ <<n.State>> \in Seq(FieldWord)
           /\ \A w \in Flags : FlagPart(n, w) \in Seq(FieldWord)
<1>1. n.Interface \in FieldWord /\ n.State \in States /\ n.State \in FieldWord /\ n.MAC \in FieldWord
  BY DEF Neighbor, FieldWord
<1>2. "dev" \in FieldWord /\ "lladdr" \in FieldWord /\ \A w \in Flags : w \in FieldWord
  BY DEF FieldWord, Flags
<1>3. MacPart(n) \in Seq(FieldWord)
  BY <1>1, <1>2 DEF MacPart
<1>4. \A w \in Flags : FlagPart(n, w) \in Seq(FieldWord)
  BY <1>2 DEF FlagPart
<1> QED
  BY <1>1, <1>2, <1>3, <1>4

(* What a concatenation holds, and where.                                  *)
LEMMA Joined ==
    ASSUME NEW W, NEW s \in Seq(W), NEW t \in Seq(W)
    PROVE  /\ s \o t \in Seq(W) /\ Len(s \o t) = Len(s) + Len(t) /\ Len(s) \in Nat /\ Len(t) \in Nat
           /\ \A i \in 1 .. Len(s) : (s \o t)[i] = s[i]
           /\ \A i \in 1 .. Len(t) : (s \o t)[Len(s) + i] = t[i]
  OBVIOUS

(* A line of five parts, and where each of them begins.                    *)
Placed(rest, W, D, M, R, P, S) ==
    /\ rest \in Seq(W) /\ Len(rest) = Len(D) + Len(M) + Len(R) + Len(P) + Len(S)
    /\ At(rest, 0, D)
    /\ At(rest, Len(D), M)
    /\ At(rest, Len(D) + Len(M), R)
    /\ At(rest, Len(D) + Len(M) + Len(R), P)
    /\ At(rest, Len(D) + Len(M) + Len(R) + Len(P), S)

(* The concatenation of five parts has them in their places.               *)
LEMMA Joined5 ==
    ASSUME NEW W, NEW D \in Seq(W), NEW M \in Seq(W), NEW R \in Seq(W), NEW P \in Seq(W), NEW S \in Seq(W)
    PROVE  Placed(D \o M \o (R \o P) \o S, W, D, M, R, P, S)
<1> DEFINE X == D \o M
           Y == R \o P
           Z == X \o Y
<1>1. /\ X \in Seq(W) /\ Len(X) = Len(D) + Len(M) /\ Len(D) \in Nat /\ Len(M) \in Nat
      /\ \A i \in 1 .. Len(D) : X[i] = D[i]
      /\ \A i \in 1 .. Len(M) : X[Len(D) + i] = M[i]
  BY Joined
<1>2. /\ Y \in Seq(W) /\ Len(Y) = Len(R) + Len(P) /\ Len(R) \in Nat /\ Len(P) \in Nat
      /\ \A i \in 1 .. Len(R) : Y[i] = R[i]
      /\ \A i \in 1 .. Len(P) : Y[Len(R) + i] = P[i]
  BY Joined
<1>0. X \in Seq(W) /\ Y \in Seq(W)
  BY <1>1, <1>2
<1> HIDE DEF X, Y
<1>3. /\ Z \in Seq(W) /\ Len(Z) = Len(X) + Len(Y)
      /\ \A i \in 1 .. Len(X) : Z[i] = X[i]
      /\ \A i \in 1 .. Len(Y) : Z[Len(X) + i] = Y[i]
  BY <1>0, Joined
<1>z. Z \in Seq(W)
  BY <1>3
<1> HIDE DEF Z
<1> DEFINE rest == Z \o S
<1>4. /\ rest \in Seq(W) /\ Len(rest) = Len(Z) + Len(S) /\ Len(S) \in Nat
      /\ \A i \in 1 .. Len(Z) : rest[i] = Z[i]
      /\ \A i \in 1 .. Len(S) : rest[Len(Z) + i] = S[i]
  BY <1>z, Joined
<1>5. D \o M \o (R \o P) \o S = rest
  BY DEF X, Y, Z
<1> HIDE DEF rest
<1>6. Len(Z) = Len(D) + Len(M) + Len(R) + Len(P)
  BY <1>1, <1>2, <1>3
<1>7. \A i \in 1 .. Len(D) : rest[i] = D[i]
  BY <1>1, <1>2, <1>3, <1>4
<1>8. \A i \in 1 .. Len(M) : rest[Len(D) + i] = M[i]
  <2> SUFFICES ASSUME NEW i \in 1 .. Len(M) PROVE rest[Len(D) + i] = M[i]
    OBVIOUS
  <2>1. Len(D) + i \in 1 .. Len(X) /\ Len(D) + i \in 1 .. Len(Z)
    BY <1>1, <1>2, <1>3
  <2> QED
    BY <1>1, <1>3, <1>4, <2>1
<1>9. \A i \in 1 .. Len(R) : rest[Len(D) + Len(M) + i] = R[i]
  <2> SUFFICES ASSUME NEW i \in 1 .. Len(R) PROVE rest[Len(D) + Len(M) + i] = R[i]
    OBVIOUS
  <2>1. i \in 1 .. Len(Y) /\ Len(X) + i \in 1 .. Len(Z)
    BY <1>1, <1>2, <1>3
  <2> QED
    BY <1>1, <1>2, <1>3, <1>4, <2>1
<1>10. \A i \in 1 .. Len(P) : rest[Len(D) + Len(M) + Len(R) + i] = P[i]
  <2> SUFFICES ASSUME NEW i \in 1 .. Len(P) PROVE rest[Len(D) + Len(M) + Len(R) + i] = P[i]
    OBVIOUS
  <2>1. Len(R) + i \in 1 .. Len(Y) /\ Len(X) + (Len(R) + i) \in 1 .. Len(Z)
    BY <1>1, <1>2, <1>3
  <2>2. Z[Len(X) + (Len(R) + i)] = P[i]
    BY <1>2, <1>3, <2>1
  <2>3. Len(X) + (Len(R) + i) = Len(D) + Len(M) + Len(R) + i
    BY <1>1, <1>2
  <2> QED
    BY <1>4, <2>1, <2>2, <2>3
<1>11. \A i \in 1 .. Len(S) : rest[Len(D) + Len(M) + Len(R) + Len(P) + i] = S[i]
  BY <1>4, <1>6
<1>12. /\ rest \in Seq(W) /\ Len(rest) = Len(D) + Len(M) + Len(R) + Len(P) + Len(S)
       /\ Len(D) \in Nat /\ Len(M) \in Nat /\ Len(R) \in Nat /\ Len(P) \in Nat /\ Len(S) \in Nat
  BY <1>1, <1>2, <1>4, <1>6
<1>13. At(rest, 0, D)
  BY <1>7, <1>12 DEF At
<1>14. At(rest, Len(D), M)
  BY <1>8, <1>12 DEF At
<1>15. At(rest, Len(D) + Len(M), R)
  BY <1>9, <1>12 DEF At
<1>16. At(rest, Len(D) + Len(M) + Len(R), P)
  BY <1>10, <1>12 DEF At
<1>17. At(rest, Len(D) + Len(M) + Len(R) + Len(P), S)
  BY <1>11, <1>12 DEF At
<1> QED
  BY <1>5, <1>12, <1>13, <1>14, <1>15, <1>16, <1>17 DEF Placed

(* A line that begins with "dev" is what its words are read as.            *)
LEMMA DeviceIsNamed ==
    ASSUME NEW n \in Neighbor, NEW rest \in Seq(FieldWord), rest # <<>>, rest[1] = "dev",
           \A f : Scans(f, rest) => f[Len(rest)] = Has(n)
    PROVE  parseFields(rest) = n
<1>1. PICK f : /\ Scans(f, rest)
               /\ parseFields(rest) =
                      LET item == f[Len(rest)].item
                          next == IF rest = <<>> THEN "dev" ELSE rest[1]
                      IN  IF item.Interface = Unset /\ ~isNeighborKeyword(next) /\ ~isHardwareAddress(next)
                          THEN [item EXCEPT !.Interface = next] ELSE item
  BY FieldsAreScanned
<1>2. f[Len(rest)].item = n
  BY <1>1 DEF Has
<1>3. isNeighborKeyword("dev")
  BY DEF isNeighborKeyword, Keywords
<1> QED
  BY <1>1, <1>2, <1>3

(* The order in which parts are put together does not matter.              *)
Regrouped(A, D, M, R, P, S) ==
    /\ (A \o D) \o M \o (R \o P) \o S = A \o (D \o M \o (R \o P) \o S)
    /\ (A \o D) \o M \o S \o (R \o P) = A \o (D \o M \o (S \o R) \o P)

(* Concatenation, named so that the provers reason about it by its laws.   *)
Cat(s, t) == s \o t

(* Concatenation is associative.                                           *)
LEMMA Associates ==
    ASSUME NEW W, NEW s \in Seq(W), NEW t \in Seq(W), NEW u \in Seq(W)
    PROVE  Cat(s, t) \in Seq(W) /\ Cat(Cat(s, t), u) = Cat(s, Cat(t, u))
<1>1. s \o t \in Seq(W)
  OBVIOUS
<1>2. (s \o t) \o u = s \o (t \o u)
  OBVIOUS
<1> QED
  BY <1>1, <1>2 DEF Cat

(* The parts of a neighbour's line may be put together in either order.    *)
LEMMA Joined6 ==
    ASSUME NEW W, NEW A \in Seq(W), NEW D \in Seq(W), NEW M \in Seq(W), NEW R \in Seq(W), NEW P \in Seq(W),
           NEW S \in Seq(W)
    PROVE  Regrouped(A, D, M, R, P, S)
<1> DEFINE DM == Cat(D, M)
           RP == Cat(R, P)
           SR == Cat(S, R)
           X == Cat(DM, RP)
           Y == Cat(DM, S)
<1>1. DM \in Seq(W) /\ RP \in Seq(W) /\ SR \in Seq(W)
  BY Associates
<1>2. X \in Seq(W) /\ Y \in Seq(W)
  <2> HIDE DEF DM, RP
  <2> QED
    BY <1>1, Associates
<1>3. Cat(Cat(A, D), M) = Cat(A, DM)
  BY Associates
<1>4. Cat(Cat(A, DM), RP) = Cat(A, X) /\ Cat(Cat(A, DM), S) = Cat(A, Y) /\ Cat(Y, R) = Cat(DM, SR)
  <2> HIDE DEF DM, RP
  <2> QED
    BY <1>1, Associates
<1>5. Cat(Cat(A, X), S) = Cat(A, Cat(X, S)) /\ Cat(Cat(A, Y), RP) = Cat(A, Cat(Y, RP)) /\ Cat(Cat(Y, R), P) = Cat(Y, RP)
  <2>1. Cat(Cat(A, X), S) = Cat(A, Cat(X, S))
    <3> HIDE DEF X
    <3> QED
      BY <1>2, Associates
  <2>2. Cat(Cat(A, Y), RP) = Cat(A, Cat(Y, RP))
    <3> HIDE DEF Y, RP
    <3> QED
      BY <1>1, <1>2, Associates
  <2>3. Cat(Cat(Y, R), P) = Cat(Y, RP)
    <3> HIDE DEF Y
    <3> QED
      BY <1>2, Associates
  <2> QED
    BY <2>1, <2>2, <2>3
<1>6. Cat(Cat(Cat(Cat(A, D), M), RP), S) = Cat(A, Cat(X, S))
  BY <1>3, <1>4, <1>5
<1>7. Cat(Cat(Cat(Cat(A, D), M), S), RP) = Cat(A, Cat(Cat(DM, SR), P))
  BY <1>3, <1>4, <1>5
<1> QED
  BY <1>6, <1>7, Zenon DEF Regrouped, Cat

(* With the flags before the state, the neighbour is read as it is.        *)
LEMMA FlagsFirst ==
    ASSUME NEW n \in Neighbor, NEW rest,
           Placed(rest, FieldWord, <<"dev", n.Interface>>, MacPart(n), FlagPart(n, "router"), FlagPart(n, "proxy"), <<n.State>>)
    PROVE  parseFields(rest) = n
<1> DEFINE a == 2 + Len(MacPart(n))
           b == a + Len(FlagPart(n, "router"))
           c == b + Len(FlagPart(n, "proxy"))
<1>1. /\ rest \in Seq(FieldWord) /\ Len(rest) = c + Len(<<n.State>>) /\ At(rest, 0, <<"dev", n.Interface>>)
      /\ At(rest, 2, MacPart(n)) /\ At(rest, a, FlagPart(n, "router")) /\ At(rest, b, FlagPart(n, "proxy"))
      /\ At(rest, c, <<n.State>>)
  BY DEF Placed
<1>2. n.State \in States /\ n.flags \subseteq Flags /\ "router" \in Flags /\ "proxy" \in Flags
  BY DEF Neighbor, Flags
<1>3. ASSUME NEW f, Scans(f, rest) PROVE f[Len(rest)] = Has(n)
  <2> DEFINE r == {} \cup (n.flags \cap {"router"})
             p == r \cup (n.flags \cap {"proxy"})
  <2>1. f[2] = Has(Item(n.Interface, Unset, Unset, {}))
    BY <1>1, <1>3, ReadsDevice
  <2>2. f[a] = Has(Item(n.Interface, n.MAC, Unset, {}))
    BY <1>1, <1>3, <2>1, ReadsMac
  <2> HIDE DEF a
  <2>3. f[b] = Has(Item(n.Interface, n.MAC, Unset, r))
    BY <1>1, <1>2, <1>3, <2>2, ReadsFlag
  <2> HIDE DEF b, r
  <2>4. f[c] = Has(Item(n.Interface, n.MAC, Unset, p))
    BY <1>1, <1>2, <1>3, <2>3, ReadsFlag
  <2> HIDE DEF c, p
  <2>5. f[c + Len(<<n.State>>)] = Has(Item(n.Interface, n.MAC, n.State, p))
    BY <1>1, <1>2, <1>3, <2>4, ReadsState
  <2>6. p = n.flags
    BY <1>2 DEF p, r, Flags
  <2>7. Item(n.Interface, n.MAC, n.State, n.flags) = n
    BY DEF Item, Neighbor
  <2> QED
    BY <1>1, <2>5, <2>6, <2>7
<1>4. rest # <<>> /\ rest[1] = "dev"
  BY <1>1 DEF At
<1> QED
  BY <1>1, <1>3, <1>4, DeviceIsNamed

(* The same with the state before the flags.                               *)
LEMMA FlagsLast ==
    ASSUME NEW n \in Neighbor, NEW rest,
           Placed(rest, FieldWord, <<"dev", n.Interface>>, MacPart(n), <<n.State>>, FlagPart(n, "router"), FlagPart(n, "proxy"))
    PROVE  parseFields(rest) = n
<1> DEFINE a == 2 + Len(MacPart(n))
           b == a + Len(<<n.State>>)
           c == b + Len(FlagPart(n, "router"))
<1>1. /\ rest \in Seq(FieldWord) /\ Len(rest) = c + Len(FlagPart(n, "proxy")) /\ At(rest, 0, <<"dev", n.Interface>>)
      /\ At(rest, 2, MacPart(n)) /\ At(rest, a, <<n.State>>) /\ At(rest, b, FlagPart(n, "router"))
      /\ At(rest, c, FlagPart(n, "proxy"))
  BY DEF Placed
<1>2. n.State \in States /\ n.flags \subseteq Flags /\ "router" \in Flags /\ "proxy" \in Flags
  BY DEF Neighbor, Flags
<1>3. ASSUME NEW f, Scans(f, rest) PROVE f[Len(rest)] = Has(n)
  <2> DEFINE r == {} \cup (n.flags \cap {"router"})
             p == r \cup (n.flags \cap {"proxy"})
  <2>1. f[2] = Has(Item(n.Interface, Unset, Unset, {}))
    BY <1>1, <1>3, ReadsDevice
  <2>2. f[a] = Has(Item(n.Interface, n.MAC, Unset, {}))
    BY <1>1, <1>3, <2>1, ReadsMac
  <2> HIDE DEF a
  <2>3. f[b] = Has(Item(n.Interface, n.MAC, n.State, {}))
    BY <1>1, <1>2, <1>3, <2>2, ReadsState
  <2> HIDE DEF b
  <2>4. f[c] = Has(Item(n.Interface, n.MAC, n.State, r))
    BY <1>1, <1>2, <1>3, <2>3, ReadsFlag
  <2> HIDE DEF c, r
  <2>5. f[c + Len(FlagPart(n, "proxy"))] = Has(Item(n.Interface, n.MAC, n.State, p))
    BY <1>1, <1>2, <1>3, <2>4, ReadsFlag
  <2>6. p = n.flags
    BY <1>2 DEF p, r, Flags
  <2>7. Item(n.Interface, n.MAC, n.State, n.flags) = n
    BY DEF Item, Neighbor
  <2> QED
    BY <1>1, <2>5, <2>6, <2>7
<1>4. rest # <<>> /\ rest[1] = "dev"
  BY <1>1 DEF At
<1> QED
  BY <1>1, <1>3, <1>4, DeviceIsNamed

(* A line that names its device gives the neighbour back, in both orders.  *)
LEMMA NamedIsExact ==
    ASSUME NEW n \in Neighbor, NEW form \in {"flags_first", "flags_last"}
    PROVE  parseNeighbors({SpellNeighbor(n, form)}) = {n}
<1> DEFINE A == <<"addr">>
           D == <<"dev", n.Interface>>
           M == MacPart(n)
           R == FlagPart(n, "router")
           P == FlagPart(n, "proxy")
           S == <<n.State>>
<1>1. M \in Seq(FieldWord) /\ D \in Seq(FieldWord) /\ S \in Seq(FieldWord) /\ R \in Seq(FieldWord) /\ P \in Seq(FieldWord)
  BY PartTypes DEF Flags
<1>2. <<"addr", "dev", n.Interface>> = A \o D
  <2>1. n.Interface \in FieldWord /\ "addr" \in FieldWord /\ "dev" \in FieldWord
    BY DEF Neighbor, FieldWord
  <2> QED
    BY <2>1
<1>3. SpellNeighbor(n, form) = IF form = "flags_first" THEN (A \o D) \o M \o (R \o P) \o S
                               ELSE (A \o D) \o M \o S \o (R \o P)
  BY <1>2 DEF SpellNeighbor, MacPart, FlagPart
<1>a. A \in Seq(FieldWord)
  BY DEF FieldWord
<1> HIDE DEF A, D, M, R, P, S
<1>r. Regrouped(A, D, M, R, P, S)
  BY <1>1, <1>a, Joined6
<1>4. CASE form = "flags_first"
  <2> DEFINE rest == D \o M \o (R \o P) \o S
  <2>1. Placed(rest, FieldWord, D, M, R, P, S)
    BY <1>1, Joined5
  <2>2. parseFields(rest) = n
    BY <2>1, FlagsFirst DEF D, M, R, P, S
  <2>3. SpellNeighbor(n, form) = A \o rest
    <3>1. (A \o D) \o M \o (R \o P) \o S = A \o (D \o M \o (R \o P) \o S)
      BY <1>r DEF Regrouped
    <3> QED
      BY <1>3, <1>4, <3>1
  <2>4. rest \in Seq(FieldWord)
    BY <2>1 DEF Placed
  <2> HIDE DEF rest
  <2> QED
    BY <2>2, <2>3, <2>4, LineIsParsed DEF A
<1>5. CASE form = "flags_last"
  <2> DEFINE rest == D \o M \o (S \o R) \o P
  <2>1. Placed(rest, FieldWord, D, M, S, R, P)
    BY <1>1, Joined5
  <2>2. parseFields(rest) = n
    BY <2>1, FlagsLast DEF D, M, R, P, S
  <2>3. SpellNeighbor(n, form) = A \o rest
    <3>1. (A \o D) \o M \o S \o (R \o P) = A \o (D \o M \o (S \o R) \o P)
      BY <1>r DEF Regrouped
    <3> QED
      BY <1>3, <1>5, <3>1
  <2>4. rest \in Seq(FieldWord)
    BY <2>1 DEF Placed
  <2> HIDE DEF rest
  <2> QED
    BY <2>2, <2>3, <2>4, LineIsParsed DEF A
<1> QED
  BY <1>4, <1>5

(* A line that gives its fields by position gives the state, and the       *)
(* device unless a keyword or a state has its name.                        *)
LEMMA PositionIsHonest ==
    ASSUME NEW n \in Neighbor, NEW x \in parseNeighbors({SpellNeighbor(n, "position")})
    PROVE  x.State = n.State /\ (x.Interface \in {n.Interface, Unset} \/ n.Interface = "dev")
<1> DEFINE rest == <<n.Interface, "mac", n.State>>
<1>1. n.Interface \in FieldWord /\ n.State \in States /\ n.State \in FieldWord /\ "mac" \in FieldWord
  BY DEF Neighbor, FieldWord
<1>2. rest \in Seq(FieldWord) /\ SpellNeighbor(n, "position") = <<"addr">> \o rest
  BY <1>1 DEF SpellNeighbor
<1>3. x = parseFields(rest)
  <2> HIDE DEF rest
  <2> QED
    BY <1>2, LineIsParsed
<1>4. Len(rest) = 3 /\ rest[1] = n.Interface /\ rest[2] = "mac" /\ rest[3] = n.State /\ rest # <<>>
  OBVIOUS
<1> HIDE DEF rest
<1>5. PICK f : /\ Scans(f, rest)
               /\ parseFields(rest) =
                      LET item == f[Len(rest)].item
                          next == IF rest = <<>> THEN "dev" ELSE rest[1]
                      IN  IF item.Interface = Unset /\ ~isNeighborKeyword(next) /\ ~isHardwareAddress(next)
                          THEN [item EXCEPT !.Interface = next] ELSE item
  BY <1>2, FieldsAreScanned
<1>a. Len(rest) \in Nat /\ 0 + 1 <= Len(rest) /\ 1 + 1 <= Len(rest) /\ 2 + 1 <= Len(rest)
      /\ 0 \in Nat /\ 1 \in Nat /\ 2 \in Nat
  BY <1>4
<1>s. Scans(f, rest)
  BY <1>5
<1>6. f[0 + 1] = neighborField(f[0], rest[0 + 1])
  BY <1>a, <1>s, ScanStep
<1>7. f[1 + 1] = neighborField(f[1], rest[1 + 1])
  BY <1>a, <1>s, ScanStep
<1>8. f[2 + 1] = neighborField(f[2], rest[2 + 1])
  BY <1>a, <1>s, ScanStep
<1>9. /\ f[1] = neighborField(Has(NoNeighbor), n.Interface) /\ f[2] = neighborField(f[1], "mac")
      /\ f[3] = neighborField(f[2], n.State)
  BY <1>4, <1>5, <1>6, <1>7, <1>8 DEF Scans
<1> DEFINE item == f[3].item
<1>10. x = item \/ (item.Interface = Unset /\ x = [item EXCEPT !.Interface = n.Interface])
  BY <1>3, <1>4, <1>5
<1>n. /\ NoNeighbor = Item(Unset, Unset, Unset, {}) /\ States \cap {"mac"} = {} /\ "mac" \notin Flags
      /\ "mac" \notin {"dev", "lladdr"}
  BY DEF NoNeighbor, Item, States, Flags
<1>11. CASE n.Interface \in {"dev", "lladdr"}
  <2>1. f[1] = [item |-> NoNeighbor, takes |-> n.Interface]
    BY <1>9, <1>11, FieldCases
  <2>2. f[1].item = NoNeighbor /\ f[1].takes = n.Interface
    BY <2>1
  <2>a. [NoNeighbor EXCEPT !.Interface = "mac"] = Item("mac", Unset, Unset, {})
    BY DEF NoNeighbor, Item
  <2>b. [NoNeighbor EXCEPT !.MAC = "mac"] = Item(Unset, "mac", Unset, {})
    BY DEF NoNeighbor, Item
  <2>c. n.Interface = "dev" => f[2] = Has([NoNeighbor EXCEPT !.Interface = "mac"])
    BY <1>9, <2>2 DEF neighborField
  <2>4. n.Interface = "lladdr" => f[2] = Has(Item(Unset, "mac", Unset, {}))
    BY <1>9, <2>2, <2>b DEF neighborField
  <2>3. n.Interface = "dev" => f[2] = Has(Item("mac", Unset, Unset, {}))
    BY <2>a, <2>c
  <2>5. CASE n.Interface = "lladdr"
    <3>1. f[3] = Has([Item(Unset, "mac", Unset, {}) EXCEPT !.State = n.State])
      BY <1>1, <1>9, <2>4, <2>5, FieldCases
    <3>2. item = Item(Unset, "mac", n.State, {})
      BY <3>1 DEF Has, Item
    <3> QED
      BY <1>10, <3>2 DEF Item
  <2>6. CASE n.Interface = "dev"
    <3>2. f[3] = Has([Item("mac", Unset, Unset, {}) EXCEPT !.State = n.State])
      BY <1>1, <1>9, <2>3, <2>6, FieldCases
    <3>3. item = Item("mac", Unset, n.State, {})
      BY <3>2 DEF Has, Item
    <3> QED
      BY <1>10, <2>6, <3>3 DEF Item
  <2> QED
    BY <1>11, <2>5, <2>6
<1>12. CASE n.Interface \notin {"dev", "lladdr"}
  <2>1. \E s, g : f[1] = Has(Item(Unset, Unset, s, g))
    <3>1. CASE n.Interface \in Flags
      <4>1. f[1] = Has([NoNeighbor EXCEPT !.flags = @ \cup {n.Interface}])
        BY <1>9, <3>1, FieldCases
      <4>2. [NoNeighbor EXCEPT !.flags = @ \cup {n.Interface}] = Item(Unset, Unset, Unset, {} \cup {n.Interface})
        BY DEF NoNeighbor, Item
      <4> QED
        BY <4>1, <4>2
    <3>2. CASE n.Interface \in States
      <4>1. f[1] = Has([NoNeighbor EXCEPT !.State = n.Interface])
        BY <1>9, <3>2, FieldCases
      <4>2. [NoNeighbor EXCEPT !.State = n.Interface] = Item(Unset, Unset, n.Interface, {})
        BY DEF NoNeighbor, Item
      <4> QED
        BY <4>1, <4>2
    <3>3. CASE n.Interface \notin Flags \cup States
      <4>1. f[1] = Has(NoNeighbor)
        BY <1>9, <1>12, <3>3 DEF neighborField, isNeighborState, Has
      <4> QED
        BY <1>n, <4>1
    <3> QED
      BY <3>1, <3>2, <3>3
  <2>2. PICK s, g : f[1] = Has(Item(Unset, Unset, s, g))
    BY <2>1
  <2>3. f[2] = f[1]
    BY <1>9, <1>n, <2>2 DEF neighborField, isNeighborState, Has
  <2>4. f[3] = Has([Item(Unset, Unset, s, g) EXCEPT !.State = n.State])
    <3>1. f[3] = neighborField(Has(Item(Unset, Unset, s, g)), n.State)
      BY <1>9, <2>2, <2>3
    <3> QED
      BY <1>1, <3>1, FieldCases
  <2>5. item = Item(Unset, Unset, n.State, g)
    BY <2>4 DEF Has, Item
  <2> QED
    BY <1>10, <2>5 DEF Item
<1> QED
  BY <1>11, <1>12

(* A table that is read without an error is whole, if its parser keeps     *)
(* every line without a defect; an unreadable one is not an answer.        *)
LEMMA ReadIsWhole ==
    ASSUME NEW file \in Table, NEW items, {i \in DOMAIN file.lines : file.lines[i] = {}} \subseteq items,
           readRouteTable(file, items).err # "error"
    PROVE  /\ WholeTable(file, readRouteTable(file, items).items)
           /\ readRouteTable(file, items).available => file # Absent
<1>1. readRouteTable(file, items).err = CASE file.open = "absent" -> "absent"
                                          [] file.open = "refused" -> "error"
                                          [] file.broken -> "error"
                                          [] OTHER -> "none"
  BY DEF readRouteTable
<1>2. file.open \in {"absent", "refused", "ok"} /\ file.broken \in BOOLEAN
  BY DEF Table
<1>3. file.open = "absent" \/ (file.open = "ok" /\ ~file.broken)
  BY <1>1, <1>2
<1>4. /\ readRouteTable(file, items).items = (IF file.open = "ok" THEN items ELSE {})
      /\ readRouteTable(file, items).available = (file.open = "ok")
  BY DEF readRouteTable
<1>5. file.open = "ok" => file # Absent
  BY DEF Absent
<1> QED
  BY <1>3, <1>4, <1>5 DEF WholeTable

(* Both parsers keep the lines without a defect.                           *)
LEMMA ParsersKeepLines ==
    ASSUME NEW file \in Table
    PROVE  LET t4 == readRouteTable(file, parseIPv4Routes(file.lines))
               t6 == readRouteTable(file, parseIPv6Routes(file.lines))
           IN  /\ t4.err # "error" => WholeTable(file, t4.items) /\ (t4.available => file # Absent)
               /\ t6.err # "error" => WholeTable(file, t6.items) /\ (t6.available => file # Absent)
<1>1. {i \in DOMAIN file.lines : file.lines[i] = {}} \subseteq parseIPv4Routes(file.lines)
  BY DEF parseIPv4Routes
<1>2. {i \in DOMAIN file.lines : file.lines[i] = {}} \subseteq parseIPv6Routes(file.lines)
  BY DEF parseIPv6Routes
<1> QED
  BY <1>1, <1>2, ReadIsWhole

(* Every description of the route tables with success is whole.            *)
LEMMA RoutesAreWhole ==
    ASSUME NEW a \in networkRoutes, a.status = 200
    PROVE  WholeAnswer(a)
<1>1. PICK v4 \in Tables, v6 \in Tables :
          a = LET says == Routes(v4, v6) IN Description("routes", <<v4, v6>>, says, says.err = "none", 500)
  BY DEF networkRoutes
<1> DEFINE r == Routes(v4, v6)
           t4 == readRouteTable(v4, parseIPv4Routes(v4.lines))
           t6 == readRouteTable(v6, parseIPv6Routes(v6.lines))
<1>2. a.of = "routes" /\ a.from = <<v4, v6>> /\ a.says = r /\ r.err = "none"
  BY <1>1 DEF Description
<1>3. r.ipv4 = t4.items /\ r.ipv6 = t6.items
  BY DEF Routes
<1>4. (t4.available \/ t6.available) /\ t4.err # "error" /\ t6.err # "error"
  <2> HIDE DEF t4, t6
  <2>1. r.err = CASE ~t4.available /\ ~t6.available -> "unavailable"
                  [] "error" \in {t4.err, t6.err} -> "error"
                  [] OTHER -> "none"
    BY DEF Routes, t4, t6
  <2> QED
    BY <1>2, <2>1
<1>5. v4 \in Table /\ v6 \in Table
  BY NetworkAssumption
<1>6. WholeTable(v4, t4.items) /\ (t4.available => v4 # Absent)
  BY <1>4, <1>5, ParsersKeepLines
<1>7. WholeTable(v6, t6.items) /\ (t6.available => v6 # Absent)
  BY <1>4, <1>5, ParsersKeepLines
<1>8. <<Absent, Absent>> # <<v4, v6>>
  BY <1>4, <1>6, <1>7
<1>9. a.from[1] = v4 /\ a.from[2] = v6 /\ a.says.ipv4 = t4.items /\ a.says.ipv6 = t6.items
  BY <1>2, <1>3
<1> HIDE DEF r, t4, t6
<1> QED
  BY <1>2, <1>6, <1>7, <1>8, <1>9 DEF WholeAnswer

(* The same for the table of IPv6 alone.                                   *)
LEMMA IPv6RoutesAreWhole ==
    ASSUME NEW a \in networkIPv6Routes, a.status = 200
    PROVE  WholeAnswer(a)
<1>1. PICK v6 \in Tables :
          a = LET says == IPv6Routes(v6) IN Description("ipv6_routes", v6, says, says.err = "none", 503)
  BY DEF networkIPv6Routes
<1> DEFINE r == IPv6Routes(v6)
           t6 == readRouteTable(v6, parseIPv6Routes(v6.lines))
<1>2. a.of = "ipv6_routes" /\ a.from = v6 /\ a.says = r /\ r.err = "none"
  BY <1>1 DEF Description
<1>3. r.items = t6.items /\ r.err = IF t6.available THEN t6.err ELSE "unavailable"
  BY DEF IPv6Routes
<1> HIDE DEF r
<1>4. t6.available /\ t6.err # "error"
  <2> HIDE DEF t6
  <2> QED
    BY <1>2, <1>3
<1>5. v6 \in Table
  BY NetworkAssumption
<1>6. WholeTable(v6, t6.items) /\ (t6.available => v6 # Absent)
  BY <1>4, <1>5, ParsersKeepLines
<1> HIDE DEF t6
<1> QED
  BY <1>2, <1>3, <1>4, <1>6 DEF WholeAnswer

(* And for neighbours and counters.                                        *)
LEMMA NeighborsAreWhole ==
    ASSUME NEW a \in networkIPv6Neighbors
    PROVE  WholeAnswer(a)
<1> DEFINE source(f) == NeighborsContext(f.ndisc, f.cache, f.ip)
           items(f) == parseNeighbors({SpellNeighbor(f.entry, f.form)})
           of(f) == Description("neighbors", f, [items |-> items(f), from |-> source(f).from],
                                source(f).err = "none", 503)
           F == [ndisc : Tables, cache : {Absent}, ip : {"ok"}, entry : Neighbors, form : {"flags_first"}]
                \cup [ndisc : {Absent}, cache : Tables, ip : {"ok", "failed"}, entry : Neighbors,
                      form : {"flags_first", "flags_last", "position"}]
<1>1. networkIPv6Neighbors = {of(f) : f \in F}
  BY Zenon DEF networkIPv6Neighbors
<1>2. \A f \in F : f.entry \in Neighbors /\ f.form \in {"flags_first", "flags_last", "position"}
  OBVIOUS
<1> HIDE DEF F, source, items
<1>3. PICK f \in F : a = of(f)
  BY <1>1
<1>4. a.of = "neighbors" /\ a.from = f /\ a.says.items = items(f)
  BY <1>3 DEF Description
<1>5. f.entry \in Neighbor
  BY <1>2, NetworkAssumption
<1>6. CASE f.form = "position"
  <2>1. \A x \in items(f) :
            x.State = f.entry.State /\ (x.Interface \in {f.entry.Interface, Unset} \/ f.entry.Interface = "dev")
    BY <1>5, <1>6, PositionIsHonest DEF items
  <2> QED
    BY <1>4, <1>6, <2>1 DEF WholeAnswer
<1>7. CASE f.form # "position"
  <2>1. f.form \in {"flags_first", "flags_last"}
    BY <1>2, <1>7
  <2>2. items(f) = {f.entry}
    BY <1>5, <2>1, NamedIsExact DEF items
  <2> QED
    BY <1>4, <1>7, <2>2 DEF WholeAnswer
<1> QED
  BY <1>6, <1>7

(* Counters are those of one source.                                       *)
LEMMA CountersAreWhole ==
    ASSUME NEW a \in networkInterfaces
    PROVE  WholeAnswer(a)
<1> DEFINE of(s, t, k) == Description("counters", <<s, t>>, interfaceCounters(s, t), k, 500)
           C == {{}, {"rx_bytes"}, Counter}
<1>0. networkInterfaces = {of(s, t, k) : s \in C, t \in C, k \in BOOLEAN}
  BY DEF networkInterfaces
<1>c. \A s \in C : s = {} \/ s = {"rx_bytes"} \/ s = Counter
  OBVIOUS
<1> HIDE DEF of, C
<1>1. PICK sys \in C, row \in C, ok \in BOOLEAN : a = of(sys, row, ok)
  BY <1>0
<1> USE DEF of
<1> DEFINE says == interfaceCounters(sys, row)
<1>2. a.of = "counters" /\ a.from = <<sys, row>> /\ a.says = says
  BY <1>1 DEF Description
<1>3. a.from[1] = sys /\ a.from[2] = row
  BY <1>2
<1>4. "tx_bytes" \in Counter /\ "tx_bytes" \notin {"rx_bytes"}
  BY DEF Counter
<1>5. CASE sys # {}
  <2>1. says.known = sys /\ says.Available = TRUE
    BY <1>5 DEF interfaceCounters
  <2> HIDE DEF says
  <2> QED
    BY <1>2, <1>3, <1>5, <2>1 DEF WholeAnswer
<1>6. CASE sys = {} /\ parseProcNetDev(row)
  <2>1. says.known = Counter /\ says.Available = TRUE
    BY <1>6 DEF interfaceCounters
  <2>2. row = Counter
    BY <1>4, <1>6, <1>c DEF parseProcNetDev
  <2> HIDE DEF says
  <2> QED
    BY <1>2, <1>3, <1>4, <2>1, <2>2 DEF WholeAnswer
<1>7. CASE sys = {} /\ ~parseProcNetDev(row)
  <2>1. says.known = {} /\ says.Available = FALSE
    BY <1>7 DEF interfaceCounters
  <2> HIDE DEF says
  <2> QED
    BY <1>2, <1>3, <1>7, <2>1 DEF WholeAnswer
<1> QED
  BY <1>5, <1>6, <1>7

(* Every description that is made is whole.                                *)
LEMMA DescriptionsAreWhole ==
    ASSUME NEW c, NEW r, NEW a \in description(c, r), a.status = 200
    PROVE  WholeAnswer(a)
<1>1. a \in networkRoutes \/ a \in networkIPv6Routes \/ a \in networkIPv6Neighbors
      \/ a \in networkInterfaces \/ a \in Reconstruct(c.redact)
  BY DEF description
<1>2. ASSUME a \in Reconstruct(c.redact) PROVE WholeAnswer(a)
  <2>1. a.of = "container"
    BY <1>2 DEF Reconstruct, Description
  <2> QED
    BY <2>1 DEF WholeAnswer
<1> QED
  BY <1>1, <1>2, RoutesAreWhole, IPv6RoutesAreWhole, NeighborsAreWhole, CountersAreWhole

(* So is no description at all.                                            *)
LEMMA NothingIsWhole == WholeAnswer(NoAnswer)
<1>1. NoAnswer.of \notin {"routes", "ipv6_routes", "neighbors", "counters"}
  BY Zenon DEF NoAnswer, Description
<1> QED
  BY <1>1 DEF WholeAnswer

(* Every step keeps the answer whole and its status the reply's.           *)
LEMMA AnswerStep == AnswerInv /\ [Next]_vars => AnswerInv'
<1> SUFFICES ASSUME AnswerInv, [Next]_vars PROVE AnswerInv'
  OBVIOUS
<1>1. CASE Describe
  <2>1. PICK a \in description(conf, req) : answer' = a /\ Answer(a.status)
    BY <1>1 DEF Describe
  <2>2. phase' = "audit" /\ status' = answer'.status
    BY <2>1 DEF Answer
  <2>3. answer'.status = 200 => WholeAnswer(answer)'
    BY <2>1, DescriptionsAreWhole
  <2> QED
    BY <2>2, <2>3 DEF AnswerInv
<1>2. ASSUME answer' = NoAnswer PROVE AnswerInv'
  BY <1>2, NothingIsWhole DEF AnswerInv
<1>3. ASSUME phase # "audit", answer' = answer PROVE AnswerInv'
  BY <1>2, <1>3 DEF AnswerInv
<1>4. ASSUME UNCHANGED <<phase, status, answer>> PROVE AnswerInv'
  BY <1>4 DEF AnswerInv
<1>5. CASE auditOperation \/ Crash \/ Begin
  BY <1>2, <1>5 DEF auditOperation, Crash, Begin, Afresh
<1>6. CASE Handle \/ Panic \/ approvalRoute \/ StartSnapshot \/ AnswerSnapshot
  BY <1>3, <1>6 DEF Handle, Panic, Served, approvalRoute, StartSnapshot, AnswerSnapshot
<1>7. CASE RunJob \/ Collecting
  BY <1>4, <1>7 DEF RunJob, Collecting, apiVars
<1>8. ASSUME NEW r, RefuseSupplement(r) \/ RequestApproval(r) \/ Consume(r) \/ RefuseTicket(r) \/ Pass(r)
      PROVE  AnswerInv'
  BY <1>3, <1>8 DEF RefuseSupplement, RequestApproval, Consume, RefuseTicket, Pass, Arrives
<1>9. CASE UNCHANGED vars
  BY <1>4, <1>9 DEF vars, apiVars
<1> QED
  BY <1>1, <1>5, <1>6, <1>7, <1>8, <1>9 DEF Next

(* Every reply with success about the network is whole, for any tables and *)
(* any neighbours: none is cut short, none is read as another.             *)
THEOREM TablesAreReadWhole == Spec => []TablesAreWhole
<1>1. Init => AnswerInv
  BY NothingIsWhole DEF Init, ApiInit, AnswerInv
<1>2. AnswerInv => TablesAreWhole
  BY NothingIsWhole DEF AnswerInv, TablesAreWhole
<1> QED
  BY <1>1, <1>2, AnswerStep, PTL DEF Spec

=============================================================================
