--------------------------- MODULE Reconstruction ---------------------------
(***************************************************************************)
(* The reconstruction of a container from its inspect document             *)
(* (agent/internal/qnap/docker/reconstruct.go, inspect.go): which settings *)
(* reach the docker run command, which reach the Compose service, and      *)
(* which are reported as lost.                                             *)
(*                                                                         *)
(* A document is the set of its settings that are not empty; values and    *)
(* their spelling are left out.  A setting is a sequence of strings: its   *)
(* key, then the entry of a list or map.  A volume is written as the parts *)
(* that its colons separate, since two functions take it apart again; even *)
(* an empty string has one part.                                           *)
(***************************************************************************)
EXTENDS Sequences, Naturals

CONSTANTS
    Place,      \* paths of mounts: host sources and container targets
    Net,        \* names of networks
    Env         \* environment variables

ASSUME ReconstructionAssumption == {"", "ro", "tmpfs", "Propagation", "Consistency"} \cap Place = {}

SecretEnv == Env \ {"PATH"}     \* variables whose name carries a secret's marker

(* Keys of the document.  The code has a line for each of about ninety;    *)
(* here one key, or a few, stands for all that a function treats alike:    *)
(* written in both forms, reported as lost, or listed as recognized and    *)
(* neither written nor reported.  "OnBuild" and "Annotations" stand for    *)
(* the keys that the structures do not have.                               *)
ConfigEmitted == {"Cmd", "Labels"}
ConfigIgnored == {"Shell", "ExposedPorts"}
ConfigField == ConfigEmitted \cup ConfigIgnored \cup {"StdinOnce", "OnBuild"}

HostEmitted == {"Privileged", "RestartPolicy"}
HostReported == {"InitPath"}
Blkio == {"BlkioWeight"}
ResourceEmitted == {"Memory"} \cup Blkio
ResourceReported == {"CpuCount"}
HostIgnored == {"MaskedPaths"}
HostField == HostEmitted \cup HostReported \cup ResourceEmitted \cup ResourceReported \cup HostIgnored
             \cup {"PublishAllPorts", "LogConfig", "PortBindings", "Annotations"}

CheckTiming == {"Interval"}
Healthcheck == [test : {"absent", "NONE", "short", "CMD-SHELL", "CMD", "other"}, timing : SUBSET CheckTiming]

(* Options of a mount: those that it is given up for, those that --mount   *)
(* can say, and a comma or a line break in one of its paths.               *)
MountRefused == {"NoCopy"}
MountOption == MountRefused \cup {"Propagation", "Consistency", "Separator"}
Mount == [Type : {"", "bind", "volume", "tmpfs", "npipe"}, Source : Place \cup {""}, Destination : Place \cup {""},
          RW : BOOLEAN, options : SUBSET MountOption]
Endpoint == SUBSET {"Address", "MacAddress", "DriverOpts", "Aliases"}
NoEndpoint == {"absent"}

Document == [config : SUBSET ConfigField, host : SUBSET HostField, Image : BOOLEAN, Entrypoint : 0 .. 2,
             Env : SUBSET Env, check : Healthcheck, NetworkMode : {"", "default", "host"},
             Binds : SUBSET (Seq(Place \cup {"ro"}) \ {<<>>}), Mounts : Seq(Mount), Volumes : SUBSET Place,
             Networks : [Net -> Endpoint \cup {NoEndpoint}]]

-----------------------------------------------------------------------------
(* What a part of the reconstruction contributes: settings of the docker   *)
(* run command, of the Compose service, and entries of the loss report.    *)
(* addLoss keeps one entry per field, so the report is a set of fields.    *)

Part(run, compose, loss) == [run |-> run, compose |-> compose, loss |-> loss]
Keys(F) == {<<k>> : k \in F}
Both(F) == Part(Keys(F), Keys(F), {})
addLoss(F) == Part({}, {}, Keys(F))

(* Config, up to the settings that have functions of their own.            *)
appendConfig(d, redact) ==
    LET secrets == IF redact THEN d.Env \cap SecretEnv ELSE {}
        env == {<<"Env", e>> : e \in d.Env \ secrets}
    IN  {Both(d.config \cap ConfigEmitted),
         addLoss(d.config \cap {"StdinOnce"}),
         IF d.Image THEN Both({"Image"}) ELSE addLoss({"Image"}),
         CASE d.Entrypoint = 0 -> addLoss({})
           [] d.Entrypoint = 1 -> Both({"Entrypoint"})
           [] OTHER -> addLoss({"Entrypoint"}),
         Part(env, env, {<<"Env", e>> : e \in secrets})}

(* Mutant: the exec form is taken for written.                             *)
healthcheckUnreported(check) ==
    LET test == {<<"Healthcheck">>}
        timing == {<<"Healthcheck", t>> : t \in check.timing}
    IN  IF check.test = "absent" THEN {} ELSE {Part(timing, test \cup timing, {})}

(* A disabled healthcheck keeps its test in Compose and nothing else; an   *)
(* exec form reaches Compose but not the command line.                     *)
appendHealthcheck(check) ==
    LET test == {<<"Healthcheck">>}
        timing == {<<"Healthcheck", t>> : t \in check.timing}
    IN  CASE check.test = "absent" -> {}
          [] check.test = "NONE" -> {Part(test, test, {})}
          [] check.test = "CMD-SHELL" -> {Part(test \cup timing, test \cup timing, {})}
          [] OTHER -> {Part(timing, test \cup timing, test)}

appendResourceFlags(host) ==
    {Both(host \cap ResourceEmitted), addLoss(host \cap ResourceReported)}

appendLogging(host) == {Both(host \cap {"LogConfig"})}

appendHostConfig(d) ==
    {Both(d.host \cap HostEmitted),
     addLoss(d.host \cap HostReported),
     Part(Keys(d.host \cap {"PublishAllPorts"}), {}, {}),
     Part(IF d.NetworkMode = "host" THEN {<<"NetworkMode">>} ELSE {},
          IF d.NetworkMode # "" THEN {<<"NetworkMode">>} ELSE {}, {})}
    \cup appendResourceFlags(d.host) \cup appendLogging(d.host)

appendPorts(d) == {Both(d.host \cap {"PortBindings"})}

(* Volumes as their parts: what stands before, between and after colons.   *)
bindTargetKey(bind) == IF Len(bind) < 2 THEN <<>> ELSE <<bind[1], bind[2]>>
volumeTarget(value) == IF Len(value) = 1 THEN value[1] ELSE value[2]

renderable(m) ==
    /\ m.Destination # ""
    /\ "Separator" \notin m.options
    /\ m.Type # "npipe"
    /\ m.options \cap MountRefused = {}

readonly(m) == IF m.RW THEN <<>> ELSE <<"ro">>
runValue(m) == <<m.Source, m.Destination>> \o readonly(m)
composeValue(m) ==
    (IF m.Source = "" THEN <<m.Destination>> ELSE <<m.Source, m.Destination>>) \o readonly(m)

(* What --mount says and the short form of a volume cannot.                *)
details(m) == (m.options \cap {"Propagation", "Consistency"}) \cup ({m.Type} \cap {"tmpfs"})

(* A mount whose source and destination were already written is skipped.   *)
mountKey(m) == <<m.Source, m.Destination>>
skipped(d, i) ==
    \/ mountKey(d.Mounts[i]) \in {bindTargetKey(b) : b \in d.Binds}
    \/ \E j \in 1 .. i - 1 : mountKey(d.Mounts[j]) = mountKey(d.Mounts[i]) /\ renderable(d.Mounts[j])

written(d) == {i \in DOMAIN d.Mounts : renderable(d.Mounts[i]) /\ ~skipped(d, i)}
volumesOf(d) == d.Binds \cup {composeValue(d.Mounts[i]) : i \in written(d)}

appendMounts(d) ==
    LET compose == {<<"Volume">> \o v : v \in volumesOf(d)}
        run == {<<"Volume">> \o v : v \in d.Binds \cup {runValue(d.Mounts[i]) : i \in written(d)}}
        more == UNION {{<<"Volume", d.Mounts[i].Destination, o>> : o \in details(d.Mounts[i])} : i \in written(d)}
        lost == {i \in DOMAIN d.Mounts : ~skipped(d, i) /\ ~renderable(d.Mounts[i])}
    IN  {Part(run \cup more, compose, {<<"Mounts", d.Mounts[i].Destination>> : i \in lost})}

appendConfigVolumes(d) ==
    LET new == {<<"Volume", t>> : t \in d.Volumes \ {volumeTarget(v) : v \in volumesOf(d)}}
    IN  {Part(new, new, {})}

(* One MAC address can be given when there is one network.                 *)
appendNetworks(d) ==
    LET names == {n \in Net : d.Networks[n] # NoEndpoint}
        single == \A m, n \in names : m = n
        endpoint(n) ==
            LET e == d.Networks[n]
                emitted == {<<"Networks", n>>} \cup {<<"Networks", n, a>> : a \in e \cap {"Aliases"}}
                mac == {<<"Networks", n, a>> : a \in e \cap {"MacAddress"}}
            IN  {Part(emitted, emitted, {<<"Networks", n, a>> : a \in e \cap {"Address", "DriverOpts"}}),
                 IF single THEN Part(mac, mac, {}) ELSE Part({}, {}, mac)}
    IN  UNION {endpoint(n) : n \in names}

(* The keys that recognizedConfigField and recognizedHostConfigField list. *)
(* The list spells the block I/O keys without their "k".                   *)
recognizedConfigField == ConfigField \ {"OnBuild"}
recognizedHostConfigField == HostField \ (Blkio \cup {"Annotations"})

collectUnknownFields(d) ==
    {addLoss((d.config \ recognizedConfigField) \cup (d.host \ recognizedHostConfigField))}

buildReconstruction(d, redact) ==
    LET parts == appendConfig(d, redact) \cup appendHealthcheck(d.check) \cup appendHostConfig(d)
                 \cup appendMounts(d) \cup appendPorts(d) \cup appendNetworks(d)
                 \cup appendConfigVolumes(d) \cup collectUnknownFields(d)
        loss == UNION {p.loss : p \in parts}
    IN  [run |-> UNION {p.run : p \in parts}, compose |-> UNION {p.compose : p \in parts}, loss |-> loss,
         inspect |-> d.Env \ (IF redact THEN SecretEnv ELSE {}), Equivalent |-> loss = {}]

-----------------------------------------------------------------------------
(* The reference: what a document asks for, without looking at how it is   *)
(* written.                                                                *)

Settings(d) ==
    Keys(d.config) \cup Keys(d.host) \cup {<<"Image">>} \cup {<<"Env", e>> : e \in d.Env}
    \cup (IF d.Entrypoint > 0 THEN {<<"Entrypoint">>} ELSE {})
    \cup (IF d.check.test = "absent" THEN {} ELSE {<<"Healthcheck">>})
    \cup UNION {{<<"Networks", n, a>> : a \in d.Networks[n]} :
                n \in {m \in Net : d.Networks[m] # NoEndpoint}}

(* What the code leaves out of Compose without a word; the first of them   *)
(* is a flag of docker run all the same.                                   *)
SilentKeys == Keys({"PublishAllPorts"} \cup ConfigIgnored \cup HostIgnored)
(* What it writes in both forms and reports as lost.                       *)
MisspelledKeys == Keys(Blkio)
(* The targets of anonymous read-only mounts: Compose reads "target:ro" as *)
(* a source and a target.                                                  *)
MisreadTargets(d) ==
    {m.Destination : m \in {d.Mounts[i] : i \in {j \in DOMAIN d.Mounts : d.Mounts[j].Source = "" /\ ~d.Mounts[j].RW}}}

(* The targets of the volumes of a form.                                   *)
Targets(form) == {volumeTarget(Tail(v)) : v \in {w \in form : Len(w) > 1 /\ w[1] = "Volume"}}

(* What the loss report of r, made from d, tells.  A setting is in the     *)
(* report exactly when one of the forms does not have it.  The code has    *)
(* two exceptions: the misspelled keys are reported although written, and  *)
(* the silent ones are neither in Compose nor in the report.  A mount is a *)
(* volume of both forms or in the report, but for the misread targets; a   *)
(* declared volume is a volume of both forms.  The details of a mount that *)
(* is not reported are given to docker run and never to Compose, unless    *)
(* another entry stood for the mount.  So a reply that claims equivalence  *)
(* may still have changed a container by a silent key, a misread target or *)
(* a mount's details, and by nothing else that is modelled                 *)
(* (reconstruct.go, buildReconstruction).                                  *)
ReportIsExact(d, r) ==
    /\ \A s \in Settings(d) :
           IF s \in SilentKeys THEN s \notin r.compose /\ s \notin r.loss
           ELSE s \in r.loss <=> s \in MisspelledKeys \/ s \notin r.run \/ s \notin r.compose
    /\ \A s \in Settings(d) \cap MisspelledKeys : s \in r.run /\ s \in r.compose
    /\ \A i \in DOMAIN d.Mounts :
           LET t == d.Mounts[i].Destination IN
           \/ <<"Mounts", t>> \in r.loss
           \/ /\ t \in Targets(r.run)
              /\ t \in Targets(r.compose) \cup MisreadTargets(d)
              /\ \A o \in details(d.Mounts[i]) :
                     <<"Volume", t, o>> \notin r.compose /\ (<<"Volume", t, o>> \in r.run \/ skipped(d, i))
    /\ d.Volumes \subseteq Targets(r.run) \cap Targets(r.compose)

(* With redaction on, a secret value is in none of the three forms: flags, *)
(* service and the copy of the inspect document.                           *)
SecretsAreRedacted(r) ==
    \A e \in SecretEnv : <<"Env", e>> \notin r.run \cup r.compose /\ e \notin r.inspect

=============================================================================
