----------------------------- MODULE ConfigFile -----------------------------
(***************************************************************************)
(* The configuration file of the agent (agent/internal/config/config.go):  *)
(* loading with the migrations of two older formats, normalisation, and    *)
(* the save of a token rotation (agent/internal/api/admin.go), over a file *)
(* that an administrator edits between starts or while the agent runs.     *)
(*                                                                         *)
(* A file is the set of keys it has with their values; the object          *)
(* "permissions" tells the current formats from the first one, "approval"  *)
(* the second from the third.  "limits" stands for the five numbers that   *)
(* are treated alike.  Paths are the sequences that cleanPaths sees.       *)
(* Replacing the file is atomic here; its failures are in TokenRotation.   *)
(***************************************************************************)
EXTENDS Naturals, Sequences, Functions

CONSTANTS
    Hash,       \* hashes of tokens, without the empty one
    MaxEdits    \* bound on the edits made by hand

ASSUME ConfigAssumption == "" \notin Hash /\ MaxEdits \in Nat

BuiltinDocker == <<"/share/CACHEDEV1_DATA/docker", "/usr/bin/docker">>

PermissionKey == {"allowed_roots", "allow_any_command", "allowed_commands", "allow_shell"}
ApprovalKey == {"approval.mode", "approval.ttl"}
PlainKey == {"supplement_read_only", "listen", "auth.type", "auth.token", "profile", "privacy.redact",
             "confirmation.mode", "confirmation.ttl", "limits", "journal_path", "audit.enabled", "audit.path",
             "audit.redact", "docker_paths", "adapters"}
Key == PermissionKey \cup ApprovalKey \cup PlainKey

(* The values an edit may give a key, the zero value of its type included. *)
Values(k) ==
    CASE k \in {"supplement_read_only", "allow_any_command", "allow_shell", "privacy.redact",
                "audit.enabled"} -> BOOLEAN
      [] k = "listen" -> {"", "127.0.0.1", "0.0.0.0"}
      [] k = "auth.type" -> {"", "bearer", "basic"}
      [] k = "auth.token" -> {""} \cup Hash
      [] k = "profile" -> {"", "observe", "operate", "admin", "full_trust", "root"}
      [] k = "allowed_roots" -> {<<>>, <<"">>, <<"share">>, <<"/share">>, <<"/share/", "/share">>, <<"/share", "/">>}
      [] k = "allowed_commands" -> {<<>>, <<"/bin/ls">>, <<"ls">>}
      [] k = "confirmation.mode" -> {"", "off", "destructive_only", "all_write", "never"}
      [] k = "approval.mode" -> {"", "off", "sensitive_only", "all_write", "never"}
      [] k \in {"confirmation.ttl", "approval.ttl", "limits"} -> {0, 30, 600}
      [] k = "journal_path" -> {"", "/var/jobs.jsonl", "jobs.jsonl"}
      [] k = "audit.path" -> {"", "/var/audit.jsonl"}
      [] k = "audit.redact" -> {"nil", "true", "false"}
      [] k = "docker_paths" -> {<<>>, <<"/opt/docker">>, <<"/usr/bin/docker", "/opt/docker">>}
      [] k = "adapters" -> {"none", "valid", "unknown name", "negative timeout", "relative program"}

Defaults ==
    [k \in Key |->
        CASE k \in {"supplement_read_only", "allow_any_command", "allow_shell"} -> FALSE
          [] k \in {"privacy.redact", "audit.enabled"} -> TRUE
          [] k = "listen" -> "127.0.0.1"
          [] k = "auth.type" -> "bearer"
          [] k = "auth.token" -> ""
          [] k = "profile" -> "observe"
          [] k = "allowed_roots" -> <<"/share">>
          [] k = "allowed_commands" -> <<>>
          [] k = "confirmation.mode" -> "destructive_only"
          [] k = "approval.mode" -> "sensitive_only"
          [] k \in {"confirmation.ttl", "approval.ttl", "limits"} -> 600
          [] k = "journal_path" -> "/var/jobs.jsonl"
          [] k = "audit.path" -> "/var/audit.jsonl"
          [] k = "audit.redact" -> "true"
          [] k = "docker_paths" -> BuiltinDocker
          [] k = "adapters" -> "none"]

Trust == [allowed_roots |-> <<"/">>, allow_any_command |-> TRUE, allow_shell |-> TRUE]

FullTrust(token) ==
    [Defaults EXCEPT !["listen"] = "0.0.0.0", !["profile"] = "full_trust", !["auth.token"] = token,
        !["allowed_roots"] = Trust.allowed_roots, !["allow_any_command"] = TRUE, !["allow_shell"] = TRUE]

VARIABLES
    file,       \* the file: its keys, their values, and the token of the first format
    cfg,        \* the configuration in memory, if the agent runs
    running,    \* the agent is up
    edits,      \* edits made by hand so far
    edited      \* the file was edited since the agent loaded or saved it

vars == <<file, cfg, running, edits, edited>>

-----------------------------------------------------------------------------
clean(path) == IF path = "/share/" THEN "/share" ELSE path
absolute(path) == path \notin {"", "share", "ls", "jobs.jsonl"}

(* Mutant: a path that is already in the list is added again.              *)
cleanPathsAgain(paths) ==
    LET upTo[i \in 0 .. Len(paths)] ==
            IF i = 0 THEN <<>>
            ELSE LET p == clean(paths[i]) IN IF absolute(p) THEN Append(upTo[i - 1], p) ELSE upTo[i - 1]
    IN  upTo[Len(paths)]

(* Cleaned absolute paths, each once, in their first order.                *)
cleanPaths(paths) ==
    LET upTo[i \in 0 .. Len(paths)] ==
            IF i = 0 THEN <<>>
            ELSE LET p == clean(paths[i]) IN
                 IF absolute(p) /\ p \notin Range(upTo[i - 1]) THEN Append(upTo[i - 1], p) ELSE upTo[i - 1]
    IN  upTo[Len(paths)]

(* The file of the first format: only these of its values are carried over.*)
migrateLegacy(f) ==
    LET c == FullTrust(f.oldToken)
        keep(k, empty) == IF k \in f.has /\ f.val[k] # empty THEN f.val[k] ELSE c[k]
    IN  [c EXCEPT !["listen"] = keep("listen", ""), !["audit.path"] = keep("audit.path", ""),
                  !["limits"] = keep("limits", 0), !["docker_paths"] = keep("docker_paths", <<>>)]

(* The second format has no approval policy: it gets the default one with  *)
(* the lifetime of the old confirmation, and audit redaction.              *)
overlay(f) ==
    LET c == [k \in Key |-> IF k \in f.has THEN f.val[k] ELSE Defaults[k]]
    IN  IF "approval" \in f.has THEN c
        ELSE [c EXCEPT !["approval.mode"] = Defaults["approval.mode"],
                       !["approval.ttl"] = IF c["confirmation.ttl"] > 0 THEN c["confirmation.ttl"]
                                           ELSE Defaults["approval.ttl"],
                       !["audit.redact"] = "true"]

orDefault(c, k, empty) == IF c[k] = empty THEN Defaults[k] ELSE c[k]

(* The values Normalize leaves, and the conditions it refuses them on.     *)
normalized(c) ==
    LET trusted == orDefault(c, "profile", "") = "full_trust"
    IN  [c EXCEPT
           !["listen"] = orDefault(c, "listen", ""),
           !["auth.type"] = orDefault(c, "auth.type", ""),
           !["profile"] = orDefault(c, "profile", ""),
           !["allowed_roots"] = IF trusted THEN Trust.allowed_roots ELSE cleanPaths(@),
           !["allow_any_command"] = @ \/ trusted,
           !["allow_shell"] = @ \/ trusted,
           !["allowed_commands"] = cleanPaths(@),
           !["confirmation.mode"] = orDefault(c, "confirmation.mode", ""),
           !["confirmation.ttl"] = orDefault(c, "confirmation.ttl", 0),
           !["approval.mode"] = orDefault(c, "approval.mode", ""),
           !["approval.ttl"] = orDefault(c, "approval.ttl", 0),
           !["limits"] = orDefault(c, "limits", 0),
           !["journal_path"] = orDefault(c, "journal_path", ""),
           !["audit.path"] = orDefault(c, "audit.path", ""),
           !["audit.redact"] = IF @ = "nil" THEN "true" ELSE @,
           !["docker_paths"] = cleanPaths(@ \o BuiltinDocker)]

(* Mutant: the profile alone decides.                                      *)
supplementByProfile(n) == n["profile"] = "observe"

supplementAllowed(n) ==
    /\ n["profile"] = "observe"
    /\ ~n["allow_any_command"] /\ ~n["allow_shell"] /\ n["allowed_commands"] = <<>> /\ n["adapters"] = "none"
    /\ "/" \notin Range(n["allowed_roots"])
    /\ n["audit.enabled"] /\ n["privacy.redact"] /\ n["audit.redact"] # "false"

(* Mutant: a configuration without a token is accepted.                    *)
acceptedWithoutToken(n) ==
    /\ n["auth.type"] = "bearer"
    /\ n["profile"] \in {"observe", "operate", "admin", "full_trust"}
    /\ n["allowed_roots"] # <<>>
    /\ n["supplement_read_only"] => supplementAllowed(n)
    /\ n["confirmation.mode"] \in {"off", "destructive_only", "all_write"}
    /\ n["approval.mode"] \in {"off", "sensitive_only", "all_write"}
    /\ absolute(n["journal_path"])
    /\ n["adapters"] \in {"none", "valid"}

accepted(n) ==
    /\ n["auth.type"] = "bearer"
    /\ n["auth.token"] # ""
    /\ n["profile"] \in {"observe", "operate", "admin", "full_trust"}
    /\ n["allowed_roots"] # <<>>
    /\ n["supplement_read_only"] => supplementAllowed(n)
    /\ n["confirmation.mode"] \in {"off", "destructive_only", "all_write"}
    /\ n["approval.mode"] \in {"off", "sensitive_only", "all_write"}
    /\ absolute(n["journal_path"])
    /\ n["adapters"] \in {"none", "valid"}

Parsed(f) == normalized(IF "permissions" \in f.has THEN overlay(f) ELSE migrateLegacy(f))
Loads(f) == accepted(Parsed(f))

-----------------------------------------------------------------------------
(* An installation of each of the three formats.                           *)
Installed(format, token) ==
    [has |-> CASE format = 1 -> {"listen"}
               [] format = 2 -> (Key \ ApprovalKey) \cup {"permissions"}
               [] OTHER -> Key \cup {"permissions", "approval"},
     val |-> [Defaults EXCEPT !["auth.token"] = IF format = 1 THEN "" ELSE token],
     oldToken |-> IF format = 1 THEN token ELSE ""]

Init ==
    /\ \E format \in 1 .. 3, token \in Hash : file = Installed(format, token)
    /\ cfg = Defaults
    /\ running = FALSE
    /\ edits = 0
    /\ edited = FALSE

(* The start of the agent: Load, and the agent does not run on an error.   *)
Start ==
    /\ ~running
    /\ Loads(file)
    /\ cfg' = Parsed(file)
    /\ running' = TRUE
    /\ edited' = FALSE
    /\ UNCHANGED <<file, edits>>

Stop ==
    /\ running
    /\ running' = FALSE
    /\ UNCHANGED <<file, cfg, edits, edited>>

(* A rotation saves the configuration in memory with the new hash.         *)
SaveAtomic ==
    \E token \in Hash :
        /\ running
        /\ cfg' = [cfg EXCEPT !["auth.token"] = token]
        /\ file' = [has |-> Key \cup {"permissions", "approval"}, val |-> cfg', oldToken |-> ""]
        /\ edited' = FALSE
        /\ UNCHANGED <<running, edits>>

Section(k) == IF k \in PermissionKey THEN {"permissions"} ELSE IF k \in ApprovalKey THEN {"approval"} ELSE {}

(* An edit gives a key a value, or removes a key or a whole section.       *)
EditTo(f) ==
    /\ edits < MaxEdits
    /\ f # file
    /\ file' = f
    /\ edits' = edits + 1
    /\ edited' = TRUE
    /\ UNCHANGED <<cfg, running>>

EditSet == \E k \in Key : \E v \in Values(k) :
    EditTo([file EXCEPT !.has = @ \cup {k} \cup Section(k), !.val[k] = v])

EditRemove == \E K \in {{k} : k \in Key}
                   \cup {PermissionKey \cup {"permissions"}, ApprovalKey \cup {"approval"}} :
    EditTo([file EXCEPT !.has = @ \ K, !.val = [k \in Key |-> IF k \in K THEN Defaults[k] ELSE @[k]]])

Next == Start \/ Stop \/ SaveAtomic \/ EditSet \/ EditRemove

Spec == Init /\ [][Next]_vars

-----------------------------------------------------------------------------
(* Types: the file has keys and values that an edit or a save can give,    *)
(* and what runs is an accepted configuration.                             *)
TypeOK ==
    /\ file.has \subseteq Key \cup {"permissions", "approval"}
    /\ file.oldToken \in Hash \cup {""}
    /\ DOMAIN file.val = Key /\ DOMAIN cfg = Key
    /\ running \in BOOLEAN /\ edited \in BOOLEAN
    /\ edits \in 0 .. MaxEdits

(* A restart without an edit brings back the configuration the agent had,  *)
(* whatever format it was first loaded from and however often the token    *)
(* was rotated: Load after SaveAtomic is the identity on what Normalize    *)
(* accepts, which includes the migrations (config.go, Load and Normalize). *)
RestartKeepsPolicy == running /\ ~edited => Loads(file) /\ Parsed(file) = cfg

(* Full trust is never the result of what a file leaves out: an agent that *)
(* runs with it loaded a file that names the profile, or one of the first  *)
(* format with its own token.  A file of a later format that has lost its  *)
(* permissions is taken for one of the first format and refused, because   *)
(* its token is elsewhere (config.go, Load and migrateLegacy).             *)
TrustIsExplicit ==
    running /\ ~edited /\ cfg["profile"] = "full_trust" =>
        file.oldToken # "" \/ ("profile" \in file.has /\ file.val["profile"] = "full_trust")

(* What runs as a read-only supplement can neither run commands nor leave  *)
(* its roots nor write a secret, in whatever order the defaults and the    *)
(* implications of the profile were applied (config.go, Normalize).        *)
SupplementStaysReadOnly ==
    running /\ cfg["supplement_read_only"] =>
        /\ ~cfg["allow_shell"] /\ ~cfg["allow_any_command"] /\ cfg["allowed_commands"] = <<>>
        /\ cfg["profile"] # "full_trust" /\ \A i \in DOMAIN cfg["allowed_roots"] : cfg["allowed_roots"][i] # "/"
        /\ cfg["audit.redact"] = "true" /\ cfg["privacy.redact"]

-----------------------------------------------------------------------------
(* Inductive strengthenings, for the proofs in ConfigFileProofs.           *)

(* The paths that an edit or a default may name.                           *)
PathName == {"", "share", "/share", "/share/", "/", "ls", "/bin/ls", "/opt/docker", "/usr/bin/docker",
             "/share/CACHEDEV1_DATA/docker"}

(* A list that cleanPaths has nothing to do with.                          *)
Canonical(paths) ==
    /\ paths \in Seq(PathName)
    /\ \A i \in DOMAIN paths : absolute(paths[i]) /\ clean(paths[i]) = paths[i]
    /\ \A i, j \in DOMAIN paths : paths[i] = paths[j] => i = j

(* Values of the types that the rules of Normalize rely on.                *)
ValueTypes(c) ==
    /\ c = [k \in Key |-> c[k]]
    /\ \A k \in {"allow_any_command", "allow_shell"} : c[k] \in BOOLEAN
    /\ \A k \in {"allowed_roots", "allowed_commands", "docker_paths"} : c[k] \in Seq(PathName)
    /\ c["audit.redact"] \in {"nil", "true", "false"}

(* Keys whose empty value stands for the default.                          *)
Texts == {"listen", "auth.type", "profile", "confirmation.mode", "approval.mode", "journal_path", "audit.path"}
Numbers == {"confirmation.ttl", "approval.ttl", "limits"}

(* A configuration that Normalize leaves alone.                            *)
Normal(c) ==
    /\ ValueTypes(c)
    /\ \A k \in Texts : c[k] # ""
    /\ \A k \in Numbers : c[k] # 0
    /\ c["profile"] = "full_trust" =>
           c["allowed_roots"] = Trust.allowed_roots /\ c["allow_any_command"] /\ c["allow_shell"]
    /\ c["profile"] # "full_trust" => Canonical(c["allowed_roots"])
    /\ Canonical(c["allowed_commands"])
    /\ Canonical(c["docker_paths"])
    /\ Range(BuiltinDocker) \subseteq Range(c["docker_paths"])
    /\ c["audit.redact"] # "nil"

(* What runs is a configuration that Normalize would leave alone and       *)
(* accept again, and so is what a rotation saves.                          *)
ConfigInv ==
    /\ file = [has |-> file.has, val |-> file.val, oldToken |-> file.oldToken]
    /\ ValueTypes(file.val)
    /\ running => Normal(cfg) /\ accepted(cfg)
    /\ RestartKeepsPolicy

=============================================================================
