---------------------------- MODULE TokenRotation ----------------------------
(***************************************************************************)
(* The bearer token of the agent: its plaintext file, its hash in the      *)
(* configuration file, the hash the running agent accepts                  *)
(* (agent/internal/auth), rotation through the API                         *)
(* (agent/internal/api/admin.go) or from the console (-reset-token), and   *)
(* reconciliation when the agent starts.                                   *)
(*                                                                         *)
(* A hash is named by its token.  A file is replaced atomically; each      *)
(* replacement is one action, and the process may die between any two.     *)
(* Outside the model: a deleted configuration file, file modes, and the    *)
(* settings in the configuration that are not the hash.                    *)
(***************************************************************************)
EXTENDS Naturals

CONSTANTS
    Token,      \* tokens, named with their hashes
    NoToken,    \* the content of a file that does not exist
    Client,     \* clients of /v1/admin/token
    Console,    \* the operator who runs -reset-token
    Nobody,     \* the holder of a free tokenRotationMu
    Faults      \* the faults the environment may inject

ASSUME TokenAssumption ==
    /\ NoToken \notin Token
    /\ Console \notin Client
    /\ Nobody \notin Client \cup {Console}
    /\ Faults \subseteq {"crash", "write", "sync"}

VARIABLES
    proc,       \* "down", "starting", "up" or "reset" (the -reset-token command)
    boot,       \* where Ensure is: "read", "retire", "reconcile" or "serve"
    cfgHash,    \* Config.Auth.TokenSHA256 of the starting process
    active,     \* AuthManager.tokenHash
    tokenFile,  \* the file token
    configHash, \* token_sha256 in config.json
    legacyFile, \* the file initial-token.txt
    passed,     \* the bearer token with which a request passed the middleware
    wanted,     \* the token a rotation is to install
    reply,      \* the answer to the last rotation of each client
    holder,     \* who holds tokenRotationMu and runs Update
    step,       \* where Update is
    oldToken,   \* Update's copy of the token file
    oldConfig,  \* Update's copy of the configuration file
    failures,   \* restoreStateLocked has collected an error
    promised,   \* history: tokens of which one must survive
    broken      \* history: a rollback was incomplete

files == <<tokenFile, configHash, legacyFile>>
updateVars == <<holder, step, oldToken, oldConfig, failures>>
requestVars == <<passed, wanted, reply>>
history == <<promised, broken>>
vars == <<proc, boot, cfgHash, active, files, requestVars, updateVars, history>>

Requester == Client \cup {Console}
MaybeToken == Token \cup {NoToken}
Replies == {"none", "ok", "unauthorized", "stale_token", "token_store_not_writable",
            "token_update_failed", "token_recovery_required"}

TypeOK ==
    /\ proc \in {"down", "starting", "up", "reset"}
    /\ boot \in {"none", "read", "retire", "reconcile", "serve"}
    /\ cfgHash \in MaybeToken
    /\ active \in MaybeToken
    /\ tokenFile \in MaybeToken
    /\ configHash \in Token
    /\ legacyFile \in MaybeToken
    /\ passed \in [Client -> MaybeToken]
    /\ wanted \in [Requester -> MaybeToken]
    /\ reply \in [Requester -> Replies]
    /\ holder \in Requester \cup {Nobody}
    /\ step \in {"none", "write", "save", "restoreConfig", "restoreToken", "verify", "switch"}
    /\ oldToken \in MaybeToken
    /\ oldConfig \in MaybeToken
    /\ failures \in BOOLEAN
    /\ promised \in SUBSET Token
    /\ broken \in BOOLEAN

(* The token the agent accepts if it is started now: Ensure lets the token *)
(* file win, and takes a legacy file only when the hash confirms it.       *)
NextBoot == IF tokenFile # NoToken THEN tokenFile ELSE configHash

(* The agent is stopped.  A complete installation has both files; one      *)
(* that was cut short, or one of an old version, has only the hash; an old *)
(* version may have left a plaintext file, perhaps of an older token.      *)
Init ==
    /\ proc = "down"
    /\ boot = "none"
    /\ cfgHash = NoToken
    /\ active = NoToken
    /\ configHash \in Token
    /\ tokenFile \in {configHash, NoToken}
    /\ legacyFile \in MaybeToken
    /\ passed = [c \in Client |-> NoToken]
    /\ wanted = [c \in Requester |-> NoToken]
    /\ reply = [c \in Requester |-> "none"]
    /\ holder = Nobody
    /\ step = "none"
    /\ oldToken = NoToken
    /\ oldConfig = NoToken
    /\ failures = FALSE
    /\ promised = {configHash}
    /\ broken = FALSE

-----------------------------------------------------------------------------
(* writeAtomic and SaveAtomic, replacing old by new: an error before the   *)
(* rename leaves the file, an error of the directory sync comes too late.  *)
Written(old, new, after, ok) ==
    \/ ok /\ after = new
    \/ ~ ok /\ "write" \in Faults /\ after = old
    \/ ~ ok /\ "sync" \in Faults /\ after = new

(* log.Fatal, or the end of -reset-token: the process is gone.             *)
ProcessEnds ==
    /\ proc' = "down"
    /\ boot' = "none"
    /\ cfgHash' = NoToken
    /\ active' = NoToken

-----------------------------------------------------------------------------
(* The start of the agent: main, then TokenStore.Ensure.                   *)

Start ==
    /\ proc = "down"
    /\ proc' = "starting"
    /\ boot' = "read"
    /\ cfgHash' = configHash
    /\ UNCHANGED <<active, files, requestVars, updateVars, history>>

(* Mutant: the legacy file is trusted without its hash.                    *)
EnsureReadTrusting ==
    /\ boot = "read"
    /\ IF tokenFile = NoToken /\ legacyFile # NoToken
       THEN \E ok \in BOOLEAN :
               /\ Written(tokenFile, legacyFile, tokenFile', ok)
               /\ IF ok THEN boot' = "retire" /\ UNCHANGED <<proc, cfgHash, active>>
                        ELSE ProcessEnds
       ELSE /\ boot' = IF tokenFile = NoToken THEN "serve" ELSE "reconcile"
            /\ UNCHANGED <<proc, cfgHash, active, tokenFile>>
    /\ UNCHANGED <<configHash, legacyFile, requestVars, updateVars, promised, broken>>

(* Ensure reads the token file, or migrates a legacy file whose hash is    *)
(* the configured one; without either it serves with the hash alone.       *)
EnsureRead ==
    /\ boot = "read"
    /\ IF tokenFile = NoToken /\ legacyFile = cfgHash
       THEN \E ok \in BOOLEAN :
               /\ Written(tokenFile, legacyFile, tokenFile', ok)
               /\ IF ok THEN boot' = "retire" /\ UNCHANGED <<proc, cfgHash, active>>
                        ELSE ProcessEnds
       ELSE /\ boot' = IF tokenFile = NoToken THEN "serve" ELSE "reconcile"
            /\ UNCHANGED <<proc, cfgHash, active, tokenFile>>
    /\ UNCHANGED <<configHash, legacyFile, requestVars, updateVars, promised, broken>>

(* Ensure removes the legacy file it has just migrated.                    *)
EnsureRetire ==
    /\ boot = "retire"
    /\ \E ok \in BOOLEAN :
          /\ Written(legacyFile, NoToken, legacyFile', ok)
          /\ IF ok THEN boot' = "reconcile" /\ UNCHANGED <<proc, cfgHash, active>>
                   ELSE ProcessEnds
    /\ UNCHANGED <<tokenFile, configHash, requestVars, updateVars, history>>

(* Ensure saves the hash of the token file when the configuration differs. *)
EnsureReconcile ==
    /\ boot = "reconcile"
    /\ IF cfgHash = tokenFile
       THEN boot' = "serve" /\ UNCHANGED <<proc, cfgHash, active, configHash>>
       ELSE \E ok \in BOOLEAN :
               /\ Written(configHash, tokenFile, configHash', ok)
               /\ IF ok THEN /\ boot' = "serve"
                             /\ cfgHash' = tokenFile
                             /\ UNCHANGED <<proc, active>>
                        ELSE ProcessEnds
    /\ UNCHANGED <<tokenFile, legacyFile, requestVars, updateVars, history>>

(* NewAuthManager with the reconciled hash; the agent serves requests.     *)
Serve ==
    /\ boot = "serve"
    /\ proc' = "up"
    /\ boot' = "none"
    /\ active' = cfgHash
    /\ cfgHash' = NoToken
    /\ promised' = {cfgHash}
    /\ broken' = FALSE
    /\ UNCHANGED <<files, requestVars, updateVars>>

-----------------------------------------------------------------------------
(* Rotation.                                                               *)

(* A request to set or to generate a token reaches the auth middleware.    *)
Authenticate(c, bearer, new) ==
    /\ proc = "up"
    /\ passed[c] = NoToken
    /\ IF bearer = active
       THEN /\ passed' = [passed EXCEPT ![c] = bearer]
            /\ wanted' = [wanted EXCEPT ![c] = new]
            /\ reply' = [reply EXCEPT ![c] = "none"]
       ELSE /\ reply' = [reply EXCEPT ![c] = "unauthorized"]
            /\ UNCHANGED <<passed, wanted>>
    /\ UNCHANGED <<proc, boot, cfgHash, active, files, updateVars, history>>

(* The answer, and the end of the critical section.                        *)
Answer(c, code) ==
    /\ reply' = [reply EXCEPT ![c] = code]
    /\ wanted' = [wanted EXCEPT ![c] = NoToken]
    /\ passed' = [d \in Client |-> IF d = c THEN NoToken ELSE passed[d]]
    /\ holder' = Nobody
    /\ step' = "none"
    /\ oldToken' = NoToken
    /\ oldConfig' = NoToken
    /\ failures' = FALSE

(* Update begins: it keeps copies of both files.                           *)
BeginUpdate(c) ==
    /\ holder' = c
    /\ step' = "write"
    /\ oldToken' = tokenFile
    /\ oldConfig' = configHash
    /\ failures' = FALSE

(* Mutant: the request is not checked again inside the lock.               *)
EnterRotationUnchecked(c) ==
    /\ proc = "up"
    /\ passed[c] # NoToken
    /\ holder = Nobody
    /\ BeginUpdate(c)
    /\ UNCHANGED <<requestVars, proc, boot, cfgHash, active, files, history>>

(* updateToken takes tokenRotationMu, verifies the bearer token again and  *)
(* checks that the directory is writable.                                  *)
EnterRotation(c) ==
    /\ proc = "up"
    /\ passed[c] # NoToken
    /\ holder = Nobody
    /\ \/ /\ passed[c] # active
          /\ Answer(c, "stale_token")
       \/ /\ passed[c] = active
          /\ "write" \in Faults
          /\ Answer(c, "token_store_not_writable")
       \/ /\ passed[c] = active
          /\ BeginUpdate(c)
          /\ UNCHANGED requestVars
    /\ UNCHANGED <<proc, boot, cfgHash, active, files, history>>

(* -reset-token, run while the service is stopped.                         *)
ResetToken(new) ==
    /\ proc = "down"
    /\ proc' = "reset"
    /\ wanted' = [wanted EXCEPT ![Console] = new]
    /\ reply' = [reply EXCEPT ![Console] = "none"]
    /\ BeginUpdate(Console)
    /\ UNCHANGED <<boot, cfgHash, active, files, passed, history>>

(* Update replaces the token file.                                         *)
WriteToken ==
    /\ step = "write"
    /\ \E ok \in BOOLEAN :
          /\ Written(tokenFile, wanted[holder], tokenFile', ok)
          /\ step' = IF ok THEN "save" ELSE "restoreConfig"
    /\ UNCHANGED <<proc, boot, cfgHash, active, configHash, legacyFile, requestVars,
                   holder, oldToken, oldConfig, failures, history>>

(* Update saves the configuration with the new hash.                       *)
SaveConfig ==
    /\ step = "save"
    /\ \E ok \in BOOLEAN :
          /\ Written(configHash, wanted[holder], configHash', ok)
          /\ step' = IF ok THEN "switch" ELSE "restoreConfig"
    /\ UNCHANGED <<proc, boot, cfgHash, active, tokenFile, legacyFile, requestVars,
                   holder, oldToken, oldConfig, failures, history>>

(* Mutant: only the token is rolled back.                                  *)
RestoreConfigNot ==
    /\ step = "restoreConfig"
    /\ step' = "restoreToken"
    /\ UNCHANGED <<proc, boot, cfgHash, active, files, requestVars,
                   holder, oldToken, oldConfig, failures, history>>

(* restoreStateLocked puts the old configuration back; an error is kept    *)
(* and the rollback goes on.                                               *)
RestoreConfig ==
    /\ step = "restoreConfig"
    /\ \E ok \in BOOLEAN :
          /\ Written(configHash, oldConfig, configHash', ok)
          /\ failures' = ~ ok
          /\ broken' = (broken \/ ~ ok)
    /\ step' = "restoreToken"
    /\ UNCHANGED <<proc, boot, cfgHash, active, tokenFile, legacyFile, requestVars,
                   holder, oldToken, oldConfig, promised>>

(* restoreStateLocked puts the old token back, or removes the new one.     *)
RestoreToken ==
    /\ step = "restoreToken"
    /\ \E ok \in BOOLEAN :
          /\ Written(tokenFile, oldToken, tokenFile', ok)
          /\ failures' = (failures \/ ~ ok)
          /\ broken' = (broken \/ ~ ok)
    /\ step' = "verify"
    /\ UNCHANGED <<proc, boot, cfgHash, active, configHash, legacyFile, requestVars,
                   holder, oldToken, oldConfig, promised>>

(* What -reset-token leaves behind is a stopped service.                   *)
AfterRotation ==
    IF holder = Console THEN ProcessEnds ELSE UNCHANGED <<proc, boot, cfgHash, active>>

(* verifyStateLocked reads both files; the rotation has failed, and only a *)
(* rollback without any error is reported as a plain failure.              *)
VerifyState ==
    /\ step = "verify"
    /\ IF ~ failures /\ tokenFile = oldToken /\ configHash = oldConfig
       THEN Answer(holder, "token_update_failed") /\ UNCHANGED promised
       ELSE /\ Answer(holder, "token_recovery_required")
            /\ promised' = promised \cup {wanted[holder]}
    /\ AfterRotation
    /\ UNCHANGED <<files, broken>>

(* SetTokenHash, and the answer that carries the new token.                *)
SwitchToken ==
    /\ step = "switch"
    /\ Answer(holder, "ok")
    /\ promised' = {wanted[holder]}
    /\ broken' = FALSE
    /\ IF holder = Console THEN ProcessEnds
       ELSE active' = wanted[holder] /\ UNCHANGED <<proc, boot, cfgHash>>
    /\ UNCHANGED files

(* The process dies between two steps; a rotation that was under way may   *)
(* have got through.                                                       *)
Crash ==
    /\ "crash" \in Faults
    /\ proc # "down"
    /\ ProcessEnds
    /\ promised' = IF holder = Nobody THEN promised ELSE promised \cup {wanted[holder]}
    /\ passed' = [c \in Client |-> NoToken]
    /\ wanted' = [c \in Requester |-> NoToken]
    /\ reply' = [c \in Requester |-> "none"]
    /\ holder' = Nobody
    /\ step' = "none"
    /\ oldToken' = NoToken
    /\ oldConfig' = NoToken
    /\ failures' = FALSE
    /\ UNCHANGED <<files, broken>>

-----------------------------------------------------------------------------
Next ==
    \/ Start \/ EnsureRead \/ EnsureRetire \/ EnsureReconcile \/ Serve
    \/ \E c \in Client, bearer, new \in Token : Authenticate(c, bearer, new)
    \/ \E c \in Client : EnterRotation(c)
    \/ \E new \in Token : ResetToken(new)
    \/ WriteToken \/ SaveConfig \/ RestoreConfig \/ RestoreToken
    \/ VerifyState \/ SwitchToken
    \/ Crash

Spec == Init /\ [][Next]_vars

-----------------------------------------------------------------------------
(* Properties.                                                             *)

InFlight == IF holder = Nobody THEN {} ELSE {wanted[holder]}

(* A crash or a failure at any point of a rotation leaves the agent with   *)
(* the token of the last acknowledged rotation or with the one being       *)
(* installed, and with the former once the rotation was answered with a    *)
(* plain failure (Update, restoreStateLocked, Ensure).                     *)
RotationIsAtomic ==
    /\ NextBoot \in promised \cup InFlight
    /\ proc = "up" => active \in promised

(* Between rotations the running agent accepts the token in the file and   *)
(* the hash in the configuration is that token's, unless a rollback was    *)
(* incomplete (the comment of Update: the service "cannot remain locked to *)
(* a hash that no longer matches its token file").                         *)
FilesAgree ==
    (proc = "up" /\ holder = Nobody /\ ~ broken) =>
        active = configHash /\ tokenFile \in {configHash, NoToken}

(* A rotation that succeeds was requested with the very token it replaces, *)
(* however many requests passed the middleware before (updateToken: "at    *)
(* most one request using the old credential can commit a rotation").      *)
RotatesOwnCredential ==
    [][\A c \in Client : (reply'[c] = "ok" /\ reply[c] # "ok") => passed[c] = active]_vars

-----------------------------------------------------------------------------
(* The inductive invariant of the proofs.                                  *)

(* Where the process, Ensure and Update are, and who is in Update.         *)
ControlInv ==
    /\ (proc = "starting") = (boot # "none")
    /\ (holder = Nobody) = (step = "none")
    /\ (holder = Console) = (proc = "reset")
    /\ holder \in Client => proc = "up" /\ passed[holder] = active
    /\ proc = "up" => active \in Token
    /\ holder # Nobody => wanted[holder] \in Token
    /\ \A c \in Client : passed[c] # NoToken => wanted[c] \in Token

(* While Ensure runs, the hash it read and the files lead to one token.    *)
BootInv ==
    /\ boot = "read" => cfgHash = configHash
    /\ boot \in {"retire", "reconcile"} => cfgHash = configHash /\ tokenFile # NoToken
    /\ boot = "serve" => cfgHash = configHash /\ tokenFile \in {configHash, NoToken}

(* In Update each file holds the old or the new content; the old contents  *)
(* lead to a promised token, and they are back after a clean rollback.     *)
UpdateInv ==
    holder # Nobody =>
        /\ oldConfig \in Token
        /\ tokenFile \in {oldToken, wanted[holder]}
        /\ configHash \in {oldConfig, wanted[holder]}
        /\ (IF oldToken # NoToken THEN oldToken ELSE oldConfig) \in promised
        /\ step \in {"save", "switch"} => tokenFile = wanted[holder]
        /\ step = "switch" => configHash = wanted[holder]
        /\ step \in {"write", "save"} => configHash = oldConfig
        /\ step = "write" => tokenFile = oldToken
        /\ ~ broken =>
              /\ step \in {"restoreToken", "verify"} => configHash = oldConfig /\ ~ failures
              /\ step = "verify" => tokenFile = oldToken
              /\ holder \in Client => active = oldConfig /\ oldToken \in {oldConfig, NoToken}

RotationInv == ControlInv /\ BootInv /\ UpdateInv /\ RotationIsAtomic /\ FilesAgree

=============================================================================
