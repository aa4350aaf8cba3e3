----------------------------- MODULE FileWrites -----------------------------
(***************************************************************************)
(* Concurrent writes to files by one agent process                         *)
(* (agent/internal/files/files.go): the compare-and-swap of writeAtomic    *)
(* with its backup, copies, appends and the file actions of Manage.        *)
(*                                                                         *)
(* Each caller performs one operation.  A file's content is the sequence   *)
(* of callers that wrote it, its hash is named by its content, and an open *)
(* file is an inode: a rename puts a new inode under the path and leaves   *)
(* the old one to those who had opened it.  Outside the model: modes,      *)
(* directories and links, path resolution, a crash (nothing is lost but    *)
(* temporary files).                                                       *)
(***************************************************************************)
EXTENDS Naturals, Sequences

CONSTANTS
    Caller,     \* requests to the file service
    Path,       \* paths that callers name
    Backup,     \* Backup[p] is the path of the backup of p
    Ops,        \* the operations callers use
    Faults      \* the faults the environment may inject

Checked == {"cas", "cas_backup"}            \* writes that carry a hash
BackedUp == {"write_backup", "cas_backup"}  \* writes that ask for a backup
Writes == {"write"} \cup Checked \cup BackedUp
AllOps == Writes \cup {"copy", "append", "delete", "truncate", "move"}

ASSUME FileAssumption ==
    /\ Backup \in [Path -> Path]
    /\ \A p \in Path : Backup[p] # p
    /\ Ops \subseteq AllOps
    /\ Faults \subseteq {"write", "sync"}
    /\ "free" \notin Caller
    /\ "none" \notin Path

NoInode == 0
NoFile == <<"absent">>   \* the content of a path that does not exist

VARIABLES
    inode,      \* the inode under each path
    data,       \* the content of each inode made so far
    mu,         \* fileWriteMu: the caller that holds it, or "free"
    pc,         \* where each caller is
    op,         \* its operation
    path,       \* the path it names first
    target,     \* the path it names second
    expected,   \* the content whose hash it expects
    existed,    \* writeAtomic found a file
    handle,     \* the inode it has opened
    reply       \* its answer

vars == <<inode, data, mu, pc, op, path, target, expected, existed, handle, reply>>

Content(p) == IF inode[p] = NoInode THEN NoFile ELSE data[inode[p]]
Made == 1 .. Len(data)
Contents == Seq(Caller \cup {"old"})
Answers == Contents \cup {NoFile, <<"none">>, <<"mismatch">>, <<"failed">>}
Places == {"idle", "open", "lock", "stat", "verify", "backup", "replace", "digest", "append",
           "done"}

TypeOK ==
    /\ inode \in [Path -> Made \cup {NoInode}]
    /\ data \in Seq(Contents)
    /\ mu \in Caller \cup {"free"}
    /\ pc \in [Caller -> Places]
    /\ op \in [Caller -> AllOps \cup {"none"}]
    /\ path \in [Caller -> Path \cup {"none"}]
    /\ target \in [Caller -> Path \cup {"none"}]
    /\ expected \in [Caller -> Contents \cup {NoFile}]
    /\ existed \in [Caller -> BOOLEAN]
    /\ handle \in [Caller -> Made \cup {NoInode}]
    /\ reply \in [Caller -> Answers]

(* One file exists.                                                        *)
Init ==
    /\ data = << <<"old">> >>
    /\ \E p \in Path : inode = [q \in Path |-> IF q = p THEN 1 ELSE NoInode]
    /\ mu = "free"
    /\ pc = [c \in Caller |-> "idle"]
    /\ op = [c \in Caller |-> "none"]
    /\ path = [c \in Caller |-> "none"]
    /\ target = [c \in Caller |-> "none"]
    /\ expected = [c \in Caller |-> NoFile]
    /\ existed = [c \in Caller |-> FALSE]
    /\ handle = [c \in Caller |-> NoInode]
    /\ reply = [c \in Caller |-> <<"none">>]

-----------------------------------------------------------------------------
requestVars == <<op, path, target, expected>>

Goto(c, place) == pc' = [pc EXCEPT ![c] = place]

Finish(c, answer) ==
    /\ Goto(c, "done")
    /\ reply' = [reply EXCEPT ![c] = answer]

Unlock(c) == mu' = IF mu = c THEN "free" ELSE mu

(* A new inode with content d under path p.                                *)
Install(p, d) ==
    /\ data' = Append(data, d)
    /\ inode' = [inode EXCEPT ![p] = Len(data) + 1]

(* A caller has read the file, and sends its request; a compare-and-swap   *)
(* carries the hash of what it read.                                       *)
Request(c, o, p, q) ==
    /\ pc[c] = "idle"
    /\ p # q
    /\ op' = [op EXCEPT ![c] = o]
    /\ path' = [path EXCEPT ![c] = p]
    /\ target' = [target EXCEPT ![c] = q]
    /\ expected' = [expected EXCEPT ![c] = Content(p)]
    /\ Goto(c, IF o \in Writes THEN "lock" ELSE "open")
    /\ UNCHANGED <<inode, data, mu, existed, handle, reply>>

(* Mutant: writeAtomic does without fileWriteMu.                           *)
LockNot(c) ==
    /\ pc[c] = "lock"
    /\ Goto(c, IF op[c] = "copy" THEN "replace" ELSE "stat")
    /\ UNCHANGED <<inode, data, mu, requestVars, existed, handle, reply>>

(* fileWriteMu.Lock() of writeAtomic and of copyFileAtomic.                *)
Lock(c) ==
    /\ pc[c] = "lock"
    /\ mu = "free"
    /\ mu' = c
    /\ Goto(c, IF op[c] = "copy" THEN "replace" ELSE "stat")
    /\ UNCHANGED <<inode, data, requestVars, existed, handle, reply>>

(* writeAtomic looks whether the file exists.                              *)
Stat(c) ==
    /\ pc[c] = "stat"
    /\ existed' = [existed EXCEPT ![c] = inode[path[c]] # NoInode]
    /\ Goto(c, "verify")
    /\ UNCHANGED <<inode, data, mu, requestVars, handle, reply>>

AfterVerify(c) == IF op[c] \in BackedUp /\ existed[c] THEN "backup" ELSE "replace"

(* Mutant: who asks for a backup is not checked.                           *)
MismatchUnlessBackup(c) ==
    op[c] \in Checked \ BackedUp /\ (inode[path[c]] = NoInode \/ Content(path[c]) # expected[c])

(* A hash was given, and the file has another one or does not exist.       *)
Mismatch(c) == op[c] \in Checked /\ (inode[path[c]] = NoInode \/ Content(path[c]) # expected[c])

(* It compares the hash, if it was given one; a file that does not exist   *)
(* is a mismatch.                                                          *)
verifyExpectedSHA256(c) ==
    /\ pc[c] = "verify"
    /\ IF Mismatch(c)
       THEN Finish(c, <<"mismatch">>) /\ Unlock(c)
       ELSE Goto(c, AfterVerify(c)) /\ UNCHANGED <<mu, reply>>
    /\ UNCHANGED <<inode, data, requestVars, existed, handle>>

(* Mutant: the file is written in place, and an error leaves it empty.     *)
replaceInPlace(p, d, ok) ==
    \/ ok /\ Install(p, d)
    \/ ~ ok /\ inode[p] # NoInode /\ data' = [data EXCEPT ![inode[p]] = <<>>] /\ UNCHANGED inode

(* atomicReplaceReader puts d under p.  An error before the rename leaves  *)
(* the path alone; an error of the directory sync comes after it.          *)
atomicReplaceReader(p, d, ok) ==
    \/ ok /\ Install(p, d)
    \/ ~ ok /\ "write" \in Faults /\ UNCHANGED <<inode, data>>
    \/ ~ ok /\ "sync" \in Faults /\ Install(p, d)

(* copyFileAtomicUnlocked makes the backup.                                *)
MakeBackup(c) ==
    /\ pc[c] = "backup"
    /\ \E ok \in BOOLEAN :
          /\ IF inode[path[c]] = NoInode THEN ~ ok /\ UNCHANGED <<inode, data>>
             ELSE atomicReplaceReader(Backup[path[c]], Content(path[c]), ok)
          /\ IF ok THEN Goto(c, "replace") /\ UNCHANGED <<mu, reply>>
                   ELSE Finish(c, <<"failed">>) /\ Unlock(c)
    /\ UNCHANGED <<requestVars, existed, handle>>

(* writeAtomic replaces the file by the caller's bytes.                    *)
Replace(c) ==
    /\ pc[c] = "replace"
    /\ op[c] \in Writes
    /\ \E ok \in BOOLEAN :
          /\ atomicReplaceReader(path[c], <<c>>, ok)
          /\ IF ok THEN Goto(c, "digest") /\ UNCHANGED <<mu, reply>>
                   ELSE Finish(c, <<"failed">>) /\ Unlock(c)
    /\ UNCHANGED <<requestVars, existed, handle>>

(* copyFileAtomic replaces the target by what it reads from the source it  *)
(* has opened before it took the lock.                                     *)
ReplaceByCopy(c) ==
    /\ pc[c] = "replace"
    /\ op[c] = "copy"
    /\ \E ok \in BOOLEAN :
          /\ atomicReplaceReader(target[c], data[handle[c]], ok)
          /\ Finish(c, IF ok THEN data[handle[c]] ELSE <<"failed">>)
    /\ Unlock(c)
    /\ UNCHANGED <<requestVars, existed, handle>>

(* writeAtomic hashes the file again and answers with that hash.           *)
Digest(c) ==
    /\ pc[c] = "digest"
    /\ Finish(c, IF inode[path[c]] = NoInode THEN <<"failed">> ELSE Content(path[c]))
    /\ Unlock(c)
    /\ UNCHANGED <<inode, data, requestVars, existed, handle>>

(* copyFileAtomic opens its source.                                        *)
OpenSource(c) ==
    /\ pc[c] = "open"
    /\ op[c] = "copy"
    /\ IF inode[path[c]] = NoInode THEN Finish(c, <<"failed">>) /\ UNCHANGED handle
       ELSE /\ handle' = [handle EXCEPT ![c] = inode[path[c]]]
            /\ Goto(c, "lock")
            /\ UNCHANGED reply
    /\ UNCHANGED <<inode, data, mu, requestVars, existed>>

(* Append opens the file, or creates it.                                   *)
OpenAppend(c) ==
    /\ pc[c] = "open"
    /\ op[c] = "append"
    /\ IF inode[path[c]] = NoInode THEN Install(path[c], <<>>) ELSE UNCHANGED <<inode, data>>
    /\ handle' = [handle EXCEPT ![c] = inode'[path[c]]]
    /\ Goto(c, "append")
    /\ UNCHANGED <<mu, requestVars, existed, reply>>

(* Append writes to the inode it has opened, without fileWriteMu.          *)
AppendBytes(c) ==
    /\ pc[c] = "append"
    /\ data' = [data EXCEPT ![handle[c]] = Append(@, c)]
    /\ Finish(c, data'[handle[c]])
    /\ UNCHANGED <<inode, mu, requestVars, existed, handle>>

(* Manage: delete, truncate, move; one system call each, without the lock. *)
Manage(c) ==
    /\ pc[c] = "open"
    /\ op[c] \in {"delete", "truncate", "move"}
    /\ IF inode[path[c]] = NoInode THEN Finish(c, <<"failed">>) /\ UNCHANGED <<inode, data>>
       ELSE /\ Finish(c, Content(path[c]))
            /\ inode' = [p \in Path |->
                            IF op[c] = "move" /\ p = target[c] THEN inode[path[c]]
                            ELSE IF op[c] # "truncate" /\ p = path[c] THEN NoInode
                            ELSE inode[p]]
            /\ data' = IF op[c] = "truncate" THEN [data EXCEPT ![inode[path[c]]] = <<>>]
                       ELSE data
    /\ UNCHANGED <<mu, requestVars, existed, handle>>

-----------------------------------------------------------------------------
CallerStep(c) ==
    \/ Lock(c) \/ Stat(c) \/ verifyExpectedSHA256(c) \/ MakeBackup(c) \/ Replace(c) \/ Digest(c)
    \/ OpenSource(c) \/ ReplaceByCopy(c) \/ OpenAppend(c) \/ AppendBytes(c) \/ Manage(c)

Next ==
    \/ \E c \in Caller, o \in Ops, p, q \in Path : Request(c, o, p, q)
    \/ \E c \in Caller : CallerStep(c)

Spec == Init /\ [][Next]_vars

-----------------------------------------------------------------------------
(* Properties.                                                             *)

(* No caller has used an operation that does without fileWriteMu.          *)
Serialized == \A c \in Caller : op[c] \in Writes \cup {"copy", "none"}

(* A compare-and-swap replaces the content its caller had read, and the    *)
(* backup it asked for is that content.                                    *)
SwapIsExact ==
    \A c \in Caller :
        (pc[c] = "replace" /\ pc'[c] = "digest" /\ op[c] \in Checked) =>
            /\ Content(path[c]) = expected[c]
            /\ op[c] \in BackedUp => Content(Backup[path[c]]) = expected[c]

(* Among writes and copies every compare-and-swap is exact, although its   *)
(* check, its backup and its rename are separate steps (writeAtomic).      *)
ReplacesWhatItChecked == [][Serialized => SwapIsExact]_vars

(* The comment of fileWriteMu: "All writes performed by one agent process  *)
(* are serialized", which makes check and rename a transaction.            *)
SwapsAreTransactions == [][SwapIsExact]_vars

(* The hash a write answers with is the hash of the bytes it was given,    *)
(* although it hashes the path again after the rename (writeAtomic).       *)
DigestIsOwn ==
    Serialized => \A c \in Caller :
        (pc[c] = "done" /\ op[c] \in Writes /\ reply[c] \notin {<<"mismatch">>, <<"failed">>})
            => reply[c] = <<c>>

(* An operation of one of the kinds os ends in this step.                  *)
Ends(os) == \E c \in Caller : op[c] \in os /\ pc[c] # "done" /\ pc'[c] = "done"

(* Only a delete or a move takes a file from its path, and only an append  *)
(* or a truncation changes an inode.                                       *)
KeepsFiles ==
    /\ \A p \in Path : (inode[p] # NoInode /\ inode'[p] = NoInode) => Ends({"delete", "move"})
    /\ \A i \in Made : data'[i] # data[i] => Ends({"append", "truncate"})

(* Who has a file open, and who opens it at any time, sees the old file or *)
(* the new one (atomicReplaceReader renames a finished temporary file, on  *)
(* error too).                                                             *)
OldOrNew == [][KeepsFiles]_vars

-----------------------------------------------------------------------------
(* The inductive invariant of the proofs.                                  *)

Inside == {"stat", "verify", "backup", "replace", "digest"}

(* Where a caller is, and with which request: within writeAtomic and       *)
(* copyFileAtomic it holds the lock.                                       *)
PlaceInv(c) ==
    /\ pc[c] \in Inside => mu = c
    /\ pc[c] = "idle" => op[c] = "none"
    /\ pc[c] # "idle" => path[c] \in Path /\ target[c] \in Path
    /\ pc[c] \in {"stat", "verify", "backup", "digest"} => op[c] \in Writes
    /\ pc[c] \in {"lock", "replace"} => op[c] \in Writes \cup {"copy"}
    /\ pc[c] \in {"open", "append"} => op[c] \notin Writes
    /\ pc[c] = "append" => op[c] = "append"
    /\ pc[c] \in {"lock", "replace"} /\ op[c] = "copy" => handle[c] # NoInode
    /\ pc[c] = "append" => handle[c] # NoInode

(* What a write knows about its file at each step, as long as everybody    *)
(* takes the lock.                                                         *)
WriteInv(c) ==
    /\ pc[c] = "verify" => existed[c] = (inode[path[c]] # NoInode)
    /\ pc[c] = "backup" => inode[path[c]] # NoInode
    /\ pc[c] \in {"backup", "replace"} /\ op[c] \in Checked => Content(path[c]) = expected[c]
    /\ pc[c] = "replace" /\ op[c] \in Checked \cap BackedUp =>
          Content(Backup[path[c]]) = expected[c]
    /\ pc[c] = "digest" => inode[path[c]] # NoInode /\ Content(path[c]) = <<c>>
    /\ pc[c] = "done" /\ op[c] \in Writes =>
          reply[c] \in {<<"mismatch">>, <<"failed">>, <<c>>}

FileInv ==
    /\ \A c \in Caller : PlaceInv(c)
    /\ Serialized => \A c \in Caller : WriteInv(c)

=============================================================================
