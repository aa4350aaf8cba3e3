-------------------------- MODULE FileWritesProofs --------------------------
(***************************************************************************)
(* Proofs about FileWrites for any number of callers and paths: types, the *)
(* compare-and-swap, the hash that a write answers with, and what those    *)
(* who have a file open can see.                                           *)
(***************************************************************************)
EXTENDS FileWrites, TLAPS

(* The contents that the operations make.                                  *)
LEMMA ContentsFacts ==
    /\ <<>> \in Contents /\ <<"old">> \in Contents
    /\ \A c \in Caller : <<c>> \in Contents
    /\ \A c \in Caller, d \in Contents : Append(d, c) \in Contents
BY DEF Contents

(* A new inode under one path: that path has the new content, every other  *)
(* path and every inode that existed keeps its own.                        *)
LEMMA InstallEffect ==
    ASSUME data \in Seq(Contents), inode \in [Path -> Made \cup {NoInode}],
           NEW p \in Path, NEW d \in Contents, Install(p, d)
    PROVE  /\ data' \in Seq(Contents)
           /\ inode' \in [Path -> Made' \cup {NoInode}]
           /\ Made \subseteq Made'
           /\ inode'[p] # NoInode /\ Content(p)' = d
           /\ \A q \in Path \ {p} : inode'[q] = inode[q] /\ Content(q)' = Content(q)
           /\ \A i \in Made : data'[i] = data[i]
<1>1. /\ data' \in Seq(Contents) /\ Len(data') = Len(data) + 1 /\ Len(data) \in Nat
      /\ data'[Len(data) + 1] = d
      /\ \A i \in 1 .. Len(data) : data'[i] = data[i]
  BY DEF Install
<1>2. Made \subseteq Made' /\ Len(data) + 1 \in Made' /\ Len(data) + 1 # NoInode
  BY <1>1 DEF Made, NoInode
<1>3. /\ inode'[p] = Len(data) + 1
      /\ \A q \in Path \ {p} : inode'[q] = inode[q]
  BY DEF Install
<1>4. inode' \in [Path -> Made' \cup {NoInode}]
  BY <1>2 DEF Install
<1>5. \A q \in Path \ {p} : Content(q)' = Content(q)
  BY <1>1, <1>3 DEF Content, Made
<1>6. Content(p)' = d
  BY <1>1, <1>2, <1>3 DEF Content
<1> QED
  BY <1>1, <1>2, <1>3, <1>4, <1>5, <1>6 DEF Made

(* atomicReplaceReader installs a new inode or does nothing; it does       *)
(* nothing only when it fails.                                             *)
LEMMA ReplaceEffect ==
    ASSUME NEW p, NEW d, NEW ok \in BOOLEAN, atomicReplaceReader(p, d, ok)
    PROVE  Install(p, d) \/ (~ ok /\ UNCHANGED <<inode, data>>)
BY DEF atomicReplaceReader

(* The content of a file that exists is one that an operation made.        *)
LEMMA ContentType ==
    ASSUME TypeOK, NEW p \in Path
    PROVE  /\ Content(p) \in Contents \cup {NoFile}
           /\ inode[p] # NoInode => Content(p) \in Contents
BY DEF TypeOK, Content, Made

(* Types that depend on the inodes made so far, when only those change.    *)
LEMMA FileType ==
    ASSUME TypeOK, data' \in Seq(Contents), inode' \in [Path -> Made' \cup {NoInode}],
           Made \subseteq Made', mu' \in Caller \cup {"free"},
           pc' \in [Caller -> Places], reply' \in [Caller -> Answers],
           UNCHANGED <<requestVars, existed, handle>>
    PROVE  TypeOK'
BY DEF TypeOK, requestVars

(* Each action keeps every variable in its type.                           *)
LEMMA TypeStep == TypeOK /\ FileInv /\ [Next]_vars => TypeOK'
<1> SUFFICES ASSUME TypeOK, FileInv, [Next]_vars PROVE TypeOK'
  OBVIOUS
<1> USE FileAssumption
<1> USE DEF Goto, Finish, Unlock, Places, Answers
<1>t. /\ data \in Seq(Contents) /\ inode \in [Path -> Made \cup {NoInode}]
      /\ mu \in Caller \cup {"free"}
  BY DEF TypeOK
<1>r. \A a \in {<<"none">>, <<"mismatch">>, <<"failed">>} : a \in Answers
  OBVIOUS
<1>p. \A c \in Caller : pc[c] # "idle" => path[c] \in Path /\ target[c] \in Path
  BY DEF FileInv, PlaceInv
<1>1. ASSUME NEW c \in Caller, NEW o \in Ops, NEW p \in Path, NEW q \in Path, Request(c, o, p, q)
      PROVE  TypeOK'
  <2>1. o \in AllOps
    OBVIOUS
  <2>2. Content(p) \in Contents \cup {NoFile}
    BY ContentType
  <2>3. /\ op' \in [Caller -> AllOps \cup {"none"}]
        /\ path' \in [Caller -> Path \cup {"none"}]
        /\ target' \in [Caller -> Path \cup {"none"}]
        /\ expected' \in [Caller -> Contents \cup {NoFile}]
    BY <1>1, <2>1, <2>2 DEF Request, TypeOK
  <2>4. pc' \in [Caller -> Places]
    BY <1>1 DEF Request, TypeOK
  <2> QED
    BY <1>1, <2>3, <2>4 DEF Request, TypeOK, Made
<1>2. ASSUME NEW c \in Caller, Lock(c)
      PROVE  TypeOK'
  BY <1>2 DEF Lock, TypeOK, requestVars, Made
<1>3. ASSUME NEW c \in Caller, Stat(c)
      PROVE  TypeOK'
  BY <1>3 DEF Stat, TypeOK, requestVars, Made
<1>4. ASSUME NEW c \in Caller, verifyExpectedSHA256(c)
      PROVE  TypeOK'
  BY <1>4, <1>t, FileType DEF verifyExpectedSHA256, AfterVerify, TypeOK, Made
<1>5. ASSUME NEW c \in Caller, MakeBackup(c)
      PROVE  TypeOK'
  <2>1. path[c] \in Path /\ Backup[path[c]] \in Path
    BY <1>5, <1>p DEF MakeBackup
  <2>2. /\ data' \in Seq(Contents) /\ inode' \in [Path -> Made' \cup {NoInode}]
        /\ Made \subseteq Made'
    <3>1. CASE UNCHANGED <<inode, data>>
      BY <1>t, <3>1 DEF Made
    <3>2. CASE inode[path[c]] # NoInode /\ Install(Backup[path[c]], Content(path[c]))
      BY <1>t, <2>1, <3>2, ContentType, InstallEffect
    <3> QED
      BY <1>5, <3>1, <3>2, ReplaceEffect DEF MakeBackup
  <2>3. /\ mu' \in Caller \cup {"free"}
        /\ pc' \in [Caller -> Places]
        /\ reply' \in [Caller -> Answers]
    BY <1>5 DEF MakeBackup, TypeOK
  <2> QED
    BY <1>5, <2>2, <2>3, FileType DEF MakeBackup
<1>6. ASSUME NEW c \in Caller, Replace(c)
      PROVE  TypeOK'
  <2>1. path[c] \in Path
    BY <1>6, <1>p DEF Replace
  <2>2. /\ data' \in Seq(Contents) /\ inode' \in [Path -> Made' \cup {NoInode}]
        /\ Made \subseteq Made'
    <3>1. CASE UNCHANGED <<inode, data>>
      BY <1>t, <3>1 DEF Made
    <3>2. CASE Install(path[c], <<c>>)
      BY <1>t, <2>1, <3>2, ContentsFacts, InstallEffect
    <3> QED
      BY <1>6, <3>1, <3>2, ReplaceEffect DEF Replace
  <2>3. /\ mu' \in Caller \cup {"free"}
        /\ pc' \in [Caller -> Places]
        /\ reply' \in [Caller -> Answers]
    BY <1>6 DEF Replace, TypeOK
  <2> QED
    BY <1>6, <2>2, <2>3, FileType DEF Replace
<1>7. ASSUME NEW c \in Caller, ReplaceByCopy(c)
      PROVE  TypeOK'
  <2>1. target[c] \in Path /\ handle[c] \in Made
    BY <1>7 DEF ReplaceByCopy, FileInv, PlaceInv, TypeOK
  <2>2. data[handle[c]] \in Contents
    BY <1>t, <2>1 DEF Made
  <2>3. /\ data' \in Seq(Contents) /\ inode' \in [Path -> Made' \cup {NoInode}]
        /\ Made \subseteq Made'
    <3>1. CASE UNCHANGED <<inode, data>>
      BY <1>t, <3>1 DEF Made
    <3>2. CASE Install(target[c], data[handle[c]])
      BY <1>t, <2>1, <2>2, <3>2, InstallEffect
    <3> QED
      BY <1>7, <3>1, <3>2, ReplaceEffect DEF ReplaceByCopy
  <2>4. /\ mu' \in Caller \cup {"free"}
        /\ pc' \in [Caller -> Places]
        /\ reply' \in [Caller -> Answers]
    BY <1>7, <2>2 DEF ReplaceByCopy, TypeOK
  <2> QED
    BY <1>7, <2>3, <2>4, FileType DEF ReplaceByCopy
<1>8. ASSUME NEW c \in Caller, Digest(c)
      PROVE  TypeOK'
  <2>1. Content(path[c]) \in Contents \cup {NoFile}
    BY <1>8, <1>p, ContentType DEF Digest
  <2>2. reply' \in [Caller -> Answers]
    BY <1>8, <2>1 DEF Digest, TypeOK
  <2> QED
    BY <1>8, <2>2 DEF Digest, TypeOK, requestVars, Made
<1>9. ASSUME NEW c \in Caller, OpenSource(c)
      PROVE  TypeOK'
  <2>1. path[c] \in Path
    BY <1>9, <1>p DEF OpenSource
  <2> QED
    <3>1. CASE inode[path[c]] = NoInode
      BY <1>9, <3>1 DEF OpenSource, TypeOK, requestVars, Made
    <3>2. CASE inode[path[c]] # NoInode
      BY <1>9, <2>1, <3>2 DEF OpenSource, TypeOK, requestVars, Made
    <3> QED
      BY <3>1, <3>2
<1>10. ASSUME NEW c \in Caller, OpenAppend(c)
       PROVE  TypeOK'
  <2>1. path[c] \in Path
    BY <1>10, <1>p DEF OpenAppend
  <2>2. /\ data' \in Seq(Contents) /\ inode' \in [Path -> Made' \cup {NoInode}]
        /\ Made \subseteq Made'
    <3>1. CASE UNCHANGED <<inode, data>>
      BY <1>t, <3>1 DEF Made
    <3>2. CASE Install(path[c], <<>>)
      BY <1>t, <2>1, <3>2, ContentsFacts, InstallEffect
    <3> QED
      BY <1>10, <3>1, <3>2 DEF OpenAppend
  <2>3. handle' \in [Caller -> Made' \cup {NoInode}]
    BY <1>10, <2>1, <2>2 DEF OpenAppend, TypeOK
  <2>4. pc' \in [Caller -> Places]
    BY <1>10 DEF OpenAppend, TypeOK
  <2> QED
    BY <1>10, <2>2, <2>3, <2>4 DEF OpenAppend, TypeOK, requestVars
<1>11. ASSUME NEW c \in Caller, AppendBytes(c)
       PROVE  TypeOK'
  <2>1. handle[c] \in Made
    BY <1>11 DEF AppendBytes, FileInv, PlaceInv, TypeOK
  <2>2. Append(data[handle[c]], c) \in Contents
    BY <1>t, <2>1, ContentsFacts DEF Made
  <2>3. data' \in Seq(Contents) /\ Made' = Made /\ data'[handle[c]] \in Contents
    BY <1>11, <1>t, <2>1, <2>2 DEF AppendBytes, Made
  <2> QED
    BY <1>11, <1>t, <2>3, FileType DEF AppendBytes, TypeOK
<1>12. ASSUME NEW c \in Caller, Manage(c)
       PROVE  TypeOK'
  <2>1. path[c] \in Path
    BY <1>12, <1>p DEF Manage
  <2>2. Content(path[c]) \in Contents \cup {NoFile}
    BY <2>1, ContentType
  <2>3. data' \in Seq(Contents) /\ Made' = Made
    <3>1. CASE data' = data
      BY <1>t, <3>1 DEF Made
    <3>2. CASE inode[path[c]] # NoInode /\ data' = [data EXCEPT ![inode[path[c]]] = <<>>]
      <4>1. inode[path[c]] \in 1 .. Len(data)
        BY <1>t, <2>1, <3>2 DEF Made
      <4> QED
        BY <1>t, <3>2, <4>1, ContentsFacts DEF Made
    <3> QED
      BY <1>12, <3>1, <3>2 DEF Manage
  <2>4. inode' \in [Path -> Made \cup {NoInode}]
    BY <1>12, <1>t, <2>1 DEF Manage
  <2>5. /\ pc' \in [Caller -> Places]
        /\ reply' \in [Caller -> Answers]
    <3>1. \E a \in Answers : Finish(c, a)
      BY <1>12, <2>2 DEF Manage
    <3> QED
      BY <3>1 DEF TypeOK
  <2> QED
    BY <1>12, <1>t, <2>3, <2>4, <2>5, FileType DEF Manage
<1>13. CASE UNCHANGED vars
  BY <1>13 DEF vars, TypeOK, Made
<1> QED
  BY <1>1, <1>2, <1>3, <1>4, <1>5, <1>6, <1>7, <1>8, <1>9, <1>10, <1>11, <1>12, <1>13
     DEF Next, CallerStep

-----------------------------------------------------------------------------
(* The request and the progress of caller d are as they were.              *)
SameCaller(d) ==
    /\ pc'[d] = pc[d] /\ op'[d] = op[d] /\ path'[d] = path[d] /\ target'[d] = target[d]
    /\ expected'[d] = expected[d] /\ existed'[d] = existed[d] /\ handle'[d] = handle[d]
    /\ reply'[d] = reply[d]

(* A step of another caller: what d knows of its file stays true if the    *)
(* files are left alone, or if d is outside the lock.                      *)
LEMMA OtherWriteKept ==
    ASSUME NEW d \in Caller, WriteInv(d), SameCaller(d),
           UNCHANGED <<inode, data>> \/ pc[d] \notin Inside
    PROVE  WriteInv(d)'
BY DEF WriteInv, SameCaller, Content, Inside

(* Every step keeps the places of the callers and the owner of the lock.   *)
LEMMA PlaceStep ==
    TypeOK /\ TypeOK' /\ FileInv /\ [Next]_vars => \A d \in Caller : PlaceInv(d)'
<1> SUFFICES ASSUME TypeOK, TypeOK', FileInv, [Next]_vars, NEW d \in Caller
             PROVE  PlaceInv(d)'
  OBVIOUS
<1> USE FileAssumption
<1> USE DEF Goto, Finish, Unlock, requestVars
<1>i. \A c \in Caller : PlaceInv(c)
  BY DEF FileInv
<1>1. ASSUME NEW c \in Caller, NEW o \in Ops, NEW p \in Path, NEW q \in Path, Request(c, o, p, q)
      PROVE  PlaceInv(d)'
  <2>1. CASE c = d
    BY <1>1, <1>i, <2>1 DEF Request, PlaceInv, TypeOK, Writes, Checked, BackedUp, Inside
  <2>2. CASE c # d
    BY <1>1, <1>i, <2>2 DEF Request, PlaceInv, TypeOK
  <2> QED
    BY <2>1, <2>2
<1>2. ASSUME NEW c \in Caller, Lock(c)
      PROVE  PlaceInv(d)'
  <2>1. CASE c = d
    BY <1>2, <1>i, <2>1 DEF Lock, PlaceInv, TypeOK, Writes, Checked, BackedUp, Inside
  <2>2. CASE c # d
    BY <1>2, <1>i, <2>2 DEF Lock, PlaceInv, TypeOK
  <2> QED
    BY <2>1, <2>2
<1>3. ASSUME NEW c \in Caller, Stat(c)
      PROVE  PlaceInv(d)'
  <2>1. CASE c = d
    BY <1>3, <1>i, <2>1 DEF Stat, PlaceInv, TypeOK, Writes, Checked, BackedUp, Inside
  <2>2. CASE c # d
    BY <1>3, <1>i, <2>2 DEF Stat, PlaceInv, TypeOK
  <2> QED
    BY <2>1, <2>2
<1>4. ASSUME NEW c \in Caller, verifyExpectedSHA256(c)
      PROVE  PlaceInv(d)'
  <2>1. CASE c = d
    BY <1>4, <1>i, <2>1 DEF verifyExpectedSHA256, AfterVerify, PlaceInv, TypeOK, Writes,
        Checked, BackedUp, Inside
  <2>2. CASE c # d
    BY <1>4, <1>i, <2>2 DEF verifyExpectedSHA256, PlaceInv, TypeOK
  <2> QED
    BY <2>1, <2>2
<1>5. ASSUME NEW c \in Caller, MakeBackup(c)
      PROVE  PlaceInv(d)'
  <2>1. CASE c = d
    BY <1>5, <1>i, <2>1 DEF MakeBackup, PlaceInv, TypeOK, Writes, Checked, BackedUp, Inside
  <2>2. CASE c # d
    BY <1>5, <1>i, <2>2 DEF MakeBackup, PlaceInv, TypeOK
  <2> QED
    BY <2>1, <2>2
<1>6. ASSUME NEW c \in Caller, Replace(c)
      PROVE  PlaceInv(d)'
  <2>1. CASE c = d
    BY <1>6, <1>i, <2>1 DEF Replace, PlaceInv, TypeOK, Writes, Checked, BackedUp, Inside
  <2>2. CASE c # d
    BY <1>6, <1>i, <2>2 DEF Replace, PlaceInv, TypeOK
  <2> QED
    BY <2>1, <2>2
<1>7. ASSUME NEW c \in Caller, ReplaceByCopy(c)
      PROVE  PlaceInv(d)'
  <2>1. CASE c = d
    BY <1>7, <1>i, <2>1 DEF ReplaceByCopy, PlaceInv, TypeOK, Writes, Checked, BackedUp, Inside
  <2>2. CASE c # d
    BY <1>7, <1>i, <2>2 DEF ReplaceByCopy, PlaceInv, TypeOK
  <2> QED
    BY <2>1, <2>2
<1>8. ASSUME NEW c \in Caller, Digest(c)
      PROVE  PlaceInv(d)'
  <2>1. CASE c = d
    BY <1>8, <1>i, <2>1 DEF Digest, PlaceInv, TypeOK, Writes, Checked, BackedUp, Inside
  <2>2. CASE c # d
    BY <1>8, <1>i, <2>2 DEF Digest, PlaceInv, TypeOK
  <2> QED
    BY <2>1, <2>2
<1>9. ASSUME NEW c \in Caller, OpenSource(c)
      PROVE  PlaceInv(d)'
  <2>1. CASE c = d
    BY <1>9, <1>i, <2>1 DEF OpenSource, PlaceInv, TypeOK, Writes, Checked, BackedUp, Inside
  <2>2. CASE c # d
    BY <1>9, <1>i, <2>2 DEF OpenSource, PlaceInv, TypeOK
  <2> QED
    BY <2>1, <2>2
<1>10. ASSUME NEW c \in Caller, OpenAppend(c)
      PROVE  PlaceInv(d)'
  <2>1. CASE c = d
    <3>1. path[c] \in Path
      BY <1>10, <1>i DEF OpenAppend, PlaceInv
    <3>2. inode'[path[c]] # NoInode
      BY <1>10, <3>1, InstallEffect, ContentsFacts DEF OpenAppend, TypeOK
    <3>3. handle'[c] # NoInode
      BY <1>10, <3>2 DEF OpenAppend, TypeOK
    <3> QED
      BY <1>10, <1>i, <2>1, <3>3 DEF OpenAppend, PlaceInv, TypeOK, Inside, Writes, Checked, BackedUp
  <2>2. CASE c # d
    BY <1>10, <1>i, <2>2 DEF OpenAppend, PlaceInv, TypeOK
  <2> QED
    BY <2>1, <2>2
<1>11. ASSUME NEW c \in Caller, AppendBytes(c)
      PROVE  PlaceInv(d)'
  <2>1. CASE c = d
    BY <1>11, <1>i, <2>1 DEF AppendBytes, PlaceInv, TypeOK, Writes, Checked, BackedUp, Inside
  <2>2. CASE c # d
    BY <1>11, <1>i, <2>2 DEF AppendBytes, PlaceInv, TypeOK
  <2> QED
    BY <2>1, <2>2
<1>12. ASSUME NEW c \in Caller, Manage(c)
      PROVE  PlaceInv(d)'
  <2>1. CASE c = d
    BY <1>12, <1>i, <2>1 DEF Manage, PlaceInv, TypeOK, Writes, Checked, BackedUp, Inside
  <2>2. CASE c # d
    BY <1>12, <1>i, <2>2 DEF Manage, PlaceInv, TypeOK
  <2> QED
    BY <2>1, <2>2
<1>13. CASE UNCHANGED vars
  BY <1>13, <1>i DEF vars, PlaceInv
<1> QED
  BY <1>1, <1>2, <1>3, <1>4, <1>5, <1>6, <1>7, <1>8, <1>9, <1>10, <1>11, <1>12, <1>13
     DEF Next, CallerStep

(* Every step keeps what the writes know of their files, as long as all    *)
(* callers take the lock.                                                  *)
LEMMA WriteStep ==
    TypeOK /\ TypeOK' /\ FileInv /\ [Next]_vars /\ Serialized' => \A d \in Caller : WriteInv(d)'
<1> SUFFICES ASSUME TypeOK, TypeOK', FileInv, [Next]_vars, Serialized', NEW d \in Caller
             PROVE  WriteInv(d)'
  OBVIOUS
<1> USE FileAssumption
<1> USE DEF Goto, Finish, requestVars
<1>p. \A c \in Caller : PlaceInv(c)
  BY DEF FileInv
<1>t. data \in Seq(Contents) /\ inode \in [Path -> Made \cup {NoInode}]
  BY DEF TypeOK
<1>s. Serialized
  <2>1. ASSUME NEW c \in Caller, NEW o \in Ops, NEW p \in Path, NEW q \in Path, Request(c, o, p, q)
        PROVE  Serialized
    BY <2>1, <1>p DEF Request, Serialized, PlaceInv, TypeOK
  <2>2. CASE op' = op
    BY <2>2 DEF Serialized
  <2>3. ASSUME NEW c \in Caller, CallerStep(c)
        PROVE  op' = op
    BY <2>3 DEF CallerStep, Lock, Stat, verifyExpectedSHA256, MakeBackup, Replace, Digest,
                OpenSource, ReplaceByCopy, OpenAppend, AppendBytes, Manage
  <2>4. CASE UNCHANGED vars
    BY <2>4, <2>2 DEF vars
  <2> QED
    BY <2>1, <2>2, <2>3, <2>4 DEF Next
<1>i. WriteInv(d)
  BY <1>s DEF FileInv
<1>m. \A c \in Caller : pc[c] \in Inside /\ c # d => pc[d] \notin Inside
  BY <1>p DEF PlaceInv
<1>1. ASSUME NEW c \in Caller, NEW o \in Ops, NEW p \in Path, NEW q \in Path, Request(c, o, p, q)
      PROVE  WriteInv(d)'
  <2>1. CASE c = d
    BY <1>1, <2>1 DEF Request, WriteInv, TypeOK
  <2>2. CASE c # d
    BY <1>1, <1>i, <2>2, OtherWriteKept DEF Request, SameCaller, TypeOK
  <2> QED
    BY <2>1, <2>2
<1>2. ASSUME NEW c \in Caller, Lock(c)
      PROVE  WriteInv(d)'
  <2>1. CASE c = d
    BY <1>2, <1>p, <2>1 DEF Lock, PlaceInv, WriteInv, TypeOK, Writes, Checked, BackedUp
  <2>2. CASE c # d
    BY <1>2, <1>i, <2>2, OtherWriteKept DEF Lock, SameCaller, TypeOK
  <2> QED
    BY <2>1, <2>2
<1>3. ASSUME NEW c \in Caller, Stat(c)
      PROVE  WriteInv(d)'
  <2>1. CASE c = d
    BY <1>3, <2>1 DEF Stat, WriteInv, TypeOK
  <2>2. CASE c # d
    BY <1>3, <1>i, <2>2, OtherWriteKept DEF Stat, SameCaller, TypeOK
  <2> QED
    BY <2>1, <2>2
<1>4. ASSUME NEW c \in Caller, verifyExpectedSHA256(c)
      PROVE  WriteInv(d)'
  <2>1. CASE c = d
    <3>1. CASE Mismatch(d)
      BY <1>4, <2>1, <3>1 DEF verifyExpectedSHA256, WriteInv, TypeOK
    <3>2. CASE ~ Mismatch(d)
      <4>1. /\ existed[d] = (inode[path[d]] # NoInode)
            /\ op[d] \in Checked => inode[path[d]] # NoInode /\ Content(path[d]) = expected[d]
        BY <1>4, <1>i, <2>1, <3>2 DEF verifyExpectedSHA256, WriteInv, Mismatch
      <4>2. /\ pc'[d] = AfterVerify(d)
            /\ UNCHANGED <<inode, data, op, path, expected, existed, reply>>
        BY <1>4, <2>1, <3>2 DEF verifyExpectedSHA256, TypeOK
      <4> QED
        BY <4>1, <4>2 DEF WriteInv, AfterVerify, Content
    <3> QED
      BY <3>1, <3>2
  <2>2. CASE c # d
    BY <1>4, <1>i, <2>2, OtherWriteKept DEF verifyExpectedSHA256, SameCaller, TypeOK
  <2> QED
    BY <2>1, <2>2
<1>5. ASSUME NEW c \in Caller, MakeBackup(c)
      PROVE  WriteInv(d)'
  <2>1. CASE c = d
    <3>1. /\ path[d] \in Path /\ Backup[path[d]] \in Path /\ Backup[path[d]] # path[d]
          /\ op[d] \in Writes
      BY <1>5, <1>p, <2>1 DEF MakeBackup, PlaceInv
    <3>2. inode[path[d]] # NoInode /\ (op[d] \in Checked => Content(path[d]) = expected[d])
      BY <1>5, <1>i, <2>1 DEF MakeBackup, WriteInv
    <3>3. /\ UNCHANGED <<op, path, expected>>
          /\ pc'[d] = "done" => reply'[d] = <<"failed">>
          /\ pc'[d] \in {"replace", "done"}
          /\ pc'[d] = "replace" => Install(Backup[path[d]], Content(path[d]))
      BY <1>5, <2>1, <3>2, ReplaceEffect DEF MakeBackup, TypeOK
    <3>4. pc'[d] = "replace" => /\ Content(Backup[path[d]])' = Content(path[d])
                                /\ Content(path[d])' = Content(path[d])
      <4>1. ASSUME Install(Backup[path[d]], Content(path[d]))
            PROVE  /\ Content(Backup[path[d]])' = Content(path[d])
                   /\ Content(path[d])' = Content(path[d])
        <5>1. Content(path[d]) \in Contents
          BY <3>1, <3>2, ContentType
        <5> QED
          BY <1>t, <3>1, <3>3, <4>1, <5>1, InstallEffect
      <4> QED
        BY <3>3, <4>1
    <3> QED
      BY <3>2, <3>3, <3>4 DEF WriteInv
  <2>2. CASE c # d
    <3>1. pc[d] \notin Inside
      BY <1>5, <1>m, <2>2 DEF MakeBackup, Inside
    <3> QED
      BY <1>5, <1>i, <2>2, <3>1, OtherWriteKept DEF MakeBackup, SameCaller, TypeOK
  <2> QED
    BY <2>1, <2>2
<1>6. ASSUME NEW c \in Caller, Replace(c)
      PROVE  WriteInv(d)'
  <2>1. CASE c = d
    <3>1. path[d] \in Path /\ op[d] \in Writes
      BY <1>6, <1>p, <2>1 DEF Replace, PlaceInv
    <3>2. /\ UNCHANGED <<op, path, expected>>
          /\ pc'[d] = "done" => reply'[d] = <<"failed">>
          /\ pc'[d] \in {"digest", "done"}
          /\ pc'[d] = "digest" => Install(path[d], <<d>>)
      BY <1>6, <2>1, ReplaceEffect DEF Replace, TypeOK
    <3>3. pc'[d] = "digest" => inode'[path[d]] # NoInode /\ Content(path[d])' = <<d>>
      <4>1. ASSUME Install(path[d], <<d>>)
            PROVE  inode'[path[d]] # NoInode /\ Content(path[d])' = <<d>>
        BY <1>t, <3>1, <3>2, <4>1, ContentsFacts, InstallEffect
      <4> QED
        BY <3>2, <4>1
    <3> QED
      BY <3>2, <3>3 DEF WriteInv
  <2>2. CASE c # d
    <3>1. pc[d] \notin Inside
      BY <1>6, <1>m, <2>2 DEF Replace, Inside
    <3> QED
      BY <1>6, <1>i, <2>2, <3>1, OtherWriteKept DEF Replace, SameCaller, TypeOK
  <2> QED
    BY <2>1, <2>2
<1>7. ASSUME NEW c \in Caller, ReplaceByCopy(c)
      PROVE  WriteInv(d)'
  <2>1. CASE c = d
    BY <1>7, <2>1 DEF ReplaceByCopy, WriteInv, TypeOK, Writes, Checked, BackedUp
  <2>2. CASE c # d
    <3>1. pc[d] \notin Inside
      BY <1>7, <1>m, <2>2 DEF ReplaceByCopy, Inside
    <3> QED
      BY <1>7, <1>i, <2>2, <3>1, OtherWriteKept DEF ReplaceByCopy, SameCaller, TypeOK
  <2> QED
    BY <2>1, <2>2
<1>8. ASSUME NEW c \in Caller, Digest(c)
      PROVE  WriteInv(d)'
  <2>1. CASE c = d
    BY <1>8, <1>i, <2>1 DEF Digest, WriteInv, TypeOK
  <2>2. CASE c # d
    BY <1>8, <1>i, <2>2, OtherWriteKept DEF Digest, SameCaller, TypeOK
  <2> QED
    BY <2>1, <2>2
<1>9. ASSUME NEW c \in Caller, OpenSource(c)
      PROVE  WriteInv(d)'
  <2>1. CASE c = d
    BY <1>9, <2>1 DEF OpenSource, WriteInv, TypeOK, Writes, Checked, BackedUp
  <2>2. CASE c # d
    BY <1>9, <1>i, <2>2, OtherWriteKept DEF OpenSource, SameCaller, TypeOK
  <2> QED
    BY <2>1, <2>2
<1>10. ASSUME NEW c \in Caller, OpenAppend(c) \/ AppendBytes(c) \/ Manage(c)
       PROVE  FALSE
  BY <1>10, <1>p, <1>s DEF OpenAppend, AppendBytes, Manage, PlaceInv, Serialized, Writes,
                           Checked, BackedUp
<1>11. CASE UNCHANGED vars
  BY <1>11, <1>i, OtherWriteKept DEF vars, SameCaller
<1> QED
  BY <1>1, <1>2, <1>3, <1>4, <1>5, <1>6, <1>7, <1>8, <1>9, <1>10, <1>11
     DEF Next, CallerStep

(* Types and invariant hold together.                                      *)
LEMMA FileInductive == Spec => [](TypeOK /\ FileInv)
<1>1. Init => TypeOK
  BY ContentsFacts, FileAssumption DEF Init, TypeOK, Made, Places, Answers, NoInode
<1>2. Init => FileInv
  BY DEF Init, FileInv, PlaceInv, WriteInv, Inside
<1>3. TypeOK /\ FileInv /\ [Next]_vars => (TypeOK /\ FileInv)'
  BY TypeStep, PlaceStep, WriteStep DEF FileInv
<1> QED
  BY <1>1, <1>2, <1>3, PTL DEF Spec

(* The file service keeps its types, for any callers and paths.            *)
THEOREM TypeCorrect == Spec => []TypeOK
BY FileInductive, PTL

(* Among any number of writes and copies, a write answers with the hash of *)
(* its own bytes.                                                          *)
THEOREM DigestsAreOwn == Spec => []DigestIsOwn
<1>1. FileInv => DigestIsOwn
  BY DEF FileInv, WriteInv, DigestIsOwn
<1> QED
  BY <1>1, FileInductive, PTL

(* Among any number of writes and copies, a compare-and-swap replaces the  *)
(* content its caller had read, and backs up that content.                 *)
THEOREM SwapsReplaceWhatTheyChecked == Spec => ReplacesWhatItChecked
<1>1. FileInv => (Serialized => SwapIsExact)
  BY DEF FileInv, WriteInv, SwapIsExact
<1> QED
  BY <1>1, FileInductive, PTL DEF Spec, ReplacesWhatItChecked

-----------------------------------------------------------------------------
(* A new inode takes no file away and changes none.                        *)
LEMMA InstallKeepsFiles ==
    ASSUME TypeOK, NEW p \in Path, NEW d \in Contents, Install(p, d)
    PROVE  KeepsFiles
<1>1. /\ inode'[p] # NoInode
      /\ \A q \in Path \ {p} : inode'[q] = inode[q]
      /\ \A i \in Made : data'[i] = data[i]
  BY InstallEffect DEF TypeOK
<1> QED
  BY <1>1 DEF KeepsFiles

(* With writes, copies, appends and file actions at once, on failure too,  *)
(* a file leaves its path only by a delete or a move, and an open file     *)
(* changes only by an append or a truncation.                              *)
THEOREM FilesAreOldOrNew == Spec => OldOrNew
<1>1. ASSUME TypeOK, FileInv, [Next]_vars PROVE KeepsFiles
  <2> USE <1>1
  <2> USE DEF Goto, Finish
  <2>p. \A c \in Caller : PlaceInv(c)
    BY DEF FileInv
  <2>u. UNCHANGED <<inode, data>> => KeepsFiles
    BY DEF KeepsFiles
  <2>1. ASSUME NEW c \in Caller, NEW o \in Ops, NEW p \in Path, NEW q \in Path,
               Request(c, o, p, q)
        PROVE  KeepsFiles
    BY <2>1, <2>u DEF Request
  <2>2. ASSUME NEW c \in Caller,
               Lock(c) \/ Stat(c) \/ verifyExpectedSHA256(c) \/ Digest(c) \/ OpenSource(c)
        PROVE  KeepsFiles
    BY <2>2, <2>u DEF Lock, Stat, verifyExpectedSHA256, Digest, OpenSource
  <2>3. ASSUME NEW c \in Caller, MakeBackup(c)
        PROVE  KeepsFiles
    <3>1. path[c] \in Path /\ Backup[path[c]] \in Path
      BY <2>3, <2>p, FileAssumption DEF MakeBackup, PlaceInv
    <3>2. \/ UNCHANGED <<inode, data>>
          \/ inode[path[c]] # NoInode /\ Install(Backup[path[c]], Content(path[c]))
      BY <2>3, ReplaceEffect DEF MakeBackup
    <3> QED
      BY <2>u, <3>1, <3>2, ContentType, InstallKeepsFiles
  <2>4. ASSUME NEW c \in Caller, Replace(c)
        PROVE  KeepsFiles
    <3>1. path[c] \in Path
      BY <2>4, <2>p DEF Replace, PlaceInv
    <3>2. UNCHANGED <<inode, data>> \/ Install(path[c], <<c>>)
      BY <2>4, ReplaceEffect DEF Replace
    <3> QED
      BY <2>u, <3>1, <3>2, ContentsFacts, InstallKeepsFiles
  <2>5. ASSUME NEW c \in Caller, ReplaceByCopy(c)
        PROVE  KeepsFiles
    <3>1. target[c] \in Path /\ data[handle[c]] \in Contents
      BY <2>5, <2>p DEF ReplaceByCopy, PlaceInv, TypeOK, Made
    <3>2. UNCHANGED <<inode, data>> \/ Install(target[c], data[handle[c]])
      BY <2>5, ReplaceEffect DEF ReplaceByCopy
    <3> QED
      BY <2>u, <3>1, <3>2, InstallKeepsFiles
  <2>6. ASSUME NEW c \in Caller, OpenAppend(c)
        PROVE  KeepsFiles
    <3>1. path[c] \in Path
      BY <2>6, <2>p DEF OpenAppend, PlaceInv
    <3>2. UNCHANGED <<inode, data>> \/ Install(path[c], <<>>)
      BY <2>6 DEF OpenAppend
    <3> QED
      BY <2>u, <3>1, <3>2, ContentsFacts, InstallKeepsFiles
  <2>7. ASSUME NEW c \in Caller, AppendBytes(c)
        PROVE  KeepsFiles
    <3>1. op[c] = "append" /\ pc[c] = "append" /\ pc'[c] = "done"
      BY <2>7, <2>p DEF AppendBytes, PlaceInv, TypeOK
    <3>2. Ends({"append", "truncate"})
      BY <3>1 DEF Ends
    <3> QED
      BY <2>7, <3>2 DEF AppendBytes, KeepsFiles
  <2>8. ASSUME NEW c \in Caller, Manage(c)
        PROVE  KeepsFiles
    <3>1. CASE inode[path[c]] = NoInode
      BY <2>8, <2>u, <3>1 DEF Manage
    <3>2. CASE inode[path[c]] # NoInode
      <4>1. pc[c] = "open" /\ pc'[c] = "done"
        BY <2>8, <3>2 DEF Manage, TypeOK
      <4>2. CASE op[c] = "truncate"
        <5>1. Ends({"append", "truncate"})
          BY <4>1, <4>2 DEF Ends
        <5>2. \A p \in Path : inode'[p] = inode[p]
          BY <2>8, <3>2, <4>2 DEF Manage
        <5> QED
          BY <5>1, <5>2 DEF KeepsFiles
      <4>3. CASE op[c] \in {"delete", "move"}
        <5>1. Ends({"delete", "move"})
          BY <4>1, <4>3 DEF Ends
        <5>2. data' = data
          BY <2>8, <3>2, <4>3 DEF Manage
        <5> QED
          BY <5>1, <5>2 DEF KeepsFiles
      <4> QED
        BY <2>8, <4>2, <4>3 DEF Manage
    <3> QED
      BY <3>1, <3>2
  <2>9. CASE UNCHANGED vars
    BY <2>9, <2>u DEF vars
  <2> QED
    BY <2>1, <2>2, <2>3, <2>4, <2>5, <2>6, <2>7, <2>8, <2>9 DEF Next, CallerStep
<1>2. TypeOK /\ FileInv /\ [Next]_vars => [KeepsFiles]_vars
  BY <1>1
<1> QED
  BY <1>2, FileInductive, PTL DEF Spec, OldOrNew

=============================================================================
