------------------------ MODULE TokenRotationProofs ------------------------
(***************************************************************************)
(* Proofs about TokenRotation for any number of tokens and clients and any *)
(* combination of faults: types, the atomicity of a rotation, agreement of *)
(* the files, and the credential a rotation is made with.                  *)
(***************************************************************************)
EXTENDS TokenRotation, TLAPS

(* A replacement leaves the old or the new content, the new one on success.*)
LEMMA WrittenEffect ==
    ASSUME NEW old, NEW new, NEW after, NEW ok \in BOOLEAN, Written(old, new, after, ok)
    PROVE  after \in {old, new} /\ (ok => after = new)
BY DEF Written

(* A stopped agent with its files is well-typed.                           *)
LEMMA TypeInit == Init => TypeOK
BY DEF Init, TypeOK, MaybeToken, Requester, Replies

(* The answer to a rotation keeps the types.                               *)
LEMMA AnswerType ==
    ASSUME TypeOK, NEW c \in Requester, NEW code \in Replies, Answer(c, code)
    PROVE  /\ passed' \in [Client -> MaybeToken]
           /\ wanted' \in [Requester -> MaybeToken]
           /\ reply' \in [Requester -> Replies]
           /\ holder' \in Requester \cup {Nobody}
           /\ step' = "none"
           /\ oldToken' \in MaybeToken
           /\ oldConfig' \in MaybeToken
           /\ failures' \in BOOLEAN
BY DEF Answer, TypeOK, MaybeToken

(* Each action keeps every variable in its type.                           *)
LEMMA TypeStep == TypeOK /\ RotationInv /\ [Next]_vars => TypeOK'
<1> SUFFICES ASSUME TypeOK, RotationInv, [Next]_vars PROVE TypeOK'
  OBVIOUS
<1> USE TokenAssumption
<1> USE DEF files, updateVars, requestVars, history
<1>1. CASE Start
  BY <1>1 DEF Start, TypeOK, MaybeToken
<1>2. CASE EnsureRead
  <2>1. tokenFile' \in MaybeToken
    BY <1>2, WrittenEffect DEF EnsureRead, TypeOK
  <2>2. /\ proc' \in {"down", "starting", "up", "reset"}
        /\ boot' \in {"none", "read", "retire", "reconcile", "serve"}
        /\ cfgHash' \in MaybeToken /\ active' \in MaybeToken
    BY <1>2 DEF EnsureRead, ProcessEnds, TypeOK
  <2> QED
    BY <1>2, <2>1, <2>2 DEF EnsureRead, TypeOK
<1>3. CASE EnsureRetire
  <2>1. legacyFile' \in MaybeToken
    BY <1>3, WrittenEffect DEF EnsureRetire, TypeOK, MaybeToken
  <2>2. /\ proc' \in {"down", "starting", "up", "reset"}
        /\ boot' \in {"none", "read", "retire", "reconcile", "serve"}
        /\ cfgHash' \in MaybeToken /\ active' \in MaybeToken
    BY <1>3 DEF EnsureRetire, ProcessEnds, TypeOK, MaybeToken
  <2> QED
    BY <1>3, <2>1, <2>2 DEF EnsureRetire, TypeOK
<1>4. CASE EnsureReconcile
  <2>1. tokenFile \in Token
    BY <1>4 DEF EnsureReconcile, RotationInv, BootInv, TypeOK, MaybeToken
  <2>2. configHash' \in Token
    BY <1>4, <2>1, WrittenEffect DEF EnsureReconcile, TypeOK
  <2>3. /\ proc' \in {"down", "starting", "up", "reset"}
        /\ boot' \in {"none", "read", "retire", "reconcile", "serve"}
        /\ cfgHash' \in MaybeToken /\ active' \in MaybeToken
    BY <1>4 DEF EnsureReconcile, ProcessEnds, TypeOK, MaybeToken
  <2> QED
    BY <1>4, <2>2, <2>3 DEF EnsureReconcile, TypeOK
<1>5. CASE Serve
  <2>1. cfgHash \in Token
    BY <1>5 DEF Serve, RotationInv, BootInv, TypeOK
  <2> QED
    BY <1>5, <2>1 DEF Serve, TypeOK, MaybeToken
<1>6. ASSUME NEW c \in Client, NEW bearer \in Token, NEW new \in Token,
             Authenticate(c, bearer, new)
      PROVE  TypeOK'
  BY <1>6 DEF Authenticate, TypeOK, MaybeToken, Replies
<1>7. ASSUME NEW c \in Client, EnterRotation(c)
      PROVE  TypeOK'
  <2>1. CASE \E code \in {"stale_token", "token_store_not_writable"} : Answer(c, code)
    BY <1>7, <2>1, AnswerType DEF EnterRotation, TypeOK, Requester, Replies
  <2>2. CASE BeginUpdate(c) /\ UNCHANGED requestVars
    BY <1>7, <2>2 DEF EnterRotation, BeginUpdate, TypeOK, Requester, MaybeToken
  <2> QED
    BY <1>7, <2>1, <2>2 DEF EnterRotation
<1>8. ASSUME NEW new \in Token, ResetToken(new)
      PROVE  TypeOK'
  BY <1>8 DEF ResetToken, BeginUpdate, TypeOK, Requester, MaybeToken, Replies
<1>9. CASE WriteToken
  <2>1. wanted[holder] \in Token
    BY <1>9 DEF WriteToken, RotationInv, ControlInv
  <2>2. tokenFile' \in MaybeToken
    BY <1>9, <2>1, WrittenEffect DEF WriteToken, TypeOK, MaybeToken
  <2> QED
    BY <1>9, <2>2 DEF WriteToken, TypeOK
<1>10. CASE SaveConfig
  <2>1. wanted[holder] \in Token
    BY <1>10 DEF SaveConfig, RotationInv, ControlInv
  <2>2. configHash' \in Token
    BY <1>10, <2>1, WrittenEffect DEF SaveConfig, TypeOK
  <2> QED
    BY <1>10, <2>2 DEF SaveConfig, TypeOK
<1>11. CASE RestoreConfig
  <2>1. oldConfig \in Token
    BY <1>11 DEF RestoreConfig, RotationInv, ControlInv, UpdateInv
  <2>2. configHash' \in Token
    BY <1>11, <2>1, WrittenEffect DEF RestoreConfig, TypeOK
  <2> QED
    BY <1>11, <2>2 DEF RestoreConfig, TypeOK
<1>12. CASE RestoreToken
  <2>1. tokenFile' \in MaybeToken
    BY <1>12, WrittenEffect DEF RestoreToken, TypeOK
  <2> QED
    BY <1>12, <2>1 DEF RestoreToken, TypeOK
<1>13. CASE VerifyState
  <2>1. holder \in Requester /\ wanted[holder] \in Token
    BY <1>13 DEF VerifyState, RotationInv, ControlInv, TypeOK
  <2>2. \E code \in Replies : Answer(holder, code)
    BY <1>13 DEF VerifyState, Replies
  <2>3. /\ proc' \in {"down", "starting", "up", "reset"}
        /\ boot' \in {"none", "read", "retire", "reconcile", "serve"}
        /\ cfgHash' \in MaybeToken /\ active' \in MaybeToken
    BY <1>13 DEF VerifyState, AfterRotation, ProcessEnds, TypeOK, MaybeToken
  <2> QED
    BY <1>13, <2>1, <2>2, <2>3, AnswerType DEF VerifyState, TypeOK
<1>14. CASE SwitchToken
  <2>1. holder \in Requester /\ wanted[holder] \in Token
    BY <1>14 DEF SwitchToken, RotationInv, ControlInv, TypeOK
  <2>2. \E code \in Replies : Answer(holder, code)
    BY <1>14 DEF SwitchToken, Replies
  <2>3. /\ proc' \in {"down", "starting", "up", "reset"}
        /\ boot' \in {"none", "read", "retire", "reconcile", "serve"}
        /\ cfgHash' \in MaybeToken /\ active' \in MaybeToken
    BY <1>14, <2>1 DEF SwitchToken, ProcessEnds, TypeOK, MaybeToken
  <2> QED
    BY <1>14, <2>1, <2>2, <2>3, AnswerType DEF SwitchToken, TypeOK
<1>15. CASE Crash
  <2>1. promised' \in SUBSET Token
    BY <1>15 DEF Crash, RotationInv, ControlInv, TypeOK
  <2> QED
    BY <1>15, <2>1 DEF Crash, ProcessEnds, TypeOK, MaybeToken, Replies
<1>16. CASE UNCHANGED vars
  BY <1>16 DEF vars, TypeOK
<1> QED
  BY <1>1, <1>2, <1>3, <1>4, <1>5, <1>6, <1>7, <1>8, <1>9, <1>10, <1>11, <1>12,
     <1>13, <1>14, <1>15, <1>16 DEF Next

-----------------------------------------------------------------------------
(* The invariant holds of a stopped agent with its files.                  *)
LEMMA RotationInit == Init => RotationInv
<1> SUFFICES ASSUME Init PROVE RotationInv
  OBVIOUS
<1> USE TokenAssumption DEF Init
<1>1. ControlInv
  BY DEF ControlInv
<1>2. BootInv
  BY DEF BootInv
<1>3. UpdateInv
  BY DEF UpdateInv
<1>4. RotationIsAtomic
  BY DEF RotationIsAtomic, NextBoot
<1>5. FilesAgree
  BY DEF FilesAgree
<1> QED
  BY <1>1, <1>2, <1>3, <1>4, <1>5 DEF RotationInv

(* RotationInv is inductive: the steps of the start, of a rotation and of  *)
(* its rollback, and a crash between any two of them.                      *)
LEMMA RotationStep == TypeOK /\ TypeOK' /\ RotationInv /\ [Next]_vars => RotationInv'
<1> SUFFICES ASSUME TypeOK, TypeOK', RotationInv, [Next]_vars PROVE RotationInv'
  OBVIOUS
<1> USE TokenAssumption
<1> USE DEF files, updateVars, requestVars, history
<1>1. CASE Start
  <2>1. ControlInv'
    BY <1>1 DEF Start, RotationInv, ControlInv
  <2>2. BootInv'
    BY <1>1 DEF Start, BootInv
  <2>3. UpdateInv'
    BY <1>1 DEF Start, RotationInv, UpdateInv
  <2>4. RotationIsAtomic'
    BY <1>1 DEF Start, RotationInv, RotationIsAtomic, NextBoot, InFlight
  <2>5. FilesAgree'
    BY <1>1 DEF Start, FilesAgree
  <2> QED
    BY <2>1, <2>2, <2>3, <2>4, <2>5 DEF RotationInv
<1>2. CASE EnsureRead
  <2>1. ControlInv'
    BY <1>2 DEF EnsureRead, ProcessEnds, RotationInv, ControlInv
  <2>2. BootInv'
    BY <1>2, WrittenEffect DEF EnsureRead, ProcessEnds, RotationInv, BootInv, TypeOK
  <2>3. UpdateInv'
    BY <1>2 DEF EnsureRead, RotationInv, ControlInv, UpdateInv, TypeOK, Requester
  <2>4. RotationIsAtomic'
    BY <1>2, WrittenEffect DEF EnsureRead, ProcessEnds, RotationInv, BootInv,
                               RotationIsAtomic, NextBoot, InFlight
  <2>5. FilesAgree'
    BY <1>2, WrittenEffect DEF EnsureRead, ProcessEnds, RotationInv, BootInv,
                               FilesAgree
  <2> QED
    BY <2>1, <2>2, <2>3, <2>4, <2>5 DEF RotationInv
<1>3. CASE EnsureRetire
  <2>1. ControlInv'
    BY <1>3 DEF EnsureRetire, ProcessEnds, RotationInv, ControlInv
  <2>2. BootInv'
    BY <1>3 DEF EnsureRetire, ProcessEnds, RotationInv, BootInv
  <2>3. UpdateInv'
    BY <1>3 DEF EnsureRetire, RotationInv, ControlInv, UpdateInv
  <2>4. RotationIsAtomic'
    BY <1>3 DEF EnsureRetire, ProcessEnds, RotationInv, RotationIsAtomic, NextBoot,
                InFlight
  <2>5. FilesAgree'
    BY <1>3 DEF EnsureRetire, ProcessEnds, RotationInv, FilesAgree
  <2> QED
    BY <2>1, <2>2, <2>3, <2>4, <2>5 DEF RotationInv
<1>4. CASE EnsureReconcile
  <2>1. ControlInv'
    BY <1>4 DEF EnsureReconcile, ProcessEnds, RotationInv, ControlInv
  <2>2. BootInv'
    BY <1>4, WrittenEffect DEF EnsureReconcile, ProcessEnds, RotationInv, BootInv
  <2>3. UpdateInv'
    BY <1>4 DEF EnsureReconcile, RotationInv, ControlInv, UpdateInv, TypeOK,
                Requester
  <2>4. RotationIsAtomic'
    BY <1>4, WrittenEffect DEF EnsureReconcile, ProcessEnds, RotationInv,
                               RotationIsAtomic, NextBoot, InFlight, TypeOK
  <2>5. FilesAgree'
    BY <1>4, WrittenEffect DEF EnsureReconcile, ProcessEnds, RotationInv,
                               FilesAgree, TypeOK
  <2> QED
    BY <2>1, <2>2, <2>3, <2>4, <2>5 DEF RotationInv
<1>5. CASE Serve
  <2>1. ControlInv'
    BY <1>5 DEF Serve, RotationInv, ControlInv, TypeOK
  <2>2. BootInv'
    BY <1>5 DEF Serve, BootInv
  <2>3. UpdateInv'
    BY <1>5 DEF Serve, RotationInv, ControlInv, UpdateInv, TypeOK, Requester
  <2>4. RotationIsAtomic'
    BY <1>5 DEF Serve, RotationInv, BootInv, RotationIsAtomic, NextBoot
  <2>5. FilesAgree'
    BY <1>5 DEF Serve, RotationInv, BootInv, FilesAgree
  <2> QED
    BY <2>1, <2>2, <2>3, <2>4, <2>5 DEF RotationInv
<1>6. ASSUME NEW c \in Client, NEW bearer \in Token, NEW new \in Token,
             Authenticate(c, bearer, new)
      PROVE  RotationInv'
  <2>1. ControlInv'
    BY <1>6 DEF Authenticate, RotationInv, ControlInv, TypeOK, Requester
  <2>2. BootInv'
    BY <1>6 DEF Authenticate, RotationInv, BootInv
  <2>3. UpdateInv'
    BY <1>6 DEF Authenticate, RotationInv, ControlInv, UpdateInv, TypeOK
  <2>4. RotationIsAtomic'
    BY <1>6 DEF Authenticate, RotationInv, ControlInv, RotationIsAtomic, NextBoot,
                InFlight, TypeOK
  <2>5. FilesAgree'
    BY <1>6 DEF Authenticate, RotationInv, FilesAgree
  <2> QED
    BY <2>1, <2>2, <2>3, <2>4, <2>5 DEF RotationInv
<1>7. ASSUME NEW c \in Client, EnterRotation(c)
      PROVE  RotationInv'
  <2>1. ControlInv'
    BY <1>7 DEF EnterRotation, Answer, BeginUpdate, RotationInv, ControlInv, TypeOK,
                Requester
  <2>2. BootInv'
    BY <1>7 DEF EnterRotation, RotationInv, BootInv
  <2>3. UpdateInv'
    BY <1>7 DEF EnterRotation, Answer, BeginUpdate, RotationInv, UpdateInv,
                RotationIsAtomic, NextBoot, InFlight, FilesAgree, TypeOK
  <2>4. RotationIsAtomic'
    BY <1>7 DEF EnterRotation, RotationInv, RotationIsAtomic, NextBoot, InFlight
  <2>5. FilesAgree'
    BY <1>7 DEF EnterRotation, RotationInv, FilesAgree
  <2> QED
    BY <2>1, <2>2, <2>3, <2>4, <2>5 DEF RotationInv
<1>8. ASSUME NEW new \in Token, ResetToken(new)
      PROVE  RotationInv'
  <2>1. ControlInv'
    BY <1>8 DEF ResetToken, BeginUpdate, RotationInv, ControlInv, TypeOK
  <2>2. BootInv'
    BY <1>8 DEF ResetToken, RotationInv, BootInv
  <2>3. UpdateInv'
    BY <1>8 DEF ResetToken, BeginUpdate, RotationInv, ControlInv, UpdateInv,
                RotationIsAtomic, NextBoot, InFlight, TypeOK, Requester
  <2>4. RotationIsAtomic'
    BY <1>8 DEF ResetToken, RotationInv, ControlInv, RotationIsAtomic, NextBoot,
                InFlight, TypeOK, Requester
  <2>5. FilesAgree'
    BY <1>8 DEF ResetToken, FilesAgree
  <2> QED
    BY <2>1, <2>2, <2>3, <2>4, <2>5 DEF RotationInv
<1>9. CASE WriteToken
  <2>1. ControlInv'
    BY <1>9 DEF WriteToken, RotationInv, ControlInv
  <2>2. BootInv'
    BY <1>9 DEF WriteToken, RotationInv, ControlInv, BootInv, TypeOK, Requester
  <2>3. UpdateInv'
    BY <1>9, WrittenEffect DEF WriteToken, RotationInv, UpdateInv
  <2>4. RotationIsAtomic'
    BY <1>9, WrittenEffect DEF WriteToken, RotationInv, ControlInv,
                               RotationIsAtomic, NextBoot, InFlight
  <2>5. FilesAgree'
    BY <1>9 DEF WriteToken, RotationInv, ControlInv, FilesAgree
  <2> QED
    BY <2>1, <2>2, <2>3, <2>4, <2>5 DEF RotationInv
<1>10. CASE SaveConfig
  <2>1. ControlInv'
    BY <1>10 DEF SaveConfig, RotationInv, ControlInv
  <2>2. BootInv'
    BY <1>10 DEF SaveConfig, RotationInv, ControlInv, BootInv, TypeOK, Requester
  <2>3. UpdateInv'
    BY <1>10, WrittenEffect DEF SaveConfig, RotationInv, UpdateInv
  <2>4. RotationIsAtomic'
    BY <1>10, WrittenEffect DEF SaveConfig, RotationInv, ControlInv,
                                RotationIsAtomic, NextBoot, InFlight
  <2>5. FilesAgree'
    BY <1>10 DEF SaveConfig, RotationInv, ControlInv, FilesAgree
  <2> QED
    BY <2>1, <2>2, <2>3, <2>4, <2>5 DEF RotationInv
<1>11. CASE RestoreConfig
  <2>a. PICK ok \in BOOLEAN : /\ Written(configHash, oldConfig, configHash', ok)
                              /\ failures' = ~ ok
                              /\ broken' = (broken \/ ~ ok)
    BY <1>11 DEF RestoreConfig
  <2>b. configHash' \in {configHash, oldConfig} /\ (ok => configHash' = oldConfig)
    BY <2>a, WrittenEffect
  <2>c. holder # Nobody /\ step = "restoreConfig"
    BY <1>11 DEF RestoreConfig, RotationInv, ControlInv
  <2>1. ControlInv'
    BY <1>11 DEF RestoreConfig, RotationInv, ControlInv
  <2>2. BootInv'
    BY <1>11 DEF RestoreConfig, RotationInv, ControlInv, BootInv, TypeOK, Requester
  <2>3. UpdateInv'
    BY <1>11, <2>a, <2>b, <2>c DEF RestoreConfig, RotationInv, ControlInv, BootInv,
                                   UpdateInv, RotationIsAtomic, NextBoot, InFlight,
                                   FilesAgree, TypeOK, MaybeToken, Requester
  <2>4. RotationIsAtomic'
    BY <1>11, <2>b, <2>c DEF RestoreConfig, RotationInv, UpdateInv,
                             RotationIsAtomic, NextBoot, InFlight, TypeOK
  <2>5. FilesAgree'
    BY <1>11, <2>c DEF RestoreConfig, FilesAgree
  <2> QED
    BY <2>1, <2>2, <2>3, <2>4, <2>5 DEF RotationInv
<1>12. CASE RestoreToken
  <2>a. PICK ok \in BOOLEAN : /\ Written(tokenFile, oldToken, tokenFile', ok)
                              /\ failures' = (failures \/ ~ ok)
                              /\ broken' = (broken \/ ~ ok)
    BY <1>12 DEF RestoreToken
  <2>b. tokenFile' \in {tokenFile, oldToken} /\ (ok => tokenFile' = oldToken)
    BY <2>a, WrittenEffect
  <2>c. holder # Nobody /\ step = "restoreToken"
    BY <1>12 DEF RestoreToken, RotationInv, ControlInv
  <2>1. ControlInv'
    BY <1>12 DEF RestoreToken, RotationInv, ControlInv
  <2>2. BootInv'
    BY <1>12 DEF RestoreToken, RotationInv, ControlInv, BootInv, TypeOK, Requester
  <2>3. UpdateInv'
    BY <1>12, <2>a, <2>b, <2>c DEF RestoreToken, RotationInv, ControlInv, BootInv,
                                   UpdateInv, RotationIsAtomic, NextBoot, InFlight,
                                   FilesAgree, TypeOK, MaybeToken, Requester
  <2>4. RotationIsAtomic'
    BY <1>12, <2>b, <2>c DEF RestoreToken, RotationInv, UpdateInv, RotationIsAtomic,
                             NextBoot, InFlight
  <2>5. FilesAgree'
    BY <1>12, <2>c DEF RestoreToken, FilesAgree
  <2> QED
    BY <2>1, <2>2, <2>3, <2>4, <2>5 DEF RotationInv
<1>13. CASE VerifyState
  <2>1. ControlInv'
    BY <1>13 DEF VerifyState, Answer, AfterRotation, ProcessEnds, RotationInv,
                 ControlInv, TypeOK, Requester
  <2>2. BootInv'
    BY <1>13 DEF VerifyState, AfterRotation, ProcessEnds, RotationInv, BootInv
  <2>3. UpdateInv'
    BY <1>13 DEF VerifyState, Answer, UpdateInv
  <2>4. RotationIsAtomic'
    BY <1>13 DEF VerifyState, AfterRotation, ProcessEnds, RotationInv, UpdateInv,
                 RotationIsAtomic, NextBoot, InFlight
  <2>5. FilesAgree'
    BY <1>13 DEF VerifyState, AfterRotation, ProcessEnds, RotationInv, UpdateInv,
                 FilesAgree, TypeOK, Requester
  <2> QED
    BY <2>1, <2>2, <2>3, <2>4, <2>5 DEF RotationInv
<1>14. CASE SwitchToken
  <2>1. ControlInv'
    BY <1>14 DEF SwitchToken, Answer, ProcessEnds, RotationInv, ControlInv
  <2>2. BootInv'
    BY <1>14 DEF SwitchToken, ProcessEnds, RotationInv, BootInv
  <2>3. UpdateInv'
    BY <1>14 DEF SwitchToken, Answer, UpdateInv
  <2>4. RotationIsAtomic'
    BY <1>14 DEF SwitchToken, ProcessEnds, RotationInv, ControlInv, UpdateInv,
                 RotationIsAtomic, NextBoot
  <2>5. FilesAgree'
    BY <1>14 DEF SwitchToken, ProcessEnds, RotationInv, ControlInv, UpdateInv,
                 FilesAgree
  <2> QED
    BY <2>1, <2>2, <2>3, <2>4, <2>5 DEF RotationInv
<1>15. CASE Crash
  <2>1. ControlInv'
    BY <1>15 DEF Crash, ProcessEnds, ControlInv
  <2>2. BootInv'
    BY <1>15 DEF Crash, ProcessEnds, BootInv
  <2>3. UpdateInv'
    BY <1>15 DEF Crash, UpdateInv
  <2>4. RotationIsAtomic'
    BY <1>15 DEF Crash, ProcessEnds, RotationInv, RotationIsAtomic, NextBoot,
                 InFlight
  <2>5. FilesAgree'
    BY <1>15 DEF Crash, ProcessEnds, FilesAgree
  <2> QED
    BY <2>1, <2>2, <2>3, <2>4, <2>5 DEF RotationInv
<1>16. CASE UNCHANGED vars
  BY <1>16 DEF vars, RotationInv, ControlInv, BootInv, UpdateInv, RotationIsAtomic,
               NextBoot, InFlight, FilesAgree
<1> QED
  BY <1>1, <1>2, <1>3, <1>4, <1>5, <1>6, <1>7, <1>8, <1>9, <1>10, <1>11, <1>12,
     <1>13, <1>14, <1>15, <1>16 DEF Next

(* Types and invariant hold together: a type argument needs the invariant  *)
(* (Ensure saves the hash of a token file that exists), and conversely.    *)
LEMMA RotationInductive == Spec => [](TypeOK /\ RotationInv)
<1>1. Init => TypeOK /\ RotationInv
  BY TypeInit, RotationInit
<1>2. TypeOK /\ RotationInv /\ [Next]_vars => (TypeOK /\ RotationInv)'
  BY TypeStep, RotationStep
<1> QED
  BY <1>1, <1>2, PTL DEF Spec

(* The token store keeps its types, for any tokens, clients and faults.    *)
THEOREM TypeCorrect == Spec => []TypeOK
BY RotationInductive, PTL

(* Wherever a rotation, its rollback or a start is cut short, and whichever*)
(* of its writes fail, the next start accepts the token last acknowledged  *)
(* or the one in flight (Update, restoreStateLocked, Ensure).              *)
THEOREM RotationsAreAtomic == Spec => []RotationIsAtomic
<1>1. RotationInv => RotationIsAtomic
  BY DEF RotationInv
<1> QED
  BY <1>1, RotationInductive, PTL

(* Between rotations the running agent, the configuration and the token    *)
(* file agree, unless a rollback was incomplete.                           *)
THEOREM RotationKeepsFilesAgreeing == Spec => []FilesAgree
<1>1. RotationInv => FilesAgree
  BY DEF RotationInv
<1> QED
  BY <1>1, RotationInductive, PTL

(* Only the holder of the credential that is valid now completes a         *)
(* rotation: updateToken checks it again under tokenRotationMu, and        *)
(* nothing changes the hash before SetTokenHash.                           *)
THEOREM RotationUsesOwnCredential == Spec => RotatesOwnCredential
<1> DEFINE Own == \A c \in Client : (reply'[c] = "ok" /\ reply[c] # "ok") => passed[c] = active
<1>1. ASSUME TypeOK, RotationInv, [Next]_vars PROVE Own
  <2> SUFFICES ASSUME NEW c \in Client, reply'[c] = "ok", reply[c] # "ok"
               PROVE  passed[c] = active
    OBVIOUS
  <2> USE TokenAssumption, <1>1
  <2> USE DEF files, updateVars, requestVars, history
  <2>2. CASE SwitchToken
    <3>1. holder \in Requester /\ reply' = [reply EXCEPT ![holder] = "ok"]
      BY <2>2 DEF SwitchToken, Answer, TypeOK
    <3>2. c = holder
      BY <3>1
    <3> QED
      BY <3>2 DEF RotationInv, ControlInv
  <2>3. ASSUME NEW d \in Client, NEW bearer \in Token, NEW new \in Token,
               Authenticate(d, bearer, new)
        PROVE  FALSE
    BY <2>3 DEF Authenticate, TypeOK, Requester
  <2>4. ASSUME NEW d \in Client, EnterRotation(d)
        PROVE  FALSE
    BY <2>4 DEF EnterRotation, Answer, TypeOK, Requester
  <2>5. ASSUME NEW new \in Token, ResetToken(new)
        PROVE  FALSE
    BY <2>5 DEF ResetToken
  <2>6. CASE VerifyState
    <3>1. \E code \in {"token_update_failed", "token_recovery_required"} :
             reply' = [reply EXCEPT ![holder] = code]
      BY <2>6 DEF VerifyState, Answer
    <3> QED
      BY <3>1
  <2>7. CASE Crash
    BY <2>7 DEF Crash, Requester
  <2>8. CASE \/ Start \/ EnsureRead \/ EnsureRetire \/ EnsureReconcile \/ Serve
             \/ WriteToken \/ SaveConfig \/ RestoreConfig \/ RestoreToken \/ UNCHANGED vars
    BY <2>8 DEF Start, EnsureRead, EnsureRetire, EnsureReconcile, Serve, WriteToken,
                SaveConfig, RestoreConfig, RestoreToken, vars
  <2> QED
    BY <2>2, <2>3, <2>4, <2>5, <2>6, <2>7, <2>8 DEF Next
<1>2. TypeOK /\ RotationInv /\ [Next]_vars => [Own]_vars
  BY <1>1
<1> QED
  BY <1>2, RotationInductive, PTL DEF Spec, RotatesOwnCredential

=============================================================================
