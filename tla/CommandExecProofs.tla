------------------------- MODULE CommandExecProofs -------------------------
(***************************************************************************)
(* Proofs about CommandExec for any number of processes: types, the        *)
(* completeness of the output when Run returns, and the report of an       *)
(* interruption.                                                           *)
(***************************************************************************)
EXTENDS CommandExec, TLAPS

(* Each action keeps every variable in its type.                           *)
LEMMA TypeStep == TypeOK /\ [Next]_vars => TypeOK'
<1> SUFFICES ASSUME TypeOK, [Next]_vars PROVE TypeOK'
  OBVIOUS
<1> USE ExecAssumption
<1> USE DEF tree, signals
<1>1. ASSUME NEW k \in {"ok", "not_found", "start_failed"}, ReturnEarly(k)
      PROVE  TypeOK'
  BY <1>1 DEF ReturnEarly, TypeOK
<1>2. CASE StartCommand
  BY <1>2 DEF StartCommand, TypeOK
<1>3. CASE ContextEnds \/ WaitDone \/ Terminate \/ GraceExpires
  BY <1>3 DEF ContextEnds, WaitDone, Terminate, GraceExpires, TypeOK
<1>4. CASE Return
  <2>1. classify \in {"ok", "timeout", "cancelled", "non_zero_exit", "start_failed"}
    BY DEF classify, TypeOK
  <2> QED
    BY <1>4, <2>1 DEF Return, TypeOK
<1>5. ASSUME NEW p \in Proc, NEW q \in Proc, Fork(p, q)
      PROVE  TypeOK'
  BY <1>5 DEF Fork, TypeOK
<1>6. ASSUME NEW p \in Proc, IgnoreTerm(p) \/ ClosePipe(p) \/ Detach(p)
      PROVE  TypeOK'
  BY <1>6 DEF IgnoreTerm, ClosePipe, Detach, TypeOK
<1>7. ASSUME NEW p \in Proc, NEW code \in {"zero", "nonzero"}, Exit(p, code)
      PROVE  TypeOK'
  BY <1>7 DEF Exit, TypeOK
<1>8. CASE UNCHANGED vars
  BY <1>8 DEF vars, TypeOK
<1> QED
  BY <1>1, <1>2, <1>3, <1>4, <1>5, <1>6, <1>7, <1>8
     DEF Next, ProcessStep, TermExit, KillExit

(* The executor and the processes keep their types, for any number of      *)
(* processes.                                                              *)
THEOREM TypeCorrect == Spec => []TypeOK
<1>1. Init => TypeOK
  BY DEF Init, TypeOK
<1> QED
  BY <1>1, TypeStep, PTL DEF Spec

-----------------------------------------------------------------------------
(* ExecInv is inductive.                                                   *)
LEMMA ExecStep == TypeOK /\ ExecInv /\ [Next]_vars => ExecInv'
<1> SUFFICES ASSUME TypeOK, ExecInv, [Next]_vars PROVE ExecInv'
  OBVIOUS
<1> USE ExecAssumption
<1> USE DEF tree, signals
<1>1. ASSUME NEW k \in {"ok", "not_found", "start_failed"}, ReturnEarly(k)
      PROVE  ExecInv'
  BY <1>1 DEF ReturnEarly, ExecInv, InterruptionIsReported, TypeOK
<1>2. CASE StartCommand
  BY <1>2 DEF StartCommand, ExecInv, InterruptionIsReported, TypeOK
<1>3. CASE ContextEnds
  BY <1>3 DEF ContextEnds, ExecInv, InterruptionIsReported, TypeOK
<1>4. CASE WaitDone
  BY <1>4 DEF WaitDone, ExecInv, InterruptionIsReported, TypeOK
<1>5. CASE Terminate \/ GraceExpires
  BY <1>5 DEF Terminate, GraceExpires, ExecInv, InterruptionIsReported
<1>6. CASE Return
  <2>1. classify = "non_zero_exit" => termed = {} /\ ctx = "live" /\ exit = "nonzero"
    BY <1>6 DEF Return, classify, TypeOK, ExecInv
  <2>2. classify = "start_failed" => termed = {} /\ ctx = "live" /\ exit = "zero"
    BY <1>6 DEF Return, classify, TypeOK, ExecInv
  <2>3. InterruptionIsReported'
    BY <1>6, <2>1, <2>2 DEF Return, InterruptionIsReported
  <2> QED
    BY <1>6, <2>3 DEF Return, ExecInv
<1>7. ASSUME NEW p \in Proc, NEW q \in Proc, Fork(p, q)
      PROVE  ExecInv'
  BY <1>7 DEF Fork, ExecInv, InterruptionIsReported, TypeOK
<1>8. ASSUME NEW p \in Proc, IgnoreTerm(p) \/ ClosePipe(p)
      PROVE  ExecInv'
  BY <1>8 DEF IgnoreTerm, ClosePipe, ExecInv, InterruptionIsReported
<1>9. ASSUME NEW p \in Proc, Detach(p)
      PROVE  ExecInv'
  BY <1>9 DEF Detach, ExecInv, InterruptionIsReported
<1>10. ASSUME NEW p \in Proc, NEW code \in {"zero", "nonzero"}, Exit(p, code)
       PROVE  ExecInv'
  BY <1>10 DEF Exit, ExecInv, InterruptionIsReported
<1>11. CASE UNCHANGED vars
  BY <1>11 DEF vars, ExecInv, InterruptionIsReported
<1> QED
  BY <1>1, <1>2, <1>3, <1>4, <1>5, <1>6, <1>7, <1>8, <1>9, <1>10, <1>11
     DEF Next, ProcessStep, TermExit, KillExit

(* ExecInv holds always.                                                   *)
LEMMA ExecInductive == Spec => []ExecInv
<1>1. Init => ExecInv
  BY DEF Init, ExecInv, InterruptionIsReported
<1> QED
  BY <1>1, TypeCorrect, ExecStep, PTL DEF Spec

(* Whatever tree the command becomes, once Run has returned no process can *)
(* write to its output and the command has been reaped.                    *)
THEOREM OutputIsCompleteOnReturn == Spec => []OutputIsComplete
<1>1. ExecInv => OutputIsComplete
  BY DEF ExecInv, OutputIsComplete
<1> QED
  BY <1>1, ExecInductive, PTL

(* A command the executor signalled, or whose context ended before its     *)
(* exit was seen, is never reported as one that failed by itself.          *)
THEOREM InterruptionsAreReported == Spec => []InterruptionIsReported
<1>1. ExecInv => InterruptionIsReported
  BY DEF ExecInv
<1> QED
  BY <1>1, ExecInductive, PTL

=============================================================================
