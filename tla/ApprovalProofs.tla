--------------------------- MODULE ApprovalProofs ---------------------------
(***************************************************************************)
(* Proofs about Approval and ApprovalBridge for any number of operations,  *)
(* tickets, clock values and tool calls.  Of the ticket store: types, the  *)
(* single use of an approved ticket, and the refinement of                 *)
(* OneShotApproval.  The bridge and the agent together are a behaviour of  *)
(* that store, so the same holds of them; on top of it, what a tool call   *)
(* reports is true.                                                        *)
(***************************************************************************)
EXTENDS ApprovalBridge, TLAPS

(* An empty store is well-typed.                                           *)
LEMMA TypeInit == Init => TypeOK
<1> SUFFICES ASSUME Init PROVE TypeOK
  OBVIOUS
<1> USE ApprovalAssumption
<1>1. 0 \in 0 .. MaxTime /\ 1 \in 1 .. MaxTickets + 1 /\ 0 \in 0 .. MaxTime + TTL
  OBVIOUS
<1> QED
  BY <1>1 DEF Init, TypeOK, TicketState

(* Each action keeps every variable in its type.                           *)
LEMMA TypeStep == TypeOK /\ [Next]_approvalVars => TypeOK'
<1> SUFFICES ASSUME TypeOK, [Next]_approvalVars PROVE TypeOK'
  OBVIOUS
<1> USE ApprovalAssumption
<1>1. ASSUME NEW o \in Op, NEW t \in TicketId \cup {NoTicket}, NEW code \in Codes,
             operationControl(o, t, code)
      PROVE  TypeOK'
  <2>1. CASE UNCHANGED approvalVars
    BY <2>1 DEF approvalVars, storeVars, TypeOK
  <2>2. CASE Create(o) /\ UNCHANGED <<now, runs, ranOp, yes>>
    <3>1. fresh \in TicketId /\ fresh' \in 1 .. MaxTickets + 1
      BY <2>2 DEF Create, TypeOK, TicketId
    <3>2. now + TTL \in 0 .. MaxTime + TTL
      BY DEF TypeOK
    <3>3. state' \in [TicketId -> TicketState]
      BY <2>2 DEF Create, TypeOK, TicketState
    <3>4. /\ boundTo' \in [TicketId -> Op \cup {NoOp}]
          /\ expiresAt' \in [TicketId -> 0 .. MaxTime + TTL]
      BY <2>2, <3>1, <3>2 DEF Create, TypeOK
    <3> QED
      BY <2>2, <3>1, <3>3, <3>4 DEF TypeOK
  <2>3. CASE /\ t # NoTicket
             /\ Consume(t, o, code)
             /\ runs' = IF code = "executed" THEN [runs EXCEPT ![t] = @ + 1] ELSE runs
             /\ ranOp' = IF code = "executed" THEN [ranOp EXCEPT ![t] = @ \cup {o}] ELSE ranOp
             /\ UNCHANGED <<now, yes>>
    <3>1. state' \in [TicketId -> TicketState]
      BY <2>3 DEF Consume, TypeOK, TicketState
    <3>2. runs' \in [TicketId -> Nat] /\ ranOp' \in [TicketId -> SUBSET Op]
      BY <2>3 DEF TypeOK
    <3> QED
      BY <2>3, <3>1, <3>2 DEF Consume, TypeOK
  <2> QED
    BY <1>1, <2>1, <2>2, <2>3 DEF operationControl
<1>2. ASSUME NEW t \in TicketId, NEW approve \in BOOLEAN, NEW code \in Codes,
             Decide(t, approve, code)
      PROVE  TypeOK'
  <2>1. state' \in [TicketId -> TicketState]
    BY <1>2 DEF Decide, TypeOK, TicketState
  <2> QED
    BY <1>2, <2>1 DEF Decide, TypeOK
<1>3. CASE Restart
  BY <1>3 DEF Restart, TypeOK, TicketState
<1>4. CASE Tick
  BY <1>4 DEF Tick, storeVars, TypeOK
<1>6. ASSUME NEW t \in TicketId, Lookup(t)
      PROVE  TypeOK'
  BY <1>6 DEF Lookup, TypeOK, TicketState
<1>5. CASE UNCHANGED approvalVars
  BY <1>5 DEF approvalVars, storeVars, TypeOK
<1> QED
  BY <1>1, <1>2, <1>3, <1>4, <1>5, <1>6 DEF Next

(* The ticket store keeps its types, for any number of operations, tickets *)
(* and any lifetime of a ticket.                                           *)
THEOREM TypeCorrect == Spec => []TypeOK
BY TypeInit, TypeStep, PTL DEF Spec

-----------------------------------------------------------------------------
(* What a request that carries a ticket can do to that ticket.             *)
LEMMA ConsumeEffect ==
    ASSUME TypeOK, NEW o \in Op, NEW t \in TicketId, NEW code, Consume(t, o, code)
    PROVE  /\ UNCHANGED <<fresh, boundTo, expiresAt>>
           /\ \/ /\ code = "executed" /\ state[t] = "approved" /\ boundTo[t] = o
                 /\ state' = [state EXCEPT ![t] = "used"]
              \/ /\ code # "executed" /\ state[t] # "absent"
                 /\ state' = [state EXCEPT ![t] = "absent"]
              \/ code # "executed" /\ state' = state
<1>1. CASE code = "executed"
  <2>1. state[t] \in TicketState
    BY DEF TypeOK
  <2>2. Present(t) /\ ~ Expired(t) /\ boundTo[t] = o
    BY <1>1 DEF Consume, consumeCode
  <2>3. "executed" = CASE state[t] = "approved" -> "executed"
                       [] state[t] = "pending" -> "approval_not_approved"
                       [] state[t] = "denied" -> "approval_denied"
                       [] state[t] = "used" -> "approval_used"
    BY <1>1, <2>2 DEF Consume, consumeCode
  <2>4. state[t] = "approved"
    BY <2>1, <2>2, <2>3 DEF Present, TicketState
  <2> QED
    BY <1>1, <2>2, <2>4 DEF Consume
<1>2. CASE code = "approval_expired"
  <2>1. state[t] # "absent"
    BY <1>2 DEF Consume, consumeCode, Present
  <2> QED
    BY <1>2, <2>1 DEF Consume
<1>3. CASE code \notin {"executed", "approval_expired"}
  BY <1>3 DEF Consume
<1> QED
  BY <1>1, <1>2, <1>3

(* What a decision can do to its ticket: it never leaves used or denied.   *)
LEMMA DecideEffect ==
    ASSUME TypeOK, NEW t \in TicketId, NEW approve \in BOOLEAN, NEW code,
           Decide(t, approve, code)
    PROVE  /\ UNCHANGED <<now, fresh, boundTo, expiresAt, runs, ranOp>>
           /\ \/ /\ state[t] \in {"pending", "approved"}
                 /\ state' = [state EXCEPT ![t] = "approved"] /\ yes' = yes \cup {t}
              \/ /\ state[t] \in {"pending", "approved"}
                 /\ state' = [state EXCEPT ![t] = "denied"] /\ yes' = yes
              \/ /\ state[t] # "absent"
                 /\ state' = [state EXCEPT ![t] = "absent"] /\ yes' = yes
              \/ state' = state /\ yes' = yes
<1>1. CASE code \in {"approved", "denied"}
  <2>1. state[t] \in {"pending", "approved"}
    BY <1>1 DEF Decide, decideCode, Present, TypeOK, TicketState
  <2> QED
    BY <1>1, <2>1 DEF Decide
<1>2. CASE code = "approval_expired"
  <2>1. state[t] # "absent"
    BY <1>2 DEF Decide, decideCode, Present
  <2> QED
    BY <1>2, <2>1 DEF Decide
<1>3. CASE code \notin {"approved", "denied", "approval_expired"}
  BY <1>3 DEF Decide
<1> QED
  BY <1>1, <1>2, <1>3

(* ApprovalInv is inductive.                                               *)
LEMMA ApprovalStep == TypeOK /\ ApprovalInv /\ [Next]_approvalVars => ApprovalInv'
<1> SUFFICES ASSUME TypeOK, ApprovalInv, [Next]_approvalVars PROVE ApprovalInv'
  OBVIOUS
<1> USE ApprovalAssumption
<1>t. /\ state \in [TicketId -> TicketState] /\ runs \in [TicketId -> Nat]
      /\ ranOp \in [TicketId -> SUBSET Op] /\ fresh \in Nat
      /\ boundTo \in [TicketId -> Op \cup {NoOp}]
  BY DEF TypeOK
<1>u. ASSUME UNCHANGED <<fresh, state, boundTo, runs, ranOp, yes>> PROVE ApprovalInv'
  BY <1>u DEF ApprovalInv
<1>1. ASSUME NEW o \in Op, NEW t \in TicketId \cup {NoTicket}, NEW code \in Codes,
             operationControl(o, t, code)
      PROVE  ApprovalInv'
  <2>1. CASE UNCHANGED approvalVars
    BY <1>u, <2>1 DEF approvalVars, storeVars
  <2>2. CASE Create(o) /\ UNCHANGED <<now, runs, ranOp, yes>>
    <3>1. fresh \in TicketId /\ fresh' = fresh + 1
      BY <2>2 DEF Create, TypeOK, TicketId
    <3>2. \A u \in TicketId : /\ u = fresh => state'[u] = "pending"
                              /\ u # fresh => state'[u] \in {state[u], "absent"}
                              /\ u # fresh => boundTo'[u] = boundTo[u]
                              /\ u >= fresh' => u # fresh /\ u >= fresh
      BY <1>t, <2>2, <3>1 DEF Create, TicketId
    <3>3. /\ fresh >= fresh /\ ~ (fresh >= fresh')
          /\ runs[fresh] = 0 /\ ranOp[fresh] = {}
      BY <1>t, <3>1 DEF ApprovalInv
    <3>4. ASSUME NEW u \in TicketId, u # fresh
          PROVE  /\ u >= fresh' => state'[u] = "absent" /\ runs'[u] = 0 /\ ranOp'[u] = {}
                 /\ state'[u] = "approved" => u \in yes'
                 /\ state'[u] \in {"pending", "approved", "denied"} => runs'[u] = 0
                 /\ runs'[u] <= 1
                 /\ runs'[u] > 0 => u \in yes'
                 /\ ranOp'[u] \subseteq {boundTo'[u]}
      BY <2>2, <3>2, <3>4 DEF ApprovalInv
    <3>5. /\ state'[fresh] = "pending"
          /\ UNCHANGED <<runs, ranOp, yes>>
      BY <2>2, <3>1, <3>2
    <3> QED
      BY <3>1, <3>3, <3>4, <3>5 DEF ApprovalInv
  <2>3. CASE /\ t # NoTicket
             /\ Consume(t, o, code)
             /\ runs' = IF code = "executed" THEN [runs EXCEPT ![t] = @ + 1] ELSE runs
             /\ ranOp' = IF code = "executed" THEN [ranOp EXCEPT ![t] = @ \cup {o}] ELSE ranOp
             /\ UNCHANGED <<now, yes>>
    <3>1. t \in TicketId
      BY <2>3 DEF NoTicket, TicketId
    <3>2. CASE code = "executed"
      <4>1. /\ state[t] = "approved" /\ boundTo[t] = o
            /\ state' = [state EXCEPT ![t] = "used"]
            /\ UNCHANGED <<fresh, boundTo>>
        BY <2>3, <3>1, <3>2, ConsumeEffect
      <4>2. /\ \A u \in TicketId : u # t => /\ state'[u] = state[u]
                                            /\ runs'[u] = runs[u]
                                            /\ ranOp'[u] = ranOp[u]
            /\ state'[t] = "used" /\ runs'[t] = runs[t] + 1
            /\ ranOp'[t] = ranOp[t] \cup {o}
        BY <1>t, <2>3, <3>1, <3>2, <4>1
      <4>3. t \in yes /\ runs[t] = 0 /\ ~ (t >= fresh) /\ ranOp[t] \subseteq {boundTo[t]}
        BY <3>1, <4>1 DEF ApprovalInv
      <4> QED
        BY <2>3, <3>1, <4>1, <4>2, <4>3 DEF ApprovalInv
    <3>3. CASE code # "executed"
      <4>1. /\ state' = [state EXCEPT ![t] = "absent"] \/ state' = state
            /\ UNCHANGED <<fresh, boundTo, runs, ranOp, yes>>
        BY <2>3, <3>1, <3>3, ConsumeEffect
      <4>2. \A u \in TicketId : state'[u] \in {state[u], "absent"}
        BY <1>t, <4>1
      <4> QED
        BY <4>1, <4>2 DEF ApprovalInv
    <3> QED BY <3>2, <3>3
  <2> QED
    BY <1>1, <2>1, <2>2, <2>3 DEF operationControl
<1>2. ASSUME NEW t \in TicketId, NEW approve \in BOOLEAN, NEW code \in Codes,
             Decide(t, approve, code)
      PROVE  ApprovalInv'
  <2>1. UNCHANGED <<fresh, boundTo, runs, ranOp>> /\ yes \subseteq yes'
    BY <1>2, DecideEffect
  <2>2. \A u \in TicketId : u # t => state'[u] = state[u]
    BY <1>2, <1>t, DecideEffect
  <2>3. \/ state[t] \in {"pending", "approved"} /\ state'[t] = "approved" /\ t \in yes'
        \/ state[t] \in {"pending", "approved"} /\ state'[t] = "denied"
        \/ state'[t] = "absent"
        \/ state'[t] = state[t]
    BY <1>2, <1>t, DecideEffect
  <2> QED
    BY <2>1, <2>2, <2>3 DEF ApprovalInv
<1>3. CASE Restart
  BY <1>3 DEF Restart, ApprovalInv
<1>4. CASE Tick
  BY <1>4, <1>u DEF Tick, storeVars
<1>6. ASSUME NEW t \in TicketId, Lookup(t)
      PROVE  ApprovalInv'
  <2>1. UNCHANGED <<fresh, boundTo, runs, ranOp, yes>>
    BY <1>6 DEF Lookup
  <2>2. \A u \in TicketId : u # t => state'[u] = state[u]
    BY <1>6, <1>t DEF Lookup
  <2>3. state'[t] = "absent"
    BY <1>6, <1>t DEF Lookup
  <2> QED
    BY <2>1, <2>2, <2>3 DEF ApprovalInv
<1>5. CASE UNCHANGED approvalVars
  BY <1>5, <1>u DEF approvalVars, storeVars
<1> QED
  BY <1>1, <1>2, <1>3, <1>4, <1>5, <1>6 DEF Next

(* A store that has issued nothing satisfies ApprovalInv.                  *)
LEMMA ApprovalInit == Init => ApprovalInv
BY DEF Init, ApprovalInv

(* A sensitive operation runs at most once per ticket, only a ticket some  *)
(* decision approved, and only the operation it was created for.           *)
THEOREM TicketsAreOneShot == Spec => []ApprovedOnce
<1>1. ApprovalInv => ApprovedOnce
  BY DEF ApprovalInv, ApprovedOnce
<1> QED
  BY <1>1, TypeCorrect, ApprovalInit, ApprovalStep, PTL DEF Spec

-----------------------------------------------------------------------------
(* Every step of the store is a step of the abstract specification, or     *)
(* none: Create issues and prunes, an approved Consume runs, a denial, an  *)
(* expiry and a restart revoke.                                            *)
LEMMA RefinementStep ==
    TypeOK /\ ApprovalInv /\ [Next]_approvalVars => [Abstract!Next]_(Abstract!vars)
<1> SUFFICES ASSUME TypeOK, ApprovalInv, [Next]_approvalVars
             PROVE  [Abstract!Next]_(Abstract!vars)
  OBVIOUS
<1> USE ApprovalAssumption
<1> DEFINE Phase(f, x, t) == IF t >= f THEN "unissued"
                             ELSE CASE x = "pending" -> "open"
                                    [] x = "approved" -> "granted"
                                    [] OTHER -> "dead"
<1>t. /\ state \in [TicketId -> TicketState] /\ runs \in [TicketId -> Nat]
      /\ fresh \in Nat /\ TicketId \subseteq Nat
  BY DEF TypeOK, TicketId
<1>a. /\ abstractPhase = [t \in TicketId |-> Phase(fresh, state[t], t)]
      /\ abstractPhase' = [t \in TicketId |-> Phase(fresh', state'[t], t)]
  BY DEF abstractPhase
<1> HIDE DEF Phase
<1>f. \A f \in Nat, t \in Nat :
         /\ t >= f => \A x : Phase(f, x, t) = "unissued"
         /\ ~ (t >= f) => /\ Phase(f, "pending", t) = "open"
                          /\ Phase(f, "approved", t) = "granted"
                          /\ \A x : x \notin {"pending", "approved"} => Phase(f, x, t) = "dead"
  BY DEF Phase
<1>u. ASSUME UNCHANGED <<fresh, state, runs>> PROVE UNCHANGED Abstract!vars
  BY <1>u, <1>a DEF Abstract!vars
(* A set of live tickets dies.                                             *)
<1>r. ASSUME NEW T \in SUBSET TicketId, UNCHANGED <<fresh, runs>>,
             \A t \in T : state[t] \in {"pending", "approved"}
                          /\ state'[t] \notin {"pending", "approved"},
             \A t \in TicketId \ T : \/ state'[t] = state[t]
                                     \/ /\ state[t] \notin {"pending", "approved"}
                                        /\ state'[t] \notin {"pending", "approved"}
      PROVE  Abstract!Revoke(T)
  <2>1. \A t \in TicketId : state[t] # "absent" => ~ (t >= fresh)
    BY DEF ApprovalInv
  <2>2. \A t \in T : ~ (t >= fresh)
    BY <1>r, <2>1
  <2>3. \A t \in T : Phase(fresh, state[t], t) \in {"open", "granted"}
    BY <1>r, <1>t, <1>f, <2>2
  <2>4. \A t \in T : Phase(fresh, state'[t], t) = "dead"
    BY <1>r, <1>t, <1>f, <2>2
  <2>5. \A t \in TicketId \ T : Phase(fresh, state'[t], t) = Phase(fresh, state[t], t)
    BY <1>r, <1>t, <1>f
  <2> QED
    BY <1>r, <1>a, <2>3, <2>4, <2>5 DEF Abstract!Revoke
<1>1. ASSUME NEW o \in Op, NEW t \in TicketId \cup {NoTicket}, NEW code \in Codes,
             operationControl(o, t, code)
      PROVE  [Abstract!Next]_(Abstract!vars)
  <2>1. CASE UNCHANGED approvalVars
    BY <1>u, <2>1 DEF approvalVars, storeVars
  <2>2. CASE Create(o) /\ UNCHANGED <<now, runs, ranOp, yes>>
    <3>1. fresh \in TicketId /\ fresh' = fresh + 1 /\ UNCHANGED runs
      BY <2>2 DEF Create, TypeOK, TicketId
    <3> DEFINE T == {u \in TicketId : /\ u # fresh /\ Present(u) /\ Expired(u)
                                      /\ state[u] \in {"pending", "approved"}}
    <3>2. \A u \in T : ~ (u >= fresh) /\ state'[u] = "absent"
      BY <2>2 DEF Create, Present, ApprovalInv
    <3>3. state'[fresh] = "pending"
      BY <2>2, <3>1 DEF Create
    <3>4. \A u \in TicketId \ T : u # fresh =>
             \/ state'[u] = state[u]
             \/ state[u] \notin {"pending", "approved"} /\ state'[u] = "absent"
      BY <2>2 DEF Create
    <3>5. \A u \in TicketId : u # fresh => (u >= fresh <=> u >= fresh')
      BY <1>t, <3>1
    <3>6. Phase(fresh, state[fresh], fresh) = "unissued"
          /\ Phase(fresh', state'[fresh], fresh) = "open"
      BY <1>t, <1>f, <3>1, <3>3
    <3>7. \A u \in T : /\ Phase(fresh, state[u], u) \in {"open", "granted"}
                       /\ Phase(fresh', state'[u], u) = "dead"
      BY <1>t, <1>f, <3>1, <3>2, <3>5
    <3>8. \A u \in TicketId \ T : u # fresh =>
             Phase(fresh', state'[u], u) = Phase(fresh, state[u], u)
      BY <1>t, <1>f, <3>1, <3>4, <3>5
    <3>9. T \in SUBSET TicketId
      OBVIOUS
    <3> HIDE DEF T
    <3>10. Abstract!IssueAndRevoke(fresh, T)
      BY <1>a, <3>1, <3>6, <3>7, <3>8, <3>9 DEF Abstract!IssueAndRevoke
    <3> QED
      BY <3>1, <3>9, <3>10 DEF Abstract!Next
  <2>3. CASE /\ t # NoTicket
             /\ Consume(t, o, code)
             /\ runs' = IF code = "executed" THEN [runs EXCEPT ![t] = @ + 1] ELSE runs
    <3>1. t \in TicketId
      BY <2>3 DEF NoTicket, TicketId
    <3>2. CASE code = "executed"
      <4>1. /\ state[t] = "approved" /\ UNCHANGED fresh
            /\ state' = [state EXCEPT ![t] = "used"]
            /\ runs' = [runs EXCEPT ![t] = @ + 1]
        BY <2>3, <3>1, <3>2, ConsumeEffect
      <4>2. ~ (t >= fresh)
        BY <3>1, <4>1 DEF ApprovalInv
      <4>3. /\ Phase(fresh, state[t], t) = "granted"
            /\ Phase(fresh, state'[t], t) = "dead"
            /\ \A u \in TicketId : u # t => state'[u] = state[u]
        BY <1>t, <1>f, <3>1, <4>1, <4>2
      <4>4. abstractPhase[t] = "granted" /\ abstractPhase' = [abstractPhase EXCEPT ![t] = "dead"]
        BY <1>a, <3>1, <4>1, <4>3
      <4>5. Abstract!Run(t)
        BY <4>1, <4>4 DEF Abstract!Run, Abstract!Move
      <4> QED
        BY <3>1, <4>5 DEF Abstract!Next
    <3>3. CASE code # "executed"
      <4>1. /\ UNCHANGED <<fresh, runs>>
            /\ \/ state' = state
               \/ state' = [state EXCEPT ![t] = "absent"]
        BY <2>3, <3>1, <3>3, ConsumeEffect
      <4> DEFINE T == IF state' # state /\ state[t] \in {"pending", "approved"} THEN {t} ELSE {}
      <4>2. T \in SUBSET TicketId
        BY <3>1
      <4>3. /\ \A u \in T : /\ state[u] \in {"pending", "approved"}
                          /\ state'[u] \notin {"pending", "approved"}
            /\ \A u \in TicketId \ T : \/ state'[u] = state[u]
                                      \/ /\ state[u] \notin {"pending", "approved"}
                                         /\ state'[u] \notin {"pending", "approved"}
        BY <1>t, <3>1, <4>1
      <4>4. Abstract!Revoke(T)
        <5> HIDE DEF T
        <5> QED BY <1>r, <4>1, <4>2, <4>3
      <4> QED
        BY <4>2, <4>4 DEF Abstract!Next
    <3> QED BY <3>2, <3>3
  <2> QED
    BY <1>1, <2>1, <2>2, <2>3 DEF operationControl
<1>2. ASSUME NEW t \in TicketId, NEW approve \in BOOLEAN, NEW code \in Codes,
             Decide(t, approve, code)
      PROVE  [Abstract!Next]_(Abstract!vars)
  <2>1. UNCHANGED <<fresh, runs>> /\ \A u \in TicketId : u # t => state'[u] = state[u]
    BY <1>2, <1>t, DecideEffect
  <2>2. \/ state[t] \in {"pending", "approved"} /\ state' = [state EXCEPT ![t] = "approved"]
        \/ state[t] \in {"pending", "approved"} /\ state'[t] = "denied"
        \/ state[t] # "absent" /\ state'[t] = "absent"
        \/ state' = state
    BY <1>2, <1>t, DecideEffect
  <2>3. CASE state[t] = "pending" /\ state' = [state EXCEPT ![t] = "approved"]
    <3>1. ~ (t >= fresh)
      BY <2>3 DEF ApprovalInv
    <3>2. /\ Phase(fresh, state[t], t) = "open"
          /\ Phase(fresh, state'[t], t) = "granted"
      BY <1>t, <1>f, <2>3, <3>1
    <3>3. abstractPhase[t] = "open" /\ abstractPhase' = [abstractPhase EXCEPT ![t] = "granted"]
      BY <1>a, <2>1, <3>2
    <3>4. Abstract!Grant(t)
      BY <2>1, <3>3 DEF Abstract!Grant, Abstract!Move
    <3> QED
      BY <3>4 DEF Abstract!Next
  <2>4. CASE state[t] = "approved" /\ state' = [state EXCEPT ![t] = "approved"]
    <3>1. state' = state
      BY <1>t, <2>4
    <3> QED
      BY <1>u, <2>1, <3>1
  <2>5. CASE state'[t] \in {"denied", "absent"}
    <3> DEFINE T == IF state[t] \in {"pending", "approved"} THEN {t} ELSE {}
    <3>1. T \in SUBSET TicketId
      OBVIOUS
    <3>2. Abstract!Revoke(T)
      BY <1>r, <2>1, <2>5, <3>1
    <3> QED
      BY <3>1, <3>2 DEF Abstract!Next
  <2>6. CASE state' = state
    BY <1>u, <2>1, <2>6
  <2> QED
    BY <2>2, <2>3, <2>4, <2>5, <2>6
<1>3. CASE Restart
  <2> DEFINE T == {t \in TicketId : state[t] \in {"pending", "approved"}}
  <2>1. Abstract!Revoke(T)
    BY <1>3, <1>r DEF Restart
  <2>2. T \in SUBSET TicketId
    OBVIOUS
  <2> QED
    BY <2>1, <2>2 DEF Abstract!Next
<1>4. CASE Tick
  BY <1>4, <1>u DEF Tick, storeVars
<1>6. ASSUME NEW t \in TicketId, Lookup(t)
      PROVE  [Abstract!Next]_(Abstract!vars)
  <2> DEFINE T == IF state[t] \in {"pending", "approved"} THEN {t} ELSE {}
  <2>1. UNCHANGED <<fresh, runs>> /\ state' = [state EXCEPT ![t] = "absent"]
    BY <1>6 DEF Lookup
  <2>2. T \in SUBSET TicketId
    OBVIOUS
  <2>3. Abstract!Revoke(T)
    BY <1>r, <1>t, <2>1, <2>2
  <2> QED
    BY <2>2, <2>3 DEF Abstract!Next
<1>5. CASE UNCHANGED approvalVars
  BY <1>5, <1>u DEF approvalVars, storeVars
<1> QED
  BY <1>1, <1>2, <1>3, <1>4, <1>5, <1>6 DEF Next

(* The agent's approvals implement one-shot approvals.                     *)
THEOREM StoreImplementsOneShot == Spec => ImplementsOneShot
<1>1. Init => Abstract!Init
  <2> SUFFICES ASSUME Init PROVE Abstract!Init
    OBVIOUS
  <2>1. \A t \in TicketId : t >= 1
    BY DEF TicketId
  <2> QED
    BY <2>1 DEF Init, Abstract!Init, abstractPhase
<1> QED
  BY <1>1, TypeCorrect, ApprovalInit, ApprovalStep, RefinementStep, PTL
     DEF Spec, ImplementsOneShot, Abstract!Spec

-----------------------------------------------------------------------------
(* The bridge.                                                             *)

(* The requests, flows and history of call d are as they were.             *)
SameCall(d) ==
    /\ flow'[d] = flow[d] /\ request'[d] = request[d] /\ answer'[d] = answer[d]
    /\ op'[d] = op[d] /\ ticket'[d] = ticket[d] /\ decision'[d] = decision[d]
    /\ result'[d] = result[d] /\ ran'[d] = ran[d]

(* What the agent does for the bridge it may do on its own: every step is  *)
(* a step of the ticket store or leaves it alone.                          *)
LEMMA StoreStep ==
    BridgeTypeOK /\ BridgeInv /\ [BridgeNext]_vars => [Next]_approvalVars
<1> SUFFICES ASSUME BridgeTypeOK, BridgeInv, [BridgeNext]_vars
             PROVE  [Next]_approvalVars
  OBVIOUS
<1>1. ASSUME NEW c \in Call, NEW o \in Op, NEW t \in TicketId \cup {NoTicket}, CallTool(c, o, t)
      PROVE  UNCHANGED approvalVars
  BY <1>1 DEF CallTool
<1>2. ASSUME NEW c \in Call, AgentRuns(c)
      PROVE  Next
  <2>1. op[c] \in Op /\ ticket[c] \in TicketId \cup {NoTicket}
    BY <1>2 DEF AgentRuns, BridgeTypeOK, BridgeInv, CallInv
  <2> QED
    BY <1>2, <2>1 DEF AgentRuns, Next
<1>3. ASSUME NEW c \in Call, AgentDecides(c)
      PROVE  Next
  <2>1. ticket[c] \in TicketId
    BY <1>3 DEF AgentDecides, BridgeInv, CallInv
  <2>2. (decision[c] = "approve") \in BOOLEAN
    OBVIOUS
  <2>3. \E code \in Codes : Decide(ticket[c], decision[c] = "approve", code)
    BY <1>3 DEF AgentDecides
  <2> QED
    BY <2>1, <2>2, <2>3 DEF Next
<1>4. ASSUME NEW c \in Call, CallStep(c), ~ AgentRuns(c), ~ AgentDecides(c)
      PROVE  UNCHANGED approvalVars
  BY <1>4 DEF CallStep, FirstAnswer, AskUser, CannotAsk, UserDecides, AskFails,
              DecisionRefused, Denied, Retry, RetryAnswer, Timeout, RequestLost
<1>5. CASE OtherDecides \/ AgentLooksUp \/ AgentRestarts \/ TimePasses
  BY <1>5 DEF OtherDecides, AgentLooksUp, AgentRestarts, TimePasses, Next
<1>6. CASE UNCHANGED vars
  BY <1>6 DEF vars
<1> QED
  BY <1>1, <1>2, <1>3, <1>4, <1>5, <1>6 DEF BridgeNext

(* A ticket that was denied, expired or lost stays so, whoever decides or  *)
(* uses it, and identifiers are not reused.                                *)
LEMMA RevokedIsStable ==
    ASSUME TypeOK, [Next]_approvalVars
    PROVE  /\ fresh' >= fresh
           /\ \A t \in TicketId : Revoked(t) => Revoked(t)'
<1> USE ApprovalAssumption
<1>t. /\ state \in [TicketId -> TicketState] /\ runs \in [TicketId -> Nat] /\ fresh \in Nat
      /\ TicketId \subseteq Nat
  BY DEF TypeOK, TicketId
<1>1. ASSUME NEW o \in Op, NEW t \in TicketId \cup {NoTicket}, NEW code \in Codes,
             operationControl(o, t, code)
      PROVE  /\ fresh' >= fresh
             /\ \A u \in TicketId : Revoked(u) => Revoked(u)'
  <2>1. CASE UNCHANGED approvalVars
    BY <2>1, <1>t DEF approvalVars, storeVars, Revoked
  <2>2. CASE Create(o) /\ UNCHANGED <<now, runs, ranOp, yes>>
    BY <2>2, <1>t DEF Create, Revoked
  <2>3. CASE /\ t \in TicketId
             /\ Consume(t, o, code)
             /\ runs' = IF code = "executed" THEN [runs EXCEPT ![t] = @ + 1] ELSE runs
    BY <2>3, <1>t, ConsumeEffect DEF Revoked
  <2> QED
    BY <1>1, <2>1, <2>2, <2>3 DEF operationControl
<1>2. ASSUME NEW t \in TicketId, NEW approve \in BOOLEAN, NEW code \in Codes,
             Decide(t, approve, code)
      PROVE  /\ fresh' >= fresh
             /\ \A u \in TicketId : Revoked(u) => Revoked(u)'
  BY <1>2, <1>t, DecideEffect DEF Revoked
<1>3. ASSUME NEW t \in TicketId, Lookup(t)
      PROVE  /\ fresh' >= fresh
             /\ \A u \in TicketId : Revoked(u) => Revoked(u)'
  BY <1>3, <1>t DEF Lookup, Revoked
<1>4. CASE Restart \/ Tick \/ UNCHANGED approvalVars
  BY <1>4, <1>t DEF Restart, Tick, approvalVars, storeVars, Revoked
<1> QED
  BY <1>1, <1>2, <1>3, <1>4 DEF Next

(* A step that leaves a call alone keeps its invariant, whatever happens   *)
(* in the store.                                                           *)
LEMMA OtherCallKept ==
    ASSUME TypeOK, TypeOK', BridgeTypeOK, [Next]_approvalVars,
           NEW d \in Call, CallInv(d), SameCall(d)
    PROVE  CallInv(d)'
<1>1. fresh \in Nat /\ fresh' \in Nat /\ fresh' >= fresh
  BY RevokedIsStable DEF TypeOK
<1>2. \A t \in TicketId : t < fresh => t < fresh'
  BY <1>1 DEF TicketId
<1>3. Revoked(ticket[d]) => Revoked(ticket[d])'
  BY RevokedIsStable DEF Revoked, SameCall
<1> QED
  BY <1>2, <1>3 DEF CallInv, SameCall

(* The codes with which the middleware answers an operation: a question    *)
(* comes with a new ticket and only for a request without one, and nothing *)
(* else issues a ticket.                                                   *)
LEMMA ControlEffect ==
    ASSUME TypeOK, NEW o \in Op, NEW t \in TicketId \cup {NoTicket}, NEW code \in Codes,
           operationControl(o, t, code)
    PROVE  /\ code \notin {"approved", "denied"}
           /\ code = "approval_required" =>
                 t = NoTicket /\ fresh \in TicketId /\ fresh' = fresh + 1
<1> USE ApprovalAssumption
<1>1. CASE Create(o) /\ code = "approval_required" /\ t = NoTicket
  BY <1>1 DEF Create, TypeOK, TicketId
<1>2. CASE t \in TicketId /\ Consume(t, o, code)
  <2>1. state[t] \in TicketState
    BY <1>2 DEF TypeOK
  <2>2. CASE Present(t) /\ ~ Expired(t) /\ boundTo[t] = o
    <3>1. code = CASE state[t] = "approved" -> "executed"
                   [] state[t] = "pending" -> "approval_not_approved"
                   [] state[t] = "denied" -> "approval_denied"
                   [] state[t] = "used" -> "approval_used"
      BY <1>2, <2>2 DEF Consume, consumeCode
    <3> QED
      BY <2>1, <2>2, <3>1 DEF Present, TicketState
  <2>3. CASE ~ (Present(t) /\ ~ Expired(t) /\ boundTo[t] = o)
    BY <1>2, <2>3 DEF Consume, consumeCode
  <2> QED
    BY <2>2, <2>3
<1> QED
  BY <1>1, <1>2 DEF operationControl

(* Bridge, agent and network keep the types of a call.                     *)
LEMMA BridgeTypeStep ==
    TypeOK /\ BridgeTypeOK /\ BridgeInv /\ [BridgeNext]_vars => BridgeTypeOK'
<1> SUFFICES ASSUME TypeOK, BridgeTypeOK, BridgeInv, [BridgeNext]_vars
             PROVE  BridgeTypeOK'
  OBVIOUS
<1> USE DEF Send, Move, End
<1>1. ASSUME NEW c \in Call, NEW o \in Op, NEW t \in TicketId \cup {NoTicket}, CallTool(c, o, t)
      PROVE  BridgeTypeOK'
  BY <1>1 DEF CallTool, BridgeTypeOK
<1>2. ASSUME NEW c \in Call, FirstAnswer(c)
      PROVE  BridgeTypeOK'
  <2>1. answer[c] \in Results \cup {"executed", "failed"}
    BY <1>2 DEF FirstAnswer, Answered, BridgeInv, CallInv, BridgeTypeOK, Codes,
                Results, Refusals
  <2>2. (CASE answer[c] = "executed" -> "ok"
           [] answer[c] = "failed" -> "error"
           [] OTHER -> answer[c]) \in Results
    BY <2>1 DEF Results
  <2> QED
    BY <1>2, <2>2 DEF FirstAnswer, BridgeTypeOK
<1>3. ASSUME NEW c \in Call, RetryAnswer(c)
      PROVE  BridgeTypeOK'
  <2>1. (CASE answer[c] = "executed" -> "ok"
           [] answer[c] \in Refusals \ {"approval_not_found"} -> answer[c]
           [] OTHER -> "retry_failed") \in Results
    BY DEF Results
  <2> QED
    BY <1>3, <2>1 DEF RetryAnswer, BridgeTypeOK
<1>4. ASSUME NEW c \in Call, Timeout(c)
      PROVE  BridgeTypeOK'
  <2>1. (CASE flow[c] = "requested" -> "error"
           [] flow[c] = "deciding" -> "decision_failed"
           [] flow[c] = "retrying" -> "retry_failed") \in Results
    BY <1>4 DEF Timeout, Results, NotRun
  <2> QED
    BY <1>4, <2>1 DEF Timeout, BridgeTypeOK
<1>5. ASSUME NEW c \in Call,
             \/ AskUser(c) \/ UserDecides(c, "approve") \/ UserDecides(c, "deny")
             \/ Retry(c) \/ RequestLost(c)
      PROVE  BridgeTypeOK'
  BY <1>5 DEF AskUser, UserDecides, Retry, RequestLost, BridgeTypeOK
<1>6. ASSUME NEW c \in Call,
             CannotAsk(c) \/ AskFails(c) \/ DecisionRefused(c) \/ Denied(c)
      PROVE  BridgeTypeOK'
  BY <1>6 DEF CannotAsk, AskFails, DecisionRefused, Denied, BridgeTypeOK, Results,
              NotRun
<1>7. ASSUME NEW c \in Call, AgentRuns(c)
      PROVE  BridgeTypeOK'
  <2>1. PICK code \in Codes :
          /\ operationControl(op[c], ticket[c], code)
          /\ ran' = IF code = "executed" THEN [ran EXCEPT ![c] = @ + 1] ELSE ran
          /\ \E a \in IF code = "executed" THEN {"executed", "failed"} ELSE {code} :
                answer' = [answer EXCEPT ![c] = a]
          /\ ticket' = IF code = "approval_required" /\ flow[c] = "requested"
                       THEN [ticket EXCEPT ![c] = fresh] ELSE ticket
    BY <1>7 DEF AgentRuns
  <2>2. op[c] \in Op /\ ticket[c] \in TicketId \cup {NoTicket}
    BY <1>7 DEF AgentRuns, BridgeTypeOK, BridgeInv, CallInv
  <2>3. ran' \in [Call -> Nat] /\ answer' \in [Call -> Codes \cup {"none", "failed"}]
    BY <2>1 DEF BridgeTypeOK
  <2>4. ticket' \in [Call -> TicketId \cup {NoTicket}]
    BY <2>1, <2>2, ControlEffect DEF BridgeTypeOK
  <2> QED
    BY <1>7, <2>4 DEF AgentRuns, BridgeTypeOK
<1>8. ASSUME NEW c \in Call, AgentDecides(c)
      PROVE  BridgeTypeOK'
  BY <1>8 DEF AgentDecides, BridgeTypeOK
<1>9. CASE OtherDecides \/ AgentLooksUp \/ AgentRestarts \/ TimePasses \/ UNCHANGED vars
  BY <1>9 DEF OtherDecides, AgentLooksUp, AgentRestarts, TimePasses, vars,
              bridgeVars, BridgeTypeOK
<1> QED
  BY <1>1, <1>2, <1>3, <1>4, <1>5, <1>6, <1>7, <1>8, <1>9 DEF BridgeNext, CallStep

(* BridgeInv is inductive, given that of the store.                        *)
LEMMA BridgeStep ==
    /\ TypeOK /\ TypeOK' /\ ApprovalInv
    /\ BridgeTypeOK /\ BridgeTypeOK' /\ BridgeInv /\ [BridgeNext]_vars
    => BridgeInv'
<1> SUFFICES ASSUME TypeOK, TypeOK', ApprovalInv, BridgeTypeOK, BridgeTypeOK', BridgeInv,
                    [BridgeNext]_vars, NEW d \in Call
             PROVE  CallInv(d)'
  BY DEF BridgeInv
<1> USE ApprovalAssumption
<1> USE DEF Send, Move, End
<1>s. [Next]_approvalVars
  BY StoreStep
<1>i. CallInv(d)
  BY DEF BridgeInv
<1>o. SameCall(d) => CallInv(d)'
  BY <1>s, <1>i, OtherCallKept
<1>1. ASSUME NEW c \in Call, NEW o \in Op, NEW t \in TicketId \cup {NoTicket}, CallTool(c, o, t)
      PROVE  CallInv(d)'
  <2>1. CASE c = d
    BY <1>1, <1>i, <2>1 DEF CallTool, CallInv, BridgeTypeOK, NotRun
  <2>2. CASE c # d
    BY <1>1, <1>o, <2>2 DEF CallTool, SameCall
  <2> QED
    BY <2>1, <2>2
<1>2. ASSUME NEW c \in Call, FirstAnswer(c)
      PROVE  CallInv(d)'
  <2>1. CASE c = d
    <3>1. answer[d] \notin NotRun
      BY DEF BridgeTypeOK, Codes, NotRun
    <3>2. (CASE answer[d] = "executed" -> "ok"
             [] answer[d] = "failed" -> "error"
             [] OTHER -> answer[d]) \notin NotRun
      BY <3>1 DEF NotRun
    <3>3. result'[d] \notin NotRun /\ result'[d] # "user_denied"
      BY <1>2, <2>1, <3>2 DEF FirstAnswer, BridgeTypeOK, NotRun
    <3> QED
      BY <1>2, <1>i, <2>1, <3>3 DEF FirstAnswer, CallInv, BridgeTypeOK,
                                    approvalVars, storeVars
  <2>2. CASE c # d
    BY <1>2, <1>o, <2>2 DEF FirstAnswer, SameCall
  <2> QED
    BY <2>1, <2>2
<1>3. ASSUME NEW c \in Call, AskUser(c)
      PROVE  CallInv(d)'
  <2>1. CASE c = d
    BY <1>3, <1>i, <2>1 DEF AskUser, Answered, CallInv, NotRun, approvalVars,
                            storeVars
  <2>2. CASE c # d
    BY <1>3, <1>o, <2>2 DEF AskUser, SameCall
  <2> QED
    BY <2>1, <2>2
<1>4. ASSUME NEW c \in Call, CannotAsk(c)
      PROVE  CallInv(d)'
  <2>1. CASE c = d
    BY <1>4, <1>i, <2>1 DEF CannotAsk, Answered, CallInv, BridgeTypeOK
  <2>2. CASE c # d
    BY <1>4, <1>o, <2>2 DEF CannotAsk, SameCall
  <2> QED
    BY <2>1, <2>2
<1>5. ASSUME NEW c \in Call, NEW dec \in {"approve", "deny"}, UserDecides(c, dec)
      PROVE  CallInv(d)'
  <2>1. CASE c = d
    BY <1>5, <1>i, <2>1 DEF UserDecides, CallInv, BridgeTypeOK, NotRun,
                            approvalVars, storeVars
  <2>2. CASE c # d
    BY <1>5, <1>o, <2>2 DEF UserDecides, SameCall
  <2> QED
    BY <2>1, <2>2
<1>6. ASSUME NEW c \in Call, AskFails(c)
      PROVE  CallInv(d)'
  <2>1. CASE c = d
    BY <1>6, <1>i, <2>1 DEF AskFails, CallInv, BridgeTypeOK
  <2>2. CASE c # d
    BY <1>6, <1>o, <2>2 DEF AskFails, SameCall
  <2> QED
    BY <2>1, <2>2
<1>7. ASSUME NEW c \in Call, DecisionRefused(c)
      PROVE  CallInv(d)'
  <2>1. CASE c = d
    BY <1>7, <1>i, <2>1 DEF DecisionRefused, Answered, CallInv, BridgeTypeOK
  <2>2. CASE c # d
    BY <1>7, <1>o, <2>2 DEF DecisionRefused, SameCall
  <2> QED
    BY <2>1, <2>2
<1>8. ASSUME NEW c \in Call, Denied(c)
      PROVE  CallInv(d)'
  <2>1. CASE c = d
    BY <1>8, <1>i DEF Denied, Answered, CallInv, Revoked, BridgeTypeOK,
                      approvalVars, storeVars
  <2>2. CASE c # d
    BY <1>8, <1>o, <2>2 DEF Denied, SameCall
  <2> QED
    BY <2>1, <2>2
<1>9. ASSUME NEW c \in Call, Retry(c)
      PROVE  CallInv(d)'
  <2>1. CASE c = d
    BY <1>9, <1>i, <2>1 DEF Retry, Answered, CallInv, BridgeTypeOK, NotRun,
                            approvalVars, storeVars
  <2>2. CASE c # d
    BY <1>9, <1>o, <2>2 DEF Retry, SameCall
  <2> QED
    BY <2>1, <2>2
<1>10. ASSUME NEW c \in Call, RetryAnswer(c)
      PROVE  CallInv(d)'
  <2>1. CASE c = d
    <3>1. (CASE answer[d] = "executed" -> "ok"
             [] answer[d] \in Refusals \ {"approval_not_found"} -> answer[d]
             [] OTHER -> "retry_failed") \notin NotRun
      BY DEF NotRun, Refusals
    <3>2. result'[d] \notin NotRun /\ result'[d] # "user_denied"
      BY <1>10, <2>1, <3>1 DEF RetryAnswer, BridgeTypeOK, NotRun
    <3> QED
      BY <1>10, <1>i, <2>1, <3>2 DEF RetryAnswer, CallInv, BridgeTypeOK,
                                     approvalVars, storeVars
  <2>2. CASE c # d
    BY <1>10, <1>o, <2>2 DEF RetryAnswer, SameCall
  <2> QED
    BY <2>1, <2>2
<1>11. ASSUME NEW c \in Call, Timeout(c)
      PROVE  CallInv(d)'
  <2>1. CASE c = d
    BY <1>11, <1>i, <2>1 DEF Timeout, CallInv, BridgeTypeOK, NotRun, approvalVars,
                             storeVars
  <2>2. CASE c # d
    BY <1>11, <1>o, <2>2 DEF Timeout, SameCall
  <2> QED
    BY <2>1, <2>2
<1>12. ASSUME NEW c \in Call, RequestLost(c)
      PROVE  CallInv(d)'
  <2>1. CASE c = d
    BY <1>12, <1>i DEF RequestLost, CallInv, Revoked, approvalVars, storeVars
  <2>2. CASE c # d
    BY <1>12, <1>o, <2>2 DEF RequestLost, SameCall
  <2> QED
    BY <2>1, <2>2
<1>13. ASSUME NEW c \in Call, AgentRuns(c)
      PROVE  CallInv(d)'
  <2>p. PICK code \in Codes :
          /\ operationControl(op[c], ticket[c], code)
          /\ ran' = IF code = "executed" THEN [ran EXCEPT ![c] = @ + 1] ELSE ran
          /\ \E a \in IF code = "executed" THEN {"executed", "failed"} ELSE {code} :
                answer' = [answer EXCEPT ![c] = a]
          /\ ticket' = IF code = "approval_required" /\ flow[c] = "requested"
                       THEN [ticket EXCEPT ![c] = fresh] ELSE ticket
    BY <1>13 DEF AgentRuns
  <2>1. CASE c = d
    <3>1. /\ op[d] \in Op /\ ticket[d] \in TicketId \cup {NoTicket}
          /\ flow[d] \in {"requested", "retrying", "ended"} /\ ran[d] = 0
          /\ result[d] \notin NotRun
      BY <1>13, <1>i, <2>1 DEF AgentRuns, CallInv, BridgeTypeOK
    <3>2. /\ code \notin {"approved", "denied"}
          /\ code = "approval_required" =>
                ticket[d] = NoTicket /\ fresh \in TicketId /\ fresh < fresh'
      <4>1. operationControl(op[d], ticket[d], code)
        BY <2>1, <2>p
      <4>2. /\ code \notin {"approved", "denied"}
            /\ code = "approval_required" =>
                 ticket[d] = NoTicket /\ fresh \in TicketId /\ fresh' = fresh + 1
        BY <3>1, <4>1, ControlEffect
      <4> QED
        BY <4>2 DEF TicketId
    <3>3. /\ flow'[d] = flow[d] /\ request'[d] = "none" /\ op'[d] = op[d]
          /\ result'[d] = result[d]
      BY <1>13, <2>1 DEF AgentRuns, BridgeTypeOK
    <3>4. /\ answer'[d] \notin {"approved", "denied", "none"}
          /\ answer'[d] = "approval_required" => code = "approval_required"
          /\ ran'[d] = IF code = "executed" THEN 1 ELSE 0
      BY <2>1, <2>p, <3>1, <3>2 DEF BridgeTypeOK, Codes
    <3>5. flow[d] = "retrying" => ticket'[d] \in TicketId /\ ticket'[d] < fresh'
      <4>1. fresh \in Nat /\ fresh' \in Nat /\ fresh' >= fresh
        BY <1>s, RevokedIsStable DEF TypeOK
      <4>2. flow[d] = "retrying" => ticket'[d] = ticket[d]
        BY <2>p
      <4>3. flow[d] = "retrying" => ticket[d] \in TicketId /\ ticket[d] < fresh
        BY <1>i DEF CallInv
      <4> QED
        BY <4>1, <4>2, <4>3 DEF TicketId
    <3>6. flow[d] = "requested" /\ code = "approval_required" =>
            ticket'[d] \in TicketId /\ ticket'[d] < fresh'
      BY <2>1, <2>p, <3>2 DEF BridgeTypeOK
    <3> QED
      BY <3>1, <3>3, <3>4, <3>5, <3>6 DEF CallInv, NotRun
  <2>2. CASE c # d
    BY <1>13, <1>o, <2>2 DEF AgentRuns, SameCall
  <2> QED
    BY <2>1, <2>2
<1>14. ASSUME NEW c \in Call, AgentDecides(c)
      PROVE  CallInv(d)'
  <2>p. PICK code \in Codes :
          /\ Decide(ticket[c], decision[c] = "approve", code)
          /\ answer' = [answer EXCEPT ![c] = code]
    BY <1>14 DEF AgentDecides
  <2>1. CASE c = d
    <3>1. /\ ticket[d] \in TicketId /\ ticket[d] < fresh /\ flow[d] \in {"deciding", "ended"}
          /\ answer[d] = "none"
      BY <1>14, <1>i, <2>1 DEF AgentDecides, CallInv
    <3>2. /\ flow'[d] = flow[d] /\ request'[d] = "none" /\ op'[d] = op[d]
          /\ ticket'[d] = ticket[d] /\ result'[d] = result[d] /\ ran'[d] = ran[d]
          /\ answer'[d] = code
      BY <1>14, <2>1, <2>p DEF AgentDecides, BridgeTypeOK
    <3>3. fresh' = fresh
      BY <2>p DEF Decide
    <3>4. code = "denied" => Revoked(ticket[d])'
      <4> SUFFICES ASSUME code = "denied" PROVE Revoked(ticket[d])'
        OBVIOUS
      <4>1. state[ticket[d]] \in {"pending", "approved"}
        BY <2>1, <2>p DEF Decide, decideCode, Present, TypeOK, TicketState
      <4>2. state' = [state EXCEPT ![ticket[d]] = "denied"] /\ runs' = runs
        BY <2>1, <2>p DEF Decide
      <4>3. state'[ticket[d]] = "denied" /\ runs'[ticket[d]] = 0
        BY <4>1, <4>2 DEF ApprovalInv, TypeOK
      <4> QED
        BY <3>1, <3>2, <3>3, <4>3 DEF Revoked
    <3>5. Revoked(ticket[d]) => Revoked(ticket[d])'
      BY <1>s, <3>2, RevokedIsStable DEF Revoked
    <3> QED
      BY <1>i, <3>1, <3>2, <3>3, <3>4, <3>5 DEF CallInv
  <2>2. CASE c # d
    BY <1>14, <1>o, <2>2 DEF AgentDecides, SameCall
  <2> QED
    BY <2>1, <2>2
<1>15. CASE OtherDecides \/ AgentLooksUp \/ AgentRestarts \/ TimePasses \/ UNCHANGED vars
  BY <1>15, <1>o DEF OtherDecides, AgentLooksUp, AgentRestarts, TimePasses, vars,
                     bridgeVars, SameCall
<1> QED
  BY <1>1, <1>2, <1>3, <1>4, <1>5, <1>6, <1>7, <1>8, <1>9, <1>10, <1>11, <1>12,
     <1>13, <1>14, <1>15 DEF BridgeNext, CallStep

(* The invariants of the store and of the calls hold together.             *)
LEMMA BridgeInductive ==
    BridgeSpec => [](TypeOK /\ ApprovalInv /\ BridgeTypeOK /\ BridgeInv)
<1>1. BridgeInit => BridgeTypeOK /\ BridgeInv
  BY DEF BridgeInit, BridgeTypeOK, BridgeInv, CallInv, NotRun
<1>2. BridgeInit => TypeOK /\ ApprovalInv
  BY TypeInit, ApprovalInit DEF BridgeInit
<1>3. TypeOK /\ ApprovalInv /\ BridgeTypeOK /\ BridgeInv /\ [BridgeNext]_vars =>
        (TypeOK /\ ApprovalInv /\ BridgeTypeOK /\ BridgeInv)'
  BY StoreStep, TypeStep, ApprovalStep, BridgeTypeStep, BridgeStep
<1> QED
  BY <1>1, <1>2, <1>3, PTL DEF BridgeSpec

(* The bridge and the agent together are a behaviour of the ticket store.  *)
THEOREM BridgeUsesTheStore == BridgeSpec => Spec
<1>1. BridgeInit => Init
  BY DEF BridgeInit
<1> QED
  BY <1>1, BridgeInductive, StoreStep, PTL DEF BridgeSpec, Spec

(* With any number of bridges on any network, an operation that needs an   *)
(* approval runs at most once per ticket, under an approved ticket of its  *)
(* own.                                                                    *)
THEOREM BridgedTicketsAreOneShot == BridgeSpec => []ApprovedOnce
BY BridgeUsesTheStore, TicketsAreOneShot, PTL

(* Seen through the bridge, the store still implements one-shot approvals. *)
THEOREM BridgeImplementsOneShot == BridgeSpec => ImplementsOneShot
BY BridgeUsesTheStore, StoreImplementsOneShot, PTL

(* However requests, answers and timeouts interleave, the agent runs the   *)
(* operation of a tool call at most once.                                  *)
THEOREM CallsRunAtMostOnce == BridgeSpec => []RunsAtMostOnce
<1>1. BridgeInv => RunsAtMostOnce
  BY DEF BridgeInv, CallInv, RunsAtMostOnce
<1> QED
  BY <1>1, BridgeInductive, PTL

(* A tool call that reports that its operation was not executed is right,  *)
(* for ever.                                                               *)
THEOREM NotExecutedIsTrue == BridgeSpec => []NotRunIsTrue
<1>1. BridgeInv => NotRunIsTrue
  BY DEF BridgeInv, CallInv, NotRunIsTrue
<1> QED
  BY <1>1, BridgeInductive, PTL

(* The ticket of a call that reports a denial never runs.                  *)
THEOREM DenialsAreFinal == BridgeSpec => []DenialIsFinal
<1>1. BridgeInv => DenialIsFinal
  BY DEF BridgeInv, CallInv, DenialIsFinal, Revoked
<1> QED
  BY <1>1, BridgeInductive, PTL

=============================================================================
