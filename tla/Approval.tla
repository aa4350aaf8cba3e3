------------------------------ MODULE Approval ------------------------------
(***************************************************************************)
(* One-time approvals of sensitive operations: the ticket store            *)
(* (agent/internal/approval/approval.go) and the middleware that creates,  *)
(* consumes and decides tickets (agent/internal/api/control.go).           *)
(*                                                                         *)
(* An operation stands for the whole binding of a request: method, path,   *)
(* hash of the canonical body and operation name.  Each method of the      *)
(* store runs under its mutex and is one action.                           *)
(***************************************************************************)
EXTENDS Naturals

CONSTANTS
    Op,             \* requests, up to their binding
    NoOp,           \* the binding of no ticket
    ReadOps,        \* the operations of risk "read"
    SensitiveOps,   \* the operations of risk "sensitive"
    Mode,           \* Config.Approval.Mode
    MaxTickets,     \* bound on the tickets created in a behaviour
    TTL,            \* Options.TTL
    MaxTime         \* bound on the clock

ASSUME ApprovalAssumption ==
    /\ NoOp \notin Op
    /\ ReadOps \subseteq Op /\ SensitiveOps \subseteq Op \ ReadOps
    /\ MaxTickets \in Nat
    /\ TTL \in Nat \ {0}
    /\ MaxTime \in Nat

TicketId == 1 .. MaxTickets
NoTicket == 0

TicketState == {"absent", "pending", "approved", "denied", "used"}

VARIABLES
    now,        \* the clock of the agent
    fresh,      \* the next ticket identifier; identifiers are never reused
    state,      \* Ticket.State, "absent" when the map has no such ticket
    boundTo,    \* Ticket.binding
    expiresAt,  \* Ticket.ExpiresAt
    runs,       \* history: executions of a bound operation under each ticket
    ranOp,      \* history: the operations executed under each ticket
    yes         \* history: tickets some decision approved

storeVars == <<fresh, state, boundTo, expiresAt>>
approvalVars == <<now, storeVars, runs, ranOp, yes>>

TypeOK ==
    /\ now \in 0 .. MaxTime
    /\ fresh \in 1 .. MaxTickets + 1
    /\ state \in [TicketId -> TicketState]
    /\ boundTo \in [TicketId -> Op \cup {NoOp}]
    /\ expiresAt \in [TicketId -> 0 .. MaxTime + TTL]
    /\ runs \in [TicketId -> Nat]
    /\ ranOp \in [TicketId -> SUBSET Op]
    /\ yes \in SUBSET TicketId

Init ==
    /\ now = 0
    /\ fresh = 1
    /\ state = [t \in TicketId |-> "absent"]
    /\ boundTo = [t \in TicketId |-> NoOp]
    /\ expiresAt = [t \in TicketId |-> 0]
    /\ runs = [t \in TicketId |-> 0]
    /\ ranOp = [t \in TicketId |-> {}]
    /\ yes = {}

-----------------------------------------------------------------------------
requiresApproval(op) ==
    /\ op \notin ReadOps
    /\ \/ Mode = "all_write"
       \/ Mode = "sensitive_only" /\ op \in SensitiveOps

Present(t) == t \in TicketId /\ state[t] # "absent"

(* !now.Before(ExpiresAt): the instant of expiry is already too late.      *)
Expired(t) == now >= expiresAt[t]

(* Create: prune what has expired, then add a pending ticket.              *)
Create(op) ==
    /\ fresh <= MaxTickets
    /\ state' = [t \in TicketId |-> IF t = fresh THEN "pending"
                                    ELSE IF Present(t) /\ Expired(t) THEN "absent"
                                    ELSE state[t]]
    /\ boundTo' = [boundTo EXCEPT ![fresh] = op]
    /\ expiresAt' = [expiresAt EXCEPT ![fresh] = now + TTL]
    /\ fresh' = fresh + 1

(* Mutant: a decision may revive a ticket that was denied or used.         *)
decideAgain(t, approve) ==
    IF ~ Present(t) THEN "approval_not_found"
    ELSE IF Expired(t) THEN "approval_expired"
    ELSE IF approve THEN "approved" ELSE "denied"

(* What Decide answers: a used or denied ticket cannot be decided again,   *)
(* an approved one can.                                                    *)
decideCode(t, approve) ==
    IF ~ Present(t) THEN "approval_not_found"
    ELSE IF Expired(t) THEN "approval_expired"
    ELSE IF state[t] = "used" THEN "approval_used"
    ELSE IF state[t] = "denied" THEN "approval_denied"
    ELSE IF approve THEN "approved" ELSE "denied"

(* approvalRoute: a decision on ticket t, answered with code.              *)
Decide(t, approve, code) ==
    /\ code = decideCode(t, approve)
    /\ state' = IF code = "approval_expired" THEN [state EXCEPT ![t] = "absent"]
                ELSE IF code \in {"approved", "denied"} THEN [state EXCEPT ![t] = code]
                ELSE state
    /\ yes' = IF code = "approved" THEN yes \cup {t} ELSE yes
    /\ UNCHANGED <<now, fresh, boundTo, expiresAt, runs, ranOp>>

(* Mutant: the ticket is not compared with the request.                    *)
consumeUnbound(t, op) ==
    IF ~ Present(t) THEN "approval_not_found"
    ELSE IF Expired(t) THEN "approval_expired"
    ELSE IF state[t] = "approved" THEN "executed" ELSE "approval_not_approved"

(* What Consume answers a request that carries ticket t.                   *)
consumeCode(t, op) ==
    IF ~ Present(t) THEN "approval_not_found"
    ELSE IF Expired(t) THEN "approval_expired"
    ELSE IF boundTo[t] # op THEN "approval_mismatch"
    ELSE CASE state[t] = "approved" -> "executed"
           [] state[t] = "pending" -> "approval_not_approved"
           [] state[t] = "denied" -> "approval_denied"
           [] state[t] = "used" -> "approval_used"

(* Consume: an approved ticket is spent before the operation runs.         *)
Consume(t, op, code) ==
    /\ code = consumeCode(t, op)
    /\ state' = CASE code = "executed" -> [state EXCEPT ![t] = "used"]
                  [] code = "approval_expired" -> [state EXCEPT ![t] = "absent"]
                  [] OTHER -> state
    /\ UNCHANGED <<fresh, boundTo, expiresAt>>

(* operationControl on a request for op that carries ticket t or none: run *)
(* it, ask for an approval, or consume the ticket and run it.              *)
operationControl(op, t, code) ==
    \/ /\ ~ requiresApproval(op)
       /\ code = "executed"
       /\ UNCHANGED approvalVars
    \/ /\ requiresApproval(op) /\ t = NoTicket
       /\ code = "approval_required"
       /\ Create(op)
       /\ UNCHANGED <<now, runs, ranOp, yes>>
    \/ /\ requiresApproval(op) /\ t # NoTicket
       /\ Consume(t, op, code)
       /\ runs' = IF code = "executed" THEN [runs EXCEPT ![t] = @ + 1] ELSE runs
       /\ ranOp' = IF code = "executed" THEN [ranOp EXCEPT ![t] = @ \cup {op}] ELSE ranOp
       /\ UNCHANGED <<now, yes>>

(* Lookup, for the audit record of a request or a decision that was        *)
(* refused: it drops the ticket if that has expired by now.                *)
Lookup(t) ==
    /\ Present(t) /\ Expired(t)
    /\ state' = [state EXCEPT ![t] = "absent"]
    /\ UNCHANGED <<now, fresh, boundTo, expiresAt, runs, ranOp, yes>>

(* The store is in memory only: a restart revokes every ticket.            *)
Restart ==
    /\ \E t \in TicketId : state[t] # "absent"
    /\ state' = [t \in TicketId |-> "absent"]
    /\ UNCHANGED <<now, fresh, boundTo, expiresAt, runs, ranOp, yes>>

Tick ==
    /\ now < MaxTime
    /\ now' = now + 1
    /\ UNCHANGED <<storeVars, runs, ranOp, yes>>

Codes == {"executed", "approval_required", "approved", "denied", "approval_not_found",
          "approval_expired", "approval_used", "approval_denied",
          "approval_mismatch", "approval_not_approved"}

Next ==
    \/ \E op \in Op, t \in TicketId \cup {NoTicket}, code \in Codes :
           operationControl(op, t, code)
    \/ \E t \in TicketId, approve \in BOOLEAN, code \in Codes : Decide(t, approve, code)
    \/ \E t \in TicketId : Lookup(t)
    \/ Restart
    \/ Tick

Spec == Init /\ [][Next]_approvalVars

-----------------------------------------------------------------------------
(* Properties.                                                             *)

(* A sensitive operation runs under a ticket at most once, only if some    *)
(* decision approved that very ticket, and only the operation the ticket   *)
(* was created for (Create, Decide, Consume).                              *)
ApprovedOnce ==
    \A t \in TicketId :
        /\ runs[t] <= 1
        /\ runs[t] > 0 => t \in yes
        /\ ranOp[t] \subseteq {boundTo[t]}

(* A ticket of the store as the abstract specification sees it.            *)
abstractPhase ==
    [t \in TicketId |->
        IF t >= fresh THEN "unissued"
        ELSE CASE state[t] = "pending" -> "open"
               [] state[t] = "approved" -> "granted"
               [] OTHER -> "dead"]

Abstract == INSTANCE OneShotApproval WITH phase <- abstractPhase

(* The store and the middleware implement one-shot approvals: whatever is  *)
(* denied, expired, used or lost in a restart stays dead.                  *)
ImplementsOneShot == Abstract!Spec

(* Inductive strengthening of ApprovedOnce: a ticket that has run is used  *)
(* or gone, one that is approved was approved by a decision, and one that  *)
(* was never issued has no history.                                        *)
ApprovalInv ==
    \A t \in TicketId :
        /\ t >= fresh => state[t] = "absent" /\ runs[t] = 0 /\ ranOp[t] = {}
        /\ state[t] = "approved" => t \in yes
        /\ state[t] \in {"pending", "approved", "denied"} => runs[t] = 0
        /\ runs[t] <= 1
        /\ runs[t] > 0 => t \in yes
        /\ ranOp[t] \subseteq {boundTo[t]}

=============================================================================
