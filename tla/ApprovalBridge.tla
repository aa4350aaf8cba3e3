--------------------------- MODULE ApprovalBridge ---------------------------
(***************************************************************************)
(* A tool call of the MCP bridge against the agent's approvals             *)
(* (mac-bridge/src/client.js, approval.js and tools/register.js): the      *)
(* request, the question to the user, the decision, and the single retry,  *)
(* each an HTTP exchange that may be lost, be late, or time out at the     *)
(* bridge while the agent still works on it.                               *)
(***************************************************************************)
EXTENDS Approval

CONSTANT Call       \* tool calls

(* The results a tool call reports.  "retry_failed" stands for every code  *)
(* for which retryMessage has no wording of its own.                       *)
Refusals == {"approval_not_found", "approval_expired", "approval_used",
             "approval_denied", "approval_mismatch", "approval_not_approved"}
NotRun == {"interaction_unavailable", "interaction_failed", "decision_failed",
           "user_denied"}
Results == {"ok", "error", "retry_failed"} \cup Refusals \cup NotRun

VARIABLES
    flow,       \* "idle", "requested", "asking", "deciding", "retrying", "ended"
    request,    \* requests the agent has not handled yet
    answer,     \* the agent's answer to the last request, or "none"
    op,         \* the operation of the call
    ticket,     \* approval_id the call sends, NoTicket when it sends none
    decision,   \* the user's decision, or "none"
    result,     \* what the call reports, or "none"
    ran         \* history: how often the agent ran the call's operation

bridgeVars == <<flow, request, answer, op, ticket, decision, result, ran>>
vars == <<approvalVars, bridgeVars>>

BridgeInit ==
    /\ Init
    /\ flow = [c \in Call |-> "idle"]
    /\ request = [c \in Call |-> "none"]
    /\ answer = [c \in Call |-> "none"]
    /\ op = [c \in Call |-> NoOp]
    /\ ticket = [c \in Call |-> NoTicket]
    /\ decision = [c \in Call |-> "none"]
    /\ result = [c \in Call |-> "none"]
    /\ ran = [c \in Call |-> 0]

-----------------------------------------------------------------------------
(* The bridge.                                                             *)

Send(c, kind) ==
    /\ request' = [request EXCEPT ![c] = kind]
    /\ answer' = [answer EXCEPT ![c] = "none"]

Move(c, place) == flow' = [flow EXCEPT ![c] = place]

End(c, res) ==
    /\ Move(c, "ended")
    /\ result' = [result EXCEPT ![c] = res]

(* register's handler sends the prepared request; the tool's arguments may *)
(* name the approval_id of a ticket issued before.                         *)
CallTool(c, o, t) ==
    /\ flow[c] = "idle"
    /\ t < fresh
    /\ op' = [op EXCEPT ![c] = o]
    /\ ticket' = [ticket EXCEPT ![c] = t]
    /\ Send(c, "operation")
    /\ Move(c, "requested")
    /\ UNCHANGED <<approvalVars, decision, result, ran>>

Answered(c, place) == flow[c] = place /\ answer[c] # "none"

(* The answer to the first request when it is not approval_required.       *)
FirstAnswer(c) ==
    /\ Answered(c, "requested")
    /\ answer[c] # "approval_required"
    /\ End(c, CASE answer[c] = "executed" -> "ok"
                [] answer[c] = "failed" -> "error"
                [] OTHER -> answer[c])
    /\ UNCHANGED <<approvalVars, request, answer, op, ticket, decision, ran>>

(* handleApprovalRequired asks the user, if the client can.                *)
AskUser(c) ==
    /\ Answered(c, "requested")
    /\ answer[c] = "approval_required"
    /\ Move(c, "asking")
    /\ UNCHANGED <<approvalVars, request, answer, op, ticket, decision, result, ran>>

CannotAsk(c) ==
    /\ Answered(c, "requested")
    /\ answer[c] = "approval_required"
    /\ End(c, "interaction_unavailable")
    /\ UNCHANGED <<approvalVars, request, answer, op, ticket, decision, ran>>

(* requestUserApproval and decisionFromResult; then the decision is sent.  *)
UserDecides(c, d) ==
    /\ flow[c] = "asking"
    /\ decision' = [decision EXCEPT ![c] = d]
    /\ Send(c, "decision")
    /\ Move(c, "deciding")
    /\ UNCHANGED <<approvalVars, op, ticket, result, ran>>

(* The elicitation fails, is answered with nonsense, or times out.         *)
AskFails(c) ==
    /\ flow[c] = "asking"
    /\ End(c, "interaction_failed")
    /\ UNCHANGED <<approvalVars, request, answer, op, ticket, decision, ran>>

(* The decision was refused: no retry.                                     *)
DecisionRefused(c) ==
    /\ Answered(c, "deciding")
    /\ answer[c] \notin {"approved", "denied"}
    /\ End(c, "decision_failed")
    /\ UNCHANGED <<approvalVars, request, answer, op, ticket, decision, ran>>

Denied(c) ==
    /\ Answered(c, "deciding")
    /\ answer[c] = "denied"
    /\ End(c, "user_denied")
    /\ UNCHANGED <<approvalVars, request, answer, op, ticket, decision, ran>>

(* retryRequest: the same request again, with the ticket.                  *)
Retry(c) ==
    /\ Answered(c, "deciding")
    /\ answer[c] = "approved"
    /\ Send(c, "operation")
    /\ Move(c, "retrying")
    /\ UNCHANGED <<approvalVars, op, ticket, decision, result, ran>>

RetryAnswer(c) ==
    /\ Answered(c, "retrying")
    /\ End(c, CASE answer[c] = "executed" -> "ok"
                [] answer[c] \in Refusals \ {"approval_not_found"} -> answer[c]
                [] OTHER -> "retry_failed")
    /\ UNCHANGED <<approvalVars, request, answer, op, ticket, decision, ran>>

(* Mutant: a request that timed out is sent again.                         *)
TimeoutRepeats(c) ==
    /\ flow[c] \in {"requested", "retrying"}
    /\ Send(c, "operation")
    /\ UNCHANGED <<approvalVars, flow, op, ticket, decision, result, ran>>

(* Mutant: one catch around the decision and the retry.                    *)
TimeoutOneCatch(c) ==
    /\ flow[c] \in {"requested", "deciding", "retrying"}
    /\ End(c, IF flow[c] = "requested" THEN "error" ELSE "decision_failed")
    /\ UNCHANGED <<approvalVars, request, answer, op, ticket, decision, ran>>

(* Mutant: the decision is sent without a timer.                           *)
TimeoutNotDeciding(c) ==
    /\ flow[c] \in {"requested", "retrying"}
    /\ End(c, IF flow[c] = "requested" THEN "error" ELSE "retry_failed")
    /\ UNCHANGED <<approvalVars, request, answer, op, ticket, decision, ran>>

(* The fetch fails or its AbortController fires; the agent may still       *)
(* handle the request.                                                     *)
Timeout(c) ==
    /\ flow[c] \in {"requested", "deciding", "retrying"}
    /\ End(c, CASE flow[c] = "requested" -> "error"
                [] flow[c] = "deciding" -> "decision_failed"
                [] flow[c] = "retrying" -> "retry_failed")
    /\ UNCHANGED <<approvalVars, request, answer, op, ticket, decision, ran>>

-----------------------------------------------------------------------------
(* The agent and the network.                                              *)

(* The agent handles an operation; a command that ran may have failed.     *)
AgentRuns(c) ==
    /\ request[c] = "operation"
    /\ \E code \in Codes :
          /\ operationControl(op[c], ticket[c], code)
          /\ ran' = IF code = "executed" THEN [ran EXCEPT ![c] = @ + 1] ELSE ran
          /\ \E a \in IF code = "executed" THEN {"executed", "failed"} ELSE {code} :
                answer' = [answer EXCEPT ![c] = a]
          /\ ticket' = IF code = "approval_required" /\ flow[c] = "requested"
                       THEN [ticket EXCEPT ![c] = fresh] ELSE ticket
    /\ request' = [request EXCEPT ![c] = "none"]
    /\ UNCHANGED <<flow, op, decision, result>>

AgentDecides(c) ==
    /\ request[c] = "decision"
    /\ \E code \in Codes :
          /\ Decide(ticket[c], decision[c] = "approve", code)
          /\ answer' = [answer EXCEPT ![c] = code]
    /\ request' = [request EXCEPT ![c] = "none"]
    /\ UNCHANGED <<flow, op, ticket, decision, result, ran>>

RequestLost(c) ==
    /\ request[c] # "none"
    /\ request' = [request EXCEPT ![c] = "none"]
    /\ UNCHANGED <<approvalVars, flow, answer, op, ticket, decision, result, ran>>

(* Another client of the API decides a ticket.                             *)
OtherDecides ==
    /\ \E t \in TicketId, approve \in BOOLEAN, code \in Codes :
           t < fresh /\ Decide(t, approve, code)
    /\ UNCHANGED bridgeVars

(* The lookup for the audit record after a refusal.                        *)
AgentLooksUp == (\E t \in TicketId : Lookup(t)) /\ UNCHANGED bridgeVars

AgentRestarts == Restart /\ UNCHANGED bridgeVars

TimePasses == Tick /\ UNCHANGED bridgeVars

CallStep(c) ==
    \/ FirstAnswer(c) \/ AskUser(c) \/ CannotAsk(c)
    \/ UserDecides(c, "approve") \/ UserDecides(c, "deny") \/ AskFails(c)
    \/ DecisionRefused(c) \/ Denied(c) \/ Retry(c) \/ RetryAnswer(c)
    \/ Timeout(c)
    \/ AgentRuns(c) \/ AgentDecides(c) \/ RequestLost(c)

BridgeNext ==
    \/ \E c \in Call, o \in Op, t \in TicketId \cup {NoTicket} : CallTool(c, o, t)
    \/ \E c \in Call : CallStep(c)
    \/ OtherDecides
    \/ AgentLooksUp
    \/ AgentRestarts
    \/ TimePasses

BridgeSpec == BridgeInit /\ [][BridgeNext]_vars

(* The bridge's event loop runs what is ready, its HTTP timers fire, and   *)
(* an elicitation ends at its maxTotalTimeout.                             *)
FairBridgeSpec ==
    BridgeSpec /\ \A c \in Call :
        /\ WF_vars(Timeout(c))
        /\ WF_vars(AskFails(c))

-----------------------------------------------------------------------------
(* Properties.                                                             *)

(* The agent runs the operation of a tool call at most once, however       *)
(* requests, answers and timeouts interleave (client.js: "a single retry,  *)
(* not a general retry loop").                                             *)
RunsAtMostOnce == \A c \in Call : ran[c] <= 1

(* A call that reports that its operation was not executed is right, also  *)
(* about requests the agent handles only later (handleApprovalRequired).   *)
NotRunIsTrue == \A c \in Call : result[c] \in NotRun => ran[c] = 0

(* When a call reports that the user denied the operation, its ticket      *)
(* never runs, whatever other clients decide about it (Decide, Consume).   *)
DenialIsFinal ==
    \A c \in Call : result[c] = "user_denied" => runs[ticket[c]] = 0

(* Every tool call ends although the agent may never answer.               *)
CallsEnd == \A c \in Call : (flow[c] = "requested") ~> (flow[c] = "ended")

-----------------------------------------------------------------------------
(* The inductive invariant of the proofs.                                  *)

BridgeTypeOK ==
    /\ flow \in [Call -> {"idle", "requested", "asking", "deciding", "retrying", "ended"}]
    /\ request \in [Call -> {"none", "operation", "decision"}]
    /\ answer \in [Call -> Codes \cup {"none", "failed"}]
    /\ op \in [Call -> Op \cup {NoOp}]
    /\ ticket \in [Call -> TicketId \cup {NoTicket}]
    /\ decision \in [Call -> {"none", "approve", "deny"}]
    /\ result \in [Call -> Results \cup {"none"}]
    /\ ran \in [Call -> Nat]

(* A ticket that was issued and can never run again, and never ran.        *)
Revoked(t) ==
    /\ t \in TicketId /\ t < fresh
    /\ state[t] \in {"denied", "absent"}
    /\ runs[t] = 0

(* One request is under way or was answered, and only before the operation *)
(* ran; a question and a decision are about a ticket that was issued.      *)
CallInv(c) ==
    /\ flow[c] = "idle" => request[c] = "none"
    /\ request[c] # "none" => answer[c] = "none"
    /\ request[c] = "operation" => op[c] \in Op /\ flow[c] \in {"requested", "retrying", "ended"}
    /\ request[c] = "decision" => flow[c] \in {"deciding", "ended"}
    /\ flow[c] \in {"requested", "retrying"} => op[c] \in Op /\ answer[c] \notin {"approved", "denied"}
    /\ ran[c] <= 1
    /\ \/ flow[c] \in {"idle", "asking", "deciding"}
       \/ flow[c] = "requested" /\ answer[c] = "approval_required"
       \/ request[c] = "operation"
       \/ result[c] \in NotRun
       => ran[c] = 0
    /\ \/ flow[c] \in {"asking", "deciding", "retrying"}
       \/ flow[c] = "requested" /\ answer[c] = "approval_required"
       \/ request[c] = "decision"
       => ticket[c] \in TicketId /\ ticket[c] < fresh
    /\ flow[c] \in {"asking", "deciding"} => op[c] \in Op
    /\ result[c] \in NotRun => flow[c] = "ended" /\ request[c] # "operation"
    /\ flow[c] = "deciding" /\ answer[c] = "denied" => Revoked(ticket[c])
    /\ result[c] = "user_denied" => Revoked(ticket[c])

BridgeInv == \A c \in Call : CallInv(c)

=============================================================================
