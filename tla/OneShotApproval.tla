--------------------------- MODULE OneShotApproval ---------------------------
(***************************************************************************)
(* What the approval tickets of the agent promise, whatever the number of  *)
(* clients, retries, expiries and restarts: a ticket is issued once, may   *)
(* be granted, runs its operation at most once and only while granted, and *)
(* is dead for ever once it has run or was revoked.                        *)
(***************************************************************************)
EXTENDS Naturals

CONSTANT TicketId

VARIABLES
    phase,  \* "unissued", "open", "granted" or "dead"
    runs    \* how often the ticket's operation ran under it

vars == <<phase, runs>>

Init ==
    /\ phase = [t \in TicketId |-> "unissued"]
    /\ runs = [t \in TicketId |-> 0]

Move(t, from, to) ==
    /\ phase[t] \in from
    /\ phase' = [phase EXCEPT ![t] = to]

Grant(t) == Move(t, {"open"}, "granted") /\ UNCHANGED runs

Run(t) ==
    /\ Move(t, {"granted"}, "dead")
    /\ runs' = [runs EXCEPT ![t] = @ + 1]

(* A denial, an expiry or a restart; expiry and restart revoke several     *)
(* tickets at once, and issuing one prunes the expired ones.               *)
Revoke(T) ==
    /\ \A t \in T : phase[t] \in {"open", "granted"}
    /\ phase' = [t \in TicketId |-> IF t \in T THEN "dead" ELSE phase[t]]
    /\ UNCHANGED runs

IssueAndRevoke(t, T) ==
    /\ phase[t] = "unissued"
    /\ \A u \in T : phase[u] \in {"open", "granted"}
    /\ phase' = [u \in TicketId |-> IF u = t THEN "open"
                                    ELSE IF u \in T THEN "dead" ELSE phase[u]]
    /\ UNCHANGED runs

Next ==
    \/ \E t \in TicketId : Grant(t) \/ Run(t)
    \/ \E T \in SUBSET TicketId : Revoke(T)
    \/ \E t \in TicketId, T \in SUBSET TicketId : IssueAndRevoke(t, T)

Spec == Init /\ [][Next]_vars

=============================================================================
