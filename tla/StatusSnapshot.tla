--------------------------- MODULE StatusSnapshot ---------------------------
(***************************************************************************)
(* The status snapshot (agent/internal/api/v2_routes.go, statusSnapshot)   *)
(* and the thermal report in it (agent/internal/api/server.go,             *)
(* thermalSnapshotWithBudget): one goroutine per module of the NAS writes  *)
(* its entry under a mutex, and the reply waits for all of them.  The      *)
(* thermal goroutine asks getsysinfo one question after the other, within  *)
(* a budget of time.                                                       *)
(*                                                                         *)
(* A module either has an entry or runs; its entry says whether it failed. *)
(* Values of sensors are left out, a sensor is one that was read.          *)
(***************************************************************************)
EXTENDS Naturals, Sequences

CONSTANTS
    Module,     \* modules of the snapshot other than the thermal one
    FanCap,     \* fans and disks asked for at most: 32 and 64 in the code
    DiskCap

ASSUME SnapshotAssumption == FanCap \in Nat /\ DiskCap \in Nat

VARIABLES
    snap,       \* "off", "collecting" or "answered"
    entry,      \* the entry of each module: "running", "ok" or "failed"
    partial,    \* the snapshot's flag
    thermal,    \* the thermal goroutine
    context     \* the request's context: "live", "expired" (the budget) or "cancelled" (the client)

snapVars == <<snap, entry, partial, thermal, context>>

(* Questions of the thermal report in their order.  The two temperatures   *)
(* come out of a map, so either may be first; they are alike here.         *)
Stage == <<"temperature", "temperature", "sysfannum", "sysfan", "hdnum", "hdtmp">>

(* at: the stage; left: what it still asks for; skipped: questions not     *)
(* asked; done: the report has been handed over, with its flags.           *)
NoThermal == [at |-> 1, left |-> 1, sensors |-> 0, skipped |-> 0, done |-> FALSE, partial |-> FALSE,
              available |-> TRUE]

SnapInit ==
    /\ snap = "off"
    /\ entry = [m \in Module |-> "running"]
    /\ partial = FALSE
    /\ thermal = NoThermal
    /\ context = "live"

(* The goroutines are started; the kernel's own sensors come first.        *)
statusSnapshot ==
    /\ snap' = "collecting"
    /\ entry' = [m \in Module |-> "running"]
    /\ partial' = FALSE
    /\ \E hwmon \in 0 .. 1 : thermal' = [NoThermal EXCEPT !.sensors = hwmon]
    /\ context' = "live"

(* A module returns: its entry and the flag are written under the mutex.   *)
addEntry(m) ==
    /\ snap = "collecting"
    /\ entry[m] = "running"
    /\ \E result \in {"ok", "failed"} :
        /\ entry' = [entry EXCEPT ![m] = result]
        /\ partial' = (partial \/ result = "failed")
    /\ UNCHANGED <<snap, thermal, context>>

(* The next stage that has something to ask, given how many fans or disks  *)
(* the last answer promised.                                               *)
after(t, promised) ==
    LET next == t.at + 1
        count == IF next = 4 THEN (IF promised > FanCap THEN FanCap ELSE promised)
                 ELSE IF next = 6 THEN (IF promised > DiskCap THEN DiskCap ELSE promised)
                 ELSE 1
    IN  IF count > 0 THEN [t EXCEPT !.at = next, !.left = count] ELSE [t EXCEPT !.at = next + 1, !.left = 1]

asked(t, promised) == IF t.left > 1 THEN [t EXCEPT !.left = @ - 1] ELSE after(t, promised)

(* One question.  After the context has ended it is not asked; otherwise   *)
(* the command fails or answers, with a number or with something else.     *)
get ==
    /\ snap = "collecting"
    /\ thermal.at <= Len(Stage)
    /\ IF context # "live"
       THEN thermal' = asked([thermal EXCEPT !.skipped = @ + 1], 0)
       ELSE \/ thermal' = asked(thermal, 0)
            \/ /\ Stage[thermal.at] \in {"temperature", "sysfan", "hdtmp"}
               /\ thermal' = asked([thermal EXCEPT !.sensors = @ + 1], 0)
            \/ /\ Stage[thermal.at] \in {"sysfannum", "hdnum"}
               /\ \E n \in 1 .. (IF Stage[thermal.at] = "hdnum" THEN DiskCap ELSE FanCap) + 1 :
                      thermal' = asked(thermal, n)
    /\ UNCHANGED <<snap, entry, partial, context>>

(* Mutant: the flag of the report is not passed on.                        *)
thermalEntryQuiet ==
    /\ snap = "collecting"
    /\ thermal.at > Len(Stage)
    /\ ~thermal.done
    /\ thermal' = [thermal EXCEPT !.done = TRUE, !.partial = (context # "live")]
    /\ UNCHANGED <<snap, entry, partial, context>>

(* The end of the report, and its entry in the snapshot.                   *)
thermalEntry ==
    /\ snap = "collecting"
    /\ thermal.at > Len(Stage)
    /\ ~thermal.done
    /\ thermal' = [thermal EXCEPT !.done = TRUE, !.partial = (context # "live"),
                                  !.available = (context = "live" \/ thermal.sensors > 0)]
    /\ partial' = (partial \/ context # "live")
    /\ UNCHANGED <<snap, entry, context>>

(* The budget runs out, or the client goes away.                           *)
contextEnds ==
    /\ snap = "collecting"
    /\ ~thermal.done
    /\ context = "live"
    /\ context' \in {"expired", "cancelled"}
    /\ UNCHANGED <<snap, entry, partial, thermal>>

(* wg.Wait has returned.                                                   *)
Collected == snap = "collecting" /\ thermal.done /\ \A m \in Module : entry[m] # "running"

answerSnapshot ==
    /\ Collected
    /\ snap' = "answered"
    /\ UNCHANGED <<entry, partial, thermal, context>>

Goroutine == (\E m \in Module : addEntry(m)) \/ get \/ thermalEntry

-----------------------------------------------------------------------------
(* The flag of a snapshot is exact, whatever the order in which the        *)
(* goroutines write their entries: a snapshot that is not partial has the  *)
(* entry of every module and a thermal report with every question asked,   *)
(* and one that is partial shows which module failed or that the thermal   *)
(* report was cut short (v2_routes.go, statusSnapshot).                    *)
SnapshotFlagIsExact ==
    snap = "answered" =>
        /\ \A m \in Module : entry[m] # "running"
        /\ partial <=> (thermal.partial \/ \E m \in Module : entry[m] = "failed")
        /\ ~partial => thermal.skipped = 0
        /\ ~thermal.available => thermal.partial /\ thermal.sensors = 0

-----------------------------------------------------------------------------
(* Inductive strengthening, for the proofs in ApiRequestsProofs: the flag  *)
(* follows the entries while they are written, and a report that is handed *)
(* over froze the context it was made under.                               *)
SnapInv ==
    /\ thermal = [at |-> thermal.at, left |-> thermal.left, sensors |-> thermal.sensors,
                  skipped |-> thermal.skipped, done |-> thermal.done, partial |-> thermal.partial,
                  available |-> thermal.available]
    /\ thermal.at \in Nat /\ thermal.sensors \in Nat /\ thermal.skipped \in Nat
    /\ thermal.skipped > 0 => context # "live"
    /\ thermal.done => thermal.at > Len(Stage)
    /\ thermal.partial <=> thermal.done /\ context # "live"
    /\ thermal.available <=> ~thermal.done \/ context = "live" \/ thermal.sensors > 0
    /\ DOMAIN entry = Module
    /\ partial <=> (thermal.partial \/ \E m \in Module : entry[m] = "failed")
    /\ snap = "answered" => thermal.done /\ \A m \in Module : entry[m] # "running"

=============================================================================
