-------------------------- MODULE LedgerRefinement --------------------------
(***************************************************************************)
(* The plugin implements CommandLedger: its command table, together with    *)
(* the record of when each command took effect, is a ledger.                *)
(***************************************************************************)
EXTENDS ServiceAccount

LedgerPhase(status) ==
    IF status = "absent" THEN "free"
    ELSE IF status = "completed_success" THEN "succeeded"
    ELSE IF status = "completed_error" THEN "refused" ELSE "open"

LedgerRow(k) ==
    [phase |-> LedgerPhase(commands[k].status),
     intent |-> commands[k].intent,
     executed |-> commands[k].status # "absent" /\ performed[k].current,
     executedAt |-> performed[k].at,
     completedAt |-> commands[k].completedAt]

Ledger == INSTANCE CommandLedger
    WITH Intent <- Request,
         now <- clock,
         ledger <- [k \in Command |-> LedgerRow(k)]

(* Every step of the handlers, with their crashes, retries, races and       *)
(* ambiguous answers, is a step of the ledger or none: a key of             *)
(* claim_command, complete_success, complete_error and prune is bound to    *)
(* one intent, takes effect once, and is forgotten no sooner than           *)
(* ReceiptTtl after its outcome.                                            *)
ImplementsLedger == Ledger!Spec

=============================================================================
