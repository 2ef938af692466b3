--------------------------- MODULE CommandLedger ---------------------------
(***************************************************************************)
(* What the idempotency of the plugin promises its callers: a key stands    *)
(* for one intent, that intent takes effect at most once, and what came of  *)
(* it is remembered for ReceiptTtl.  Handlers, tables, locks and the        *)
(* external services are not part of the promise.                           *)
(***************************************************************************)
EXTENDS Naturals

CONSTANTS
    Command,            \* the keys
    Intent,             \* what may be asked for under a key
    ReceiptTtl,         \* how long an outcome is remembered
    None

VARIABLES
    now,
    ledger              \* the row of each key

ledgerVars == <<now, ledger>>

(* executedAt outlives the row: it is the last time the key took effect.    *)
Row ==
    [phase: {"free", "open", "succeeded", "refused"},
     intent: Intent \cup {None},
     executed: BOOLEAN, executedAt: Nat, completedAt: Nat]

FreeRow(at) ==
    [phase |-> "free", intent |-> None, executed |-> FALSE,
     executedAt |-> at, completedAt |-> 0]

Init ==
    /\ now = 1
    /\ ledger = [k \in Command |-> FreeRow(0)]

Become(k, row) ==
    /\ ledger' = [ledger EXCEPT ![k] = row]
    /\ UNCHANGED now

-----------------------------------------------------------------------------
(* A free key is bound to an intent.                                        *)
Reserve(k, i) ==
    /\ ledger[k].phase = "free"
    /\ Become(k, [phase |-> "open", intent |-> i, executed |-> FALSE,
                  executedAt |-> ledger[k].executedAt, completedAt |-> 0])

(* The key takes effect at time t: once, and more than ReceiptTtl after the *)
(* last time.                                                               *)
MayExecute(k, t) ==
    /\ ledger[k].phase = "open"
    /\ ~ledger[k].executed
    /\ ledger[k].executedAt # 0 => ledger[k].executedAt + ReceiptTtl < t
    /\ t <= now

Execute(k, t) ==
    /\ MayExecute(k, t)
    /\ Become(k, [phase |-> "open", intent |-> ledger[k].intent,
                  executed |-> TRUE, executedAt |-> t, completedAt |-> 0])

(* The success is recorded, after the effect or together with it.           *)
Complete(k, t) ==
    /\ ledger[k].phase = "open"
    /\ ledger[k].executed
    /\ ledger[k].executedAt <= t /\ t <= now
    /\ Become(k, [phase |-> "succeeded", intent |-> ledger[k].intent,
                  executed |-> TRUE, executedAt |-> ledger[k].executedAt,
                  completedAt |-> t])

ExecuteAndComplete(k, t) ==
    /\ MayExecute(k, t)
    /\ Become(k, [phase |-> "succeeded", intent |-> ledger[k].intent,
                  executed |-> TRUE, executedAt |-> t, completedAt |-> t])

(* A refusal is recorded: the intent did not take effect.                   *)
Refuse(k) ==
    /\ ledger[k].phase = "open"
    /\ ~ledger[k].executed
    /\ Become(k, [phase |-> "refused", intent |-> ledger[k].intent,
                  executed |-> FALSE, executedAt |-> ledger[k].executedAt,
                  completedAt |-> now])

(* Outcomes older than ReceiptTtl are forgotten; an open key never is.      *)
Outdated(k) ==
    /\ ledger[k].completedAt # 0
    /\ ledger[k].completedAt + ReceiptTtl < now

Expire ==
    /\ ledger' = [k \in Command |->
          IF Outdated(k) THEN FreeRow(ledger[k].executedAt) ELSE ledger[k]]
    /\ UNCHANGED now

Advance ==
    /\ now' = now + 1
    /\ UNCHANGED ledger

Next ==
    \/ \E k \in Command :
          \/ \E i \in Intent : Reserve(k, i)
          \/ \E t \in 0..now :
                Execute(k, t) \/ Complete(k, t) \/ ExecuteAndComplete(k, t)
          \/ Refuse(k)
    \/ Expire
    \/ Advance

Spec == Init /\ [][Next]_ledgerVars

=============================================================================
