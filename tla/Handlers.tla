----------------------------- MODULE Handlers ------------------------------
(***************************************************************************)
(* What the four mutating operations share: a handler accepts a call,       *)
(* prunes old receipts, claims the caller's idempotency key, and at the     *)
(* end records an error or answers.                                         *)
(*                                                                          *)
(* A handler is one request future of the plugin.  Futures of one host      *)
(* interleave at every await and hosts share the database, so each step     *)
(* below runs up to the next await (or commits one transaction) and any     *)
(* other handler may run before the next step.  A handler that holds a row  *)
(* lock or the organization's advisory lock is inside an open transaction:  *)
(* its writes are not visible before the step that commits.                 *)
(***************************************************************************)
EXTENDS Storage

CONSTANT Handler        \* request futures that can be in flight together

VARIABLES
    pc,                 \* where each handler stands
    req,                \* the request it serves
    frame,              \* its local variables
    performed           \* history: how often each command took effect, the
                        \* last time, and whether since its reservation

control == <<pc, req, frame>>

vars == <<clock, tables, control, performed>>

Step ==
    {"idle", "reserve", "find", "record", "answer",
     "ensure", "count", "insert",                       \* create
     "lock", "rotate", "revoke",                        \* rotate_secret, revoke
     "rate", "verify", "status", "recheck", "admit",    \* exchange_secret
     "bound", "issue", "receipt"}

(* What a handler answers: an error receipt's code, or                      *)
Answer == ErrorCode \cup
    {"none", "success", "replayed", "idempotency_conflict",
     "operation_in_progress", "failure"}

(* now: the last time read from the host's clock; begun: the start of the   *)
(* open transaction, which now() returns inside it; subject: the Directory's *)
(* answer; account: the account the presented credential belongs to;        *)
(* until, expires: the credential's expiry as read under the lock, and the  *)
(* expiry asked for the token.                                              *)
Frame ==
    [now: Nat, begun: Nat, subject: Subject \cup {None},
     account: Account \cup {None}, until: Nat, expires: Nat, answer: Answer]

NoFrame ==
    [now |-> 0, begun |-> 0, subject |-> None, account |-> None,
     until |-> 0, expires |-> 0, answer |-> "none"]

HandlersInit ==
    /\ pc = [h \in Handler |-> "idle"]
    /\ req = [h \in Handler |-> None]
    /\ frame = [h \in Handler |-> NoFrame]
    /\ performed = [k \in Command |-> [times |-> 0, at |-> 0, current |-> FALSE]]

HandlersTypeOK ==
    /\ pc \in [Handler -> Step]
    /\ req \in [Handler -> Request \cup {None}]
    /\ frame \in [Handler -> Frame]
    /\ performed \in [Command -> [times: Nat, at: Nat, current: BOOLEAN]]

-----------------------------------------------------------------------------
(* Locks.  An account's row is locked from the SELECT ... FOR UPDATE that   *)
(* finds it to the end of the transaction, the organization's advisory lock *)
(* from pg_advisory_xact_lock to the end of the transaction.                *)

(* Mutant: mark_exchange_issuing reads the account without FOR UPDATE.      *)
HoldsAccountNotToAdmit(h, a) ==
    pc[h] \in {"rotate", "revoke"} /\ req[h].account = a

(* Mutant: lock_account reads the account without FOR UPDATE.               *)
HoldsAccountNotToMutate(h, a) == pc[h] = "admit" /\ frame[h].account = a

HoldsAccount(h, a) ==
    \/ pc[h] \in {"rotate", "revoke"} /\ req[h].account = a
    \/ pc[h] = "admit" /\ frame[h].account = a

(* Mutant: create_account counts without the advisory lock.                 *)
HoldsNoOrganization(h, o) == FALSE

HoldsOrganization(h, o) == pc[h] = "insert" /\ req[h].organization = o

AccountFree(a) == \A h \in Handler : ~HoldsAccount(h, a)

OrganizationFree(o) == \A h \in Handler : ~HoldsOrganization(h, o)

-----------------------------------------------------------------------------
Goto(h, step) == pc' = [pc EXCEPT ![h] = step]

(* The command of r takes effect at time t.                                 *)
Perform(r, t) ==
    performed' = [performed EXCEPT ![CommandOf(r)] =
                     [times |-> @.times + 1, at |-> t, current |-> TRUE]]

Respond(h, answer) ==
    /\ Goto(h, "answer")
    /\ frame' = [frame EXCEPT ![h] = [NoFrame EXCEPT !.answer = answer]]
    /\ UNCHANGED req

(* Leave with an error that is still to be recorded in the receipt.  The    *)
(* transaction, if one is open, is rolled back first.                       *)
Reject(h, code) ==
    /\ Goto(h, "record")
    /\ frame' = [frame EXCEPT ![h] = [NoFrame EXCEPT !.answer = code]]
    /\ UNCHANGED <<req, clock, tables, performed>>

(* Bound of the model: enough unused ids are left for every create and      *)
(* rotate in flight, as there always are among random 192-bit ids.          *)
Drawing(ops) == {h \in Handler : pc[h] # "idle" /\ req[h].op \in ops}

IdsLeft(r) ==
    /\ r.op = "create" =>
          Cardinality({a \in Account : accounts[a].status = "absent"})
             > Cardinality(Drawing({"create"}))
    /\ r.op \in {"create", "rotate_secret"} =>
          Cardinality({c \in Credential : credentials[c].account = None})
             > Cardinality(Drawing({"create", "rotate_secret"}))

(* Nobody knows a random id before it is stored.                            *)
KnownIds(r) ==
    /\ r.op \in {"rotate_secret", "revoke"} /\ r.account # None =>
          accounts[r.account].status # "absent"
    /\ r.op = "exchange_secret" /\ r.credential # None =>
          credentials[r.credential].account # None

(* A validated and authorized call comes in and prunes.  A call that is     *)
(* refused changes nothing and is left out.                                 *)
Accept(h, r) ==
    /\ pc[h] = "idle"
    /\ KnownIds(r)
    /\ IdsLeft(r)
    /\ Goto(h, "reserve")
    /\ req' = [req EXCEPT ![h] = r]
    /\ Prune
    /\ UNCHANGED <<frame, clock, accounts, credentials, limits, performed>>

FirstStep(op) ==
    IF op = "create" THEN "ensure"
    ELSE IF op = "exchange_secret" THEN "rate" ELSE "lock"

(* claim_command inserts the command: this handler owns it.                 *)
Reserve(h) ==
    /\ pc[h] = "reserve"
    /\ InsertCommand(req[h])
    /\ Goto(h, FirstStep(req[h].op))
    /\ frame' = [frame EXCEPT ![h].now = clock]
    /\ performed' = [performed EXCEPT ![CommandOf(req[h])].current = FALSE]
    /\ UNCHANGED <<req, clock, accounts, credentials, limits>>

(* The key is taken: the INSERT does nothing ...                            *)
AlreadyReserved(h) ==
    /\ pc[h] = "reserve"
    /\ commands[CommandOf(req[h])].status # "absent"
    /\ Goto(h, "find")
    /\ UNCHANGED <<req, frame, clock, tables, performed>>

(* ... and a second statement reads the row, if it is still there.          *)
Find(h) ==
    /\ pc[h] = "find"
    /\ Respond(h, ClaimOutcome(req[h]))
    /\ UNCHANGED <<clock, tables, performed>>

(* record_error, record_create_error, record_rotate_error,                  *)
(* record_revoke_error: a statement, and so a transaction, of its own.      *)
Record(h) ==
    /\ pc[h] = "record"
    /\ CompleteError(req[h], frame[h].answer)
    /\ Respond(h, frame[h].answer)
    /\ UNCHANGED <<clock, accounts, credentials, limits, performed>>

(* The handler's future resolves, or is dropped: its host crashes, the call *)
(* is cancelled, a query or an external call fails.  An open transaction    *)
(* rolls back.                                                              *)
Leave(h) ==
    /\ Goto(h, "idle")
    /\ req' = [req EXCEPT ![h] = None]
    /\ frame' = [frame EXCEPT ![h] = NoFrame]

Return(h) ==
    /\ pc[h] = "answer"
    /\ Leave(h)
    /\ UNCHANGED <<clock, tables, performed>>

Fail(h) ==
    /\ pc[h] \notin {"idle", "answer"}
    /\ Leave(h)
    /\ UNCHANGED <<clock, tables, performed>>

=============================================================================
