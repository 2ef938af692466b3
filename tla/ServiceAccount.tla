-------------------------- MODULE ServiceAccount ---------------------------
(***************************************************************************)
(* The plugin: handlers of the four mutating operations over one database,  *)
(* the passage of time, and what must hold of them.                         *)
(***************************************************************************)
EXTENDS Management, Authentication

CONSTANT MaxClock       \* bound of the model: the last time

ASSUME ClockAssumption == MaxClock \in Nat \ {0}

Init == StorageInit /\ HandlersInit

Tick ==
    /\ clock < MaxClock
    /\ clock' = clock + 1
    /\ UNCHANGED <<tables, control, performed>>

(* A step of an accepted call that takes a lock, and one that does not.     *)
WaitStep(h) == ManagementLock(h) \/ AuthenticationLock(h)

PlainStep(h) ==
    \/ Reserve(h) \/ AlreadyReserved(h) \/ Find(h) \/ Record(h) \/ Return(h)
    \/ ManagementStep(h)
    \/ AuthenticationStep(h)

Next ==
    \/ \E h \in Handler :
          \/ \E r \in Request : Accept(h, r)
          \/ WaitStep(h)
          \/ PlainStep(h)
          \/ Fail(h)
    \/ Tick

Spec == Init /\ [][Next]_vars

-----------------------------------------------------------------------------
TypeOK == StorageTypeOK /\ HandlersTypeOK

(* A handler owns a command from its INSERT to its receipt.                 *)
Owns(h, k) ==
    /\ pc[h] \notin {"idle", "reserve", "find", "answer"}
    /\ CommandOf(req[h]) = k

Owned(k) == \E h \in Handler : Owns(h, k)

(* claim_command lets one call through: no two calls work on one command,   *)
(* and the row of a command being worked on is unfinished and carries the   *)
(* worker's own intent, even though other calls prune, fail and retry       *)
(* meanwhile.  So the "command was not completable" errors of               *)
(* complete_success and complete_error, and mark_exchange_issuing's         *)
(* "advanced != 1", do not happen.                                          *)
SoleOwner ==
    \A h \in Handler, k \in Command : Owns(h, k) =>
        /\ \A g \in Handler : Owns(g, k) => g = h
        /\ commands[k].intent = req[h]
        /\ pc[h] \notin {"record", "bound", "issue", "receipt"} =>
              commands[k].status = "reserved"
        /\ pc[h] \in {"bound", "issue", "receipt"} => commands[k].status = "issuing"
        /\ pc[h] = "record" => commands[k].status \in Unfinished

(* A receipt tells what happened: a success receipt stands for an execution *)
(* since the reservation that was over by the time of its completion, and a *)
(* command that took effect without one is reported by inspect_command as   *)
(* one to reconcile; an error receipt and a reservation stand for none.     *)
ReceiptMatchesExecution ==
    \A k \in Command :
        /\ commands[k].status = "completed_success" =>
              performed[k].current /\ performed[k].at <= commands[k].completedAt
        /\ commands[k].status \notin {"absent", "completed_success"} /\ performed[k].current =>
              RequiresIssuerReconciliation(k)

(* What an answer to r, or its receipt, says about the accounts.            *)
Justified(outcome, r) ==
    LET succeeded == outcome \in {"success", "replayed"} IN
    /\ succeeded /\ r.op = "create" => NameTaken(r.organization, NameKey[r.name])
    /\ succeeded /\ r.op = "rotate_secret" =>
          Found(r) /\ accounts[r.account].revision > r.revision
    /\ (succeeded /\ r.op = "revoke") \/ outcome = "revoked" =>
          Found(r) /\ accounts[r.account].status = "revoked"
    /\ succeeded /\ r.op = "exchange_secret" => performed[CommandOf(r)].times > 0
    /\ outcome = "name_conflict" => NameTaken(r.organization, NameKey[r.name])
    /\ outcome = "too_many_service_accounts" =>
          Cardinality(AccountsOf(r.organization)) >= MaxAccounts

(* A receipt and an answer stay true however long after the commit or the   *)
(* rollback they are recorded, replayed or delivered.                       *)
OutcomesTruthful ==
    /\ \A k \in Command :
          /\ commands[k].status = "completed_success" =>
                Justified("success", commands[k].intent)
          /\ commands[k].status = "completed_error" =>
                Justified(commands[k].error, commands[k].intent)
    /\ \A h \in Handler :
          pc[h] \in {"record", "answer"} => Justified(frame[h].answer, req[h])

(* Rotation leaves one credential at most that is valid beyond the overlap: *)
(* of two credentials of an account one ends within RotationOverlap of the  *)
(* last rotation.                                                           *)
OverlapBounded ==
    \A a \in Account : \A c, d \in CredentialsOf(a) :
        c # d => \/ credentials[c].validUntil <= accounts[a].rotatedAt + RotationOverlap
                 \/ credentials[d].validUntil <= accounts[a].rotatedAt + RotationOverlap

(* The issuing transition is the admission point: what the recheck saw      *)
(* under the account's lock is still so when the exchange is admitted.      *)
AdmissionCurrent ==
    \A h \in Handler : pc[h] = "admit" =>
        /\ accounts[frame[h].account].status = "active"
        /\ credentials[req[h].credential].revokedAt = 0
        /\ credentials[req[h].credential].validUntil = frame[h].until

TokenInTime(h) ==
    pc'[h] # pc[h] /\ pc'[h] \in {"issue", "receipt"} =>
        clock < frame'[h].expires /\ frame'[h].expires <= frame[h].until

(* The recheck judges by a time read before the wait for the account's row, *)
(* so an exchange may be admitted although its credential has just expired. *)
(* No token comes of it: a token is asked for, and accepted, only while the *)
(* credential as it was admitted lasts, and ends no later than that.        *)
NoTokenAfterExpiry == [][\A h \in Handler : TokenInTime(h)]_vars

(* Compare-and-swap on the revision: a revision is rotated away once, and   *)
(* not by a rotation and a revocation both.                                 *)
RevisionWonOnce ==
    \A j, k \in Command :
        LET p == commands[j].intent
            q == commands[k].intent
        IN  /\ j # k
            /\ commands[j].status = "completed_success"
            /\ commands[k].status = "completed_success"
            /\ p.op = "rotate_secret"
            /\ q.op \in {"rotate_secret", "revoke"}
            => ~(p.account = q.account /\ p.revision = q.revision)

(* The advisory lock makes the count and the insert one decision.           *)
OrganizationBounded ==
    \A o \in Organization : Cardinality(AccountsOf(o)) <= MaxAccounts

ExecutedAnewSpaced ==
    \A k \in Command :
        /\ performed'[k].times # performed[k].times
        /\ performed[k].times > 0
        => performed[k].at + ReceiptTtl < performed'[k].at

(* A command takes effect again only when its receipt was kept for          *)
(* ReceiptTtl and pruned: never by a retry, a race or an ambiguous answer.  *)
ExecutionsSpaced == [][ExecutedAnewSpaced]_vars

AbandonedKept ==
    \A k \in Command :
        commands[k].status \in Unfinished /\ ~Owned(k) =>
            commands'[k] = commands[k] /\ performed'[k] = performed[k]

(* A command whose handler has failed is never resumed, completed, pruned   *)
(* or executed: it waits for an operator.                                   *)
AbandonedStays == [][AbandonedKept]_vars

CredentialOnlyEnds(c) ==
    credentials[c].account # None =>
        /\ credentials'[c].account = credentials[c].account
        /\ credentials'[c].validFrom = credentials[c].validFrom
        /\ credentials'[c].validUntil <= credentials[c].validUntil
        /\ credentials[c].revokedAt # 0 => credentials'[c].revokedAt = credentials[c].revokedAt

AccountOnlyAdvances(a) ==
    accounts[a].status # "absent" =>
        /\ accounts'[a].status # "absent"
        /\ accounts'[a].organization = accounts[a].organization
        /\ accounts'[a].subject = accounts[a].subject
        /\ accounts'[a].revision >= accounts[a].revision
        /\ accounts[a].status = "revoked" => accounts'[a] = accounts[a]

NothingRevivedBy ==
    /\ \A c \in Credential : CredentialOnlyEnds(c)
    /\ \A a \in Account : AccountOnlyAdvances(a)

(* No step revives anything: a credential keeps its account and its start,  *)
(* only ever ends earlier and stays revoked; an account stays and keeps its *)
(* identity, its revision never goes back and revocation is final.          *)
NothingRevived == [][NothingRevivedBy]_vars

(* Every accepted call returns: no call waits for a lock forever.           *)
CallsReturn == \A h \in Handler : pc[h] # "idle" ~> pc[h] = "idle"

(* The table's CHECK (valid_from <= valid_until), line 43 of the migration:  *)
(* no rotation that has locked its account attempts a row the table refuses. *)
RotationKeepsCheck ==
    \A h \in Handler :
        pc[h] = "rotate" => SupersedeAllowed(req[h].account, frame[h].now)

=============================================================================
