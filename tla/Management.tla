---------------------------- MODULE Management -----------------------------
(***************************************************************************)
(* The handlers create, rotate_secret and revoke of management.rs, after    *)
(* their command is claimed, with the transactions create_account,          *)
(* rotate_account and revoke_account of storage.rs.                         *)
(***************************************************************************)
EXTENDS Handlers

(* The open transaction of h began after its last clock reading.            *)
BeginsAt(h, t) == t \in Nat /\ frame[h].now <= t /\ t <= clock

-----------------------------------------------------------------------------
(* create                                                                   *)

(* The Identity Directory answers with some subject.  The handler reads the *)
(* clock for the credential's validity and opens its transaction.           *)
EnsureIdentity(h, s) ==
    /\ pc[h] = "ensure"
    /\ Goto(h, "count")
    /\ frame' = [frame EXCEPT ![h] = [@ EXCEPT !.subject = s, !.now = clock]]
    /\ UNCHANGED <<req, clock, tables, performed>>

IdentityRejected(h) ==
    /\ pc[h] = "ensure"
    /\ Reject(h, "directory_rejected")

(* pg_advisory_xact_lock, then the count.                                   *)
CountAccounts(h, t) ==
    /\ pc[h] = "count"
    /\ OrganizationFree(req[h].organization)
    /\ Cardinality(AccountsOf(req[h].organization)) < MaxAccounts
    /\ BeginsAt(h, t)
    /\ Goto(h, "insert")
    /\ frame' = [frame EXCEPT ![h].begun = t]
    /\ UNCHANGED <<req, clock, tables, performed>>

TooManyAccounts(h) ==
    /\ pc[h] = "count"
    /\ OrganizationFree(req[h].organization)
    /\ Cardinality(AccountsOf(req[h].organization)) >= MaxAccounts
    /\ Reject(h, "too_many_service_accounts")

(* The INSERTs, the receipt and the commit.  The ids are random: any unused *)
(* ones.                                                                    *)
CreateAccount(h, a, c) ==
    LET r == req[h] IN
    /\ pc[h] = "insert"
    /\ ~NameTaken(r.organization, NameKey[r.name])
    /\ ~SubjectTaken(frame[h].subject)
    /\ accounts[a].status = "absent"
    /\ credentials[c].account = None
    /\ InsertAccount(a, r, frame[h].subject)
    /\ credentials' = [credentials EXCEPT ![c] =
          NewCredential(a, frame[h].now, frame[h].begun)]
    /\ CompleteSuccess(r, frame[h].begun)
    /\ Perform(r, frame[h].begun)
    /\ Respond(h, "success")
    /\ UNCHANGED <<clock, limits>>

NameConflict(h) ==
    /\ pc[h] = "insert"
    /\ NameTaken(req[h].organization, NameKey[req[h].name])
    /\ Reject(h, "name_conflict")

(* Mutant: the constraint is taken for the one on the name.                 *)
SubjectConflictMisread(h) ==
    /\ pc[h] = "insert"
    /\ SubjectTaken(frame[h].subject)
    /\ Reject(h, "name_conflict")

SubjectConflict(h) ==
    /\ pc[h] = "insert"
    /\ SubjectTaken(frame[h].subject)
    /\ Reject(h, "directory_rejected")

-----------------------------------------------------------------------------
(* rotate_secret.  Its clock reading is Reserve's: it takes place before    *)
(* the transaction and thus before the wait for the row lock.               *)

LockToRotate(h, t) ==
    LET a == req[h].account IN
    /\ pc[h] = "lock" /\ req[h].op = "rotate_secret"
    /\ AccountFree(a)
    /\ Found(req[h])
    /\ accounts[a].status = "active"
    /\ accounts[a].revision = req[h].revision
    /\ BeginsAt(h, t)
    /\ Goto(h, "rotate")
    /\ frame' = [frame EXCEPT ![h].begun = t]
    /\ UNCHANGED <<req, clock, tables, performed>>

RotateAccount(h, c) ==
    LET a == req[h].account IN
    /\ pc[h] = "rotate"
    /\ SupersedeAllowed(a, frame[h].now)
    /\ credentials[c].account = None
    /\ RotateCredentials(a, c, frame[h].now, frame[h].begun)
    /\ RotateAccountRow(a, frame[h].now)
    /\ CompleteSuccess(req[h], frame[h].begun)
    /\ Perform(req[h], frame[h].begun)
    /\ Respond(h, "success")
    /\ UNCHANGED <<clock, limits>>

(* PostgreSQL refuses a row that breaks the CHECK: a runtime failure.       *)
RotationRefused(h) ==
    /\ pc[h] = "rotate"
    /\ ~SupersedeAllowed(req[h].account, frame[h].now)
    /\ Respond(h, "failure")
    /\ UNCHANGED <<clock, tables, performed>>

-----------------------------------------------------------------------------
(* revoke.  It reads the clock once it holds the row.                       *)

LockToRevoke(h, t) ==
    LET a == req[h].account IN
    /\ pc[h] = "lock" /\ req[h].op = "revoke"
    /\ AccountFree(a)
    /\ Found(req[h])
    /\ accounts[a].revision = req[h].revision
    /\ BeginsAt(h, t)
    /\ Goto(h, "revoke")
    /\ frame' = [frame EXCEPT ![h] = [@ EXCEPT !.begun = t, !.now = clock]]
    /\ UNCHANGED <<req, clock, tables, performed>>

RevokeAccount(h) ==
    LET a == req[h].account IN
    /\ pc[h] = "revoke"
    /\ \/ /\ accounts[a].status = "active"
          /\ RevokeAccountRow(a, frame[h].now)
          /\ RevokeCredentials(a, frame[h].now)
       \/ /\ accounts[a].status = "revoked"
          /\ UNCHANGED <<accounts, credentials>>
    /\ CompleteSuccess(req[h], frame[h].begun)
    /\ Perform(req[h], frame[h].begun)
    /\ Respond(h, "success")
    /\ UNCHANGED <<clock, limits>>

-----------------------------------------------------------------------------
(* The early returns of rotate_account and revoke_account.                  *)

NotFound(h) ==
    /\ pc[h] = "lock"
    /\ ~Found(req[h])
    /\ Reject(h, "not_found")

(* Mutant: the status is tested after the revision.                         *)
AlreadyRevokedUntested(h) ==
    /\ pc[h] = "lock" /\ req[h].op = "rotate_secret"
    /\ AccountFree(req[h].account)
    /\ Found(req[h])
    /\ accounts[req[h].account].revision # req[h].revision
    /\ Reject(h, "revoked")

AlreadyRevoked(h) ==
    /\ pc[h] = "lock" /\ req[h].op = "rotate_secret"
    /\ AccountFree(req[h].account)
    /\ Found(req[h])
    /\ accounts[req[h].account].status = "revoked"
    /\ Reject(h, "revoked")

RevisionConflict(h) ==
    /\ pc[h] = "lock"
    /\ AccountFree(req[h].account)
    /\ Found(req[h])
    /\ req[h].op = "rotate_secret" => accounts[req[h].account].status = "active"
    /\ accounts[req[h].account].revision # req[h].revision
    /\ Reject(h, "revision_conflict")

-----------------------------------------------------------------------------
(* The steps that wait for a lock, and the others.                          *)

ManagementLock(h) ==
    \/ \E t \in frame[h].now..clock :
          CountAccounts(h, t) \/ LockToRotate(h, t) \/ LockToRevoke(h, t)
    \/ TooManyAccounts(h) \/ AlreadyRevoked(h) \/ RevisionConflict(h)

ManagementStep(h) ==
    \/ \E s \in Subject : EnsureIdentity(h, s)
    \/ IdentityRejected(h)
    \/ \E a \in Account, c \in Credential : CreateAccount(h, a, c)
    \/ NameConflict(h) \/ SubjectConflict(h)
    \/ \E c \in Credential : RotateAccount(h, c)
    \/ RotationRefused(h)
    \/ RevokeAccount(h)
    \/ NotFound(h)

=============================================================================
