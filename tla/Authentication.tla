-------------------------- MODULE Authentication ---------------------------
(***************************************************************************)
(* The handler exchange_secret of authentication.rs, after its command is   *)
(* claimed, with reserve_rate_slot, load_credential and                     *)
(* mark_exchange_issuing of storage.rs.  The Identity Directory and the     *)
(* Credential Issuer are external: they answer what they like.              *)
(***************************************************************************)
EXTENDS Handlers

(* One transaction under the lock of the caller's row.  It uses the clock   *)
(* reading of Reserve.                                                      *)
TakeRateSlot(h) ==
    /\ pc[h] = "rate"
    /\ SlotGranted(req[h].caller, frame[h].now)
    /\ ReserveRateSlot(req[h].caller, frame[h].now)
    /\ Goto(h, "verify")
    /\ UNCHANGED <<req, frame, clock, commands, accounts, credentials, performed>>

RateLimited(h) ==
    /\ pc[h] = "rate"
    /\ ~SlotGranted(req[h].caller, frame[h].now)
    /\ ReserveRateSlot(req[h].caller, frame[h].now)
    /\ Goto(h, "record")
    /\ frame' = [frame EXCEPT ![h] = [NoFrame EXCEPT !.answer = "rate_limited"]]
    /\ UNCHANGED <<req, clock, commands, accounts, credentials, performed>>

(* load_credential, verify_secret and the filter, with the same reading.    *)
SecretAccepted(h) ==
    /\ req[h].credential # None
    /\ req[h].genuine
    /\ Usable(req[h].credential, frame[h].now)

VerifySecret(h) ==
    /\ pc[h] = "verify"
    /\ SecretAccepted(h)
    /\ Goto(h, "status")
    /\ frame' = [frame EXCEPT ![h].account =
                    credentials[req[h].credential].account]
    /\ UNCHANGED <<req, clock, tables, performed>>

InvalidSecret(h) ==
    /\ pc[h] = "verify"
    /\ ~SecretAccepted(h)
    /\ Reject(h, "invalid_credentials")

(* The Directory says that the subject is active.  The clock is read again, *)
(* as an argument of mark_exchange_issuing.                                 *)
SubjectActive(h) ==
    /\ pc[h] = "status"
    /\ Goto(h, "recheck")
    /\ frame' = [frame EXCEPT ![h].now = clock]
    /\ UNCHANGED <<req, clock, tables, performed>>

SubjectDisabled(h) ==
    /\ pc[h] = "status"
    /\ Reject(h, "disabled")

(* mark_exchange_issuing locks the account's row, then rechecks the         *)
(* credential with the reading made before the wait ...                     *)
RecheckCredential(h) ==
    /\ pc[h] = "recheck"
    /\ AccountFree(frame[h].account)
    /\ Usable(req[h].credential, frame[h].now)
    /\ Goto(h, "admit")
    /\ frame' = [frame EXCEPT ![h].until = credentials[req[h].credential].validUntil]
    /\ UNCHANGED <<req, clock, tables, performed>>

NoLongerValid(h) ==
    /\ pc[h] = "recheck"
    /\ AccountFree(frame[h].account)
    /\ ~Usable(req[h].credential, frame[h].now)
    /\ Reject(h, "invalid_credentials")

(* ... and commits the command as issuing: the exchange is admitted.        *)
Admit(h) ==
    /\ pc[h] = "admit"
    /\ MarkIssuing(req[h])
    /\ Goto(h, "bound")
    /\ UNCHANGED <<req, frame, clock, accounts, credentials, limits, performed>>

(* The token expires no later than the credential, as read under the lock.  *)
ExpiryAt(h, now) == Least(now + TokenTtl, frame[h].until)

(* Mutant: the expiry is judged by the time read before the lock.           *)
BoundExpiryStale(h) ==
    /\ pc[h] = "bound"
    /\ ExpiryAt(h, frame[h].now) > frame[h].now
    /\ Goto(h, "issue")
    /\ frame' = [frame EXCEPT ![h].expires = ExpiryAt(h, frame[h].now)]
    /\ UNCHANGED <<req, clock, tables, performed>>

BoundExpiry(h) ==
    /\ pc[h] = "bound"
    /\ ExpiryAt(h, clock) > clock
    /\ Goto(h, "issue")
    /\ frame' = [frame EXCEPT ![h] =
          [@ EXCEPT !.now = clock, !.expires = ExpiryAt(h, clock)]]
    /\ UNCHANGED <<req, clock, tables, performed>>

ExpiredMeanwhile(h) ==
    /\ pc[h] = "bound"
    /\ ExpiryAt(h, clock) <= clock
    /\ Reject(h, "invalid_credentials")

(* The Issuer mints a token and the handler accepts its expiry.             *)
Issue(h) ==
    /\ pc[h] = "issue"
    /\ clock < frame[h].expires
    /\ Perform(req[h], clock)
    /\ Goto(h, "receipt")
    /\ frame' = [frame EXCEPT ![h].now = clock]
    /\ UNCHANGED <<req, clock, tables>>

(* Mutant: an unclear answer is recorded as a refusal.                      *)
IssueAmbiguousRecorded(h) ==
    /\ pc[h] = "issue"
    /\ Perform(req[h], clock)
    /\ Goto(h, "record")
    /\ frame' = [frame EXCEPT ![h] = [NoFrame EXCEPT !.answer = "disabled"]]
    /\ UNCHANGED <<req, clock, tables>>

(* The Issuer mints a token whose reply is lost, is malformed, exceeds the  *)
(* expiry asked for or comes too late: a runtime failure.  The command      *)
(* stays issuing.                                                           *)
IssueAmbiguous(h) ==
    /\ pc[h] = "issue"
    /\ Perform(req[h], clock)
    /\ Respond(h, "failure")
    /\ UNCHANGED <<clock, tables>>

(* The Issuer's only definitive refusal.                                    *)
IssueDisabled(h) ==
    /\ pc[h] = "issue"
    /\ Reject(h, "disabled")

(* complete_success_owned, in a transaction begun at time t.                *)
StoreReceipt(h, t) ==
    /\ pc[h] = "receipt"
    /\ t \in Nat /\ frame[h].now <= t /\ t <= clock
    /\ CompleteSuccess(req[h], t)
    /\ Respond(h, "success")
    /\ UNCHANGED <<clock, accounts, credentials, limits, performed>>

-----------------------------------------------------------------------------
(* The steps that wait for a lock, and the others.                          *)

AuthenticationLock(h) == RecheckCredential(h) \/ NoLongerValid(h)

AuthenticationStep(h) ==
    \/ TakeRateSlot(h) \/ RateLimited(h)
    \/ VerifySecret(h) \/ InvalidSecret(h)
    \/ SubjectActive(h) \/ SubjectDisabled(h)
    \/ Admit(h)
    \/ BoundExpiry(h) \/ ExpiredMeanwhile(h)
    \/ Issue(h) \/ IssueAmbiguous(h) \/ IssueDisabled(h)
    \/ \E t \in frame[h].now..clock : StoreReceipt(h, t)

=============================================================================
