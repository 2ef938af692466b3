----------------------- MODULE ServiceAccountProofs ------------------------
(***************************************************************************)
(* What holds of ServiceAccount for every set of handlers, requests and     *)
(* ids, every configuration that validate accepts, and any length of time.  *)
(***************************************************************************)
EXTENDS ServiceAccount, TLAPS

(* A handler's position fixes the kind of request it serves and what its    *)
(* local variables hold.                                                    *)
ControlOK ==
    \A h \in Handler :
        /\ pc[h] # "idle" => req[h] \in Request
        /\ pc[h] \in {"ensure", "count", "insert"} => req[h].op = "create"
        /\ pc[h] = "lock" => req[h].op \in {"rotate_secret", "revoke"}
        /\ pc[h] = "rotate" => req[h].op = "rotate_secret" /\ req[h].account \in Account
        /\ pc[h] = "revoke" => req[h].op = "revoke" /\ req[h].account \in Account
        /\ pc[h] \in {"rate", "verify", "status", "recheck", "admit",
                      "bound", "issue", "receipt"} => req[h].op = "exchange_secret"
        /\ pc[h] \in {"status", "recheck", "admit", "bound", "issue", "receipt"} =>
              /\ req[h].credential \in Credential
              /\ frame[h].account \in Account
        /\ pc[h] = "record" => frame[h].answer \in ErrorCode

TypeInv == TypeOK /\ ControlOK

-----------------------------------------------------------------------------
(* The fields a request has, by operation.                                  *)
LEMMA RequestFields ==
    ASSUME NEW r \in Request
    PROVE  /\ r.op \in Operation
           /\ CommandOf(r) \in Command
           /\ r.op = "create" => r.organization \in Organization /\ r.name \in Name
           /\ r.op \in {"rotate_secret", "revoke"} =>
                 /\ r.organization \in Organization
                 /\ r.account \in Account \cup {None}
                 /\ r.revision \in Nat
           /\ r.op = "exchange_secret" => r.credential \in Credential \cup {None}
  <1>1. CASE r \in CreateRequest
    BY <1>1 DEF CreateRequest, CommandOf, Command, Operation
  <1>2. CASE r \in RotateRequest
    BY <1>2 DEF RotateRequest, CommandOf, Command, Operation
  <1>3. CASE r \in RevokeRequest
    BY <1>3 DEF RevokeRequest, CommandOf, Command, Operation
  <1>4. CASE r \in ExchangeRequest
    BY <1>4 DEF ExchangeRequest, CommandOf, Command, Operation
  <1> QED
    BY <1>1, <1>2, <1>3, <1>4, RequestAssumption

(* claim_command's second statement gives one of the answers.               *)
LEMMA ClaimOutcomeType ==
    ASSUME StorageTypeOK, NEW r \in Request
    PROVE  ClaimOutcome(r) \in Answer
  <1>1. commands[CommandOf(r)] \in CommandRow
    BY RequestFields DEF StorageTypeOK
  <1> QED
    BY <1>1 DEF ClaimOutcome, CommandRow, Unfinished, Answer

LEMMA TypeInit == Init => TypeInv
  BY ConfigAssumption DEF Init, StorageInit, HandlersInit, TypeInv, TypeOK, ControlOK,
     StorageTypeOK, HandlersTypeOK, CommandRow, AccountRow, CredentialRow, LimitRow,
     NoCommand, NoAccount, NoCredential, NoLimit, Frame, NoFrame, Step, Answer

-----------------------------------------------------------------------------
(* How the shared steps keep the types.                                     *)

ControlType ==
    /\ pc \in [Handler -> Step]
    /\ req \in [Handler -> Request \cup {None}]
    /\ frame \in [Handler -> Frame]
    /\ ControlOK

LEMMA RespondType ==
    ASSUME ControlType, NEW h \in Handler, pc[h] # "idle",
           NEW x \in Answer, Respond(h, x)
    PROVE  ControlType'
  BY DEF ControlType, ControlOK, Respond, Goto, Frame, NoFrame, Step

LEMMA RejectType ==
    ASSUME TypeInv, NEW h \in Handler, pc[h] # "idle",
           NEW x \in ErrorCode, Reject(h, x)
    PROVE  TypeInv'
  <1>1. ControlType'
    BY DEF TypeInv, TypeOK, HandlersTypeOK, ControlType, ControlOK,
       Reject, Goto, Frame, NoFrame, Step, Answer
  <1>2. UNCHANGED <<clock, tables, performed>>
    BY DEF Reject
  <1> QED
    BY <1>1, <1>2 DEF TypeInv, TypeOK, HandlersTypeOK, StorageTypeOK, ControlType, tables

LEMMA LeaveType ==
    ASSUME ControlType, NEW h \in Handler, Leave(h)
    PROVE  ControlType'
  BY DEF ControlType, ControlOK, Leave, Goto, Frame, NoFrame, Step, Answer

LEMMA CommandsType ==
    ASSUME StorageTypeOK, NEW r \in Request, NEW t \in Nat, NEW x \in ErrorCode,
           Prune \/ InsertCommand(r) \/ CompleteSuccess(r, t)
              \/ CompleteError(r, x) \/ MarkIssuing(r)
    PROVE  commands' \in [Command -> CommandRow]
  <1>1. CommandOf(r) \in Command /\ clock \in Nat
    BY RequestFields DEF StorageTypeOK
  <1>2. CASE Prune
    BY <1>2 DEF Prune, StorageTypeOK, CommandRow, NoCommand, Unfinished
  <1>3. CASE InsertCommand(r)
    BY <1>1, <1>3 DEF InsertCommand, StorageTypeOK, CommandRow, Unfinished
  <1>4. CASE CompleteSuccess(r, t)
    BY <1>1, <1>4 DEF CompleteSuccess, StorageTypeOK, CommandRow, Unfinished
  <1>5. CASE CompleteError(r, x)
    BY <1>1, <1>5 DEF CompleteError, StorageTypeOK, CommandRow, Unfinished
  <1>6. CASE MarkIssuing(r)
    BY <1>1, <1>6 DEF MarkIssuing, StorageTypeOK, CommandRow, Unfinished
  <1> QED
    BY <1>2, <1>3, <1>4, <1>5, <1>6

LEMMA PerformType ==
    ASSUME HandlersTypeOK, NEW r \in Request, NEW t \in Nat, Perform(r, t)
    PROVE  performed' \in [Command -> [times: Nat, at: Nat, current: BOOLEAN]]
  <1> DEFINE k == CommandOf(r)
             new == [times |-> performed[k].times + 1, at |-> t, current |-> TRUE]
  <1>1. k \in Command
    BY RequestFields
  <1>2. performed[k].times \in Nat
    BY <1>1 DEF HandlersTypeOK
  <1>3. new \in [times: Nat, at: Nat, current: BOOLEAN]
    BY <1>2
  <1>4. performed' = [performed EXCEPT ![k] = new]
    BY DEF Perform
  <1> QED
    BY <1>1, <1>3, <1>4 DEF HandlersTypeOK

-----------------------------------------------------------------------------
(* Each step keeps the types.                                               *)

PerformedType == performed \in [Command -> [times: Nat, at: Nat, current: BOOLEAN]]

LEMMA TypeInvParts == TypeInv <=> StorageTypeOK /\ ControlType /\ PerformedType
  BY DEF TypeInv, TypeOK, HandlersTypeOK, ControlType, PerformedType

LEMMA TypeInvPartsNext ==
    TypeInv' <=> StorageTypeOK' /\ ControlType' /\ PerformedType'
  BY DEF TypeInv, TypeOK, HandlersTypeOK, ControlType, PerformedType

(* A step that leaves the tables alone.                                     *)
LEMMA TablesUnchanged ==
    ASSUME TypeInv, UNCHANGED <<clock, tables, performed>>, ControlType'
    PROVE  TypeInv'
  BY TypeInvParts, TypeInvPartsNext DEF StorageTypeOK, PerformedType, tables

LEMMA AcceptTypes ==
    ASSUME TypeInv, NEW h \in Handler, NEW r \in Request, Accept(h, r)
    PROVE  TypeInv'
  <1> USE TypeInvParts
  <1>1. ControlType'
    BY DEF Accept, Goto, ControlType, ControlOK, Step
  <1>2. commands' \in [Command -> CommandRow]
    <2>1. PICK x \in ErrorCode : TRUE
      BY DEF ErrorCode
    <2> QED
      BY <2>1, CommandsType DEF Accept
  <1> QED
    BY <1>1, <1>2, TypeInvPartsNext DEF Accept, StorageTypeOK, PerformedType

LEMMA SharedTypes ==
    ASSUME TypeInv, NEW h \in Handler,
           \/ Reserve(h) \/ AlreadyReserved(h) \/ Find(h)
           \/ Record(h) \/ Return(h) \/ Fail(h)
    PROVE  TypeInv'
  <1> USE TypeInvParts
  <1>2. CASE Reserve(h)
    <2>1. req[h] \in Request /\ clock \in Nat
      BY <1>2 DEF Reserve, ControlType, ControlOK, StorageTypeOK
    <2>2. ControlType'
      <3>1. FirstStep(req[h].op) \in Step /\ req[h].op \in Operation
        BY <2>1, RequestFields DEF FirstStep, Step
      <3>2. frame' \in [Handler -> Frame]
        BY <1>2, <2>1 DEF Reserve, ControlType, Frame
      <3>3. pc' \in [Handler -> Step] /\ req' = req
        BY <1>2, <3>1 DEF Reserve, Goto, ControlType
      <3>4. ControlOK'
        BY <1>2, <2>1, <3>1, <3>3
        DEF Reserve, Goto, ControlType, ControlOK, FirstStep, Operation, Frame
      <3> QED
        BY <3>2, <3>3, <3>4 DEF ControlType
    <2>3. commands' \in [Command -> CommandRow]
      <3>1. PICK x \in ErrorCode : TRUE
        BY DEF ErrorCode
      <3> QED
        BY <1>2, <2>1, <3>1, CommandsType DEF Reserve
    <2>4. PerformedType'
      <3> DEFINE k == CommandOf(req[h])
                 new == [performed[k] EXCEPT !.current = FALSE]
      <3>1. k \in Command
        BY <2>1, RequestFields
      <3>2. new \in [times: Nat, at: Nat, current: BOOLEAN]
        BY <3>1 DEF PerformedType
      <3>3. performed' = [performed EXCEPT ![k] = new]
        BY <1>2 DEF Reserve
      <3> QED
        BY <3>1, <3>2, <3>3 DEF PerformedType
    <2> QED
      BY <1>2, <2>2, <2>3, <2>4, TypeInvPartsNext DEF Reserve, StorageTypeOK
  <1>3. CASE AlreadyReserved(h)
    <2>1. ControlType'
      BY <1>3 DEF AlreadyReserved, Goto, ControlType, ControlOK, Step
    <2> QED
      BY <1>3, <2>1, TablesUnchanged DEF AlreadyReserved
  <1>4. CASE Find(h)
    <2>1. req[h] \in Request
      BY <1>4 DEF Find, ControlType, ControlOK
    <2>2. ControlType'
      BY <1>4, <2>1, ClaimOutcomeType, RespondType DEF Find
    <2> QED
      BY <1>4, <2>2, TablesUnchanged DEF Find
  <1>5. CASE Record(h)
    <2>1. req[h] \in Request /\ frame[h].answer \in ErrorCode
      BY <1>5 DEF Record, ControlType, ControlOK
    <2>2. ControlType'
      BY <1>5, <2>1, RespondType DEF Record, Answer
    <2>3. commands' \in [Command -> CommandRow]
      BY <1>5, <2>1, CommandsType DEF Record
    <2> QED
      BY <1>5, <2>2, <2>3, TypeInvPartsNext DEF Record, StorageTypeOK, PerformedType
  <1>6. CASE Return(h)
    BY <1>6, LeaveType, TablesUnchanged DEF Return
  <1>7. CASE Fail(h)
    BY <1>7, LeaveType, TablesUnchanged DEF Fail
  <1> QED
    BY <1>2, <1>3, <1>4, <1>5, <1>6, <1>7

LEMMA ManagementTypes ==
    ASSUME TypeInv, NEW h \in Handler, ManagementLock(h) \/ ManagementStep(h)
    PROVE  TypeInv'
  <1> USE TypeInvParts
  <1>0. clock \in Nat
    BY DEF StorageTypeOK
  <1>1. ASSUME NEW s \in Subject, EnsureIdentity(h, s)
        PROVE  TypeInv'
    <2> DEFINE new == [frame[h] EXCEPT !.subject = s, !.now = clock]
    <2>0. new \in Frame
      BY <1>0, <1>1 DEF ControlType, Frame
    <2>1. ControlType'
      <3>1. frame' = [frame EXCEPT ![h] = new]
        BY <1>1 DEF EnsureIdentity
      <3> HIDE DEF new
      <3> QED
        BY <1>1, <2>0, <3>1 DEF EnsureIdentity, Goto, ControlType, ControlOK, Step
    <2> QED
      BY <1>1, <2>1, TablesUnchanged DEF EnsureIdentity
  <1>2. ASSUME NEW t \in Nat, CountAccounts(h, t)
        PROVE  TypeInv'
    <2>1. ControlType'
      BY <1>2 DEF CountAccounts, Goto, ControlType, ControlOK, Step, Frame
    <2> QED
      BY <1>2, <2>1, TablesUnchanged DEF CountAccounts
  <1>3. ASSUME NEW a \in Account, NEW c \in Credential, CreateAccount(h, a, c)
        PROVE  TypeInv'
    <2>1. req[h] \in Request /\ req[h].op = "create" /\ frame[h] \in Frame
      BY <1>3 DEF CreateAccount, ControlType, ControlOK
    <2>2. /\ frame[h].begun \in Nat /\ frame[h].now \in Nat
          /\ frame[h].subject \in Subject \cup {None}
      BY <2>1 DEF Frame
    <2>3. ControlType'
      BY <1>3, RespondType DEF CreateAccount, Answer
    <2>4. commands' \in [Command -> CommandRow]
      <3>1. PICK x \in ErrorCode : TRUE
        BY DEF ErrorCode
      <3> QED
        BY <1>3, <2>1, <2>2, <3>1, CommandsType DEF CreateAccount
    <2>5. accounts' \in [Account -> AccountRow]
      <3>1. req[h].organization \in Organization /\ NameKey[req[h].name] \in Name
        BY <2>1, RequestFields, RequestAssumption
      <3> QED
        BY <1>3, <2>2, <3>1 DEF CreateAccount, InsertAccount, StorageTypeOK, AccountRow
    <2>6. credentials' \in [Credential -> CredentialRow]
      BY <1>3, <2>2, ConfigAssumption
      DEF CreateAccount, NewCredential, StorageTypeOK, CredentialRow
    <2>7. PerformedType'
      BY <1>3, <2>1, <2>2, PerformType
      DEF CreateAccount, PerformedType, TypeInv, TypeOK
    <2> QED
      BY <1>3, <2>3, <2>4, <2>5, <2>6, <2>7, TypeInvPartsNext
      DEF CreateAccount, StorageTypeOK
  <1>4. ASSUME NEW t \in Nat, LockToRotate(h, t)
        PROVE  TypeInv'
    <2>1. req[h] \in Request /\ req[h].account \in Account
      BY <1>4, RequestFields DEF LockToRotate, ControlType, ControlOK, Found
    <2>2. ControlType'
      BY <1>4, <2>1 DEF LockToRotate, Goto, ControlType, ControlOK, Step, Frame
    <2> QED
      BY <1>4, <2>2, TablesUnchanged DEF LockToRotate
  <1>5. ASSUME NEW c \in Credential, RotateAccount(h, c)
        PROVE  TypeInv'
    <2> DEFINE a == req[h].account
    <2>1. req[h] \in Request /\ a \in Account /\ frame[h] \in Frame
      BY <1>5 DEF RotateAccount, ControlType, ControlOK
    <2>2. frame[h].begun \in Nat /\ frame[h].now \in Nat
      BY <2>1 DEF Frame
    <2>3. ControlType'
      BY <1>5, RespondType DEF RotateAccount, Answer
    <2>4. commands' \in [Command -> CommandRow]
      <3>1. PICK x \in ErrorCode : TRUE
        BY DEF ErrorCode
      <3> QED
        BY <1>5, <2>1, <2>2, <3>1, CommandsType DEF RotateAccount
    <2>5. accounts' \in [Account -> AccountRow]
      BY <1>5, <2>1, <2>2 DEF RotateAccount, RotateAccountRow, StorageTypeOK, AccountRow
    <2>6. credentials' \in [Credential -> CredentialRow]
      <3>1. NewCredential(a, frame[h].now, frame[h].begun) \in CredentialRow
        BY <2>1, <2>2, ConfigAssumption DEF NewCredential, CredentialRow
      <3>2. ASSUME NEW row \in CredentialRow
            PROVE  Superseded(row, frame[h].now) \in CredentialRow
        BY <2>2, ConfigAssumption DEF Superseded, Least, CredentialRow
      <3> QED
        BY <1>5, <3>1, <3>2 DEF RotateAccount, RotateCredentials, StorageTypeOK
    <2>7. PerformedType'
      BY <1>5, <2>1, <2>2, PerformType
      DEF RotateAccount, PerformedType, TypeInv, TypeOK
    <2> QED
      BY <1>5, <2>3, <2>4, <2>5, <2>6, <2>7, TypeInvPartsNext
      DEF RotateAccount, StorageTypeOK
  <1>6. CASE RotationRefused(h)
    <2>1. ControlType'
      BY <1>6, RespondType DEF RotationRefused, Answer
    <2> QED
      BY <1>6, <2>1, TablesUnchanged DEF RotationRefused
  <1>7. ASSUME NEW t \in Nat, LockToRevoke(h, t)
        PROVE  TypeInv'
    <2>1. req[h] \in Request /\ req[h].account \in Account
      BY <1>7, RequestFields DEF LockToRevoke, ControlType, ControlOK, Found
    <2> DEFINE new == [frame[h] EXCEPT !.begun = t, !.now = clock]
    <2>0. new \in Frame
      BY <1>0, <1>7 DEF ControlType, Frame
    <2>2. ControlType'
      <3>1. frame' = [frame EXCEPT ![h] = new]
        BY <1>7 DEF LockToRevoke
      <3> HIDE DEF new
      <3> QED
        BY <1>7, <2>0, <2>1, <3>1 DEF LockToRevoke, Goto, ControlType, ControlOK, Step
    <2> QED
      BY <1>7, <2>2, TablesUnchanged DEF LockToRevoke
  <1>8. CASE RevokeAccount(h)
    <2> DEFINE a == req[h].account
    <2>1. req[h] \in Request /\ a \in Account /\ frame[h] \in Frame
      BY <1>8 DEF RevokeAccount, ControlType, ControlOK
    <2>2. frame[h].begun \in Nat /\ frame[h].now \in Nat
      BY <2>1 DEF Frame
    <2>3. ControlType'
      BY <1>8, RespondType DEF RevokeAccount, Answer
    <2>4. commands' \in [Command -> CommandRow]
      <3>1. PICK x \in ErrorCode : TRUE
        BY DEF ErrorCode
      <3> QED
        BY <1>8, <2>1, <2>2, <3>1, CommandsType DEF RevokeAccount
    <2>5. accounts' \in [Account -> AccountRow]
      BY <1>8, <2>1, <2>2 DEF RevokeAccount, RevokeAccountRow, StorageTypeOK, AccountRow
    <2>6. credentials' \in [Credential -> CredentialRow]
      <3>1. ASSUME NEW row \in CredentialRow
            PROVE  RevokedRow(row, frame[h].now) \in CredentialRow
        BY <2>2 DEF RevokedRow, Least, Greatest, CredentialRow
      <3> QED
        BY <1>8, <3>1 DEF RevokeAccount, RevokeCredentials, StorageTypeOK
    <2>7. PerformedType'
      BY <1>8, <2>1, <2>2, PerformType
      DEF RevokeAccount, PerformedType, TypeInv, TypeOK
    <2> QED
      BY <1>8, <2>3, <2>4, <2>5, <2>6, <2>7, TypeInvPartsNext
      DEF RevokeAccount, StorageTypeOK
  <1>9. CASE \/ IdentityRejected(h) \/ TooManyAccounts(h) \/ NameConflict(h)
             \/ SubjectConflict(h) \/ NotFound(h) \/ AlreadyRevoked(h)
             \/ RevisionConflict(h)
    BY <1>9, RejectType
    DEF IdentityRejected, TooManyAccounts, NameConflict, SubjectConflict, NotFound,
        AlreadyRevoked, RevisionConflict, ErrorCode
  <1>10. frame[h].now \in Nat
    BY DEF ControlType, Frame
  <1>11. \A t \in frame[h].now..clock : t \in Nat
    BY <1>0, <1>10
  <1> QED
    BY <1>1, <1>2, <1>3, <1>4, <1>5, <1>6, <1>7, <1>8, <1>9, <1>11
    DEF ManagementLock, ManagementStep

LEMMA AuthenticationTypes ==
    ASSUME TypeInv, NEW h \in Handler, AuthenticationLock(h) \/ AuthenticationStep(h)
    PROVE  TypeInv'
  <1> USE TypeInvParts
  <1>0. clock \in Nat /\ frame[h] \in Frame /\ frame[h].now \in Nat
    BY DEF StorageTypeOK, ControlType, Frame
  <1>1. CASE TakeRateSlot(h) \/ RateLimited(h)
    <2>1. ControlType'
      BY <1>1 DEF TakeRateSlot, RateLimited, Goto, ControlType, ControlOK, Step, Frame,
         NoFrame, Answer, ErrorCode
    <2>2. ASSUME NEW w \in Caller
          PROVE  AfterSlot(w, frame[h].now) \in LimitRow
      <3> DEFINE now == frame[h].now
      <3>1. LimitAt(w, now) \in LimitRow
        BY <1>0, <2>2 DEF LimitAt, LimitRow, StorageTypeOK
      <3>2. Window(LimitAt(w, now), now) \in LimitRow
        BY <1>0, <3>1 DEF Window, LimitRow
      <3>3. [windowStartedAt |-> Window(LimitAt(w, now), now).windowStartedAt,
             attempts |-> LimitAt(w, now).attempts,
             lockedUntil |-> now + ExchangeLockout] \in LimitRow
        BY <1>0, <3>1, <3>2, ConfigAssumption DEF LimitRow
      <3>4. [windowStartedAt |-> Window(LimitAt(w, now), now).windowStartedAt,
             attempts |-> Window(LimitAt(w, now), now).attempts + 1,
             lockedUntil |-> 0] \in LimitRow
        BY <3>2 DEF LimitRow
      <3> QED
        BY <3>1, <3>3, <3>4 DEF AfterSlot
    <2>3. limits' \in [Caller -> LimitRow]
      BY <1>1, <2>2 DEF TakeRateSlot, RateLimited, ReserveRateSlot, StorageTypeOK
    <2> QED
      BY <1>1, <2>1, <2>3, TypeInvPartsNext
      DEF TakeRateSlot, RateLimited, StorageTypeOK, PerformedType
  <1>2. CASE VerifySecret(h)
    <2>1. req[h] \in Request /\ req[h].credential \in Credential
      BY <1>2, RequestFields DEF VerifySecret, SecretAccepted, ControlType, ControlOK
    <2>2. credentials[req[h].credential].account \in Account
      BY <1>2, <2>1
      DEF VerifySecret, SecretAccepted, Usable, StorageTypeOK, CredentialRow
    <2>3. ControlType'
      BY <1>2, <2>1, <2>2 DEF VerifySecret, Goto, ControlType, ControlOK, Step, Frame
    <2> QED
      BY <1>2, <2>3, TablesUnchanged DEF VerifySecret
  <1>3. CASE SubjectActive(h)
    <2>1. ControlType'
      BY <1>0, <1>3 DEF SubjectActive, Goto, ControlType, ControlOK, Step, Frame
    <2> QED
      BY <1>3, <2>1, TablesUnchanged DEF SubjectActive
  <1>4. CASE RecheckCredential(h)
    <2>1. credentials[req[h].credential].validUntil \in Nat
      BY <1>4 DEF RecheckCredential, ControlType, ControlOK, StorageTypeOK, CredentialRow
    <2> DEFINE new == [frame[h] EXCEPT !.until = credentials[req[h].credential].validUntil]
    <2>0. new \in Frame /\ new.account = frame[h].account
      BY <1>0, <2>1 DEF Frame
    <2>2. ControlType'
      <3>1. frame' = [frame EXCEPT ![h] = new]
        BY <1>4 DEF RecheckCredential
      <3> HIDE DEF new
      <3> QED
        BY <1>4, <2>0, <3>1 DEF RecheckCredential, Goto, ControlType, ControlOK, Step
    <2> QED
      BY <1>4, <2>2, TablesUnchanged DEF RecheckCredential
  <1>5. CASE Admit(h)
    <2>1. ControlType'
      BY <1>5 DEF Admit, Goto, ControlType, ControlOK, Step
    <2>2. commands' \in [Command -> CommandRow]
      <3>1. PICK x \in ErrorCode : TRUE
        BY DEF ErrorCode
      <3>2. req[h] \in Request
        BY <1>5 DEF Admit, ControlType, ControlOK
      <3> QED
        BY <1>0, <1>5, <3>1, <3>2, CommandsType DEF Admit
    <2> QED
      BY <1>5, <2>1, <2>2, TypeInvPartsNext DEF Admit, StorageTypeOK, PerformedType
  <1>6. CASE BoundExpiry(h)
    <2>1. ExpiryAt(h, clock) \in Nat
      BY <1>0, ConfigAssumption DEF ExpiryAt, Least, Frame
    <2> DEFINE new == [frame[h] EXCEPT !.now = clock, !.expires = ExpiryAt(h, clock)]
    <2>0. new \in Frame /\ new.account = frame[h].account
      BY <1>0, <2>1 DEF Frame
    <2>2. ControlType'
      <3>1. frame' = [frame EXCEPT ![h] = new]
        BY <1>6 DEF BoundExpiry
      <3> HIDE DEF new
      <3> QED
        BY <1>6, <2>0, <3>1 DEF BoundExpiry, Goto, ControlType, ControlOK, Step
    <2> QED
      BY <1>6, <2>2, TablesUnchanged DEF BoundExpiry
  <1>7. CASE Issue(h)
    <2>1. ControlType'
      BY <1>0, <1>7 DEF Issue, Goto, ControlType, ControlOK, Step, Frame
    <2>2. PerformedType'
      BY <1>0, <1>7, PerformType
      DEF Issue, PerformedType, TypeInv, TypeOK, ControlType, ControlOK
    <2> QED
      BY <1>7, <2>1, <2>2, TypeInvPartsNext DEF Issue, StorageTypeOK, tables
  <1>8. CASE IssueAmbiguous(h)
    <2>1. ControlType'
      BY <1>8, RespondType DEF IssueAmbiguous, Answer
    <2>2. PerformedType'
      BY <1>0, <1>8, PerformType
      DEF IssueAmbiguous, PerformedType, TypeInv, TypeOK, ControlType, ControlOK
    <2> QED
      BY <1>8, <2>1, <2>2, TypeInvPartsNext DEF IssueAmbiguous, StorageTypeOK, tables
  <1>9. ASSUME NEW t \in Nat, StoreReceipt(h, t)
        PROVE  TypeInv'
    <2>1. ControlType'
      BY <1>9, RespondType DEF StoreReceipt, Answer
    <2>2. commands' \in [Command -> CommandRow]
      <3>1. PICK x \in ErrorCode : TRUE
        BY DEF ErrorCode
      <3>2. req[h] \in Request
        BY <1>9 DEF StoreReceipt, ControlType, ControlOK
      <3> QED
        BY <1>9, <3>1, <3>2, CommandsType DEF StoreReceipt
    <2> QED
      BY <1>9, <2>1, <2>2, TypeInvPartsNext DEF StoreReceipt, StorageTypeOK, PerformedType
  <1>10. CASE \/ InvalidSecret(h) \/ SubjectDisabled(h) \/ NoLongerValid(h)
              \/ ExpiredMeanwhile(h) \/ IssueDisabled(h)
    BY <1>10, RejectType
    DEF InvalidSecret, SubjectDisabled, NoLongerValid, ExpiredMeanwhile, IssueDisabled,
        ErrorCode
  <1>11. \A t \in frame[h].now..clock : t \in Nat
    BY <1>0
  <1> QED
    BY <1>1, <1>2, <1>3, <1>4, <1>5, <1>6, <1>7, <1>8, <1>9, <1>10, <1>11
    DEF AuthenticationLock, AuthenticationStep

LEMMA TypeStep == TypeInv /\ [Next]_vars => TypeInv'
  <1> SUFFICES ASSUME TypeInv, [Next]_vars
               PROVE  TypeInv'
    OBVIOUS
  <1>1. CASE Tick
    BY <1>1 DEF Tick, TypeInv, TypeOK, StorageTypeOK, HandlersTypeOK, ControlOK,
       tables, control
  <1>2. CASE UNCHANGED vars
    BY <1>2 DEF vars, TypeInv, TypeOK, StorageTypeOK, HandlersTypeOK, ControlOK,
       tables, control
  <1>3. ASSUME NEW h \in Handler, NEW r \in Request, Accept(h, r)
        PROVE  TypeInv'
    BY <1>3, AcceptTypes
  <1>4. ASSUME NEW h \in Handler, WaitStep(h)
        PROVE  TypeInv'
    BY <1>4, ManagementTypes, AuthenticationTypes DEF WaitStep
  <1>5. ASSUME NEW h \in Handler, PlainStep(h) \/ Fail(h)
        PROVE  TypeInv'
    BY <1>5, SharedTypes, ManagementTypes, AuthenticationTypes DEF PlainStep
  <1> QED
    BY <1>1, <1>2, <1>3, <1>4, <1>5 DEF Next

(* Every variable keeps its type, whatever the interleaving.                *)
THEOREM TypeCorrect == Spec => []TypeOK
  <1>1. TypeInv => TypeOK
    BY DEF TypeInv
  <1> QED
    BY TypeInit, TypeStep, <1>1, PTL DEF Spec

-----------------------------------------------------------------------------
(* Ownership of commands.                                                   *)

Working(h) == pc[h] \notin {"idle", "reserve", "find", "answer"}

(* The row of the command h works on.                                       *)
RowFits(h) ==
    LET row == commands[CommandOf(req[h])] IN
    /\ row.intent = req[h]
    /\ pc[h] \notin {"record", "bound", "issue", "receipt"} => row.status = "reserved"
    /\ pc[h] \in {"bound", "issue", "receipt"} => row.status = "issuing"
    /\ pc[h] = "record" => row.status \in Unfinished

(* prune cannot touch a row that is not completed.                          *)
OpenRows ==
    \A k \in Command : commands[k].status \in Unfinished => commands[k].completedAt = 0

OwnerInv ==
    /\ OpenRows
    /\ \A h \in Handler : Working(h) =>
          /\ RowFits(h)
          /\ \A g \in Handler :
                Working(g) /\ CommandOf(req[g]) = CommandOf(req[h]) => g = h

LEMMA OwnerInit == Init => OwnerInv
  BY DEF Init, StorageInit, HandlersInit, OwnerInv, OpenRows, Working, NoCommand,
     Unfinished

LEMMA OwnerImpliesSole == OwnerInv => SoleOwner
  BY DEF OwnerInv, Working, RowFits, SoleOwner, Owns

(* A step of a handler that works on a command, and touches no other row.   *)
LEMMA OwnerStep ==
    ASSUME TypeInv, OwnerInv, NEW h \in Handler, Working(h),
           \A g \in Handler : g # h => pc'[g] = pc[g] /\ req'[g] = req[g],
           Working(h)' => req'[h] = req[h] /\ RowFits(h)',
           \A k \in Command : k # CommandOf(req[h]) => commands'[k] = commands[k],
           commands'[CommandOf(req[h])].status \in Unfinished =>
              commands'[CommandOf(req[h])].completedAt = 0
    PROVE  OwnerInv'
  <1>1. OpenRows'
    BY DEF OwnerInv, OpenRows
  <1>2. ASSUME NEW g \in Handler, g # h, Working(g)'
        PROVE  /\ Working(g) /\ req'[g] = req[g] /\ RowFits(g)'
               /\ CommandOf(req[g]) # CommandOf(req[h])
    <2>1. Working(g) /\ req'[g] = req[g] /\ pc'[g] = pc[g]
      BY <1>2 DEF Working
    <2>2. CommandOf(req[g]) # CommandOf(req[h]) /\ RowFits(g)
      BY <1>2, <2>1 DEF OwnerInv
    <2>3. CommandOf(req[g]) \in Command
      BY <2>1, RequestFields DEF TypeInv, ControlOK, Working
    <2> QED
      BY <2>1, <2>2, <2>3 DEF RowFits, CommandOf
  <1> QED
    BY <1>1, <1>2 DEF OwnerInv, CommandOf

(* The same when no row changes.                                            *)
LEMMA OwnerQuietStep ==
    ASSUME TypeInv, OwnerInv, NEW h \in Handler, Working(h), UNCHANGED <<req, commands>>,
           \A g \in Handler : g # h => pc'[g] = pc[g],
           Working(h)' => RowFits(h)'
    PROVE  OwnerInv'
  <1>1. CommandOf(req[h]) \in Command
    BY RequestFields DEF TypeInv, ControlOK, Working
  <1> QED
    BY <1>1, OwnerStep DEF OwnerInv, OpenRows

(* A handler that works on no command before or after its step.             *)
LEMMA OwnerIdleStep ==
    ASSUME TypeInv, OwnerInv, NEW h \in Handler, ~Working(h)', commands' = commands,
           \A g \in Handler : g # h => pc'[g] = pc[g] /\ req'[g] = req[g]
    PROVE  OwnerInv'
  <1>1. ASSUME NEW g \in Handler, Working(g)'
        PROVE  g # h /\ Working(g) /\ req'[g] = req[g] /\ RowFits(g)'
    BY <1>1 DEF OwnerInv, Working, RowFits, CommandOf
  <1> QED
    BY <1>1 DEF OwnerInv, OpenRows, CommandOf

LEMMA OwnerAccept ==
    ASSUME TypeInv, OwnerInv, NEW h \in Handler, NEW r \in Request, Accept(h, r)
    PROVE  OwnerInv'
  <1>1. ~Working(h)' /\ \A g \in Handler : g # h => pc'[g] = pc[g] /\ req'[g] = req[g]
    BY DEF Accept, Goto, Working, TypeInv, TypeOK, HandlersTypeOK
  <1>2. \A k \in Command : \/ commands'[k] = commands[k]
                           \/ commands'[k] = NoCommand /\ commands[k].completedAt # 0
    BY DEF Accept, Prune
  <1>3. OpenRows'
    BY <1>2 DEF OwnerInv, OpenRows, NoCommand, Unfinished
  <1>4. ASSUME NEW g \in Handler, Working(g)'
        PROVE  g # h /\ Working(g) /\ req'[g] = req[g] /\ RowFits(g)'
    <2>1. g # h /\ Working(g) /\ req'[g] = req[g] /\ pc'[g] = pc[g]
      BY <1>1, <1>4 DEF Working
    <2>2. CommandOf(req[g]) \in Command
      BY <2>1, RequestFields DEF TypeInv, ControlOK, Working
    <2>3. RowFits(g)
      BY <2>1 DEF OwnerInv
    <2>4. commands[CommandOf(req[g])].status \in Unfinished
      BY <2>3 DEF RowFits, Unfinished
    <2>5. commands'[CommandOf(req[g])] = commands[CommandOf(req[g])]
      BY <1>2, <2>2, <2>4 DEF OwnerInv, OpenRows
    <2> QED
      BY <2>1, <2>3, <2>5 DEF RowFits, CommandOf
  <1> QED
    BY <1>3, <1>4 DEF OwnerInv, CommandOf

LEMMA OwnerReserve ==
    ASSUME TypeInv, OwnerInv, NEW h \in Handler, Reserve(h)
    PROVE  OwnerInv'
  <1> DEFINE k == CommandOf(req[h])
  <1>1. req[h] \in Request /\ k \in Command
    BY RequestFields DEF Reserve, TypeInv, ControlOK
  <1>2. /\ commands[k].status = "absent"
        /\ commands'[k] = [status |-> "reserved", intent |-> req[h], error |-> "none",
                           completedAt |-> 0]
        /\ \A j \in Command : j # k => commands'[j] = commands[j]
    BY <1>1 DEF Reserve, InsertCommand, TypeInv, TypeOK, StorageTypeOK
  <1>3. /\ req' = req /\ pc'[h] \in {"ensure", "rate", "lock"}
        /\ \A g \in Handler : g # h => pc'[g] = pc[g]
    BY DEF Reserve, Goto, FirstStep, TypeInv, TypeOK, HandlersTypeOK
  <1>4. ASSUME NEW g \in Handler, g # h, Working(g)'
        PROVE  Working(g) /\ CommandOf(req[g]) # k /\ RowFits(g)'
    <2>1. Working(g) /\ pc'[g] = pc[g]
      BY <1>3, <1>4 DEF Working
    <2>2. RowFits(g) /\ CommandOf(req[g]) \in Command
      BY <2>1, RequestFields DEF OwnerInv, TypeInv, ControlOK, Working
    <2>3. CommandOf(req[g]) # k
      BY <1>2, <2>2 DEF RowFits, Unfinished
    <2> QED
      BY <1>2, <1>3, <2>1, <2>2, <2>3 DEF RowFits
  <1>5. RowFits(h)'
    BY <1>2, <1>3 DEF RowFits
  <1>6. OpenRows'
    BY <1>2 DEF OwnerInv, OpenRows
  <1> QED
    BY <1>3, <1>4, <1>5, <1>6 DEF OwnerInv

LEMMA OwnerShared ==
    ASSUME TypeInv, OwnerInv, NEW h \in Handler,
           AlreadyReserved(h) \/ Find(h) \/ Record(h) \/ Return(h) \/ Fail(h)
    PROVE  OwnerInv'
  <1> USE DEF TypeInv, TypeOK, HandlersTypeOK
  <1>1. CASE AlreadyReserved(h) \/ Find(h)
    BY <1>1, OwnerIdleStep DEF AlreadyReserved, Find, Respond, Goto, Working, tables
  <1>2. CASE Return(h) \/ Fail(h)
    BY <1>2, OwnerIdleStep DEF Return, Fail, Leave, Goto, Working, tables
  <1>3. CASE Record(h)
    <2>1. CommandOf(req[h]) \in Command /\ Working(h)
      BY <1>3, RequestFields DEF Record, ControlOK, Working
    <2>2. /\ ~Working(h)' /\ req' = req
          /\ \A g \in Handler : g # h => pc'[g] = pc[g]
      BY <1>3 DEF Record, Respond, Goto, Working
    <2>3. /\ commands'[CommandOf(req[h])].status = "completed_error"
          /\ \A k \in Command : k # CommandOf(req[h]) => commands'[k] = commands[k]
      BY <1>3, <2>1 DEF Record, CompleteError, StorageTypeOK
    <2> QED
      BY <2>1, <2>2, <2>3, OwnerStep DEF Unfinished
  <1> QED
    BY <1>1, <1>2, <1>3

(* A rejected call still owns its row until it is recorded.                 *)
LEMMA OwnerReject ==
    ASSUME TypeInv, OwnerInv, NEW h \in Handler, Working(h), NEW x, Reject(h, x)
    PROVE  OwnerInv'
  <1>1. /\ UNCHANGED <<req, commands>> /\ pc'[h] = "record"
        /\ \A g \in Handler : g # h => pc'[g] = pc[g]
    BY DEF Reject, Goto, tables, TypeInv, TypeOK, HandlersTypeOK
  <1>2. RowFits(h)'
    BY <1>1 DEF OwnerInv, RowFits, Unfinished
  <1> QED
    BY <1>1, <1>2, OwnerQuietStep

(* A transaction of h that ends with its success receipt.                   *)
LEMMA OwnerSuccess ==
    ASSUME TypeInv, OwnerInv, NEW h \in Handler, Working(h), NEW t,
           CompleteSuccess(req[h], t), Respond(h, "success")
    PROVE  OwnerInv'
  <1>1. CommandOf(req[h]) \in Command
    BY RequestFields DEF TypeInv, ControlOK, Working
  <1>2. /\ ~Working(h)' /\ req' = req
        /\ \A g \in Handler : g # h => pc'[g] = pc[g]
    BY DEF Respond, Goto, Working, TypeInv, TypeOK, HandlersTypeOK
  <1>3. /\ commands'[CommandOf(req[h])].status = "completed_success"
        /\ \A k \in Command : k # CommandOf(req[h]) => commands'[k] = commands[k]
    BY <1>1 DEF CompleteSuccess, TypeInv, TypeOK, StorageTypeOK
  <1> QED
    BY <1>2, <1>3, OwnerStep DEF Unfinished

LEMMA OwnerManagement ==
    ASSUME TypeInv, OwnerInv, NEW h \in Handler, ManagementLock(h) \/ ManagementStep(h)
    PROVE  OwnerInv'
  <1>1. CASE \/ \E s \in Subject : EnsureIdentity(h, s)
             \/ \E t \in frame[h].now..clock :
                   CountAccounts(h, t) \/ LockToRotate(h, t) \/ LockToRevoke(h, t)
             \/ RotationRefused(h)
    <2>1. /\ Working(h) /\ UNCHANGED <<req, commands>>
          /\ pc'[h] \in {"count", "insert", "rotate", "revoke", "answer"}
          /\ pc[h] \in {"ensure", "count", "lock", "rotate"}
          /\ \A g \in Handler : g # h => pc'[g] = pc[g]
      BY <1>1 DEF EnsureIdentity, CountAccounts, LockToRotate, LockToRevoke,
         RotationRefused, Respond, Goto, Working, tables, TypeInv, TypeOK, HandlersTypeOK
    <2>2. Working(h)' => RowFits(h)'
      BY <2>1 DEF OwnerInv, RowFits, Working
    <2> QED
      BY <2>1, <2>2, OwnerQuietStep
  <1>2. CASE \/ \E a \in Account, c \in Credential : CreateAccount(h, a, c)
             \/ \E c \in Credential : RotateAccount(h, c)
             \/ RevokeAccount(h)
    BY <1>2, OwnerSuccess DEF CreateAccount, RotateAccount, RevokeAccount, Working
  <1>3. CASE \/ IdentityRejected(h) \/ TooManyAccounts(h) \/ NameConflict(h)
             \/ SubjectConflict(h) \/ NotFound(h) \/ AlreadyRevoked(h)
             \/ RevisionConflict(h)
    BY <1>3, OwnerReject
    DEF IdentityRejected, TooManyAccounts, NameConflict, SubjectConflict, NotFound,
        AlreadyRevoked, RevisionConflict, Working
  <1> QED
    BY <1>1, <1>2, <1>3 DEF ManagementLock, ManagementStep

LEMMA OwnerAuthentication ==
    ASSUME TypeInv, OwnerInv, NEW h \in Handler,
           AuthenticationLock(h) \/ AuthenticationStep(h)
    PROVE  OwnerInv'
  <1> USE DEF TypeInv, TypeOK, HandlersTypeOK
  <1>1. CASE \/ TakeRateSlot(h) \/ RateLimited(h) \/ VerifySecret(h)
             \/ SubjectActive(h) \/ RecheckCredential(h) \/ BoundExpiry(h)
             \/ Issue(h) \/ IssueAmbiguous(h)
    <2>1. /\ Working(h) /\ UNCHANGED <<req, commands>>
          /\ \/ /\ pc[h] \in {"rate", "verify", "status", "recheck"}
                /\ pc'[h] \in {"verify", "status", "recheck", "admit", "record"}
             \/ /\ pc[h] \in {"bound", "issue"}
                /\ pc'[h] \in {"issue", "receipt", "answer"}
          /\ \A g \in Handler : g # h => pc'[g] = pc[g]
      BY <1>1 DEF TakeRateSlot, RateLimited, VerifySecret, SubjectActive,
         RecheckCredential, BoundExpiry, Issue, IssueAmbiguous, Respond, Goto,
         Working, tables
    <2>2. Working(h)' => RowFits(h)'
      BY <2>1 DEF OwnerInv, RowFits, Working, Unfinished
    <2> QED
      BY <2>1, <2>2, OwnerQuietStep
  <1>2. CASE Admit(h)
    <2> DEFINE k == CommandOf(req[h])
    <2>1. k \in Command /\ Working(h) /\ RowFits(h)
      BY <1>2, RequestFields DEF Admit, ControlOK, Working, OwnerInv
    <2>2. /\ req' = req /\ pc'[h] = "bound"
          /\ \A g \in Handler : g # h => pc'[g] = pc[g]
      BY <1>2 DEF Admit, Goto
    <2>3. /\ commands'[k].status = "issuing"
          /\ commands'[k].intent = commands[k].intent
          /\ commands'[k].completedAt = commands[k].completedAt
          /\ commands[k].status = "reserved"
          /\ \A j \in Command : j # k => commands'[j] = commands[j]
      BY <1>2, <2>1 DEF Admit, MarkIssuing, StorageTypeOK, CommandRow
    <2>4. RowFits(h)'
      BY <2>1, <2>2, <2>3 DEF RowFits
    <2>5. commands'[k].completedAt = 0
      BY <2>1, <2>3 DEF OwnerInv, OpenRows, Unfinished
    <2> QED
      BY <2>1, <2>2, <2>3, <2>4, <2>5, OwnerStep
  <1>3. CASE \E t \in frame[h].now..clock : StoreReceipt(h, t)
    BY <1>3, OwnerSuccess DEF StoreReceipt, Working
  <1>4. CASE \/ InvalidSecret(h) \/ SubjectDisabled(h) \/ NoLongerValid(h)
             \/ ExpiredMeanwhile(h) \/ IssueDisabled(h)
    BY <1>4, OwnerReject
    DEF InvalidSecret, SubjectDisabled, NoLongerValid, ExpiredMeanwhile, IssueDisabled,
        Working
  <1> QED
    BY <1>1, <1>2, <1>3, <1>4 DEF AuthenticationLock, AuthenticationStep

LEMMA OwnerNext == TypeInv /\ OwnerInv /\ [Next]_vars => OwnerInv'
  <1> SUFFICES ASSUME TypeInv, OwnerInv, [Next]_vars
               PROVE  OwnerInv'
    OBVIOUS
  <1>1. CASE Tick \/ UNCHANGED vars
    BY <1>1 DEF Tick, vars, tables, control, OwnerInv, OpenRows, Working, RowFits,
       CommandOf
  <1>2. ASSUME NEW h \in Handler, NEW r \in Request, Accept(h, r)
        PROVE  OwnerInv'
    BY <1>2, OwnerAccept
  <1>3. ASSUME NEW h \in Handler, WaitStep(h) \/ PlainStep(h) \/ Fail(h)
        PROVE  OwnerInv'
    BY <1>3, OwnerReserve, OwnerShared, OwnerManagement, OwnerAuthentication
    DEF WaitStep, PlainStep
  <1> QED
    BY <1>1, <1>2, <1>3 DEF Next

(* claim_command lets one call at a time through, and its row stays open and *)
(* its own until it is done: complete_success, complete_error and            *)
(* mark_exchange_issuing always find the row they expect.                    *)
THEOREM CommandsSolelyOwned == Spec => []SoleOwner
  BY TypeInit, TypeStep, OwnerInit, OwnerNext, OwnerImpliesSole, PTL DEF Spec

=============================================================================
