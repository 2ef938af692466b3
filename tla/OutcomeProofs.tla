--------------------------- MODULE OutcomeProofs ----------------------------
(***************************************************************************)
(* The limit of an organization, the truth of answers and receipts, what a  *)
(* summary reports and what a client gets that pages through a listing, for *)
(* every set of handlers, requests and ids.                                 *)
(***************************************************************************)
EXTENDS AccountProofs, LedgerProofs, Reads, Listing, FiniteSetTheorems, WellFoundedInduction

-----------------------------------------------------------------------------
(* The limit of an organization.                                            *)

(* A row that is not there belongs to no organization.                      *)
BlankRows ==
    \A a \in Account : accounts[a].status = "absent" => accounts[a].organization = None

(* There is a place left for the holder of the advisory lock, who is alone. *)
PlaceLeft ==
    \A h \in Handler : pc[h] = "insert" =>
        Cardinality(AccountsOf(req[h].organization)) < MaxAccounts

OneInserts ==
    \A g, h \in Handler :
        /\ pc[g] = "insert" /\ pc[h] = "insert"
        /\ req[g].organization = req[h].organization
        => g = h

OrganizationInv ==
    /\ BlankRows
    /\ \A o \in Organization : IsFiniteSet(AccountsOf(o))
    /\ OrganizationBounded
    /\ PlaceLeft
    /\ OneInserts

LEMMA OrganizationInit == Init => OrganizationInv
  <1> SUFFICES ASSUME Init PROVE OrganizationInv
    OBVIOUS
  <1>1. BlankRows /\ PlaceLeft /\ OneInserts
    BY DEF Init, StorageInit, HandlersInit, BlankRows, PlaceLeft, OneInserts, NoAccount
  <1>2. \A o \in Organization : AccountsOf(o) = {}
    BY RequestAssumption DEF Init, StorageInit, AccountsOf, NoAccount
  <1> QED
    BY <1>1, <1>2, FS_EmptySet, ConfigAssumption DEF OrganizationInv, OrganizationBounded

(* What the steps do to the identity of accounts.                           *)
IdentitiesKept ==
    \A a \in Account :
        /\ accounts'[a].organization = accounts[a].organization
        /\ accounts'[a].nameKey = accounts[a].nameKey
        /\ accounts'[a].status = "absent" <=> accounts[a].status = "absent"

Inserts(h, a) ==
    /\ pc[h] = "insert" /\ pc'[h] = "answer"
    /\ OthersStay(h)
    /\ accounts[a].status = "absent"
    /\ accounts'[a].status = "active"
    /\ accounts'[a].organization = req[h].organization
    /\ accounts'[a].nameKey = NameKey[req[h].name]
    /\ \A b \in Account : b # a => accounts'[b] = accounts[b]

LEMMA IdentityKinds ==
    ASSUME TypeInv, AccountInv, [Next]_vars
    PROVE  IdentitiesKept \/ \E h \in Handler, a \in Account : Inserts(h, a)
  <1>1. CASE UNCHANGED <<accounts, credentials>>
    BY <1>1 DEF IdentitiesKept
  <1>2. ASSUME NEW h \in Handler, NEW a \in Account, NEW c \in Credential,
               CreateAccount(h, a, c)
        PROVE  Inserts(h, a)
    <2>1. /\ accounts'[a].organization = req[h].organization
          /\ accounts'[a].nameKey = NameKey[req[h].name]
      BY <1>2 DEF CreateAccount, InsertAccount, TypeInv, TypeOK, StorageTypeOK
    <2> QED
      BY <1>2, <2>1, CreateChanges DEF Inserts, CreateAccount
  <1>3. ASSUME NEW h \in Handler, NEW c \in Credential, RotateAccount(h, c)
        PROVE  IdentitiesKept
    <2>1. req[h].account \in Account
      BY <1>3 DEF RotateAccount, TypeInv, ControlOK
    <2>2. accounts[req[h].account] \in AccountRow
      BY <2>1 DEF TypeInv, TypeOK, StorageTypeOK
    <2>3. accounts'[req[h].account].nameKey = accounts[req[h].account].nameKey
      BY <1>3, <2>1, <2>2
      DEF RotateAccount, RotateAccountRow, AccountRow, TypeInv, TypeOK, StorageTypeOK
    <2> QED
      BY <1>3, <2>1, <2>3, RotateChanges DEF IdentitiesKept
  <1>4. ASSUME NEW h \in Handler, RevokeAccount(h)
        PROVE  IdentitiesKept
    <2>1. req[h].account \in Account
      BY <1>4 DEF RevokeAccount, TypeInv, ControlOK
    <2>2. accounts[req[h].account] \in AccountRow
      BY <2>1 DEF TypeInv, TypeOK, StorageTypeOK
    <2>3. accounts'[req[h].account].nameKey = accounts[req[h].account].nameKey
      BY <1>4, <2>1, <2>2
      DEF RevokeAccount, RevokeAccountRow, AccountRow, TypeInv, TypeOK, StorageTypeOK
    <2> QED
      BY <1>4, <2>1, <2>3, RevokeChanges DEF IdentitiesKept
  <1> QED
    BY <1>1, <1>2, <1>3, <1>4, TableKinds

(* The way into the section that the advisory lock protects.                *)
Enters(h) ==
    /\ OrganizationFree(req[h].organization)
    /\ Cardinality(AccountsOf(req[h].organization)) < MaxAccounts
    /\ OthersStay(h)
    /\ UNCHANGED <<accounts, req>>
    /\ pc'[h] = "insert"

(* It also knows the time when it gets hold of an account to revoke it.     *)
StaysOut(h) ==
    /\ OthersStay(h)
    /\ pc'[h] # "insert"
    /\ pc'[h] = "revoke" => frame'[h].now = clock

LEMMA SharedStaysOut ==
    ASSUME TypeInv, NEW h \in Handler,
           \/ \E r \in Request : Accept(h, r)
           \/ Reserve(h) \/ AlreadyReserved(h) \/ Find(h) \/ Record(h)
           \/ Return(h) \/ Fail(h)
    PROVE  StaysOut(h)
  <1> USE DEF TypeInv, TypeOK, HandlersTypeOK
  <1>1. OthersStay(h)
    BY DEF Accept, Reserve, AlreadyReserved, Find, Record, Return, Fail, Respond, Leave,
       Goto, OthersStay
  <1>2. pc'[h] \notin {"insert", "revoke"}
    BY DEF Accept, Reserve, AlreadyReserved, Find, Record, Return, Fail, Respond, Leave,
       Goto, FirstStep
  <1> QED
    BY <1>1, <1>2 DEF StaysOut

LEMMA RejectStaysOut ==
    ASSUME TypeInv, NEW h \in Handler, NEW x, Reject(h, x)
    PROVE  StaysOut(h)
  BY DEF Reject, Goto, StaysOut, OthersStay, TypeInv, TypeOK, HandlersTypeOK

LEMMA ManagementStaysOut ==
    ASSUME TypeInv, NEW h \in Handler, ManagementLock(h) \/ ManagementStep(h)
    PROVE  StaysOut(h) \/ Enters(h)
  <1> USE DEF TypeInv, TypeOK, HandlersTypeOK
  <1>1. ASSUME NEW t \in frame[h].now..clock, CountAccounts(h, t)
        PROVE  Enters(h)
    BY <1>1 DEF CountAccounts, Goto, Enters, OthersStay, tables
  <1>2. CASE \/ \E t \in frame[h].now..clock : LockToRotate(h, t)
             \/ \E s \in Subject : EnsureIdentity(h, s)
    BY <1>2 DEF LockToRotate, EnsureIdentity, Goto, StaysOut, OthersStay
  <1>5. ASSUME NEW t \in frame[h].now..clock, LockToRevoke(h, t)
        PROVE  StaysOut(h)
    <2>1. OthersStay(h) /\ pc'[h] = "revoke"
      BY <1>5 DEF LockToRevoke, Goto, OthersStay
    <2>2. frame'[h] = [frame[h] EXCEPT !.begun = t, !.now = clock]
      BY <1>5 DEF LockToRevoke
    <2>3. frame'[h].now = clock
      BY <2>2 DEF Frame
    <2> QED
      BY <2>1, <2>3 DEF StaysOut
  <1>3. CASE \/ \E a \in Account, c \in Credential : CreateAccount(h, a, c)
             \/ \E c \in Credential : RotateAccount(h, c)
             \/ RevokeAccount(h) \/ RotationRefused(h)
    BY <1>3 DEF CreateAccount, RotateAccount, RevokeAccount, RotationRefused, Respond,
       Goto, StaysOut, OthersStay
  <1>4. CASE \/ IdentityRejected(h) \/ TooManyAccounts(h) \/ NameConflict(h)
             \/ SubjectConflict(h) \/ NotFound(h) \/ AlreadyRevoked(h)
             \/ RevisionConflict(h)
    BY <1>4, RejectStaysOut
    DEF IdentityRejected, TooManyAccounts, NameConflict, SubjectConflict, NotFound,
        AlreadyRevoked, RevisionConflict
  <1> QED
    BY <1>1, <1>2, <1>3, <1>4, <1>5 DEF ManagementLock, ManagementStep

LEMMA AuthenticationStaysOut ==
    ASSUME TypeInv, NEW h \in Handler, AuthenticationLock(h) \/ AuthenticationStep(h)
    PROVE  StaysOut(h)
  <1> USE DEF TypeInv, TypeOK, HandlersTypeOK
  <1>1. CASE \/ TakeRateSlot(h) \/ RateLimited(h) \/ VerifySecret(h) \/ SubjectActive(h)
             \/ RecheckCredential(h) \/ Admit(h) \/ BoundExpiry(h)
    BY <1>1 DEF TakeRateSlot, RateLimited, VerifySecret, SubjectActive,
       RecheckCredential, Admit, BoundExpiry, Goto, StaysOut, OthersStay
  <1>2. CASE \/ Issue(h) \/ IssueAmbiguous(h)
             \/ \E t \in frame[h].now..clock : StoreReceipt(h, t)
    BY <1>2 DEF Issue, IssueAmbiguous, StoreReceipt, Respond, Goto, StaysOut, OthersStay
  <1>3. CASE \/ InvalidSecret(h) \/ SubjectDisabled(h) \/ NoLongerValid(h)
             \/ ExpiredMeanwhile(h) \/ IssueDisabled(h)
    BY <1>3, RejectStaysOut
    DEF InvalidSecret, SubjectDisabled, NoLongerValid, ExpiredMeanwhile, IssueDisabled
  <1> QED
    BY <1>1, <1>2, <1>3 DEF AuthenticationLock, AuthenticationStep

LEMMA EntranceKinds ==
    ASSUME TypeInv, [Next]_vars
    PROVE  UNCHANGED <<pc, req, frame>> \/ \E h \in Handler : StaysOut(h) \/ Enters(h)
  <1>1. CASE Tick \/ UNCHANGED vars
    BY <1>1 DEF Tick, vars, control
  <1> QED
    BY <1>1, SharedStaysOut, ManagementStaysOut, AuthenticationStaysOut
    DEF Next, WaitStep, PlainStep

LEMMA OrganizationStep ==
    TypeInv /\ TypeInv' /\ AccountInv /\ OrganizationInv /\ [Next]_vars => OrganizationInv'
  <1> SUFFICES ASSUME TypeInv, TypeInv', AccountInv, OrganizationInv, [Next]_vars
               PROVE  OrganizationInv'
    OBVIOUS
  <1> USE DEF OrganizationInv
  <1>1. OneInserts'
    <2>1. CASE UNCHANGED <<pc, req, frame>>
      BY <2>1 DEF OneInserts
    <2>2. ASSUME NEW h \in Handler, StaysOut(h)
          PROVE  OneInserts'
      BY <2>2 DEF StaysOut, OthersStay, OneInserts
    <2>3. ASSUME NEW h \in Handler, Enters(h)
          PROVE  OneInserts'
      BY <2>3 DEF Enters, OthersStay, OneInserts, OrganizationFree, HoldsOrganization
    <2> QED
      BY <2>1, <2>2, <2>3, EntranceKinds
  <1>2. CASE IdentitiesKept
    <2>1. \A o : AccountsOf(o)' = AccountsOf(o)
      BY <1>2 DEF IdentitiesKept, AccountsOf
    <2>2. BlankRows' /\ OrganizationBounded' /\ \A o \in Organization : IsFiniteSet(AccountsOf(o))'
      BY <1>2, <2>1 DEF IdentitiesKept, BlankRows, OrganizationBounded
    <2>3. PlaceLeft'
      <3>1. CASE UNCHANGED <<pc, req, frame>>
        BY <3>1, <2>1 DEF PlaceLeft
      <3>2. ASSUME NEW h \in Handler, StaysOut(h)
            PROVE  PlaceLeft'
        BY <3>2, <2>1 DEF StaysOut, OthersStay, PlaceLeft
      <3>3. ASSUME NEW h \in Handler, Enters(h)
            PROVE  PlaceLeft'
        BY <3>3, <2>1 DEF Enters, OthersStay, PlaceLeft
      <3> QED
        BY <3>1, <3>2, <3>3, EntranceKinds
    <2> QED
      BY <1>1, <2>2, <2>3
  <1>3. ASSUME NEW h \in Handler, NEW a \in Account, Inserts(h, a)
        PROVE  OrganizationInv'
    <2>0. pc[h] = "insert"
      BY <1>3 DEF Inserts
    <2>1. PICK here \in Organization : here = req[h].organization
      BY <2>0, RequestFields DEF TypeInv, ControlOK
    <2>2. accounts[a].organization = None
      BY <1>3 DEF Inserts, BlankRows
    <2>3. AccountsOf(here)' = AccountsOf(here) \cup {a}
      BY <1>3, <2>1 DEF Inserts, AccountsOf
    <2>4. \A o \in Organization : o # here => AccountsOf(o)' = AccountsOf(o)
      BY <1>3, <2>1, <2>2, RequestAssumption DEF Inserts, AccountsOf
    <2>5. IsFiniteSet(AccountsOf(here)) /\ Cardinality(AccountsOf(here)) < MaxAccounts
      BY <1>3, <2>1 DEF Inserts, PlaceLeft
    <2>6. Cardinality(AccountsOf(here)) \in Nat
      BY <2>5, FS_CardinalityType
    <2>7. /\ IsFiniteSet(AccountsOf(here)')
          /\ Cardinality(AccountsOf(here)') <= Cardinality(AccountsOf(here)) + 1
      BY <2>3, <2>5, <2>6, FS_AddElement
    <2>8. \A o \in Organization :
            IsFiniteSet(AccountsOf(o))' /\ Cardinality(AccountsOf(o))' <= MaxAccounts
      <3>1. ASSUME NEW o \in Organization, o = here
            PROVE  IsFiniteSet(AccountsOf(o)') /\ Cardinality(AccountsOf(o)') <= MaxAccounts
        <4>1. Cardinality(AccountsOf(here)') \in Nat
          BY <2>7, FS_CardinalityType
        <4> QED
          BY <3>1, <4>1, <2>5, <2>6, <2>7, ConfigAssumption
      <3>2. ASSUME NEW o \in Organization, o # here
            PROVE  IsFiniteSet(AccountsOf(o)') /\ Cardinality(AccountsOf(o)') <= MaxAccounts
        BY <3>2, <2>4 DEF OrganizationBounded
      <3> QED
        BY <3>1, <3>2
    <2>9. BlankRows'
      BY <1>3 DEF Inserts, BlankRows
    <2>10. PlaceLeft'
      <3> SUFFICES ASSUME NEW g \in Handler, pc'[g] = "insert"
                   PROVE  Cardinality(AccountsOf(req[g].organization))' < MaxAccounts
        BY DEF PlaceLeft
      <3>1. g # h /\ pc[g] = "insert" /\ req'[g] = req[g]
        BY <1>3 DEF Inserts, OthersStay
      <3>2. PICK there \in Organization : there = req[g].organization
        BY <3>1, RequestFields DEF TypeInv, ControlOK
      <3>3. there # here
        BY <2>0, <2>1, <3>1, <3>2 DEF OneInserts
      <3>4. Cardinality(AccountsOf(there)) < MaxAccounts
        BY <3>1, <3>2 DEF PlaceLeft
      <3>5. Cardinality(AccountsOf(there))' < MaxAccounts
        BY <3>3, <3>4, <2>4
      <3> QED
        BY <3>1, <3>2, <3>5
    <2> QED
      BY <1>1, <2>8, <2>9, <2>10 DEF OrganizationBounded
  <1> QED
    BY <1>2, <1>3, IdentityKinds

(* Concurrent creations never exceed max_accounts_per_organization, because *)
(* create_account counts and inserts under the organization's advisory lock.*)
THEOREM OrganizationsAreBounded == Spec => []OrganizationBounded
  <1>1. OrganizationInv => OrganizationBounded
    BY DEF OrganizationInv
  <1> QED
    BY <1>1, TypeInit, TypeStep, AccountInit, AccountNext, OrganizationInit,
       OrganizationStep, PTL DEF Spec

-----------------------------------------------------------------------------
(* Answers and receipts are true and stay so.                               *)

(* The errors that speak of the accounts are errors of one operation.       *)
Fits(x, r) ==
    /\ x \in {"name_conflict", "too_many_service_accounts"} => r.op = "create"
    /\ x = "revoked" => r.op = "rotate_secret"

Truthful(x, r) == r \in Request /\ Fits(x, r) /\ Justified(x, r)

(* OutcomesTruthful, with what it takes to be inductive: the answer is one  *)
(* to the request's operation, whoever is about to store a receipt has      *)
(* executed the command, and whoever holds an account has found it.         *)
ReceiptTrue(k) ==
    /\ commands[k].status = "completed_success" => Truthful("success", commands[k].intent)
    /\ commands[k].status = "completed_error" => Truthful(commands[k].error, commands[k].intent)

HandlerTrue(h) ==
    /\ pc[h] \in {"record", "answer"} => Truthful(frame[h].answer, req[h])
    /\ pc[h] = "receipt" => performed[CommandOf(req[h])].times > 0
    /\ pc[h] \in {"rotate", "revoke"} => Found(req[h])

TruthInv ==
    /\ \A k \in Command : ReceiptTrue(k)
    /\ \A h \in Handler : HandlerTrue(h)

LEMMA TruthInit == Init => TruthInv
  BY DEF Init, StorageInit, HandlersInit, TruthInv, ReceiptTrue, HandlerTrue, NoCommand

LEMMA TruthImplies == TruthInv => OutcomesTruthful
  BY DEF TruthInv, ReceiptTrue, HandlerTrue, Truthful, OutcomesTruthful

(* Names, executions and the number of accounts only ever grow.             *)
Grows ==
    /\ \A a \in Account : accounts[a].status # "absent" =>
          accounts'[a].nameKey = accounts[a].nameKey
    /\ \A k \in Command : performed'[k].times >= performed[k].times
    /\ \A o \in Organization : Cardinality(AccountsOf(o)') >= Cardinality(AccountsOf(o))

LEMMA ExecutionsGrow ==
    ASSUME TypeInv, [Next]_vars
    PROVE  \A k \in Command : performed'[k].times >= performed[k].times
  <1>0. /\ \A k \in Command : performed[k].times \in Nat
        /\ performed \in [Command -> [times: Nat, at: Nat, current: BOOLEAN]]
    BY DEF TypeInv, TypeOK, HandlersTypeOK
  <1>1. CASE UNCHANGED performed
    BY <1>0, <1>1
  <1>2. ASSUME NEW r \in Request, NEW t, Perform(r, t)
        PROVE  \A k \in Command : performed'[k].times >= performed[k].times
    <2>1. CommandOf(r) \in Command /\ performed[CommandOf(r)].times \in Nat
      BY <1>0, RequestFields
    <2>2. performed'[CommandOf(r)].times = performed[CommandOf(r)].times + 1
      BY <1>0, <1>2, <2>1 DEF Perform
    <2>3. \A k \in Command : k # CommandOf(r) => performed'[k] = performed[k]
      BY <1>0, <1>2, <2>1 DEF Perform
    <2> QED
      BY <1>0, <2>1, <2>2, <2>3
  <1>3. ASSUME NEW h \in Handler, Reserve(h)
        PROVE  \A k \in Command : performed'[k].times >= performed[k].times
    <2>1. PICK k0 \in Command : k0 = CommandOf(req[h])
      BY <1>3, RequestFields DEF Reserve, TypeInv, ControlOK
    <2>2. performed' = [performed EXCEPT ![k0].current = FALSE]
      BY <1>3, <2>1 DEF Reserve
    <2>3. performed'[k0].times = performed[k0].times
      BY <1>0, <2>2
    <2>4. \A k \in Command : k # k0 => performed'[k] = performed[k]
      BY <1>0, <2>2
    <2> QED
      BY <1>0, <2>3, <2>4
  <1>4. ASSUME NEW h \in Handler,
               \/ \E r \in Request : Accept(h, r)
               \/ AlreadyReserved(h) \/ Find(h) \/ Record(h) \/ Return(h) \/ Fail(h)
        PROVE  UNCHANGED performed
    BY <1>4 DEF Accept, AlreadyReserved, Find, Record, Return, Fail, tables
  <1>5. ASSUME NEW h \in Handler, AuthenticationLock(h) \/ AuthenticationStep(h)
        PROVE  UNCHANGED performed \/ (pc[h] # "idle" /\ Perform(req[h], clock))
    <2>1. CASE Issue(h) \/ IssueAmbiguous(h)
      BY <2>1 DEF Issue, IssueAmbiguous
    <2>2. CASE \E t \in frame[h].now..clock : StoreReceipt(h, t)
      BY <2>2 DEF StoreReceipt, tables
    <2>3. CASE TakeRateSlot(h) \/ RateLimited(h) \/ VerifySecret(h) \/ InvalidSecret(h)
      BY <2>3 DEF TakeRateSlot, RateLimited, VerifySecret, InvalidSecret, Reject, tables
    <2>4. CASE SubjectActive(h) \/ SubjectDisabled(h) \/ Admit(h) \/ AuthenticationLock(h)
      BY <2>4 DEF SubjectActive, SubjectDisabled, Admit, AuthenticationLock,
         RecheckCredential, NoLongerValid, Reject, tables
    <2>5. CASE BoundExpiry(h) \/ ExpiredMeanwhile(h) \/ IssueDisabled(h)
      BY <2>5 DEF BoundExpiry, ExpiredMeanwhile, IssueDisabled, Reject, tables
    <2> QED
      BY <1>5, <2>1, <2>2, <2>3, <2>4, <2>5 DEF AuthenticationStep
  <1>6. ASSUME NEW h \in Handler, ManagementLock(h)
        PROVE  UNCHANGED performed
    BY <1>6 DEF ManagementLock, CountAccounts, LockToRotate, LockToRevoke,
       TooManyAccounts, AlreadyRevoked, RevisionConflict, Reject, tables
  <1>7. ASSUME NEW h \in Handler, ManagementStep(h)
        PROVE  UNCHANGED performed \/ (pc[h] # "idle" /\ Perform(req[h], frame[h].begun))
    <2>1. CASE \/ \E a \in Account, c \in Credential : CreateAccount(h, a, c)
               \/ \E c \in Credential : RotateAccount(h, c)
               \/ RevokeAccount(h)
      BY <2>1 DEF CreateAccount, RotateAccount, RevokeAccount
    <2>2. CASE \/ \E s \in Subject : EnsureIdentity(h, s)
               \/ IdentityRejected(h) \/ NameConflict(h) \/ SubjectConflict(h)
               \/ RotationRefused(h) \/ NotFound(h)
      BY <2>2 DEF EnsureIdentity, IdentityRejected, NameConflict, SubjectConflict,
         RotationRefused, NotFound, Reject, tables
    <2> QED
      BY <1>7, <2>1, <2>2 DEF ManagementStep
  <1>8. \A h \in Handler : pc[h] # "idle" => req[h] \in Request
    BY DEF TypeInv, ControlOK
  <1>9. CASE Tick \/ UNCHANGED vars
    BY <1>1, <1>9 DEF Tick, vars
  <1> QED
    BY <1>1, <1>2, <1>3, <1>4, <1>5, <1>6, <1>7, <1>8, <1>9 DEF Next, WaitStep, PlainStep

LEMMA GrowsStep ==
    ASSUME TypeInv, AccountInv, OrganizationInv, [Next]_vars
    PROVE  Grows
  <1>1. CASE IdentitiesKept
    <2>1. \A o \in Organization : AccountsOf(o)' = AccountsOf(o)
      BY <1>1 DEF IdentitiesKept, AccountsOf
    <2>2. \A o \in Organization : Cardinality(AccountsOf(o)) \in Nat
      BY FS_CardinalityType DEF OrganizationInv
    <2>3. \A o \in Organization : Cardinality(AccountsOf(o)') >= Cardinality(AccountsOf(o))
      BY <2>1, <2>2
    <2> QED
      BY <1>1, <2>3, ExecutionsGrow DEF IdentitiesKept, Grows
  <1>2. ASSUME NEW h \in Handler, NEW a \in Account, Inserts(h, a)
        PROVE  Grows
    <2>1. accounts[a].organization = None
      BY <1>2 DEF Inserts, OrganizationInv, BlankRows
    <2>2. ASSUME NEW o \in Organization
          PROVE  Cardinality(AccountsOf(o)') >= Cardinality(AccountsOf(o))
      <3>1. AccountsOf(o)' = AccountsOf(o) \/ AccountsOf(o)' = AccountsOf(o) \cup {a}
        BY <1>2, <2>1, RequestAssumption DEF Inserts, AccountsOf
      <3>2. IsFiniteSet(AccountsOf(o))
        BY DEF OrganizationInv
      <3>3. Cardinality(AccountsOf(o)) \in Nat
        BY <3>2, FS_CardinalityType
      <3>4. Cardinality(AccountsOf(o) \cup {a}) >= Cardinality(AccountsOf(o))
        BY <3>2, <3>3, FS_AddElement
      <3> QED
        BY <3>1, <3>3, <3>4
    <2> QED
      BY <1>2, <2>2, ExecutionsGrow DEF Inserts, Grows
  <1> QED
    BY <1>1, <1>2, IdentityKinds

(* What was true of a request stays true.                                   *)
LEMMA NameStays ==
    ASSUME OrganizationInv, NothingRevivedBy, Grows,
           NEW o \in Organization, NEW n, NameTaken(o, n)
    PROVE  NameTaken(o, n)'
  <1>1. PICK a \in Account : accounts[a].organization = o /\ accounts[a].nameKey = n
    BY DEF NameTaken, AccountsOf
  <1>2. accounts[a].status # "absent"
    BY <1>1, RequestAssumption DEF OrganizationInv, BlankRows
  <1>3. accounts'[a].organization = o /\ accounts'[a].nameKey = n
    BY <1>1, <1>2 DEF NothingRevivedBy, AccountOnlyAdvances, Grows
  <1> QED
    BY <1>3 DEF NameTaken, AccountsOf

LEMMA FoundStays ==
    ASSUME TypeInv, TypeInv', NothingRevivedBy, NEW r \in Request,
           r.op \in {"rotate_secret", "revoke"}, Found(r)
    PROVE  /\ r.account \in Account
           /\ Found(r)'
           /\ accounts[r.account].revision > r.revision =>
                 accounts'[r.account].revision > r.revision
           /\ accounts[r.account].status = "revoked" =>
                 accounts'[r.account].status = "revoked"
  <1>1. PICK a \in Account : a = r.account
    BY RequestFields DEF Found
  <1>2. accounts[a].revision \in Nat /\ accounts'[a].revision \in Nat /\ r.revision \in Nat
    BY RequestFields DEF TypeInv, TypeOK, StorageTypeOK, AccountRow
  <1>3. AccountOnlyAdvances(a) /\ accounts[a].status # "absent"
    BY <1>1 DEF NothingRevivedBy, Found
  <1>4. Found(r)'
    BY <1>1, <1>3 DEF Found, AccountOnlyAdvances
  <1> QED
    BY <1>1, <1>2, <1>3, <1>4 DEF AccountOnlyAdvances

LEMMA TrueStays ==
    ASSUME TypeInv, TypeInv', OrganizationInv, OrganizationInv', NothingRevivedBy, Grows,
           NEW x, NEW r, Truthful(x, r)
    PROVE  Truthful(x, r)'
  <1> USE DEF Truthful
  <1>1. Fits(x, r)'
    BY DEF Fits
  <1>2. CASE r.op = "create"
    <2>1. r.organization \in Organization
      BY <1>2, RequestFields
    <2>2. NameTaken(r.organization, NameKey[r.name]) => NameTaken(r.organization, NameKey[r.name])'
      BY <2>1, NameStays
    <2>3. /\ Cardinality(AccountsOf(r.organization)) \in Nat
          /\ Cardinality(AccountsOf(r.organization))' \in Nat
          /\ Cardinality(AccountsOf(r.organization)') >= Cardinality(AccountsOf(r.organization))
      BY <2>1, FS_CardinalityType DEF OrganizationInv, Grows
    <2>4. Cardinality(AccountsOf(r.organization)) >= MaxAccounts =>
             Cardinality(AccountsOf(r.organization))' >= MaxAccounts
      BY <2>3, ConfigAssumption
    <2>5. x # "revoked"
      BY <1>2 DEF Fits
    <2> QED
      BY <1>1, <1>2, <2>2, <2>4, <2>5 DEF Justified
  <1>3. CASE r.op \in {"rotate_secret", "revoke"}
    <2>1. x \notin {"name_conflict", "too_many_service_accounts"}
      BY <1>3 DEF Fits
    <2> QED
      BY <1>1, <1>3, <2>1, FoundStays DEF Justified
  <1>4. CASE r.op = "exchange_secret"
    <2>1. x \notin {"name_conflict", "too_many_service_accounts", "revoked"}
      BY <1>4 DEF Fits
    <2>2. CommandOf(r) \in Command
      BY RequestFields
    <2>3. /\ performed[CommandOf(r)].times \in Nat
          /\ performed'[CommandOf(r)].times \in Nat
          /\ performed'[CommandOf(r)].times >= performed[CommandOf(r)].times
      BY <2>2 DEF Grows, TypeInv, TypeOK, HandlersTypeOK
    <2> QED
      BY <1>1, <1>4, <2>1, <2>3 DEF Justified
  <1> QED
    BY <1>2, <1>3, <1>4, RequestFields DEF Operation

(* Receipts and answers that a step does not touch stay true.               *)
LEMMA OthersTrue ==
    ASSUME TypeInv, TypeInv', OrganizationInv, OrganizationInv', NothingRevivedBy, Grows,
           TruthInv
    PROVE  /\ \A k \in Command : commands'[k] = commands[k] => ReceiptTrue(k)'
           /\ \A h \in Handler :
                 pc'[h] = pc[h] /\ req'[h] = req[h] /\ frame'[h] = frame[h] => HandlerTrue(h)'
  <1>1. ASSUME NEW k \in Command, commands'[k] = commands[k]
        PROVE  ReceiptTrue(k)'
    <2>1. PICK x, r : x = commands[k].error /\ r = commands[k].intent
      OBVIOUS
    <2>2. Truthful(x, r) => Truthful(x, r)'
      BY TrueStays
    <2>3. Truthful("success", r) => Truthful("success", r)'
      BY TrueStays
    <2> QED
      BY <1>1, <2>1, <2>2, <2>3 DEF TruthInv, ReceiptTrue
  <1>2. ASSUME NEW h \in Handler, pc'[h] = pc[h], req'[h] = req[h], frame'[h] = frame[h]
        PROVE  HandlerTrue(h)'
    <2>1. PICK x, r : x = frame[h].answer /\ r = req[h]
      OBVIOUS
    <2>2. Truthful(x, r) => Truthful(x, r)'
      BY TrueStays
    <2>3. pc[h] = "receipt" =>
             /\ performed[CommandOf(r)].times \in Nat
             /\ performed'[CommandOf(r)].times \in Nat
             /\ performed'[CommandOf(r)].times >= performed[CommandOf(r)].times
      BY <2>1, RequestFields DEF Grows, TypeInv, TypeOK, ControlOK, HandlersTypeOK
    <2>4. pc[h] \in {"rotate", "revoke"} => Found(r)'
      BY <2>1, FoundStays DEF TruthInv, HandlerTrue, TypeInv, ControlOK
    <2> QED
      BY <1>2, <2>1, <2>2, <2>3, <2>4 DEF TruthInv, HandlerTrue
  <1> QED
    BY <1>1, <1>2

LEMMA TruthOf ==
    ASSUME TypeInv, TypeInv', OrganizationInv, OrganizationInv', NothingRevivedBy, Grows,
           TruthInv, NEW h \in Handler, OthersStay(h), HandlerTrue(h)',
           \A k \in Command : commands'[k] = commands[k] \/ ReceiptTrue(k)'
    PROVE  TruthInv'
  BY OthersTrue DEF TruthInv, OthersStay

(* Answers that say nothing of the accounts.                                *)
Neutral ==
    {"none", "failure", "idempotency_conflict", "operation_in_progress",
     "directory_rejected", "not_found", "revision_conflict",
     "invalid_credentials", "rate_limited", "disabled"}

LEMMA NeutralTrue ==
    ASSUME NEW x \in Neutral, NEW r \in Request
    PROVE  Truthful(x, r)
  BY DEF Neutral, Truthful, Fits, Justified

(* What a step of h must bring with it.                                     *)
Sound(h) ==
    /\ OthersStay(h)
    /\ HandlerTrue(h)'
    /\ \A k \in Command : commands'[k] = commands[k] \/ ReceiptTrue(k)'

(* A step on the way: it completes nothing and answers nothing.             *)
LEMMA SharedOnTheWay ==
    ASSUME TypeInv, NEW h \in Handler,
           \/ \E r \in Request : Accept(h, r)
           \/ Reserve(h) \/ AlreadyReserved(h) \/ Return(h) \/ Fail(h)
    PROVE  Sound(h)
  <1> USE DEF TypeInv, TypeOK, HandlersTypeOK
  <1>1. /\ OthersStay(h)
        /\ pc'[h] \notin {"record", "answer", "receipt", "rotate", "revoke"}
    BY DEF Accept, Reserve, AlreadyReserved, Return, Fail, Leave, Goto, FirstStep, OthersStay
  <1>2. ASSUME NEW r \in Request, Accept(h, r)
        PROVE  \A k \in Command : commands'[k] = commands[k] \/ ReceiptTrue(k)'
    BY <1>2 DEF Accept, Prune, NoCommand, ReceiptTrue
  <1>3. ASSUME Reserve(h)
        PROVE  \A k \in Command : commands'[k] = commands[k] \/ ReceiptTrue(k)'
    <2>1. CommandOf(req[h]) \in Command
      BY <1>3, RequestFields DEF Reserve, ControlOK
    <2> QED
      BY <1>3, <2>1 DEF Reserve, InsertCommand, ReceiptTrue, StorageTypeOK
  <1>4. ASSUME AlreadyReserved(h) \/ Return(h) \/ Fail(h)
        PROVE  commands' = commands
    BY <1>4 DEF AlreadyReserved, Return, Fail, tables
  <1> QED
    BY <1>1, <1>2, <1>3, <1>4 DEF Sound, HandlerTrue

LEMMA OnTheWay ==
    ASSUME TypeInv, NEW h \in Handler,
           \/ \E s \in Subject : EnsureIdentity(h, s)
           \/ \E t \in frame[h].now..clock :
                 CountAccounts(h, t) \/ LockToRotate(h, t) \/ LockToRevoke(h, t)
           \/ TakeRateSlot(h) \/ VerifySecret(h) \/ SubjectActive(h)
           \/ RecheckCredential(h) \/ BoundExpiry(h)
    PROVE  Sound(h)
  <1>1. OthersStay(h)
    BY DEF EnsureIdentity, CountAccounts, LockToRotate, LockToRevoke, TakeRateSlot,
       VerifySecret, SubjectActive, RecheckCredential, BoundExpiry, Goto, OthersStay,
       TypeInv, TypeOK, HandlersTypeOK
  <1>2. pc'[h] \notin {"record", "answer", "receipt"}
    BY DEF EnsureIdentity, CountAccounts, LockToRotate, LockToRevoke, TakeRateSlot,
       VerifySecret, SubjectActive, RecheckCredential, BoundExpiry, Goto,
       TypeInv, TypeOK, HandlersTypeOK
  <1>3. commands' = commands /\ accounts' = accounts /\ req' = req
    BY DEF EnsureIdentity, CountAccounts, LockToRotate, LockToRevoke, TakeRateSlot,
       VerifySecret, SubjectActive, RecheckCredential, BoundExpiry, tables
  <1>4. pc'[h] \in {"rotate", "revoke"} => Found(req[h])
    BY DEF EnsureIdentity, CountAccounts, LockToRotate, LockToRevoke, TakeRateSlot,
       VerifySecret, SubjectActive, RecheckCredential, BoundExpiry, Goto,
       TypeInv, TypeOK, HandlersTypeOK
  <1>5. pc'[h] \in {"rotate", "revoke"} => Found(req[h])'
    BY <1>3, <1>4 DEF Found
  <1> QED
    BY <1>1, <1>2, <1>3, <1>5 DEF Sound, HandlerTrue

LEMMA AdmitSound ==
    ASSUME TypeInv, NEW h \in Handler, Admit(h)
    PROVE  Sound(h)
  <1>1. OthersStay(h) /\ pc'[h] = "bound"
    BY DEF Admit, Goto, OthersStay, TypeInv, TypeOK, HandlersTypeOK
  <1>2. CommandOf(req[h]) \in Command
    BY RequestFields DEF Admit, TypeInv, ControlOK
  <1>3. \A k \in Command : commands'[k] = commands[k] \/ commands'[k].status = "issuing"
    BY <1>2 DEF Admit, MarkIssuing, TypeInv, TypeOK, StorageTypeOK, CommandRow
  <1> QED
    BY <1>1, <1>3 DEF Sound, HandlerTrue, ReceiptTrue

(* A step that ends with answer x, which is true.                           *)
LEMMA Refusing ==
    ASSUME NEW h \in Handler, OthersStay(h), commands' = commands,
           pc'[h] \in {"record", "answer"},
           NEW x, NEW r, frame'[h].answer = x, req'[h] = r, Truthful(x, r)'
    PROVE  Sound(h)
  BY DEF Sound, HandlerTrue

LEMMA RejectEffect ==
    ASSUME TypeInv, NEW h \in Handler, NEW x, Reject(h, x)
    PROVE  /\ OthersStay(h) /\ commands' = commands /\ pc'[h] = "record"
           /\ accounts' = accounts
           /\ frame'[h].answer = x /\ req'[h] = req[h]
  BY DEF Reject, Goto, NoFrame, OthersStay, tables, TypeInv, TypeOK, HandlersTypeOK

LEMMA NeutralRefusals ==
    ASSUME TypeInv, NEW h \in Handler,
           \/ IdentityRejected(h) \/ SubjectConflict(h) \/ NotFound(h) \/ RevisionConflict(h)
           \/ InvalidSecret(h) \/ SubjectDisabled(h) \/ NoLongerValid(h)
           \/ ExpiredMeanwhile(h) \/ IssueDisabled(h)
    PROVE  Sound(h)
  <1>1. PICK x \in Neutral : Reject(h, x)
    BY DEF IdentityRejected, SubjectConflict, NotFound, RevisionConflict, InvalidSecret,
       SubjectDisabled, NoLongerValid, ExpiredMeanwhile, IssueDisabled, Neutral
  <1>2. PICK r \in Request : r = req[h]
    BY DEF IdentityRejected, SubjectConflict, NotFound, RevisionConflict, InvalidSecret,
       SubjectDisabled, NoLongerValid, ExpiredMeanwhile, IssueDisabled, TypeInv, ControlOK
  <1>3. Truthful(x, r)'
    BY NeutralTrue DEF Neutral, Truthful, Fits, Justified
  <1> QED
    BY <1>1, <1>2, <1>3, RejectEffect, Refusing

LEMMA NeutralAnswers ==
    ASSUME TypeInv, NEW h \in Handler,
           RotationRefused(h) \/ RateLimited(h) \/ IssueAmbiguous(h)
    PROVE  Sound(h)
  <1>1. OthersStay(h) /\ req'[h] = req[h] /\ commands' = commands
    BY DEF RotationRefused, RateLimited, IssueAmbiguous, Respond, Goto, OthersStay, tables,
       TypeInv, TypeOK, HandlersTypeOK
  <1>2. pc'[h] \in {"record", "answer"} /\ frame'[h].answer \in Neutral
    BY DEF RotationRefused, RateLimited, IssueAmbiguous, Respond, Goto, NoFrame, Neutral,
       TypeInv, TypeOK, HandlersTypeOK
  <1>3. PICK r \in Request : r = req[h]
    BY DEF RotationRefused, RateLimited, IssueAmbiguous, TypeInv, ControlOK
  <1>4. PICK x \in Neutral : x = frame'[h].answer
    BY <1>2
  <1>5. Truthful(x, r)'
    BY DEF Neutral, Truthful, Fits, Justified
  <1> QED
    BY <1>1, <1>2, <1>3, <1>4, <1>5, Refusing

(* The refusals that speak of the accounts are read off the tables, which   *)
(* the roll-back leaves as they were.                                       *)
LEMMA TellingRefusals ==
    ASSUME TypeInv, TypeInv', OrganizationInv, OrganizationInv', NothingRevivedBy, Grows,
           NEW h \in Handler, TooManyAccounts(h) \/ NameConflict(h) \/ AlreadyRevoked(h)
    PROVE  Sound(h)
  <1>1. PICK r \in Request : r = req[h]
    BY DEF TooManyAccounts, NameConflict, AlreadyRevoked, TypeInv, ControlOK
  <1>2. ASSUME NEW x, Reject(h, x), Truthful(x, r)
        PROVE  Sound(h)
    <2>1. Truthful(x, r)'
      BY <1>2, TrueStays
    <2> QED
      BY <1>1, <1>2, <2>1, RejectEffect, Refusing
  <1>3. CASE TooManyAccounts(h)
    <2>1. r.op = "create" /\ Cardinality(AccountsOf(r.organization)) >= MaxAccounts
      BY <1>1, <1>3 DEF TooManyAccounts, TypeInv, ControlOK
    <2>2. Truthful("too_many_service_accounts", r)
      BY <2>1 DEF Truthful, Fits, Justified
    <2> QED
      BY <1>2, <1>3, <2>2 DEF TooManyAccounts
  <1>4. CASE NameConflict(h)
    <2>1. r.op = "create" /\ NameTaken(r.organization, NameKey[r.name])
      BY <1>1, <1>4 DEF NameConflict, TypeInv, ControlOK
    <2>2. Truthful("name_conflict", r)
      BY <2>1 DEF Truthful, Fits, Justified
    <2> QED
      BY <1>2, <1>4, <2>2 DEF NameConflict
  <1>5. CASE AlreadyRevoked(h)
    <2>1. r.op = "rotate_secret" /\ Found(r) /\ accounts[r.account].status = "revoked"
      BY <1>1, <1>5 DEF AlreadyRevoked
    <2>2. Truthful("revoked", r)
      BY <2>1 DEF Truthful, Fits, Justified
    <2> QED
      BY <1>2, <1>5, <2>2 DEF AlreadyRevoked
  <1> QED
    BY <1>3, <1>4, <1>5

(* A replay repeats a receipt that is still true.                           *)
LEMMA FindSound ==
    ASSUME TypeInv, TypeInv', OrganizationInv, OrganizationInv', NothingRevivedBy, Grows,
           TruthInv, NEW h \in Handler, Find(h)
    PROVE  Sound(h)
  <1>1. PICK r \in Request : r = req[h]
    BY DEF Find, TypeInv, ControlOK
  <1>2. PICK x : x = ClaimOutcome(r)
    OBVIOUS
  <1>3. PICK k \in Command : k = CommandOf(r)
    BY RequestFields
  <1>4. Truthful(x, r)
    <2>1. CASE commands[k].intent = r /\ commands[k].status = "completed_success"
      <3>1. Truthful("success", r) /\ x = "replayed"
        BY <1>2, <1>3, <2>1 DEF TruthInv, ReceiptTrue, ClaimOutcome
      <3> QED
        BY <3>1 DEF Truthful, Fits, Justified
    <2>2. CASE commands[k].intent = r /\ commands[k].status = "completed_error"
      BY <1>2, <1>3, <2>2 DEF TruthInv, ReceiptTrue, ClaimOutcome
    <2>3. CASE commands[k].intent # r \/
               commands[k].status \notin {"completed_success", "completed_error"}
      <3>1. x \in Neutral
        BY <1>2, <1>3, <2>3 DEF ClaimOutcome, Neutral
      <3> QED
        BY <3>1, NeutralTrue
    <2> QED
      BY <2>1, <2>2, <2>3
  <1>5. Truthful(x, r)'
    BY <1>4, TrueStays
  <1>6. /\ OthersStay(h) /\ commands' = commands /\ pc'[h] = "answer"
        /\ frame'[h].answer = x /\ req'[h] = r
    BY <1>1, <1>2 DEF Find, Respond, Goto, NoFrame, OthersStay, tables,
       TypeInv, TypeOK, HandlersTypeOK
  <1> QED
    BY <1>5, <1>6, Refusing

(* The receipt of an error repeats the handler's answer.                    *)
LEMMA RecordSound ==
    ASSUME TypeInv, TypeInv', OwnerInv, OrganizationInv, OrganizationInv',
           NothingRevivedBy, Grows, TruthInv, NEW h \in Handler, Record(h)
    PROVE  Sound(h)
  <1>1. PICK r \in Request : r = req[h]
    BY DEF Record, TypeInv, ControlOK
  <1>2. PICK x : x = frame[h].answer
    OBVIOUS
  <1>3. PICK k \in Command : k = CommandOf(r)
    BY RequestFields
  <1>4. Truthful(x, r)
    BY <1>1, <1>2 DEF Record, TruthInv, HandlerTrue
  <1>5. Truthful(x, r)'
    BY <1>4, TrueStays
  <1>6. OthersStay(h) /\ pc'[h] = "answer" /\ frame'[h].answer = x /\ req'[h] = r
    BY <1>1, <1>2 DEF Record, Respond, Goto, NoFrame, OthersStay,
       TypeInv, TypeOK, HandlersTypeOK
  <1>7. commands[k].intent = r
    BY <1>1, <1>3 DEF OwnerInv, RowFits, Record, Working
  <1>8. /\ commands'[k].status = "completed_error"
        /\ commands'[k].error = x /\ commands'[k].intent = r
        /\ \A j \in Command : j # k => commands'[j] = commands[j]
    BY <1>1, <1>2, <1>3, <1>7 DEF Record, CompleteError, TypeInv, TypeOK, StorageTypeOK
  <1>9. ReceiptTrue(k)'
    BY <1>5, <1>8 DEF ReceiptTrue
  <1>10. HandlerTrue(h)'
    BY <1>5, <1>6 DEF HandlerTrue
  <1> QED
    BY <1>6, <1>8, <1>9, <1>10 DEF Sound

(* A success is recorded and answered in the transaction that brings it.    *)
LEMMA Succeeding ==
    ASSUME TypeInv, TypeInv', OwnerInv, NEW h \in Handler, Working(h), NEW t,
           CompleteSuccess(req[h], t), Respond(h, "success"), Truthful("success", req[h])'
    PROVE  Sound(h)
  <1>1. PICK r \in Request : r = req[h]
    BY NewReceipt
  <1>2. PICK k \in Command : k = CommandOf(r)
    BY RequestFields
  <1>3. /\ OthersStay(h) /\ pc'[h] = "answer" /\ frame'[h].answer = "success"
        /\ req'[h] = r
    BY <1>1 DEF Respond, Goto, NoFrame, OthersStay, TypeInv, TypeOK, HandlersTypeOK
  <1>4. /\ commands'[k].intent = r
        /\ \A j \in Command : j # k => commands'[j] = commands[j]
    BY <1>1, <1>2, NewReceipt
  <1>5. commands'[k].status = "completed_success"
    BY <1>1, <1>2 DEF CompleteSuccess, TypeInv, TypeOK, StorageTypeOK
  <1>6. Truthful("success", r)'
    BY <1>1, <1>3
  <1>7. ReceiptTrue(k)' /\ HandlerTrue(h)'
    BY <1>3, <1>4, <1>5, <1>6 DEF ReceiptTrue, HandlerTrue
  <1> QED
    BY <1>3, <1>4, <1>7 DEF Sound

LEMMA TransactionsSound ==
    ASSUME TypeInv, TypeInv', OwnerInv, AccountInv, NothingRevivedBy, Grows, TruthInv,
           NEW h \in Handler,
           \/ \E a \in Account, c \in Credential : CreateAccount(h, a, c)
           \/ \E c \in Credential : RotateAccount(h, c)
           \/ RevokeAccount(h)
    PROVE  Sound(h)
  <1>1. Working(h) /\ \E t : CompleteSuccess(req[h], t) /\ Respond(h, "success")
    BY DEF CreateAccount, RotateAccount, RevokeAccount, Working
  <1>2. req' = req
    BY <1>1 DEF Respond
  <1>3. PICK r \in Request : r = req[h]
    BY <1>1 DEF Working, TypeInv, ControlOK
  <1>4. ASSUME NEW a \in Account, NEW c \in Credential, CreateAccount(h, a, c)
        PROVE  Truthful("success", r)'
    <2>1. r.op = "create"
      BY <1>3, <1>4 DEF CreateAccount, TypeInv, ControlOK
    <2>2. /\ accounts'[a].organization = r.organization
          /\ accounts'[a].nameKey = NameKey[r.name]
      BY <1>3, <1>4 DEF CreateAccount, InsertAccount, TypeInv, TypeOK, StorageTypeOK
    <2>3. NameTaken(r.organization, NameKey[r.name])'
      BY <2>2 DEF NameTaken, AccountsOf
    <2> QED
      BY <2>1, <2>3 DEF Truthful, Fits, Justified
  <1>5. ASSUME NEW c \in Credential, RotateAccount(h, c)
        PROVE  Truthful("success", r)'
    <2>1. r.op = "rotate_secret" /\ Found(r) /\ accounts[r.account].revision = r.revision
      BY <1>3, <1>5
      DEF RotateAccount, TypeInv, ControlOK, AccountInv, Knows, TruthInv, HandlerTrue
    <2>2. Found(r)'
      BY <2>1, FoundStays
    <2>3. accounts'[r.account].revision = r.revision + 1
      BY <1>3, <1>5, <2>1, RotateChanges
    <2>4. r.revision \in Nat
      BY <2>1, RequestFields
    <2> QED
      BY <2>1, <2>2, <2>3, <2>4 DEF Truthful, Fits, Justified
  <1>6. ASSUME RevokeAccount(h)
        PROVE  Truthful("success", r)'
    <2>1. r.op = "revoke" /\ Found(r)
      BY <1>3, <1>6 DEF RevokeAccount, TypeInv, ControlOK, TruthInv, HandlerTrue
    <2>2. Found(r)'
      BY <2>1, FoundStays
    <2>3. accounts'[r.account].status = "revoked"
      BY <1>3, <1>6, RevokeChanges
    <2> QED
      BY <2>1, <2>2, <2>3 DEF Truthful, Fits, Justified
  <1>7. Truthful("success", r)'
    BY <1>4, <1>5, <1>6
  <1>8. Truthful("success", req[h])'
    BY <1>2, <1>3, <1>7
  <1> QED
    BY <1>1, <1>8, Succeeding

LEMMA IssueSound ==
    ASSUME TypeInv, NEW h \in Handler, Issue(h)
    PROVE  Sound(h)
  <1>1. OthersStay(h) /\ pc'[h] = "receipt" /\ commands' = commands /\ req' = req
    BY DEF Issue, Goto, OthersStay, tables, TypeInv, TypeOK, HandlersTypeOK
  <1>2. CommandOf(req[h]) \in Command
    BY RequestFields DEF Issue, TypeInv, ControlOK
  <1>3. /\ performed \in [Command -> [times: Nat, at: Nat, current: BOOLEAN]]
        /\ performed[CommandOf(req[h])].times \in Nat
    BY <1>2 DEF TypeInv, TypeOK, HandlersTypeOK
  <1>4. performed'[CommandOf(req[h])].times = performed[CommandOf(req[h])].times + 1
    BY <1>2, <1>3 DEF Issue, Perform
  <1>5. HandlerTrue(h)'
    BY <1>1, <1>3, <1>4 DEF HandlerTrue, CommandOf
  <1> QED
    BY <1>1, <1>5 DEF Sound

LEMMA ReceiptSound ==
    ASSUME TypeInv, TypeInv', OwnerInv, TruthInv, NEW h \in Handler,
           \E t \in frame[h].now..clock : StoreReceipt(h, t)
    PROVE  Sound(h)
  <1>1. Working(h) /\ \E t : CompleteSuccess(req[h], t) /\ Respond(h, "success")
    BY DEF StoreReceipt, Working
  <1>2. PICK r \in Request : r = req[h]
    BY <1>1 DEF Working, TypeInv, ControlOK
  <1>3. r.op = "exchange_secret" /\ performed[CommandOf(r)].times > 0
    BY <1>2 DEF StoreReceipt, TypeInv, ControlOK, TruthInv, HandlerTrue
  <1>4. performed' = performed /\ req' = req
    BY <1>1 DEF StoreReceipt, Respond
  <1>5. Truthful("success", r)'
    BY <1>3, <1>4 DEF Truthful, Fits, Justified
  <1>6. Truthful("success", req[h])'
    BY <1>2, <1>4, <1>5
  <1> QED
    BY <1>1, <1>6, Succeeding

LEMMA TruthStep ==
    ASSUME TypeInv, TypeInv', OwnerInv, AccountInv, OrganizationInv, OrganizationInv',
           TruthInv, [Next]_vars
    PROVE  TruthInv'
  <1>1. NothingRevivedBy /\ Grows
    BY NothingRevivedStep, GrowsStep
  <1>2. CASE Tick \/ UNCHANGED vars
    <2>1. UNCHANGED <<commands, pc, req, frame>>
      BY <1>2 DEF Tick, vars, tables, control
    <2> QED
      BY <1>1, <2>1, OthersTrue DEF TruthInv
  <1>3. ASSUME NEW h \in Handler, \E r \in Request : Accept(h, r)
        PROVE  Sound(h)
    BY <1>3, SharedOnTheWay
  <1>4. ASSUME NEW h \in Handler, WaitStep(h)
        PROVE  Sound(h)
    BY <1>1, <1>4, OnTheWay, NeutralRefusals, TellingRefusals
    DEF WaitStep, ManagementLock, AuthenticationLock
  <1>5. ASSUME NEW h \in Handler, ManagementStep(h)
        PROVE  Sound(h)
    BY <1>1, <1>5, OnTheWay, NeutralRefusals, NeutralAnswers, TellingRefusals,
       TransactionsSound DEF ManagementStep
  <1>6. ASSUME NEW h \in Handler, AuthenticationStep(h)
        PROVE  Sound(h)
    BY <1>6, OnTheWay, NeutralRefusals, NeutralAnswers, AdmitSound, IssueSound,
       ReceiptSound DEF AuthenticationStep
  <1>7. ASSUME NEW h \in Handler,
               \/ Reserve(h) \/ AlreadyReserved(h) \/ Find(h) \/ Record(h) \/ Return(h)
               \/ Fail(h)
        PROVE  Sound(h)
    BY <1>1, <1>7, SharedOnTheWay, FindSound, RecordSound
  <1>8. ASSUME NEW h \in Handler, Sound(h)
        PROVE  TruthInv'
    BY <1>1, <1>8, TruthOf DEF Sound
  <1> QED
    BY <1>2, <1>3, <1>4, <1>5, <1>6, <1>7, <1>8 DEF Next, PlainStep

(* What a receipt or an answer says of the accounts was true when it was    *)
(* decided and stays true until it is recorded, replayed or delivered:      *)
(* create_account, rotate_account and revoke_account decide under their     *)
(* locks, and nothing undoes what they have committed.                      *)
THEOREM OutcomesAreTruthful == Spec => []OutcomesTruthful
  BY TruthImplies, TypeInit, TypeStep, OwnerInit, OwnerNext, AccountInit, AccountNext,
     OrganizationInit, OrganizationStep, TruthInit, TruthStep, PTL DEF Spec

-----------------------------------------------------------------------------
(* Extrema of finite sets, by well-foundedness of strict inclusion.         *)

LEMMA MaximumExists ==
    ASSUME NEW S, IsFiniteSet(S), S # {}, NEW f, \A x \in S : f[x] \in Int
    PROVE  \E x \in S : \A y \in S : f[y] <= f[x]
  <1> DEFINE Above(x) == {y \in S : f[y] > f[x]}
             T == {Above(x) : x \in S}
  <1>1. IsWellFoundedOn(StrictSubsetOrdering(S), SUBSET S)
    BY FS_StrictSubsetOrderingWellFounded, FS_FiniteSubsetsOfFinite
  <1>2. T \subseteq SUBSET S /\ T # {}
    OBVIOUS
  <1>3. PICK t \in T : \A u \in T : <<u, t>> \notin StrictSubsetOrdering(S)
    <2> HIDE DEF T
    <2> QED
      BY <1>1, <1>2, WFMin
  <1>4. PICK x \in S : t = Above(x)
    OBVIOUS
  <1>5. ASSUME NEW y \in S, f[y] > f[x]
        PROVE  FALSE
    <2>1. Above(y) \subseteq Above(x) /\ y \in Above(x) /\ y \notin Above(y)
      BY <1>5
    <2>2. <<Above(y), Above(x)>> \in StrictSubsetOrdering(S)
      BY <2>1 DEF StrictSubsetOrdering
    <2> QED
      BY <1>3, <1>4, <2>2
  <1> QED
    BY <1>5

LEMMA MinimumExists ==
    ASSUME NEW S, IsFiniteSet(S), S # {}, NEW f, \A x \in S : f[x] \in Int
    PROVE  \E x \in S : \A y \in S : f[x] <= f[y]
  <1> DEFINE g == [x \in S |-> 0 - f[x]]
  <1>1. \A x \in S : g[x] \in Int /\ g[x] = 0 - f[x]
    OBVIOUS
  <1>2. PICK x \in S : \A y \in S : g[y] <= g[x]
    <2> HIDE DEF g
    <2> QED
      BY <1>1, MaximumExists
  <1> QED
    BY <1>1, <1>2

-----------------------------------------------------------------------------
(* Summaries.                                                               *)

LEMMA NewestExists ==
    ASSUME TypeInv, NEW a \in Account, IsFiniteSet(CredentialsOf(a)), CredentialsOf(a) # {}
    PROVE  NewestCredential(a) \in CredentialsOf(a)
  <1> DEFINE S == CredentialsOf(a)
             f == [c \in Credential |-> credentials[c].createdAt]
             Latest(x) == {c \in S : f[c] = f[x]}
  <1>1. /\ S \subseteq Credential
        /\ \A c \in Credential : f[c] \in Nat /\ f[c] = credentials[c].createdAt
        /\ \A c \in Credential : CredentialOrder[c] \in Nat
    BY CredentialOrderAssumption DEF CredentialsOf, TypeInv, TypeOK, StorageTypeOK, CredentialRow
  <1> HIDE DEF S, f
  <1>2. IsFiniteSet(S) /\ S # {}
    BY DEF S
  <1>3. PICK x \in S : \A y \in S : f[y] <= f[x]
    BY <1>1, <1>2, MaximumExists
  <1>4. IsFiniteSet(Latest(x)) /\ x \in Latest(x) /\ Latest(x) \subseteq S
    BY <1>2, FS_Subset
  <1>5. PICK c \in Latest(x) : \A d \in Latest(x) : CredentialOrder[d] <= CredentialOrder[c]
    <2> HIDE DEF Latest
    <2> QED
      BY <1>1, <1>4, MaximumExists
  <1>6. \A d \in S :
           \/ credentials[d].createdAt < credentials[c].createdAt
           \/ /\ credentials[d].createdAt = credentials[c].createdAt
              /\ CredentialOrder[d] <= CredentialOrder[c]
    <2>1. \A d \in S : f[d] \in Nat /\ f[x] \in Nat /\ f[d] <= f[x] /\ f[c] = f[x]
      BY <1>1, <1>3, <1>5
    <2> QED
      BY <1>1, <1>4, <1>5, <2>1
  <1>7. c \in S
    BY <1>4
  <1> QED
    BY <1>6, <1>7 DEF NewestCredential, S

(* Every account that exists has credentials, finitely many, which start in *)
(* the past.                                                                *)
Equipped ==
    \A a \in Account :
        /\ IsFiniteSet(CredentialsOf(a))
        /\ accounts[a].status # "absent" => CredentialsOf(a) # {}

StartedBy(a, t) == \A c \in CredentialsOf(a) : credentials[c].validFrom <= t

(* The credentials of a revoked account end with it.                        *)
RevokedEnded ==
    \A a \in Account : accounts[a].status = "revoked" =>
        \A c \in CredentialsOf(a) : credentials[c].validUntil <= accounts[a].revokedAt

(* RevokedReportsEnded with what makes it inductive: revoke_account's time  *)
(* is read under the lock, and hence after the start of every credential it *)
(* ends.                                                                    *)
ReadInv ==
    /\ Equipped
    /\ RevokedEnded
    /\ \A a \in Account : StartedBy(a, clock)
    /\ \A h \in Handler : pc[h] = "revoke" => StartedBy(req[h].account, frame[h].now)

LEMMA ReadInit == Init => ReadInv
  <1> SUFFICES ASSUME Init PROVE ReadInv
    OBVIOUS
  <1>1. \A a \in Account : CredentialsOf(a) = {} /\ accounts[a].status = "absent"
    BY RequestAssumption DEF Init, StorageInit, CredentialsOf, NoCredential, NoAccount
  <1>2. \A h \in Handler : pc[h] = "idle"
    BY DEF Init, HandlersInit
  <1> QED
    BY <1>1, <1>2, FS_EmptySet DEF ReadInv, Equipped, RevokedEnded, StartedBy

(* A step that leaves both tables alone.                                    *)
LEMMA ReadQuiet ==
    ASSUME TypeInv, TypeInv', LedgerInv, ReadInv, [Next]_vars, UNCHANGED <<accounts, credentials>>
    PROVE  ReadInv'
  <1>1. \A a : CredentialsOf(a)' = CredentialsOf(a)
    BY DEF CredentialsOf
  <1>2. clock \in Nat /\ clock' \in Nat /\ clock <= clock'
    <2>1. clock \in Nat /\ clock' \in Nat
      BY DEF TypeInv, TypeOK, StorageTypeOK
    <2>2. clock' = clock \/ clock' = clock + 1
      BY StepKinds
      DEF Tick, vars, Kind, Accept, Reserve, Record, Admit, Executes, Commits, Stores, Quiet
    <2> QED
      BY <2>1, <2>2
  <1>3. \A c \in Credential : credentials[c].validFrom \in Nat
    BY DEF TypeInv, TypeOK, StorageTypeOK, CredentialRow
  <1>4. \A a \in Account : StartedBy(a, clock)'
    BY <1>1, <1>2, <1>3 DEF ReadInv, StartedBy, CredentialsOf
  <1>5. ASSUME NEW h \in Handler, pc'[h] = "revoke"
        PROVE  StartedBy(req[h].account, frame[h].now)'
    <2>1. CASE pc[h] = "revoke" /\ req'[h] = req[h] /\ frame'[h] = frame[h]
      BY <1>1, <2>1 DEF ReadInv, StartedBy
    <2>2. CASE frame'[h].now = clock
      <3>1. req'[h].account \in Account
        BY <1>5 DEF TypeInv, ControlOK
      <3> QED
        BY <1>1, <2>2, <3>1 DEF ReadInv, StartedBy
    <2> QED
      BY <1>5, <2>1, <2>2, EntranceKinds DEF StaysOut, Enters, OthersStay
  <1> QED
    BY <1>1, <1>4, <1>5 DEF ReadInv, Equipped, RevokedEnded

(* The three transactions.  One that adds credential c to account a touches *)
(* no account that another handler is about to revoke.                      *)
LEMMA ReadAdds ==
    ASSUME TypeInv, TypeInv', AccountInv, LedgerInv, ReadInv,
           NEW h \in Handler, NEW a \in Account, NEW c \in Credential,
           OthersStay(h), pc'[h] = "answer", clock' = clock,
           credentials[c].account = None,
           credentials'[c] = NewCredential(a, frame[h].now, frame[h].begun),
           accounts'[a].status = "active",
           accounts[a].status = "absent" \/ HoldsAccount(h, a),
           \A b \in Account : b # a => accounts'[b] = accounts[b],
           \A d \in Credential : d # c =>
              /\ credentials'[d].account = credentials[d].account
              /\ credentials'[d].validFrom = credentials[d].validFrom
              /\ credentials[d].account # a => credentials'[d] = credentials[d]
    PROVE  ReadInv'
  <1>1. a # None /\ None \notin Account
    BY RequestAssumption
  <1>2. credentials'[c].account = a /\ credentials'[c].validFrom = frame[h].now
    BY DEF NewCredential
  <1>3. /\ CredentialsOf(a)' = CredentialsOf(a) \cup {c}
        /\ \A b \in Account : b # a => CredentialsOf(b)' = CredentialsOf(b)
        /\ \A b \in Account : c \notin CredentialsOf(b)
    BY <1>1, <1>2 DEF CredentialsOf
  <1>4. Equipped'
    BY <1>3, FS_AddElement DEF ReadInv, Equipped
  <1>5. RevokedEnded'
    BY <1>3 DEF ReadInv, RevokedEnded, CredentialsOf
  <1>6. frame[h].now <= clock
    BY DEF LedgerInv, HandlerInv
  <1>7. \A b \in Account : StartedBy(b, clock)'
    BY <1>2, <1>3, <1>6 DEF ReadInv, StartedBy, CredentialsOf
  <1>8. ASSUME NEW g \in Handler, pc'[g] = "revoke"
        PROVE  StartedBy(req[g].account, frame[g].now)'
    <2>1. g # h /\ pc[g] = "revoke" /\ req'[g] = req[g] /\ frame'[g] = frame[g]
      BY <1>8 DEF OthersStay
    <2>2. PICK b \in Account : b = req[g].account
      BY <2>1 DEF TypeInv, ControlOK
    <2>3. b # a
      BY <2>1, <2>2 DEF AccountInv, Knows, Exclusive, HoldsAccount
    <2> QED
      BY <1>3, <2>1, <2>2, <2>3 DEF ReadInv, StartedBy, CredentialsOf
  <1> QED
    BY <1>4, <1>5, <1>7, <1>8 DEF ReadInv

LEMMA ReadCreate ==
    ASSUME TypeInv, TypeInv', AccountInv, LedgerInv, ReadInv, NEW h \in Handler,
           NEW a \in Account, NEW c \in Credential, CreateAccount(h, a, c)
    PROVE  ReadInv'
  <1>1. /\ accounts[a].status = "absent" /\ accounts'[a].status = "active"
        /\ \A b \in Account : b # a => accounts'[b] = accounts[b]
        /\ credentials[c].account = None
        /\ credentials'[c] = NewCredential(a, frame[h].now, frame[h].begun)
        /\ \A d \in Credential : d # c => credentials'[d] = credentials[d]
        /\ OthersStay(h) /\ pc'[h] = "answer"
    BY CreateChanges
  <1>2. clock' = clock
    BY DEF CreateAccount
  <1> QED
    BY <1>1, <1>2, ReadAdds

LEMMA ReadRotate ==
    ASSUME TypeInv, TypeInv', AccountInv, LedgerInv, ReadInv, NEW h \in Handler,
           NEW c \in Credential, RotateAccount(h, c)
    PROVE  ReadInv'
  <1> DEFINE a == req[h].account
  <1>1. /\ a \in Account /\ HoldsAccount(h, a) /\ accounts'[a].status = "active"
        /\ \A b \in Account : b # a => accounts'[b] = accounts[b]
        /\ credentials[c].account = None
        /\ credentials'[c] = NewCredential(a, frame[h].now, frame[h].begun)
        /\ OthersStay(h) /\ pc'[h] = "answer"
    BY RotateChanges
  <1>2. \A d \in Credential : d # c =>
           /\ credentials'[d].account = credentials[d].account
           /\ credentials'[d].validFrom = credentials[d].validFrom
           /\ credentials[d].account # a => credentials'[d] = credentials[d]
    BY RotateChanges DEF CredentialsOf
  <1>3. clock' = clock
    BY DEF RotateAccount
  <1> QED
    BY <1>1, <1>2, <1>3, ReadAdds

(* GREATEST(valid_from, LEAST(valid_until, now)) is now at the latest, as   *)
(* no credential of a locked account starts after now.                      *)
LEMMA ReadRevoke ==
    ASSUME TypeInv, TypeInv', AccountInv, ReadInv, NEW h \in Handler, RevokeAccount(h)
    PROVE  ReadInv'
  <1> DEFINE a == req[h].account
             now == frame[h].now
  <1>1. /\ a \in Account /\ HoldsAccount(h, a) /\ accounts[a].status # "absent"
        /\ accounts'[a].status = "revoked"
        /\ \A b \in Account : b # a => accounts'[b] = accounts[b]
        /\ OthersStay(h) /\ pc'[h] = "answer"
    BY RevokeChanges
  <1>2. \A d \in Credential :
           /\ credentials'[d].account = credentials[d].account
           /\ credentials'[d].validFrom = credentials[d].validFrom
           /\ credentials[d].account # a => credentials'[d] = credentials[d]
    BY RevokeChanges DEF CredentialsOf
  <1>3. clock' = clock /\ pc[h] = "revoke"
    BY DEF RevokeAccount
  <1>4. \A b : CredentialsOf(b)' = CredentialsOf(b)
    BY <1>2 DEF CredentialsOf
  <1>5. \A d \in CredentialsOf(a) : credentials'[d].validUntil <= accounts'[a].revokedAt
    <2>1. CASE UNCHANGED <<accounts, credentials>>
      BY <1>1, <2>1 DEF ReadInv, RevokedEnded
    <2>2. CASE RevokeAccountRow(a, now) /\ RevokeCredentials(a, now)
      <3>1. accounts'[a].revokedAt = now
        BY <1>1, <2>2 DEF RevokeAccountRow, TypeInv, TypeOK, StorageTypeOK, AccountRow
      <3>2. ASSUME NEW d \in CredentialsOf(a)
            PROVE  credentials'[d].validUntil <= now
        <4>1. /\ credentials[d].validFrom <= now /\ now \in Nat
              /\ credentials[d] \in CredentialRow
          BY <1>3 DEF ReadInv, StartedBy, CredentialsOf, TypeInv, TypeOK, StorageTypeOK,
             HandlersTypeOK, Frame
        <4>2. credentials'[d] = RevokedRow(credentials[d], now)
          BY <2>2 DEF RevokeCredentials, CredentialsOf
        <4>3. credentials'[d].validUntil =
                 Greatest(credentials[d].validFrom, Least(credentials[d].validUntil, now))
          BY <4>1, <4>2 DEF RevokedRow, CredentialRow
        <4> QED
          BY <4>1, <4>3 DEF Greatest, Least, CredentialRow
      <3> QED
        BY <3>1, <3>2
    <2> QED
      BY <2>1, <2>2 DEF RevokeAccount
  <1>6. RevokedEnded'
    BY <1>1, <1>2, <1>4, <1>5 DEF ReadInv, RevokedEnded, CredentialsOf
  <1>7. Equipped' /\ \A b \in Account : StartedBy(b, clock)'
    BY <1>1, <1>2, <1>3, <1>4 DEF ReadInv, Equipped, StartedBy, CredentialsOf
  <1>8. ASSUME NEW g \in Handler, pc'[g] = "revoke"
        PROVE  StartedBy(req[g].account, frame[g].now)'
    BY <1>1, <1>2, <1>4, <1>8 DEF OthersStay, ReadInv, StartedBy, CredentialsOf
  <1> QED
    BY <1>6, <1>7, <1>8 DEF ReadInv

LEMMA ReadStep ==
    TypeInv /\ TypeInv' /\ AccountInv /\ LedgerInv /\ ReadInv /\ [Next]_vars => ReadInv'
  BY TableKinds, ReadQuiet, ReadCreate, ReadRotate, ReadRevoke

(* What a summary reports is the expiry of one of the account's own         *)
(* credentials.                                                             *)
LEMMA ReportedExpiry ==
    ASSUME TypeInv, ReadInv, NEW o, NEW a \in Account, NEW answer \in Get(o, a)
    PROVE  /\ answer = Summary(a) /\ accounts[a].status # "absent"
           /\ NewestCredential(a) \in CredentialsOf(a)
  BY NewestExists DEF Get, LoadAccount, ReadInv, Equipped

(* However stale the clock readings of its rotations were, a revoked        *)
(* account is reported as ended: get, rotate_secret's and revoke's answers  *)
(* show no expiry after the revocation.                                     *)
THEOREM RevokedAreReportedEnded == Spec => []RevokedReportsEnded
  <1>1. TypeInv /\ ReadInv => RevokedReportsEnded
    <2> SUFFICES ASSUME TypeInv, ReadInv, NEW o \in Organization, NEW a \in Account,
                        NEW answer \in Get(o, a), answer.status = "revoked"
                 PROVE  answer.expiresAt <= answer.revokedAt
      BY DEF RevokedReportsEnded
    <2>1. answer = Summary(a) /\ NewestCredential(a) \in CredentialsOf(a)
      BY ReportedExpiry
    <2> QED
      BY <2>1 DEF Summary, ReadInv, RevokedEnded
  <1> QED
    BY <1>1, TypeInit, TypeStep, OwnerInit, OwnerNext, AccountInit, AccountNext,
       LedgerInit, LedgerNext, ReadInit, ReadStep, PTL DEF Spec

(* load_account's choice of the newest credential by created_at never       *)
(* reports too late an expiry, since all but one of an account's            *)
(* credentials end within the overlap.                                      *)
THEOREM ExpiryIsNotOverstated == Spec => []ExpiryNotOverstated
  <1>1. TypeInv /\ AccountInv /\ ReadInv => ExpiryNotOverstated
    <2> SUFFICES ASSUME TypeInv, AccountInv, ReadInv, NEW o \in Organization,
                        NEW a \in Account, NEW answer \in Get(o, a),
                        NEW c \in CredentialsOf(a),
                        ~(credentials[c].validUntil <= answer.expiresAt)
                 PROVE  answer.expiresAt <= answer.rotatedAt + RotationOverlap
      BY DEF ExpiryNotOverstated
    <2> DEFINE n == NewestCredential(a)
    <2>1. answer = Summary(a) /\ n \in CredentialsOf(a)
      BY ReportedExpiry
    <2>2. answer.expiresAt = credentials[n].validUntil /\ answer.rotatedAt = accounts[a].rotatedAt
      BY <2>1 DEF Summary
    <2>3. /\ credentials[c].validUntil \in Nat /\ credentials[n].validUntil \in Nat
          /\ accounts[a].rotatedAt \in Nat /\ RotationOverlap \in Nat
      BY <2>1, ConfigAssumption
      DEF CredentialsOf, TypeInv, TypeOK, StorageTypeOK, CredentialRow, AccountRow
    <2> HIDE DEF n
    <2>4. \/ credentials[c].validUntil <= accounts[a].rotatedAt + RotationOverlap
          \/ credentials[n].validUntil <= accounts[a].rotatedAt + RotationOverlap
      BY <2>1, <2>2, <2>3 DEF AccountInv, OverlapBounded
    <2> QED
      BY <2>2, <2>3, <2>4
  <1> QED
    BY <1>1, TypeInit, TypeStep, OwnerInit, OwnerNext, AccountInit, AccountNext,
       LedgerInit, LedgerNext, ReadInit, ReadStep, PTL DEF Spec

-----------------------------------------------------------------------------
(* Listings.  First, pages of a finite set of rows.                         *)

LEMMA OrderIsNatural == \A a \in Account : IdOrder[a] \in Nat
  BY OrderAssumption

LEMMA PageRows ==
    ASSUME NEW S, S \subseteq Account, IsFiniteSet(S), NEW n \in Nat
    PROVE  /\ FirstRows(S, n) \subseteq S /\ IsFiniteSet(FirstRows(S, n))
           /\ Cardinality(FirstRows(S, n)) \in Nat /\ Cardinality(S) \in Nat
           /\ \A a \in S : /\ IsFiniteSet(Earlier(S, a))
                            /\ Cardinality(Earlier(S, a)) \in Nat
  <1>1. FirstRows(S, n) \subseteq S
    BY DEF FirstRows
  <1>2. \A a \in S : Earlier(S, a) \subseteq S
    BY DEF Earlier
  <1> QED
    BY <1>1, <1>2, FS_Subset, FS_CardinalityType

(* A page has all rows up to its last.                                      *)
LEMMA PageIsInitial ==
    ASSUME NEW S, S \subseteq Account, IsFiniteSet(S), NEW n \in Nat,
           NEW a \in FirstRows(S, n), NEW b \in S, IdOrder[b] <= IdOrder[a]
    PROVE  b \in FirstRows(S, n)
  <1>1. a \in S /\ a \in Account /\ b \in Account /\ Cardinality(Earlier(S, a)) < n
    BY DEF FirstRows
  <1>2. Earlier(S, b) \subseteq Earlier(S, a)
    BY <1>1, OrderIsNatural DEF Earlier
  <1>3. IsFiniteSet(Earlier(S, a)) /\ Cardinality(Earlier(S, a)) \in Nat
        /\ Cardinality(Earlier(S, b)) \in Nat
    BY <1>1, PageRows
  <1>4. Cardinality(Earlier(S, b)) <= Cardinality(Earlier(S, a))
    BY <1>2, <1>3, FS_Subset
  <1> QED
    BY <1>1, <1>3, <1>4 DEF FirstRows

LEMMA PageNotEmpty ==
    ASSUME NEW S, S \subseteq Account, IsFiniteSet(S), S # {}, NEW n \in Nat, n > 0
    PROVE  FirstRows(S, n) # {}
  <1>1. \A a \in S : IdOrder[a] \in Int
    BY OrderIsNatural
  <1>2. PICK a \in S : \A b \in S : IdOrder[a] <= IdOrder[b]
    BY <1>1, MinimumExists
  <1>3. Earlier(S, a) = {}
    BY <1>1, <1>2 DEF Earlier
  <1> QED
    BY <1>3, FS_EmptySet DEF FirstRows

(* A page has no more rows than its limit.                                  *)
LEMMA PageBounded ==
    ASSUME NEW S, S \subseteq Account, IsFiniteSet(S), NEW n \in Nat
    PROVE  Cardinality(FirstRows(S, n)) <= n
  <1> DEFINE F == FirstRows(S, n)
  <1>1. F \subseteq S /\ IsFiniteSet(F) /\ Cardinality(F) \in Nat
    BY PageRows
  <1>2. CASE F = {}
    BY <1>2, FS_EmptySet
  <1>3. CASE F # {}
    <2>1. \A a \in F : IdOrder[a] \in Int
      BY <1>1, OrderIsNatural
    <2> HIDE DEF F
    <2>2. PICK m \in F : \A b \in F : IdOrder[b] <= IdOrder[m]
      BY <1>1, <1>3, <2>1, MaximumExists
    <2>3. F \ {m} \subseteq Earlier(S, m)
      <3> SUFFICES ASSUME NEW b \in F, b # m
                   PROVE  IdOrder[b] < IdOrder[m]
        BY <1>1 DEF Earlier
      <3>1. IdOrder[b] # IdOrder[m]
        BY <1>1, OrderAssumption
      <3> QED
        BY <2>1, <2>2, <3>1
    <2>4. /\ IsFiniteSet(Earlier(S, m)) /\ Cardinality(Earlier(S, m)) \in Nat
          /\ Cardinality(Earlier(S, m)) < n
      BY <1>1, PageRows DEF F, FirstRows
    <2>5. /\ IsFiniteSet(F \ {m}) /\ Cardinality(F \ {m}) = Cardinality(F) - 1
      BY <1>1, FS_RemoveElement
    <2>6. Cardinality(F \ {m}) <= Cardinality(Earlier(S, m))
      BY <2>3, <2>4, FS_Subset
    <2> QED
      BY <1>1, <2>4, <2>5, <2>6 DEF F
  <1> QED
    BY <1>2, <1>3

(* Asking for one row more tells whether there are rows beyond the page.    *)
LEMMA ExtraRow ==
    ASSUME NEW S, S \subseteq Account, IsFiniteSet(S), NEW n \in Nat, n > 0
    PROVE  IF Cardinality(FirstRows(S, n + 1)) > n
           THEN \E b \in S : b \notin FirstRows(S, n)
           ELSE FirstRows(S, n) = S
  <1> DEFINE F == FirstRows(S, n)
             G == FirstRows(S, n + 1)
  <1>1. /\ F \subseteq S /\ IsFiniteSet(F) /\ Cardinality(F) \in Nat
        /\ G \subseteq S /\ IsFiniteSet(G) /\ Cardinality(G) \in Nat
        /\ Cardinality(S) \in Nat
    BY PageRows
  <1>2. CASE Cardinality(G) > n
    <2>1. Cardinality(F) <= n
      BY PageBounded
    <2>2. Cardinality(G) <= Cardinality(S)
      BY <1>1, FS_Subset
    <2>3. F # S
      BY <1>1, <1>2, <2>1, <2>2
    <2> QED
      BY <1>1, <1>2, <2>3
  <1>3. CASE ~(Cardinality(G) > n)
    <2>1. S \ G = {}
      <3> SUFFICES ASSUME S \ G # {}
                   PROVE  FALSE
        OBVIOUS
      <3>1. IsFiniteSet(S \ G) /\ \A a \in S \ G : IdOrder[a] \in Int
        <4> HIDE DEF G
        <4>1. S \ G \subseteq S
          OBVIOUS
        <4>2. IsFiniteSet(S \ G)
          BY <4>1, FS_Subset
        <4>3. \A a \in S \ G : IdOrder[a] \in Int
          BY OrderIsNatural
        <4> QED
          BY <4>2, <4>3
      <3>2. PICK r \in S \ G : \A b \in S \ G : IdOrder[r] <= IdOrder[b]
        <4> HIDE DEF G
        <4> QED
          BY <3>1, MinimumExists
      <3>3. Earlier(S, r) \subseteq G
        BY <3>2, OrderIsNatural DEF Earlier
      <3>4. Cardinality(Earlier(S, r)) <= Cardinality(G) /\ Cardinality(Earlier(S, r)) \in Nat
        <4>1. Cardinality(Earlier(S, r)) \in Nat
          BY PageRows
        <4> HIDE DEF G
        <4>2. Cardinality(Earlier(S, r)) <= Cardinality(G)
          BY <1>1, <3>3, FS_Subset
        <4> QED
          BY <4>1, <4>2
      <3>5. Cardinality(Earlier(S, r)) < n + 1
        BY <1>1, <1>3, <3>4
      <3> QED
        BY <3>2, <3>5 DEF FirstRows
    <2>2. Cardinality(S) <= n
      BY <1>1, <1>3, <2>1
    <2>3. ASSUME NEW a \in S
          PROVE  a \in F
      <3>1. Earlier(S, a) \subseteq S \ {a}
        BY OrderIsNatural DEF Earlier
      <3>2. IsFiniteSet(S \ {a}) /\ Cardinality(S \ {a}) = Cardinality(S) - 1
        BY FS_RemoveElement
      <3>3. Cardinality(Earlier(S, a)) <= Cardinality(S \ {a})
            /\ Cardinality(Earlier(S, a)) \in Nat
        BY <3>1, <3>2, FS_Subset, PageRows
      <3> QED
        BY <1>1, <2>2, <3>2, <3>3 DEF FirstRows
    <2> QED
      <3>1. F = S
        <4> HIDE DEF F
        <4> QED
          BY <1>1, <2>3
      <3> QED
        BY <1>3, <3>1
  <1> QED
    BY <1>2, <1>3

LEMMA LastRow ==
    ASSUME NEW S, S \subseteq Account, IsFiniteSet(S), S # {}
    PROVE  Last(S) \in S /\ \A b \in S : IdOrder[b] <= IdOrder[Last(S)]
  <1>1. \A a \in S : IdOrder[a] \in Int
    BY OrderIsNatural
  <1>2. \E a \in S : \A b \in S : IdOrder[b] <= IdOrder[a]
    BY <1>1, MaximumExists
  <1> QED
    BY <1>2 DEF Last

(* The inductive invariant of a client's way through the pages: what it has *)
(* got lies at or before its cursor, and what it is still to get after it.  *)
Counted(o, times, after) ==
    \A a \in Account : times[a] = 1 =>
        accounts[a].organization = o /\ after # None /\ IdOrder[a] <= IdOrder[after]

Outstanding(o, present, times, after) ==
    \A a \in present : times[a] = 1 \/ a \in Beyond(o, after)

WalkInv ==
    /\ walk.stage \in {"none", "paging", "done"}
    /\ walk.present \subseteq Account
    /\ walk.times \in [Account -> {0, 1}]
    /\ walk.stage = "none" => \A a \in Account : walk.times[a] = 0
    /\ walk.stage # "none" => walk.organization \in Organization
    /\ \A a \in Account : walk.times[a] = 1 => accounts[a].organization = walk.organization
    /\ walk.stage = "paging" =>
          /\ walk.after \in Account
          /\ Beyond(walk.organization, walk.after) # {}
          /\ Counted(walk.organization, walk.times, walk.after)
          /\ Outstanding(walk.organization, walk.present, walk.times, walk.after)
    /\ walk.stage = "done" => \A a \in walk.present : walk.times[a] = 1

LEMMA WalkInit == ListInit => WalkInv
  BY DEF ListInit, NoWalk, WalkInv

LEMMA WalkPage ==
    ASSUME TypeInv, OrganizationInv, NEW o \in Organization, NEW after \in Account \cup {None},
           NEW present, present \subseteq Account, NEW times \in [Account -> {0, 1}],
           Counted(o, times, after), Outstanding(o, present, times, after),
           NEW n \in Nat, ListPage(o, after, present, times, n)
    PROVE  WalkInv'
  <1> DEFINE S == Beyond(o, after)
             F == FirstRows(S, n)
  <1>1. /\ S \subseteq Account /\ IsFiniteSet(S)
        /\ \A a \in S : accounts[a].organization = o
    <2>1. S \subseteq AccountsOf(o) /\ IsFiniteSet(AccountsOf(o))
      BY DEF Beyond, OrganizationInv
    <2> QED
      BY <2>1, FS_Subset DEF AccountsOf
  <1>2. n > 0 /\ accounts' = accounts
    BY DEF ListPage, ValidLimit, vars, tables
  <1>3. F \subseteq S
    BY <1>1, PageRows
  <1>4. /\ walk'.organization = o
        /\ walk'.present = present
        /\ walk'.times = [a \in Account |-> IF a \in F THEN times[a] + 1 ELSE times[a]]
        /\ walk'.stage = IF HasMore(o, after, n) THEN "paging" ELSE "done"
        /\ walk'.after = NextCursor(o, after, n)
    BY DEF ListPage
  <1>5. \A a \in Account : a \in S => times[a] = 0
    BY OrderIsNatural DEF Counted, Beyond
  <1>6. /\ walk'.times \in [Account -> {0, 1}]
        /\ \A a \in Account : walk'.times[a] = 1 <=> times[a] = 1 \/ a \in F
    <2> HIDE DEF F, S
    <2>1. \A a \in Account : times[a] \in {0, 1} /\ (a \in F => times[a] = 0)
      BY <1>3, <1>5
    <2> QED
      BY <1>4, <2>1
  <1>7. \A a \in Account : walk'.times[a] = 1 => accounts[a].organization = o
    BY <1>1, <1>3, <1>6 DEF Counted
  <1>8. CASE HasMore(o, after, n)
    <2>1. PICK b \in S : b \notin F
      BY <1>1, <1>2, <1>8, ExtraRow DEF HasMore
    <2>2. F # {} /\ IsFiniteSet(F) /\ F \subseteq Account
      BY <1>1, <1>2, <1>3, <2>1, PageNotEmpty, PageRows
    <2> DEFINE l == Last(F)
    <2>3. /\ l \in F /\ \A a \in F : IdOrder[a] <= IdOrder[l]
          /\ walk'.after = l /\ walk'.stage = "paging"
      BY <1>4, <1>8, <2>2, LastRow DEF NextCursor
    <2>4. l \in Account /\ l \in S /\ l # None
      BY <1>3, <2>2, <2>3, RequestAssumption
    <2>5. \A a \in S : a \notin F => IdOrder[a] > IdOrder[l]
      <3> SUFFICES ASSUME NEW a \in S, a \notin F, ~(IdOrder[a] > IdOrder[l])
                   PROVE  FALSE
        OBVIOUS
      <3>1. IdOrder[a] <= IdOrder[l]
        BY <1>1, <2>4, OrderIsNatural
      <3> QED
        BY <1>1, <2>3, <3>1, PageIsInitial
    <2> HIDE DEF F, l
    <2>6. \A a \in S : a \notin F => a \in Beyond(o, l)
      BY <1>1, <2>5 DEF Beyond, AccountsOf
    <2>7. Counted(o, walk'.times, l)
      <3> SUFFICES ASSUME NEW a \in Account, times[a] = 1
                   PROVE  IdOrder[a] <= IdOrder[l]
        BY <1>6, <1>7, <2>3, <2>4 DEF Counted
      <3>1. after # None /\ after \in Account /\ IdOrder[a] <= IdOrder[after]
        BY DEF Counted
      <3>2. IdOrder[l] > IdOrder[after]
        BY <2>4, <3>1 DEF Beyond
      <3> QED
        BY <2>4, <3>1, <3>2, OrderIsNatural
    <2>8. Outstanding(o, present, walk'.times, l)
      BY <1>6, <2>6 DEF Outstanding
    <2>9. Beyond(o, l) # {}
      BY <2>1, <2>6
    <2>10. /\ Beyond(walk.organization, walk.after)' # {}
           /\ Counted(walk.organization, walk.times, walk.after)'
           /\ Outstanding(walk.organization, walk.present, walk.times, walk.after)'
      BY <1>2, <1>4, <2>3, <2>7, <2>8, <2>9 DEF Counted, Outstanding, Beyond, AccountsOf
    <2> QED
      BY <1>2, <1>4, <1>6, <1>7, <2>3, <2>4, <2>10 DEF WalkInv
  <1>9. CASE ~HasMore(o, after, n)
    <2>1. F = S
      BY <1>1, <1>2, <1>9, ExtraRow DEF HasMore
    <2>2. walk'.stage = "done" /\ \A a \in present : walk'.times[a] = 1
      BY <1>4, <1>6, <1>9, <2>1 DEF Outstanding
    <2> QED
      BY <1>2, <1>4, <1>6, <1>7, <2>2 DEF WalkInv
  <1> QED
    BY <1>8, <1>9

(* Accounts that are there stay where they are, so what is still to come    *)
(* and what has been listed is so after any step of the handlers.           *)
LEMMA WalkWrite ==
    ASSUME TypeInv, OrganizationInv, NothingRevivedBy, WalkInv, UNCHANGED walk
    PROVE  WalkInv'
  <1>1. \A o \in Organization, a \in Account :
            accounts[a].organization = o => accounts'[a].organization = o
    BY RequestAssumption
    DEF NothingRevivedBy, AccountOnlyAdvances, OrganizationInv, BlankRows
  <1>2. walk' = walk
    OBVIOUS
  <1>3. \A a \in Account : walk.times[a] = 1 => accounts'[a].organization = walk.organization
    <2>1. CASE walk.stage = "none"
      BY <2>1 DEF WalkInv
    <2>2. CASE walk.stage # "none"
      BY <2>2, <1>1 DEF WalkInv
    <2> QED
      BY <2>1, <2>2
  <1>4. ASSUME walk.stage = "paging"
        PROVE  /\ Beyond(walk.organization, walk.after)' # {}
               /\ Counted(walk.organization, walk.times, walk.after)'
               /\ Outstanding(walk.organization, walk.present, walk.times, walk.after)'
    <2>1. walk.organization \in Organization
      BY <1>4 DEF WalkInv
    <2>2. \A a \in Beyond(walk.organization, walk.after) :
              a \in Beyond(walk.organization, walk.after)'
      BY <1>1, <1>2, <2>1 DEF Beyond, AccountsOf
    <2>3. /\ Beyond(walk.organization, walk.after) # {}
          /\ Counted(walk.organization, walk.times, walk.after)
          /\ Outstanding(walk.organization, walk.present, walk.times, walk.after)
      BY <1>4 DEF WalkInv
    <2>4. Beyond(walk.organization, walk.after)' # {}
      BY <2>2, <2>3
    <2>5. Counted(walk.organization, walk.times, walk.after)'
      BY <1>2, <1>3, <2>3 DEF Counted
    <2>6. Outstanding(walk.organization, walk.present, walk.times, walk.after)'
      BY <1>2, <2>2, <2>3 DEF Outstanding
    <2> QED
      BY <2>4, <2>5, <2>6
  <1> QED
    BY <1>2, <1>3, <1>4 DEF WalkInv

LEMMA WalkStep ==
    TypeInv /\ AccountInv /\ OrganizationInv /\ WalkInv /\ [ListingNext]_listVars => WalkInv'
  <1> SUFFICES ASSUME TypeInv, AccountInv, OrganizationInv, WalkInv, [ListingNext]_listVars
               PROVE  WalkInv'
    OBVIOUS
  <1>1. CASE [Next]_vars /\ UNCHANGED walk
    BY <1>1, NothingRevivedStep, WalkWrite
  <1>2. ASSUME NEW n \in PageLimit, NEW o \in Organization, ListFirst(o, n)
        PROVE  WalkInv'
    <2>1. NoWalk.times \in [Account -> {0, 1}] /\ \A a \in Account : NoWalk.times[a] = 0
      BY DEF NoWalk
    <2>2. Counted(o, NoWalk.times, None) /\ Outstanding(o, AccountsOf(o), NoWalk.times, None)
      BY <2>1 DEF Counted, Outstanding, Beyond
    <2>3. n \in Nat /\ AccountsOf(o) \subseteq Account
      BY OrderAssumption DEF AccountsOf
    <2> QED
      BY <1>2, <2>1, <2>2, <2>3, WalkPage DEF ListFirst
  <1>3. ASSUME NEW n \in PageLimit, ListNext(n)
        PROVE  WalkInv'
    <2>1. walk.stage = "paging" /\ ListPage(walk.organization, walk.after, walk.present, walk.times, n)
      BY <1>3 DEF ListNext
    <2>2. n \in Nat
      BY OrderAssumption
    <2>3. /\ walk.organization \in Organization /\ walk.after \in Account \cup {None}
          /\ walk.present \subseteq Account /\ walk.times \in [Account -> {0, 1}]
          /\ Counted(walk.organization, walk.times, walk.after)
          /\ Outstanding(walk.organization, walk.present, walk.times, walk.after)
      BY <2>1 DEF WalkInv
    <2> QED
      BY <2>1, <2>2, <2>3, WalkPage
  <1> QED
    BY <1>1, <1>2, <1>3 DEF ListingNext, Write, listVars

(* Reading a page leaves the handlers and the tables alone.                 *)
LEMMA ListingWrites == [ListingNext]_listVars => [Next]_vars
  BY DEF ListingNext, Write, ListFirst, ListNext, ListPage, listVars

(* The invariants of the handlers, and the one of the walk, beside list.    *)
LEMMA WalkAlways == ListingSpec => [](TypeInv /\ WalkInv)
  <1>1. ListInit => Init
    BY DEF ListInit
  <1> QED
    BY <1>1, ListingWrites, TypeInit, TypeStep, AccountInit, AccountNext,
       OrganizationInit, OrganizationStep, WalkInit, WalkStep, PTL DEF ListingSpec

(* Keyset pagination is complete: whatever create and revoke commit between *)
(* the pages, whoever follows the cursors to the end has got every account  *)
(* that the organization had when the first page was read.                  *)
THEOREM WalksAreComplete == ListingSpec => []WalkComplete
  <1>1. WalkInv => WalkComplete
    BY DEF WalkInv, WalkComplete
  <1> QED
    BY <1>1, WalkAlways, PTL

(* No page repeats a row of an earlier one or shows another organization's. *)
THEOREM RowsAreListedOnce == ListingSpec => []ListedOnce
  <1>1. WalkInv => ListedOnce
    <2> SUFFICES ASSUME WalkInv, NEW a \in Account, walk.times[a] > 0
                 PROVE  walk.times[a] = 1 /\ accounts[a].organization = walk.organization
      BY DEF ListedOnce
    <2>1. walk.times[a] \in {0, 1}
      BY DEF WalkInv
    <2> QED
      BY <2>1 DEF WalkInv
  <1> QED
    BY <1>1, WalkAlways, PTL

(* list's next_cursor is never a dead end: has_more was read from an extra  *)
(* row, and accounts are never deleted, so the next page has a row.         *)
THEOREM CursorsLeadOn == ListingSpec => []CursorLeadsOn
  <1>1. WalkInv => CursorLeadsOn
    BY DEF WalkInv, CursorLeadsOn
  <1> QED
    BY <1>1, WalkAlways, PTL

=============================================================================
