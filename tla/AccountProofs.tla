--------------------------- MODULE AccountProofs ----------------------------
(***************************************************************************)
(* What holds of accounts and credentials for every set of handlers,        *)
(* requests and ids, every configuration that validate accepts, and any     *)
(* length of time.                                                          *)
(***************************************************************************)
EXTENDS ServiceAccountProofs

(* A credential belongs to an account that exists, satisfies the table's    *)
(* CHECK, and is revoked only together with its account.                    *)
RowsOK ==
    \A c \in Credential :
        LET row == credentials[c] IN
        row.account # None =>
            /\ accounts[row.account].status # "absent"
            /\ accounts[row.account].status = "active" => row.revokedAt = 0
            /\ row.validFrom <= row.validUntil

(* FOR UPDATE: an account's row has one holder.                             *)
Exclusive ==
    \A g, h \in Handler, a \in Account :
        HoldsAccount(g, a) /\ HoldsAccount(h, a) => g = h

(* What a handler has read under a lock, or about a row that cannot change. *)
Knows(h) ==
    /\ pc[h] = "rotate" =>
          /\ accounts[req[h].account].status = "active"
          /\ accounts[req[h].account].revision = req[h].revision
    /\ pc[h] = "revoke" =>
          /\ accounts[req[h].account].status # "absent"
          /\ accounts[req[h].account].revision = req[h].revision
    /\ pc[h] \in {"status", "recheck", "admit"} =>
          credentials[req[h].credential].account = frame[h].account
    /\ pc[h] = "admit" =>
          /\ accounts[frame[h].account].status = "active"
          /\ credentials[req[h].credential].revokedAt = 0
          /\ credentials[req[h].credential].validUntil = frame[h].until

AccountInv ==
    /\ RowsOK
    /\ Exclusive
    /\ \A h \in Handler : Knows(h)
    /\ OverlapBounded

LEMMA AccountInit == Init => AccountInv
  BY RequestAssumption
  DEF Init, StorageInit, HandlersInit, AccountInv, RowsOK, Exclusive, HoldsAccount,
      Knows, OverlapBounded, CredentialsOf, NoCredential

LEMMA AccountImplies == AccountInv => AdmissionCurrent /\ OverlapBounded
  BY DEF AccountInv, Knows, AdmissionCurrent

(* A step of h that changes neither table.                                  *)
LEMMA QuietStep ==
    ASSUME TypeInv, AccountInv, NEW h \in Handler, UNCHANGED <<accounts, credentials>>,
           \A g \in Handler : g # h =>
               pc'[g] = pc[g] /\ req'[g] = req[g] /\ frame'[g] = frame[g],
           Knows(h)',
           \A a \in Account : HoldsAccount(h, a)' => HoldsAccount(h, a) \/ AccountFree(a)
    PROVE  AccountInv'
  <1>1. RowsOK' /\ OverlapBounded'
    BY DEF AccountInv, RowsOK, OverlapBounded, CredentialsOf
  <1>2. \A g \in Handler : g # h => /\ Knows(g)'
                                    /\ \A a \in Account : HoldsAccount(g, a)' <=> HoldsAccount(g, a)
    BY DEF AccountInv, Knows, HoldsAccount
  <1>3. Exclusive'
    BY <1>2 DEF AccountInv, Exclusive, AccountFree
  <1> QED
    BY <1>1, <1>2, <1>3 DEF AccountInv

(* A step of h that changes neither table and takes no lock.                *)
LEMMA LocklessStep ==
    ASSUME TypeInv, AccountInv, NEW h \in Handler, UNCHANGED <<accounts, credentials>>,
           \A g \in Handler : g # h =>
               pc'[g] = pc[g] /\ req'[g] = req[g] /\ frame'[g] = frame[g],
           pc'[h] \notin {"rotate", "revoke", "status", "recheck", "admit"}
    PROVE  AccountInv'
  <1>1. Knows(h)' /\ \A a \in Account : ~HoldsAccount(h, a)'
    BY DEF Knows, HoldsAccount
  <1> QED
    BY <1>1, QuietStep

-----------------------------------------------------------------------------
(* The steps that change neither accounts nor credentials.                  *)

OthersStay(h) ==
    \A g \in Handler : g # h =>
        pc'[g] = pc[g] /\ req'[g] = req[g] /\ frame'[g] = frame[g]

LEMMA AccountAccept ==
    ASSUME TypeInv, AccountInv, NEW h \in Handler, NEW r \in Request, Accept(h, r)
    PROVE  AccountInv'
  BY LocklessStep DEF Accept, Goto, TypeInv, TypeOK, HandlersTypeOK

LEMMA AccountShared ==
    ASSUME TypeInv, AccountInv, NEW h \in Handler,
           \/ Reserve(h) \/ AlreadyReserved(h) \/ Find(h) \/ Record(h)
           \/ Return(h) \/ Fail(h)
    PROVE  AccountInv'
  <1> USE DEF TypeInv, TypeOK, HandlersTypeOK
  <1>1. CASE Reserve(h)
    <2>1. OthersStay(h) /\ UNCHANGED <<accounts, credentials>>
      BY <1>1 DEF Reserve, Goto, OthersStay
    <2>2. pc'[h] \in {"ensure", "rate", "lock"}
      BY <1>1 DEF Reserve, Goto, FirstStep
    <2> QED
      BY <2>1, <2>2, LocklessStep DEF OthersStay
  <1>2. CASE AlreadyReserved(h) \/ Find(h) \/ Record(h)
    <2>1. OthersStay(h) /\ UNCHANGED <<accounts, credentials>>
      BY <1>2 DEF AlreadyReserved, Find, Record, Respond, Goto, OthersStay, tables
    <2>2. pc'[h] \in {"find", "answer"}
      BY <1>2 DEF AlreadyReserved, Find, Record, Respond, Goto
    <2> QED
      BY <2>1, <2>2, LocklessStep DEF OthersStay
  <1>3. CASE Return(h) \/ Fail(h)
    <2>1. OthersStay(h) /\ UNCHANGED <<accounts, credentials>> /\ pc'[h] = "idle"
      BY <1>3 DEF Return, Fail, Leave, Goto, OthersStay, tables
    <2> QED
      BY <2>1, LocklessStep DEF OthersStay
  <1> QED
    BY <1>1, <1>2, <1>3

LEMMA AccountReject ==
    ASSUME TypeInv, AccountInv, NEW h \in Handler, NEW x, Reject(h, x)
    PROVE  AccountInv'
  BY LocklessStep DEF Reject, Goto, tables, TypeInv, TypeOK, HandlersTypeOK

LEMMA AccountManagementQuiet ==
    ASSUME TypeInv, AccountInv, NEW h \in Handler,
           \/ ManagementLock(h)
           \/ \E s \in Subject : EnsureIdentity(h, s)
           \/ IdentityRejected(h) \/ NameConflict(h) \/ SubjectConflict(h)
           \/ RotationRefused(h) \/ NotFound(h)
    PROVE  AccountInv'
  <1> USE DEF TypeInv, TypeOK, HandlersTypeOK
  <1>1. CASE \/ \E s \in Subject : EnsureIdentity(h, s)
             \/ \E t \in frame[h].now..clock : CountAccounts(h, t)
             \/ RotationRefused(h)
    <2>1. OthersStay(h) /\ UNCHANGED <<accounts, credentials>>
      BY <1>1 DEF EnsureIdentity, CountAccounts, RotationRefused, Respond, Goto,
         OthersStay, tables
    <2>2. pc'[h] \in {"count", "insert", "answer"}
      BY <1>1 DEF EnsureIdentity, CountAccounts, RotationRefused, Respond, Goto
    <2> QED
      BY <2>1, <2>2, LocklessStep DEF OthersStay
  <1>2. CASE \E t \in frame[h].now..clock : LockToRotate(h, t) \/ LockToRevoke(h, t)
    <2>1. OthersStay(h) /\ UNCHANGED <<accounts, credentials, req>>
      BY <1>2 DEF LockToRotate, LockToRevoke, Goto, OthersStay, tables
    <2>2. /\ pc'[h] \in {"rotate", "revoke"}
          /\ AccountFree(req[h].account)
          /\ accounts[req[h].account].status # "absent"
          /\ pc'[h] = "rotate" => accounts[req[h].account].status = "active"
          /\ accounts[req[h].account].revision = req[h].revision
      BY <1>2 DEF LockToRotate, LockToRevoke, Found, Goto
    <2>3. Knows(h)'
      BY <2>1, <2>2 DEF Knows
    <2>4. \A a \in Account : HoldsAccount(h, a)' => AccountFree(a)
      BY <2>1, <2>2 DEF HoldsAccount
    <2> QED
      BY <2>1, <2>3, <2>4, QuietStep DEF OthersStay
  <1>3. CASE \/ IdentityRejected(h) \/ TooManyAccounts(h) \/ NameConflict(h)
             \/ SubjectConflict(h) \/ NotFound(h) \/ AlreadyRevoked(h)
             \/ RevisionConflict(h)
    BY <1>3, AccountReject
    DEF IdentityRejected, TooManyAccounts, NameConflict, SubjectConflict, NotFound,
        AlreadyRevoked, RevisionConflict
  <1> QED
    BY <1>1, <1>2, <1>3 DEF ManagementLock

LEMMA AccountAuthentication ==
    ASSUME TypeInv, AccountInv, NEW h \in Handler,
           AuthenticationLock(h) \/ AuthenticationStep(h)
    PROVE  AccountInv'
  <1> USE DEF TypeInv, TypeOK, HandlersTypeOK
  <1>1. CASE \/ TakeRateSlot(h) \/ RateLimited(h) \/ Admit(h) \/ BoundExpiry(h)
             \/ Issue(h) \/ IssueAmbiguous(h)
             \/ \E t \in frame[h].now..clock : StoreReceipt(h, t)
    <2>1. OthersStay(h) /\ UNCHANGED <<accounts, credentials>>
      BY <1>1 DEF TakeRateSlot, RateLimited, Admit, BoundExpiry, Issue, IssueAmbiguous,
         StoreReceipt, Respond, Goto, OthersStay, tables
    <2>2. pc'[h] \in {"verify", "record", "bound", "issue", "receipt", "answer"}
      BY <1>1 DEF TakeRateSlot, RateLimited, Admit, BoundExpiry, Issue, IssueAmbiguous,
         StoreReceipt, Respond, Goto
    <2> QED
      BY <2>1, <2>2, LocklessStep DEF OthersStay
  <1>2. CASE VerifySecret(h)
    <2>1. OthersStay(h) /\ UNCHANGED <<accounts, credentials, req>> /\ pc'[h] = "status"
      BY <1>2 DEF VerifySecret, Goto, OthersStay, tables
    <2>2. frame'[h].account = credentials[req[h].credential].account
      BY <1>2 DEF VerifySecret, Frame
    <2> QED
      BY <2>1, <2>2, QuietStep DEF OthersStay, Knows, HoldsAccount
  <1>3. CASE SubjectActive(h)
    <2>1. /\ OthersStay(h) /\ UNCHANGED <<accounts, credentials, req>>
          /\ pc[h] = "status" /\ pc'[h] = "recheck"
      BY <1>3 DEF SubjectActive, Goto, OthersStay, tables
    <2>2. frame'[h].account = frame[h].account
      BY <1>3 DEF SubjectActive, Frame
    <2>3. Knows(h)
      BY DEF AccountInv
    <2> QED
      BY <2>1, <2>2, <2>3, QuietStep DEF OthersStay, Knows, HoldsAccount
  <1>4. CASE RecheckCredential(h)
    <2>1. /\ OthersStay(h) /\ UNCHANGED <<accounts, credentials, req>>
          /\ pc[h] = "recheck" /\ pc'[h] = "admit" /\ AccountFree(frame[h].account)
      BY <1>4 DEF RecheckCredential, Goto, OthersStay, tables
    <2>2. /\ frame'[h].account = frame[h].account
          /\ frame'[h].until = credentials[req[h].credential].validUntil
      BY <1>4 DEF RecheckCredential, Frame
    <2>3. credentials[req[h].credential].account = frame[h].account
      BY <2>1 DEF AccountInv, Knows
    <2>4. /\ accounts[frame[h].account].status = "active"
          /\ credentials[req[h].credential].revokedAt = 0
      BY <1>4, <2>3 DEF RecheckCredential, Usable
    <2>5. Knows(h)'
      BY <2>1, <2>2, <2>3, <2>4 DEF Knows
    <2>6. \A a \in Account : HoldsAccount(h, a)' => AccountFree(a)
      BY <2>1, <2>2 DEF HoldsAccount
    <2> QED
      BY <2>1, <2>5, <2>6, QuietStep DEF OthersStay
  <1>5. CASE \/ InvalidSecret(h) \/ SubjectDisabled(h) \/ NoLongerValid(h)
             \/ ExpiredMeanwhile(h) \/ IssueDisabled(h)
    BY <1>5, AccountReject
    DEF InvalidSecret, SubjectDisabled, NoLongerValid, ExpiredMeanwhile, IssueDisabled
  <1> QED
    BY <1>1, <1>2, <1>3, <1>4, <1>5 DEF AuthenticationLock, AuthenticationStep

-----------------------------------------------------------------------------
(* The transactions that change accounts and credentials.                   *)

(* h touches accounts it has locked or that do not exist yet, and their     *)
(* credentials.                                                             *)
TouchesOwn(h) ==
    /\ \A a \in Account : \/ accounts'[a] = accounts[a]
                          \/ accounts[a].status = "absent"
                          \/ HoldsAccount(h, a)
    /\ \A c \in Credential : \/ credentials'[c] = credentials[c]
                             \/ credentials[c].account = None
                             \/ /\ credentials'[c].account = credentials[c].account
                                /\ HoldsAccount(h, credentials[c].account)

LEMMA MutationStep ==
    ASSUME TypeInv, AccountInv, NEW h \in Handler, OthersStay(h), pc'[h] = "answer",
           TouchesOwn(h), RowsOK', OverlapBounded'
    PROVE  AccountInv'
  <1>1. Knows(h)' /\ \A a \in Account : ~HoldsAccount(h, a)'
    BY DEF Knows, HoldsAccount
  <1>2. \A g \in Handler : g # h =>
           \A a \in Account : HoldsAccount(g, a)' <=> HoldsAccount(g, a)
    BY DEF OthersStay, HoldsAccount
  <1>3. ASSUME NEW g \in Handler, g # h
        PROVE  Knows(g)'
    <2>1. /\ pc'[g] = pc[g] /\ req'[g] = req[g] /\ frame'[g] = frame[g]
          /\ Knows(g)
      BY <1>3 DEF OthersStay, AccountInv
    <2>2. ASSUME NEW a \in Account, HoldsAccount(g, a), accounts[a].status # "absent"
          PROVE  /\ accounts'[a] = accounts[a]
                 /\ \A c \in CredentialsOf(a) : credentials'[c] = credentials[c]
      <3>1. ~HoldsAccount(h, a)
        BY <1>3, <2>2 DEF AccountInv, Exclusive
      <3>2. a # None
        BY RequestAssumption
      <3> QED
        BY <2>2, <3>1, <3>2 DEF TouchesOwn, CredentialsOf
    <2>3. CASE pc[g] \in {"rotate", "revoke"}
      <3>1. req[g].account \in Account
        BY <2>3 DEF TypeInv, ControlOK
      <3>2. HoldsAccount(g, req[g].account)
        BY <2>3 DEF HoldsAccount
      <3>3. accounts[req[g].account].status # "absent"
        BY <2>1, <2>3 DEF Knows
      <3> QED
        BY <2>1, <2>2, <2>3, <3>1, <3>2, <3>3 DEF Knows
    <2>4. CASE pc[g] = "admit"
      <3>1. frame[g].account \in Account /\ req[g].credential \in CredentialsOf(frame[g].account)
        BY <2>1, <2>4 DEF TypeInv, ControlOK, Knows, CredentialsOf
      <3>2. HoldsAccount(g, frame[g].account)
        BY <2>4 DEF HoldsAccount
      <3>3. accounts[frame[g].account].status # "absent"
        BY <2>1, <2>4 DEF Knows
      <3> QED
        BY <2>1, <2>2, <2>4, <3>1, <3>2, <3>3 DEF Knows
    <2>5. CASE pc[g] \in {"status", "recheck"}
      <3>1. /\ frame[g].account \in Account /\ req[g].credential \in Credential
            /\ credentials[req[g].credential].account = frame[g].account
        BY <2>1, <2>5 DEF TypeInv, ControlOK, Knows
      <3>2. credentials'[req[g].credential].account = frame[g].account
        BY <3>1, RequestAssumption DEF TouchesOwn
      <3> QED
        BY <2>1, <2>5, <3>2 DEF Knows
    <2> QED
      BY <2>1, <2>3, <2>4, <2>5 DEF Knows
  <1>4. Exclusive'
    BY <1>1, <1>2 DEF AccountInv, Exclusive
  <1> QED
    BY <1>1, <1>3, <1>4 DEF AccountInv

(* How the three transactions change the two tables.                        *)
LEMMA CreateChanges ==
    ASSUME TypeInv, NEW h \in Handler, NEW a \in Account, NEW c \in Credential,
           CreateAccount(h, a, c)
    PROVE  /\ accounts[a].status = "absent" /\ accounts'[a].status = "active"
           /\ accounts'[a].revision = 1
           /\ \A b \in Account : b # a => accounts'[b] = accounts[b]
           /\ credentials[c].account = None
           /\ credentials'[c] = NewCredential(a, frame[h].now, frame[h].begun)
           /\ \A d \in Credential : d # c => credentials'[d] = credentials[d]
           /\ OthersStay(h) /\ pc'[h] = "answer"
  <1> USE DEF CreateAccount, TypeInv, TypeOK, StorageTypeOK, HandlersTypeOK
  <1>1. /\ accounts[a].status = "absent" /\ accounts'[a].status = "active"
        /\ accounts'[a].revision = 1
        /\ \A b \in Account : b # a => accounts'[b] = accounts[b]
    BY DEF InsertAccount
  <1>2. /\ credentials[c].account = None
        /\ credentials'[c] = NewCredential(a, frame[h].now, frame[h].begun)
        /\ \A d \in Credential : d # c => credentials'[d] = credentials[d]
    OBVIOUS
  <1>3. OthersStay(h) /\ pc'[h] = "answer"
    BY DEF Respond, Goto, OthersStay
  <1> QED
    BY <1>1, <1>2, <1>3

LEMMA RotateChanges ==
    ASSUME TypeInv, AccountInv, NEW h \in Handler, NEW c \in Credential, RotateAccount(h, c)
    PROVE  LET a == req[h].account
               now == frame[h].now
           IN  /\ a \in Account /\ now \in Nat /\ HoldsAccount(h, a)
               /\ accounts[a].status = "active"
               /\ accounts'[a].status = "active"
               /\ accounts'[a].organization = accounts[a].organization
               /\ accounts'[a].subject = accounts[a].subject
               /\ accounts'[a].revision = accounts[a].revision + 1
               /\ accounts'[a].rotatedAt = now
               /\ \A b \in Account : b # a => accounts'[b] = accounts[b]
               /\ credentials[c].account = None
               /\ credentials'[c] = NewCredential(a, now, frame[h].begun)
               /\ \A d \in CredentialsOf(a) :
                     /\ d # c
                     /\ credentials'[d].account = a
                     /\ credentials'[d].validFrom = credentials[d].validFrom
                     /\ credentials'[d].revokedAt = credentials[d].revokedAt
                     /\ credentials'[d].validUntil <= credentials[d].validUntil
                     /\ credentials'[d].validFrom <= credentials'[d].validUntil
                     /\ credentials'[d].validUntil <= now + RotationOverlap
               /\ \A d \in Credential : d # c /\ d \notin CredentialsOf(a) =>
                     credentials'[d] = credentials[d]
               /\ OthersStay(h) /\ pc'[h] = "answer"
  <1> DEFINE a == req[h].account
             now == frame[h].now
  <1>1. a \in Account /\ now \in Nat /\ HoldsAccount(h, a) /\ a # None
    BY RequestAssumption
    DEF RotateAccount, TypeInv, TypeOK, HandlersTypeOK, ControlOK, Frame, HoldsAccount
  <1>2. accounts[a].status = "active"
    BY DEF RotateAccount, AccountInv, Knows
  <1>3. /\ accounts'[a].status = accounts[a].status
        /\ accounts'[a].organization = accounts[a].organization
        /\ accounts'[a].subject = accounts[a].subject
        /\ accounts'[a].revision = accounts[a].revision + 1
        /\ accounts'[a].rotatedAt = now
        /\ \A b \in Account : b # a => accounts'[b] = accounts[b]
    BY <1>1 DEF RotateAccount, RotateAccountRow, TypeInv, TypeOK, StorageTypeOK, AccountRow
  <1>4. /\ credentials[c].account = None
        /\ credentials'[c] = NewCredential(a, now, frame[h].begun)
        /\ \A d \in Credential : d # c /\ d \notin CredentialsOf(a) =>
              credentials'[d] = credentials[d]
    BY DEF RotateAccount, RotateCredentials, CredentialsOf
  <1>5. ASSUME NEW d \in CredentialsOf(a)
        PROVE  /\ d # c
               /\ credentials'[d].account = a
               /\ credentials'[d].validFrom = credentials[d].validFrom
               /\ credentials'[d].revokedAt = credentials[d].revokedAt
               /\ credentials'[d].validUntil <= credentials[d].validUntil
               /\ credentials'[d].validFrom <= credentials'[d].validUntil
               /\ credentials'[d].validUntil <= now + RotationOverlap
    <2>1. d \in Credential /\ d # c /\ credentials[d].account = a
      BY <1>1, <1>4 DEF CredentialsOf
    <2>2. credentials'[d] = Superseded(credentials[d], now)
      BY <2>1 DEF RotateAccount, RotateCredentials
    <2>3. credentials[d].validFrom <= Superseded(credentials[d], now).validUntil
      BY DEF RotateAccount, SupersedeAllowed
    <2>4. credentials[d].revokedAt = 0
      BY <1>1, <1>2, <2>1 DEF AccountInv, RowsOK
    <2>5. credentials[d] \in CredentialRow
      BY <2>1 DEF TypeInv, TypeOK, StorageTypeOK
    <2>6. RotationOverlap \in Nat
      BY ConfigAssumption
    <2>7. /\ Superseded(credentials[d], now).account = credentials[d].account
          /\ Superseded(credentials[d], now).validFrom = credentials[d].validFrom
          /\ Superseded(credentials[d], now).revokedAt = credentials[d].revokedAt
          /\ Superseded(credentials[d], now).validUntil <= credentials[d].validUntil
          /\ Superseded(credentials[d], now).validUntil <= now + RotationOverlap
      BY <1>1, <2>4, <2>5, <2>6 DEF Superseded, Least, CredentialRow
    <2> QED
      BY <2>1, <2>2, <2>3, <2>7
  <1>6. OthersStay(h) /\ pc'[h] = "answer"
    BY DEF RotateAccount, Respond, Goto, OthersStay, TypeInv, TypeOK, HandlersTypeOK
  <1> QED
    BY <1>1, <1>2, <1>3, <1>4, <1>5, <1>6

LEMMA RevokeChanges ==
    ASSUME TypeInv, AccountInv, NEW h \in Handler, RevokeAccount(h)
    PROVE  LET a == req[h].account
           IN  /\ a \in Account /\ HoldsAccount(h, a)
               /\ accounts[a].status # "absent"
               /\ accounts'[a].status = "revoked"
               /\ accounts'[a].organization = accounts[a].organization
               /\ accounts'[a].subject = accounts[a].subject
               /\ accounts'[a].revision >= accounts[a].revision
               /\ accounts'[a].rotatedAt = accounts[a].rotatedAt
               /\ accounts[a].status = "revoked" => accounts'[a] = accounts[a]
               /\ \A b \in Account : b # a => accounts'[b] = accounts[b]
               /\ \A d \in CredentialsOf(a) :
                     /\ credentials'[d].account = a
                     /\ credentials'[d].validFrom = credentials[d].validFrom
                     /\ credentials[d].revokedAt # 0 =>
                           credentials'[d].revokedAt = credentials[d].revokedAt
                     /\ credentials'[d].validUntil <= credentials[d].validUntil
                     /\ credentials'[d].validFrom <= credentials'[d].validUntil
               /\ \A d \in Credential : d \notin CredentialsOf(a) =>
                     credentials'[d] = credentials[d]
               /\ OthersStay(h) /\ pc'[h] = "answer"
  <1> DEFINE a == req[h].account
             now == frame[h].now
  <1>1. a \in Account /\ now \in Nat /\ HoldsAccount(h, a) /\ a # None
    BY RequestAssumption
    DEF RevokeAccount, TypeInv, TypeOK, HandlersTypeOK, ControlOK, Frame, HoldsAccount
  <1>2. accounts[a].status # "absent" /\ accounts[a] \in AccountRow
    BY <1>1 DEF RevokeAccount, AccountInv, Knows, TypeInv, TypeOK, StorageTypeOK
  <1>3. OthersStay(h) /\ pc'[h] = "answer"
    BY DEF RevokeAccount, Respond, Goto, OthersStay, TypeInv, TypeOK, HandlersTypeOK
  <1>4. ASSUME NEW d \in CredentialsOf(a)
        PROVE  /\ d \in Credential /\ credentials[d] \in CredentialRow
               /\ credentials[d].account = a
               /\ credentials[d].validFrom <= credentials[d].validUntil
    <2>1. d \in Credential /\ credentials[d].account = a
      BY DEF CredentialsOf
    <2> QED
      BY <1>1, <2>1 DEF AccountInv, RowsOK, TypeInv, TypeOK, StorageTypeOK
  <1>5. CASE /\ accounts[a].status = "revoked"
             /\ UNCHANGED <<accounts, credentials>>
    BY <1>1, <1>2, <1>3, <1>4, <1>5 DEF AccountRow, CredentialRow
  <1>6. CASE /\ accounts[a].status = "active"
             /\ RevokeAccountRow(a, now)
             /\ RevokeCredentials(a, now)
    <2>1. /\ accounts'[a].status = "revoked"
          /\ accounts'[a].organization = accounts[a].organization
          /\ accounts'[a].subject = accounts[a].subject
          /\ accounts'[a].revision >= accounts[a].revision
          /\ accounts'[a].rotatedAt = accounts[a].rotatedAt
          /\ \A b \in Account : b # a => accounts'[b] = accounts[b]
      BY <1>1, <1>2, <1>6
      DEF RevokeAccountRow, TypeInv, TypeOK, StorageTypeOK, AccountRow
    <2>2. ASSUME NEW d \in CredentialsOf(a)
          PROVE  /\ credentials'[d].account = a
                 /\ credentials'[d].validFrom = credentials[d].validFrom
                 /\ credentials[d].revokedAt # 0 =>
                       credentials'[d].revokedAt = credentials[d].revokedAt
                 /\ credentials'[d].validUntil <= credentials[d].validUntil
                 /\ credentials'[d].validFrom <= credentials'[d].validUntil
      <3> DEFINE row == credentials[d]
      <3>1. credentials'[d] = RevokedRow(row, now)
        BY <1>4, <1>6 DEF RevokeCredentials
      <3>2. row \in CredentialRow /\ row.account = a /\ row.validFrom <= row.validUntil
        BY <1>4
      <3> HIDE DEF row
      <3>3. /\ RevokedRow(row, now).account = row.account
            /\ RevokedRow(row, now).validFrom = row.validFrom
            /\ row.revokedAt # 0 => RevokedRow(row, now).revokedAt = row.revokedAt
            /\ RevokedRow(row, now).validUntil
                  = Greatest(row.validFrom, Least(row.validUntil, now))
        BY <3>2 DEF RevokedRow, CredentialRow
      <3>4. /\ Greatest(row.validFrom, Least(row.validUntil, now)) <= row.validUntil
            /\ row.validFrom <= Greatest(row.validFrom, Least(row.validUntil, now))
        BY <1>1, <3>2 DEF Greatest, Least, CredentialRow
      <3> QED
        BY <3>1, <3>2, <3>3, <3>4 DEF row
    <2>3. \A d \in Credential : d \notin CredentialsOf(a) =>
             credentials'[d] = credentials[d]
      BY <1>6 DEF RevokeCredentials, CredentialsOf
    <2> QED
      BY <1>1, <1>2, <1>3, <1>6, <2>1, <2>2, <2>3
  <1> QED
    BY <1>5, <1>6 DEF RevokeAccount

LEMMA AccountCreate ==
    ASSUME TypeInv, AccountInv, NEW h \in Handler, NEW a \in Account,
           NEW c \in Credential, CreateAccount(h, a, c)
    PROVE  AccountInv'
  <1>1. /\ accounts[a].status = "absent" /\ accounts'[a].status = "active"
        /\ \A b \in Account : b # a => accounts'[b] = accounts[b]
        /\ credentials[c].account = None
        /\ credentials'[c] = NewCredential(a, frame[h].now, frame[h].begun)
        /\ \A d \in Credential : d # c => credentials'[d] = credentials[d]
        /\ OthersStay(h) /\ pc'[h] = "answer"
    BY CreateChanges
  <1>2. /\ credentials'[c].account = a /\ credentials'[c].revokedAt = 0
        /\ credentials'[c].validFrom <= credentials'[c].validUntil
    <2>1. frame[h].now \in Nat /\ CredentialTtl \in Nat
      BY ConfigAssumption DEF TypeInv, TypeOK, HandlersTypeOK, Frame
    <2> QED
      BY <1>1, <2>1 DEF NewCredential
  <1>3. \A d \in Credential : credentials[d].account # a
    BY <1>1, RequestAssumption DEF AccountInv, RowsOK
  <1>4. \A d \in Credential : credentials[d].account # None => credentials[d].account \in Account
    BY DEF TypeInv, TypeOK, StorageTypeOK, CredentialRow
  <1>5. RowsOK'
    BY <1>1, <1>2, <1>3, <1>4 DEF AccountInv, RowsOK
  <1>6. OverlapBounded'
    BY <1>1, <1>2, <1>3 DEF AccountInv, OverlapBounded, CredentialsOf
  <1>7. TouchesOwn(h)
    BY <1>1 DEF TouchesOwn
  <1> QED
    BY <1>1, <1>5, <1>6, <1>7, MutationStep

LEMMA AccountRotate ==
    ASSUME TypeInv, AccountInv, NEW h \in Handler, NEW c \in Credential, RotateAccount(h, c)
    PROVE  AccountInv'
  <1> DEFINE a == req[h].account
             now == frame[h].now
  <1>1. /\ a \in Account /\ now \in Nat /\ HoldsAccount(h, a)
        /\ accounts'[a].status = "active" /\ accounts[a].status = "active"
        /\ accounts'[a].rotatedAt = now
        /\ \A b \in Account : b # a => accounts'[b] = accounts[b]
        /\ credentials[c].account = None
        /\ credentials'[c] = NewCredential(a, now, frame[h].begun)
        /\ \A d \in CredentialsOf(a) :
              /\ credentials'[d].account = a
              /\ credentials'[d].revokedAt = credentials[d].revokedAt
              /\ credentials'[d].validFrom <= credentials'[d].validUntil
              /\ credentials'[d].validUntil <= now + RotationOverlap
        /\ \A d \in Credential : d # c /\ d \notin CredentialsOf(a) =>
              credentials'[d] = credentials[d]
        /\ OthersStay(h) /\ pc'[h] = "answer"
    BY RotateChanges
  <1>2. /\ credentials'[c].account = a /\ credentials'[c].revokedAt = 0
        /\ credentials'[c].validFrom <= credentials'[c].validUntil
    BY <1>1, ConfigAssumption DEF NewCredential
  <1>3. \A d \in Credential : credentials[d].account # None => credentials[d].account \in Account
    BY DEF TypeInv, TypeOK, StorageTypeOK, CredentialRow
  <1> HIDE DEF a, now
  <1>4. RowsOK'
    <2> SUFFICES ASSUME NEW d \in Credential, credentials'[d].account # None
                 PROVE  /\ accounts'[credentials'[d].account].status # "absent"
                        /\ accounts'[credentials'[d].account].status = "active" =>
                              credentials'[d].revokedAt = 0
                        /\ credentials'[d].validFrom <= credentials'[d].validUntil
      BY DEF RowsOK
    <2>1. CASE d = c
      BY <1>1, <1>2, <2>1
    <2>2. CASE d \in CredentialsOf(a)
      <3>1. credentials[d].revokedAt = 0
        BY <1>1, <1>3, <2>2, RequestAssumption DEF AccountInv, RowsOK, CredentialsOf
      <3> QED
        BY <1>1, <2>2, <3>1
    <2>3. CASE d # c /\ d \notin CredentialsOf(a)
      <3>1. credentials'[d] = credentials[d] /\ credentials[d].account # a
        BY <1>1, <2>3 DEF CredentialsOf
      <3>2. credentials[d].account \in Account
        BY <1>3, <3>1
      <3> QED
        BY <1>1, <3>1, <3>2 DEF AccountInv, RowsOK
    <2> QED
      BY <2>1, <2>2, <2>3
  <1>5. OverlapBounded'
    <2> SUFFICES ASSUME NEW b \in Account, NEW d \in CredentialsOf(b)',
                        NEW e \in CredentialsOf(b)', d # e
                 PROVE  \/ credentials'[d].validUntil <= accounts'[b].rotatedAt + RotationOverlap
                        \/ credentials'[e].validUntil <= accounts'[b].rotatedAt + RotationOverlap
      BY DEF OverlapBounded
    <2>1. /\ d \in Credential /\ credentials'[d].account = b
          /\ e \in Credential /\ credentials'[e].account = b
      BY DEF CredentialsOf
    <2>2. CASE b = a
      <3>1. ASSUME NEW f \in Credential, credentials'[f].account = a, f # c
            PROVE  credentials'[f].validUntil <= now + RotationOverlap
        BY <1>1, <3>1 DEF CredentialsOf
      <3> QED
        BY <1>1, <2>1, <2>2, <3>1
    <2>3. CASE b # a
      <3>1. ASSUME NEW f \in Credential, credentials'[f].account = b
            PROVE  credentials'[f] = credentials[f] /\ f \in CredentialsOf(b)
        BY <1>1, <1>2, <2>3, <3>1 DEF CredentialsOf
      <3>2. accounts'[b] = accounts[b]
        BY <1>1, <2>3
      <3> QED
        BY <2>1, <3>1, <3>2 DEF AccountInv, OverlapBounded
    <2> QED
      BY <2>2, <2>3
  <1>6. TouchesOwn(h)
    BY <1>1 DEF TouchesOwn, CredentialsOf
  <1> QED
    BY <1>1, <1>4, <1>5, <1>6, MutationStep

LEMMA AccountRevoke ==
    ASSUME TypeInv, AccountInv, NEW h \in Handler, RevokeAccount(h)
    PROVE  AccountInv'
  <1> DEFINE a == req[h].account
  <1>1. /\ a \in Account /\ HoldsAccount(h, a)
        /\ accounts'[a].status = "revoked"
        /\ accounts'[a].rotatedAt = accounts[a].rotatedAt
        /\ \A b \in Account : b # a => accounts'[b] = accounts[b]
        /\ \A d \in CredentialsOf(a) :
              /\ credentials'[d].account = a
              /\ credentials'[d].validUntil <= credentials[d].validUntil
              /\ credentials'[d].validFrom <= credentials'[d].validUntil
        /\ \A d \in Credential : d \notin CredentialsOf(a) =>
              credentials'[d] = credentials[d]
        /\ OthersStay(h) /\ pc'[h] = "answer"
    BY RevokeChanges
  <1>2. \A d \in Credential : credentials[d].account # None => credentials[d].account \in Account
    BY DEF TypeInv, TypeOK, StorageTypeOK, CredentialRow
  <1> HIDE DEF a
  <1>3. \A d \in Credential : credentials'[d].account = credentials[d].account
    BY <1>1 DEF CredentialsOf
  <1>4. RowsOK'
    <2> SUFFICES ASSUME NEW d \in Credential, credentials'[d].account # None
                 PROVE  /\ accounts'[credentials'[d].account].status # "absent"
                        /\ accounts'[credentials'[d].account].status = "active" =>
                              credentials'[d].revokedAt = 0
                        /\ credentials'[d].validFrom <= credentials'[d].validUntil
      BY DEF RowsOK
    <2>1. CASE d \in CredentialsOf(a)
      BY <1>1, <2>1
    <2>2. CASE d \notin CredentialsOf(a)
      <3>1. credentials'[d] = credentials[d] /\ credentials[d].account # a
        BY <1>1, <2>2 DEF CredentialsOf
      <3>2. credentials[d].account \in Account
        BY <1>2, <3>1
      <3> QED
        BY <1>1, <3>1, <3>2 DEF AccountInv, RowsOK
    <2> QED
      BY <2>1, <2>2
  <1>5. OverlapBounded'
    <2>1. \A d \in Credential : /\ credentials'[d].validUntil <= credentials[d].validUntil
                                /\ credentials'[d].validUntil \in Nat
                                /\ credentials[d].validUntil \in Nat
      <3>1. StorageTypeOK'
        BY ManagementTypes DEF ManagementStep, TypeInv, TypeOK
      <3> QED
        BY <1>1, <3>1 DEF TypeInv, TypeOK, StorageTypeOK, CredentialRow, CredentialsOf
    <2>2. \A b \in Account : /\ accounts'[b].rotatedAt = accounts[b].rotatedAt
                             /\ accounts[b].rotatedAt \in Nat
      BY <1>1 DEF TypeInv, TypeOK, StorageTypeOK, AccountRow
    <2>3. \A b \in Account : CredentialsOf(b)' = CredentialsOf(b)
      BY <1>3 DEF CredentialsOf
    <2>4. RotationOverlap \in Nat
      BY ConfigAssumption
    <2> QED
      BY <2>1, <2>2, <2>3, <2>4 DEF AccountInv, OverlapBounded, CredentialsOf
  <1>6. TouchesOwn(h)
    BY <1>1 DEF TouchesOwn, CredentialsOf
  <1> QED
    BY <1>1, <1>4, <1>5, <1>6, MutationStep

LEMMA AccountNext == TypeInv /\ AccountInv /\ [Next]_vars => AccountInv'
  <1> SUFFICES ASSUME TypeInv, AccountInv, [Next]_vars
               PROVE  AccountInv'
    OBVIOUS
  <1>1. CASE Tick \/ UNCHANGED vars
    BY <1>1 DEF Tick, vars, tables, control, AccountInv, RowsOK, Exclusive, HoldsAccount,
       Knows, OverlapBounded, CredentialsOf
  <1>2. ASSUME NEW h \in Handler, NEW r \in Request, Accept(h, r)
        PROVE  AccountInv'
    BY <1>2, AccountAccept
  <1>3. ASSUME NEW h \in Handler, WaitStep(h) \/ PlainStep(h) \/ Fail(h)
        PROVE  AccountInv'
    <2>1. CASE ManagementStep(h)
      BY <2>1, AccountManagementQuiet, AccountCreate, AccountRotate, AccountRevoke
      DEF ManagementStep
    <2> QED
      BY <1>3, <2>1, AccountShared, AccountManagementQuiet, AccountAuthentication
      DEF WaitStep, PlainStep
  <1> QED
    BY <1>1, <1>2, <1>3 DEF Next

(* The issuing transition is a linearization point: under the account's lock *)
(* the account is active and the credential is unrevoked and as read, when   *)
(* mark_exchange_issuing commits.                                            *)
THEOREM AdmissionsAreCurrent == Spec => []AdmissionCurrent
  BY TypeInit, TypeStep, AccountInit, AccountNext, AccountImplies, PTL DEF Spec

(* Whatever the order of rotations, revocations and stale clock readings,   *)
(* rotate_account leaves one credential at most beyond the overlap.         *)
THEOREM OverlapIsBounded == Spec => []OverlapBounded
  BY TypeInit, TypeStep, AccountInit, AccountNext, AccountImplies, PTL DEF Spec

-----------------------------------------------------------------------------
(* No step revives anything.                                                *)

LEMMA UntouchedRows ==
    ASSUME TypeInv
    PROVE  /\ \A c \in Credential :
                 credentials'[c] = credentials[c] => CredentialOnlyEnds(c)
           /\ \A a \in Account : accounts'[a] = accounts[a] => AccountOnlyAdvances(a)
  <1>1. /\ \A c \in Credential : credentials[c].validUntil \in Nat
        /\ \A a \in Account : accounts[a].revision \in Nat
    BY DEF TypeInv, TypeOK, StorageTypeOK, CredentialRow, AccountRow
  <1> QED
    BY <1>1 DEF CredentialOnlyEnds, AccountOnlyAdvances

LEMMA TransactionsOnlyEnd ==
    ASSUME TypeInv, AccountInv, NEW h \in Handler,
           \/ \E a \in Account, c \in Credential : CreateAccount(h, a, c)
           \/ \E c \in Credential : RotateAccount(h, c)
           \/ RevokeAccount(h)
    PROVE  /\ \A c \in Credential : CredentialOnlyEnds(c)
           /\ \A a \in Account : AccountOnlyAdvances(a)
  <1>1. ASSUME NEW a \in Account, NEW c \in Credential, CreateAccount(h, a, c)
        PROVE  /\ \A d \in Credential : CredentialOnlyEnds(d)
               /\ \A b \in Account : AccountOnlyAdvances(b)
    <2>1. /\ accounts[a].status = "absent" /\ credentials[c].account = None
          /\ \A b \in Account : b # a => accounts'[b] = accounts[b]
          /\ \A d \in Credential : d # c => credentials'[d] = credentials[d]
      BY <1>1, CreateChanges
    <2>2. CredentialOnlyEnds(c) /\ AccountOnlyAdvances(a)
      BY <2>1 DEF CredentialOnlyEnds, AccountOnlyAdvances
    <2> QED
      BY <2>1, <2>2, UntouchedRows
  <1>2. ASSUME NEW c \in Credential, RotateAccount(h, c)
        PROVE  /\ \A d \in Credential : CredentialOnlyEnds(d)
               /\ \A b \in Account : AccountOnlyAdvances(b)
    <2> DEFINE a == req[h].account
    <2>1. /\ a \in Account /\ accounts[a].status = "active"
          /\ accounts'[a].status = "active"
          /\ accounts'[a].organization = accounts[a].organization
          /\ accounts'[a].subject = accounts[a].subject
          /\ accounts'[a].revision = accounts[a].revision + 1
          /\ \A b \in Account : b # a => accounts'[b] = accounts[b]
          /\ credentials[c].account = None
          /\ \A d \in CredentialsOf(a) :
                /\ credentials'[d].account = a
                /\ credentials'[d].validFrom = credentials[d].validFrom
                /\ credentials'[d].revokedAt = credentials[d].revokedAt
                /\ credentials'[d].validUntil <= credentials[d].validUntil
          /\ \A d \in Credential : d # c /\ d \notin CredentialsOf(a) =>
                credentials'[d] = credentials[d]
      BY <1>2, RotateChanges
    <2> HIDE DEF a
    <2>2. accounts[a].revision \in Nat
      BY <2>1 DEF TypeInv, TypeOK, StorageTypeOK, AccountRow
    <2>3. AccountOnlyAdvances(a)
      BY <2>1, <2>2 DEF AccountOnlyAdvances
    <2>4. CredentialOnlyEnds(c) /\ \A d \in CredentialsOf(a) : CredentialOnlyEnds(d)
      BY <2>1 DEF CredentialOnlyEnds, CredentialsOf
    <2> QED
      BY <2>1, <2>3, <2>4, UntouchedRows
  <1>3. CASE RevokeAccount(h)
    <2> DEFINE a == req[h].account
    <2>1. /\ a \in Account /\ accounts'[a].status = "revoked"
          /\ accounts'[a].organization = accounts[a].organization
          /\ accounts'[a].subject = accounts[a].subject
          /\ accounts'[a].revision >= accounts[a].revision
          /\ accounts[a].status = "revoked" => accounts'[a] = accounts[a]
          /\ \A b \in Account : b # a => accounts'[b] = accounts[b]
          /\ \A d \in CredentialsOf(a) :
                /\ credentials'[d].account = a
                /\ credentials'[d].validFrom = credentials[d].validFrom
                /\ credentials[d].revokedAt # 0 =>
                      credentials'[d].revokedAt = credentials[d].revokedAt
                /\ credentials'[d].validUntil <= credentials[d].validUntil
          /\ \A d \in Credential : d \notin CredentialsOf(a) =>
                credentials'[d] = credentials[d]
      BY <1>3, RevokeChanges
    <2> HIDE DEF a
    <2>2. AccountOnlyAdvances(a)
      BY <2>1 DEF AccountOnlyAdvances
    <2>3. \A d \in CredentialsOf(a) : CredentialOnlyEnds(d)
      BY <2>1 DEF CredentialOnlyEnds, CredentialsOf
    <2> QED
      BY <2>1, <2>2, <2>3, UntouchedRows
  <1> QED
    BY <1>1, <1>2, <1>3

(* Only the three transactions change accounts and credentials.             *)
LEMMA TableKinds ==
    ASSUME [Next]_vars
    PROVE  \/ UNCHANGED <<accounts, credentials>>
           \/ \E h \in Handler :
                 \/ \E a \in Account, c \in Credential : CreateAccount(h, a, c)
                 \/ \E c \in Credential : RotateAccount(h, c)
                 \/ RevokeAccount(h)
  <1>1. CASE Tick \/ UNCHANGED vars
    BY <1>1 DEF Tick, vars, tables
  <1>2. ASSUME NEW h \in Handler, NEW r \in Request, Accept(h, r)
        PROVE  UNCHANGED <<accounts, credentials>>
    BY <1>2 DEF Accept
  <1>3. ASSUME NEW h \in Handler,
               \/ Reserve(h) \/ AlreadyReserved(h) \/ Find(h) \/ Record(h)
               \/ Return(h) \/ Fail(h)
        PROVE  UNCHANGED <<accounts, credentials>>
    BY <1>3 DEF Reserve, AlreadyReserved, Find, Record, Return, Fail, tables
  <1>4. ASSUME NEW h \in Handler, AuthenticationLock(h) \/ AuthenticationStep(h)
        PROVE  UNCHANGED <<accounts, credentials>>
    BY <1>4 DEF AuthenticationLock, AuthenticationStep, TakeRateSlot, RateLimited,
       VerifySecret, InvalidSecret, SubjectActive, SubjectDisabled, RecheckCredential,
       NoLongerValid, Admit, BoundExpiry, ExpiredMeanwhile, Issue, IssueAmbiguous,
       IssueDisabled, StoreReceipt, Reject, tables
  <1>5. ASSUME NEW h \in Handler, ManagementLock(h)
        PROVE  UNCHANGED <<accounts, credentials>>
    BY <1>5 DEF ManagementLock, CountAccounts, LockToRotate, LockToRevoke,
       TooManyAccounts, AlreadyRevoked, RevisionConflict, Reject, tables
  <1>6. ASSUME NEW h \in Handler,
               \/ \E s \in Subject : EnsureIdentity(h, s)
               \/ IdentityRejected(h) \/ NameConflict(h) \/ SubjectConflict(h)
               \/ RotationRefused(h) \/ NotFound(h)
        PROVE  UNCHANGED <<accounts, credentials>>
    BY <1>6 DEF EnsureIdentity, IdentityRejected, NameConflict, SubjectConflict,
       RotationRefused, NotFound, Reject, tables
  <1> QED
    BY <1>1, <1>2, <1>3, <1>4, <1>5, <1>6 DEF Next, WaitStep, PlainStep, ManagementStep

LEMMA NothingRevivedStep == TypeInv /\ AccountInv /\ [Next]_vars => NothingRevivedBy
  BY TableKinds, TransactionsOnlyEnd, UntouchedRows DEF NothingRevivedBy

(* No sequence of rotations and revocations lengthens or revives a          *)
(* credential, moves a revision back or reactivates an account.             *)
THEOREM NothingIsRevived == Spec => NothingRevived
  BY NothingRevivedStep, TypeInit, TypeStep, AccountInit, AccountNext, PTL DEF Spec, NothingRevived

-----------------------------------------------------------------------------
(* A revision is won once.                                                  *)

Succeeded(k) == commands[k].status = "completed_success"

(* What a success receipt of a rotation or a revocation says of its account. *)
WonRows ==
    \A k \in Command :
        LET r == commands[k].intent IN
        Succeeded(k) =>
            /\ r \in Request
            /\ r.op = "rotate_secret" =>
                  /\ r.account \in Account
                  /\ accounts[r.account].status # "absent"
                  /\ accounts[r.account].revision > r.revision
            /\ r.op = "revoke" =>
                  /\ r.account \in Account
                  /\ accounts[r.account].status = "revoked"

WonInv == WonRows /\ RevisionWonOnce

LEMMA WonInit == Init => WonInv
  BY DEF Init, StorageInit, WonInv, WonRows, Succeeded, RevisionWonOnce, NoCommand

(* A step that adds no success receipt.                                     *)
LEMMA NoNewWin ==
    ASSUME TypeInv, TypeInv', WonInv, NothingRevivedBy,
           \A k \in Command : Succeeded(k)' => commands'[k] = commands[k]
    PROVE  WonInv'
  <1>1. \A k \in Command : Succeeded(k)' => Succeeded(k) /\ commands'[k] = commands[k]
    BY DEF Succeeded
  <1>2. WonRows'
    <2> SUFFICES ASSUME NEW k \in Command, Succeeded(k)'
                 PROVE  LET r == commands'[k].intent IN
                        /\ r \in Request
                        /\ r.op = "rotate_secret" =>
                              /\ r.account \in Account
                              /\ accounts'[r.account].status # "absent"
                              /\ accounts'[r.account].revision > r.revision
                        /\ r.op = "revoke" =>
                              /\ r.account \in Account
                              /\ accounts'[r.account].status = "revoked"
      BY DEF WonRows
    <2> DEFINE r == commands[k].intent
    <2>1. /\ commands'[k].intent = r /\ r \in Request
          /\ r.op = "rotate_secret" =>
                /\ r.account \in Account
                /\ accounts[r.account].status # "absent"
                /\ accounts[r.account].revision > r.revision
          /\ r.op = "revoke" =>
                /\ r.account \in Account
                /\ accounts[r.account].status = "revoked"
      BY <1>1 DEF WonInv, WonRows
    <2> HIDE DEF r
    <2>2. ASSUME NEW a \in Account, accounts[a].status # "absent"
          PROVE  /\ accounts'[a].status # "absent"
                 /\ accounts'[a].revision >= accounts[a].revision
                 /\ accounts[a].status = "revoked" => accounts'[a].status = "revoked"
                 /\ accounts[a].revision \in Nat /\ accounts'[a].revision \in Nat
      BY <2>2 DEF NothingRevivedBy, AccountOnlyAdvances, TypeInv, TypeOK, StorageTypeOK,
         AccountRow
    <2>3. r.op = "rotate_secret" => r.revision \in Nat
      BY <2>1, RequestFields
    <2> QED
      BY <2>1, <2>2, <2>3
  <1>3. RevisionWonOnce'
    BY <1>1 DEF WonInv, RevisionWonOnce, Succeeded
  <1> QED
    BY <1>2, <1>3 DEF WonInv

(* A step that adds the success receipt of r: it found r's revision current. *)
LEMMA NewWin ==
    ASSUME TypeInv, TypeInv', WonInv, NothingRevivedBy,
           NEW k \in Command, NEW r \in Request,
           commands'[k].intent = r,
           \A j \in Command : j # k => commands'[j] = commands[j],
           r.op = "rotate_secret" =>
               /\ r.account \in Account
               /\ accounts[r.account].status = "active"
               /\ accounts[r.account].revision = r.revision
               /\ accounts'[r.account].revision = r.revision + 1,
           r.op = "revoke" =>
               /\ r.account \in Account
               /\ accounts[r.account].revision = r.revision
               /\ accounts'[r.account].status = "revoked"
    PROVE  WonInv'
  <1>1. ASSUME NEW a \in Account, accounts[a].status # "absent"
        PROVE  /\ accounts'[a].status # "absent"
               /\ accounts'[a].revision >= accounts[a].revision
               /\ accounts[a].status = "revoked" => accounts'[a].status = "revoked"
               /\ accounts[a].revision \in Nat /\ accounts'[a].revision \in Nat
    BY <1>1 DEF NothingRevivedBy, AccountOnlyAdvances, TypeInv, TypeOK, StorageTypeOK,
       AccountRow
  <1>2. ASSUME NEW j \in Command, j # k, Succeeded(j)'
        PROVE  LET q == commands[j].intent IN
               /\ commands'[j] = commands[j] /\ Succeeded(j) /\ q \in Request
               /\ q.op = "rotate_secret" =>
                     /\ q.account \in Account /\ q.revision \in Nat
                     /\ accounts[q.account].status # "absent"
                     /\ accounts[q.account].revision > q.revision
               /\ q.op = "revoke" =>
                     /\ q.account \in Account
                     /\ accounts[q.account].status = "revoked"
    <2>1. commands'[j] = commands[j] /\ Succeeded(j)
      BY <1>2 DEF Succeeded
    <2> QED
      BY <2>1, RequestFields DEF WonInv, WonRows
  <1>3. r.op = "rotate_secret" => r.revision \in Nat
    BY RequestFields
  <1>4. WonRows'
    <2> SUFFICES ASSUME NEW j \in Command, Succeeded(j)'
                 PROVE  LET q == commands'[j].intent IN
                        /\ q \in Request
                        /\ q.op = "rotate_secret" =>
                              /\ q.account \in Account
                              /\ accounts'[q.account].status # "absent"
                              /\ accounts'[q.account].revision > q.revision
                        /\ q.op = "revoke" =>
                              /\ q.account \in Account
                              /\ accounts'[q.account].status = "revoked"
      BY DEF WonRows
    <2>1. CASE j = k
      BY <1>1, <1>3, <2>1
    <2>2. CASE j # k
      <3> DEFINE q == commands[j].intent
      <3>1. /\ commands'[j].intent = q /\ q \in Request
            /\ q.op = "rotate_secret" =>
                  /\ q.account \in Account /\ q.revision \in Nat
                  /\ accounts[q.account].status # "absent"
                  /\ accounts[q.account].revision > q.revision
            /\ q.op = "revoke" =>
                  /\ q.account \in Account
                  /\ accounts[q.account].status = "revoked"
        BY <1>2, <2>2
      <3> HIDE DEF q
      <3> QED
        BY <1>1, <3>1
    <2> QED
      BY <2>1, <2>2
  <1>5. RevisionWonOnce'
    <2> SUFFICES ASSUME NEW i \in Command, NEW j \in Command, i # j,
                        Succeeded(i)', Succeeded(j)',
                        commands'[i].intent.op = "rotate_secret",
                        commands'[j].intent.op \in {"rotate_secret", "revoke"},
                        commands'[i].intent.account = commands'[j].intent.account,
                        commands'[i].intent.revision = commands'[j].intent.revision
                 PROVE  FALSE
      BY DEF RevisionWonOnce, Succeeded
    <2>1. CASE i # k /\ j # k
      BY <1>2, <2>1 DEF WonInv, RevisionWonOnce, Succeeded
    <2>2. CASE i = k
      <3>1. /\ commands'[j] = commands[j] /\ j # k
            /\ commands'[i].intent = r
        BY <2>2
      <3>2. CASE commands[j].intent.op = "rotate_secret"
        <4>1. accounts[r.account].revision > r.revision /\ r.revision \in Nat
          BY <1>2, <2>2, <3>1, <3>2
        <4> QED
          BY <2>2, <4>1
      <3>3. CASE commands[j].intent.op = "revoke"
        <4>1. accounts[r.account].status = "revoked"
          BY <1>2, <2>2, <3>1, <3>3
        <4> QED
          BY <2>2, <4>1
      <3> QED
        BY <3>1, <3>2, <3>3
    <2>3. CASE j = k
      <3>1. /\ commands'[i] = commands[i] /\ i # k
            /\ commands'[j].intent = r
        BY <2>3
      <3>2. accounts[r.account].revision > r.revision /\ r.revision \in Nat
        BY <1>2, <3>1
      <3> QED
        BY <3>1, <3>2
    <2> QED
      BY <2>1, <2>2, <2>3
  <1> QED
    BY <1>4, <1>5 DEF WonInv

(* The success receipt of the command h works on carries h's request.       *)
LEMMA NewReceipt ==
    ASSUME TypeInv, OwnerInv, NEW h \in Handler, Working(h), NEW t,
           CompleteSuccess(req[h], t)
    PROVE  /\ req[h] \in Request /\ CommandOf(req[h]) \in Command
           /\ commands'[CommandOf(req[h])].intent = req[h]
           /\ \A j \in Command : j # CommandOf(req[h]) => commands'[j] = commands[j]
  <1>1. req[h] \in Request /\ CommandOf(req[h]) \in Command
    BY RequestFields DEF TypeInv, ControlOK, Working
  <1>2. commands[CommandOf(req[h])].intent = req[h]
    BY DEF OwnerInv, RowFits
  <1> QED
    BY <1>1, <1>2 DEF CompleteSuccess, TypeInv, TypeOK, StorageTypeOK

LEMMA WonTransaction ==
    ASSUME TypeInv, TypeInv', OwnerInv, AccountInv, WonInv, NothingRevivedBy,
           NEW h \in Handler,
           \/ \E a \in Account, c \in Credential : CreateAccount(h, a, c)
           \/ \E c \in Credential : RotateAccount(h, c)
           \/ RevokeAccount(h)
           \/ \E t \in frame[h].now..clock : StoreReceipt(h, t)
    PROVE  WonInv'
  <1>1. PICK t : CompleteSuccess(req[h], t)
    BY DEF CreateAccount, RotateAccount, RevokeAccount, StoreReceipt
  <1>2. Working(h)
    BY DEF CreateAccount, RotateAccount, RevokeAccount, StoreReceipt, Working
  <1>3. /\ req[h] \in Request /\ CommandOf(req[h]) \in Command
        /\ commands'[CommandOf(req[h])].intent = req[h]
        /\ \A j \in Command : j # CommandOf(req[h]) => commands'[j] = commands[j]
    BY <1>1, <1>2, NewReceipt
  <1>4. CASE \/ \E a \in Account, c \in Credential : CreateAccount(h, a, c)
             \/ \E t0 \in frame[h].now..clock : StoreReceipt(h, t0)
    <2>1. req[h].op \in {"create", "exchange_secret"}
      BY <1>4 DEF CreateAccount, StoreReceipt, TypeInv, ControlOK
    <2> QED
      BY <1>3, <2>1, NewWin
  <1>5. ASSUME NEW c \in Credential, RotateAccount(h, c)
        PROVE  WonInv'
    <2>1. req[h].op = "rotate_secret" /\ accounts[req[h].account].revision = req[h].revision
      BY <1>5 DEF RotateAccount, TypeInv, ControlOK, AccountInv, Knows
    <2>2. /\ req[h].account \in Account
          /\ accounts[req[h].account].status = "active"
          /\ accounts'[req[h].account].revision = req[h].revision + 1
      BY <1>5, <2>1, RotateChanges
    <2> QED
      BY <1>3, <2>1, <2>2, NewWin
  <1>6. CASE RevokeAccount(h)
    <2>1. req[h].op = "revoke" /\ accounts[req[h].account].revision = req[h].revision
      BY <1>6 DEF RevokeAccount, TypeInv, ControlOK, AccountInv, Knows
    <2>2. req[h].account \in Account /\ accounts'[req[h].account].status = "revoked"
      BY <1>6, RevokeChanges
    <2> QED
      BY <1>3, <2>1, <2>2, NewWin
  <1> QED
    BY <1>4, <1>5, <1>6

(* Only the three transactions and the exchange's receipt add a success.    *)
LEMMA ReceiptKinds ==
    ASSUME TypeInv, [Next]_vars
    PROVE  \/ \A k \in Command : Succeeded(k)' => commands'[k] = commands[k]
           \/ \E h \in Handler :
                 \/ \E a \in Account, c \in Credential : CreateAccount(h, a, c)
                 \/ \E c \in Credential : RotateAccount(h, c)
                 \/ RevokeAccount(h)
                 \/ \E t \in frame[h].now..clock : StoreReceipt(h, t)
  <1> DEFINE Quiet == \A k \in Command : Succeeded(k)' => commands'[k] = commands[k]
  <1>1. CASE Tick \/ UNCHANGED vars
    BY <1>1 DEF Tick, vars, tables
  <1>2. ASSUME NEW h \in Handler, NEW r \in Request, Accept(h, r)
        PROVE  Quiet
    BY <1>2 DEF Accept, Prune, NoCommand, Succeeded
  <1>3. ASSUME NEW h \in Handler, Reserve(h)
        PROVE  Quiet
    <2>1. CommandOf(req[h]) \in Command
      BY <1>3, RequestFields DEF Reserve, TypeInv, ControlOK
    <2> QED
      BY <1>3, <2>1 DEF Reserve, InsertCommand, Succeeded, TypeInv, TypeOK, StorageTypeOK
  <1>4. ASSUME NEW h \in Handler, Record(h)
        PROVE  Quiet
    <2>1. CommandOf(req[h]) \in Command
      BY <1>4, RequestFields DEF Record, TypeInv, ControlOK
    <2> QED
      BY <1>4, <2>1 DEF Record, CompleteError, Succeeded, TypeInv, TypeOK, StorageTypeOK
  <1>5. ASSUME NEW h \in Handler, Admit(h)
        PROVE  Quiet
    <2>1. CommandOf(req[h]) \in Command
      BY <1>5, RequestFields DEF Admit, TypeInv, ControlOK
    <2> QED
      BY <1>5, <2>1
      DEF Admit, MarkIssuing, Succeeded, TypeInv, TypeOK, StorageTypeOK, CommandRow
  <1>6. ASSUME NEW h \in Handler,
               AlreadyReserved(h) \/ Find(h) \/ Return(h) \/ Fail(h)
        PROVE  Quiet
    BY <1>6 DEF AlreadyReserved, Find, Return, Fail, tables
  <1>7. ASSUME NEW h \in Handler,
               \/ AuthenticationLock(h)
               \/ TakeRateSlot(h) \/ RateLimited(h) \/ VerifySecret(h) \/ InvalidSecret(h)
               \/ SubjectActive(h) \/ SubjectDisabled(h) \/ BoundExpiry(h)
               \/ ExpiredMeanwhile(h) \/ Issue(h) \/ IssueAmbiguous(h) \/ IssueDisabled(h)
        PROVE  Quiet
    BY <1>7 DEF AuthenticationLock, TakeRateSlot, RateLimited, VerifySecret,
       InvalidSecret, SubjectActive, SubjectDisabled, RecheckCredential, NoLongerValid,
       BoundExpiry, ExpiredMeanwhile, Issue, IssueAmbiguous, IssueDisabled, Reject, tables
  <1>8. ASSUME NEW h \in Handler, ManagementLock(h)
        PROVE  Quiet
    BY <1>8 DEF ManagementLock, CountAccounts, LockToRotate, LockToRevoke,
       TooManyAccounts, AlreadyRevoked, RevisionConflict, Reject, tables
  <1>9. ASSUME NEW h \in Handler,
               \/ \E s \in Subject : EnsureIdentity(h, s)
               \/ IdentityRejected(h) \/ NameConflict(h) \/ SubjectConflict(h)
               \/ RotationRefused(h) \/ NotFound(h)
        PROVE  Quiet
    BY <1>9 DEF EnsureIdentity, IdentityRejected, NameConflict, SubjectConflict,
       RotationRefused, NotFound, Reject, tables
  <1> HIDE DEF Quiet
  <1> QED
    BY <1>1, <1>2, <1>3, <1>4, <1>5, <1>6, <1>7, <1>8, <1>9
    DEF Quiet, Next, WaitStep, PlainStep, ManagementStep, AuthenticationStep

LEMMA WonNext ==
    TypeInv /\ OwnerInv /\ AccountInv /\ WonInv /\ [Next]_vars => WonInv'
  BY TypeStep, NothingRevivedStep, ReceiptKinds, NoNewWin, WonTransaction

(* The compare-and-swap of rotate_account and revoke_account: of the         *)
(* commands with success receipts no two rotated the same revision of an     *)
(* account, and none revoked a revision that another rotated.                *)
THEOREM RevisionsWonOnce == Spec => []RevisionWonOnce
  <1>1. WonInv => RevisionWonOnce
    BY DEF WonInv
  <1> QED
    BY <1>1, TypeInit, TypeStep, OwnerInit, OwnerNext, AccountInit, AccountNext,
       WonInit, WonNext, PTL DEF Spec

-----------------------------------------------------------------------------
(* No token after the credential's expiry.                                  *)

(* What an exchange asks the Issuer for ends no later than the credential   *)
(* it was admitted with.                                                    *)
ExpiryInv == \A h \in Handler : pc[h] = "issue" => frame[h].expires <= frame[h].until

LEMMA ExpiryInit == Init => ExpiryInv
  BY DEF Init, HandlersInit, ExpiryInv

(* A step of h that neither asks for a token nor accepts one.               *)
NoToken(h) == OthersStay(h) /\ pc'[h] \notin {"issue", "receipt"}

LEMMA SharedNoToken ==
    ASSUME TypeInv, NEW h \in Handler,
           \/ \E r \in Request : Accept(h, r)
           \/ Reserve(h) \/ AlreadyReserved(h) \/ Find(h) \/ Record(h)
           \/ Return(h) \/ Fail(h)
    PROVE  NoToken(h)
  BY DEF Accept, Reserve, AlreadyReserved, Find, Record, Return, Fail, Respond, Leave,
     FirstStep, Goto, NoToken, OthersStay, TypeInv, TypeOK, HandlersTypeOK

LEMMA RejectNoToken ==
    ASSUME TypeInv, NEW h \in Handler, NEW x, Reject(h, x)
    PROVE  NoToken(h)
  BY DEF Reject, Goto, NoToken, OthersStay, TypeInv, TypeOK, HandlersTypeOK

LEMMA ManagementNoToken ==
    ASSUME TypeInv, NEW h \in Handler, ManagementLock(h) \/ ManagementStep(h)
    PROVE  NoToken(h)
  <1> USE DEF TypeInv, TypeOK, HandlersTypeOK
  <1>1. CASE \/ \E s \in Subject : EnsureIdentity(h, s)
             \/ \E t \in frame[h].now..clock :
                   CountAccounts(h, t) \/ LockToRotate(h, t) \/ LockToRevoke(h, t)
    BY <1>1 DEF EnsureIdentity, CountAccounts, LockToRotate, LockToRevoke, Goto,
       NoToken, OthersStay
  <1>2. CASE \/ \E a \in Account, c \in Credential : CreateAccount(h, a, c)
             \/ \E c \in Credential : RotateAccount(h, c)
             \/ RevokeAccount(h) \/ RotationRefused(h)
    BY <1>2 DEF CreateAccount, RotateAccount, RevokeAccount, RotationRefused, Respond,
       Goto, NoToken, OthersStay
  <1>3. CASE \/ IdentityRejected(h) \/ TooManyAccounts(h) \/ NameConflict(h)
             \/ SubjectConflict(h) \/ NotFound(h) \/ AlreadyRevoked(h)
             \/ RevisionConflict(h)
    BY <1>3, RejectNoToken
    DEF IdentityRejected, TooManyAccounts, NameConflict, SubjectConflict, NotFound,
        AlreadyRevoked, RevisionConflict
  <1> QED
    BY <1>1, <1>2, <1>3 DEF ManagementLock, ManagementStep

LEMMA AuthenticationNoToken ==
    ASSUME TypeInv, NEW h \in Handler, AuthenticationLock(h) \/ AuthenticationStep(h)
    PROVE  NoToken(h) \/ BoundExpiry(h) \/ Issue(h)
  <1> USE DEF TypeInv, TypeOK, HandlersTypeOK
  <1>1. CASE \/ TakeRateSlot(h) \/ RateLimited(h) \/ VerifySecret(h) \/ SubjectActive(h)
             \/ RecheckCredential(h) \/ Admit(h)
    BY <1>1 DEF TakeRateSlot, RateLimited, VerifySecret, SubjectActive,
       RecheckCredential, Admit, Goto, NoToken, OthersStay
  <1>2. CASE IssueAmbiguous(h) \/ \E t \in frame[h].now..clock : StoreReceipt(h, t)
    BY <1>2 DEF IssueAmbiguous, StoreReceipt, Respond, Goto, NoToken, OthersStay
  <1>3. CASE \/ InvalidSecret(h) \/ SubjectDisabled(h) \/ NoLongerValid(h)
             \/ ExpiredMeanwhile(h) \/ IssueDisabled(h)
    BY <1>3, RejectNoToken
    DEF InvalidSecret, SubjectDisabled, NoLongerValid, ExpiredMeanwhile, IssueDisabled
  <1> QED
    BY <1>1, <1>2, <1>3 DEF AuthenticationLock, AuthenticationStep

(* The clock is read again after the lock, and the expiry bounded by it.    *)
LEMMA TokenBounded ==
    ASSUME TypeInv, ExpiryInv, NEW h \in Handler, BoundExpiry(h) \/ Issue(h)
    PROVE  /\ OthersStay(h)
           /\ clock < frame'[h].expires /\ frame'[h].expires <= frame[h].until
           /\ pc'[h] = "issue" => frame'[h].until = frame[h].until
  <1> USE DEF TypeInv, TypeOK, HandlersTypeOK
  <1>1. frame[h] \in Frame /\ clock \in Nat
    BY DEF StorageTypeOK
  <1>2. OthersStay(h)
    BY DEF BoundExpiry, Issue, Goto, OthersStay
  <1>3. CASE BoundExpiry(h)
    <2>1. frame'[h] = [frame[h] EXCEPT !.now = clock, !.expires = ExpiryAt(h, clock)]
      BY <1>3 DEF BoundExpiry
    <2>2. frame'[h].expires = ExpiryAt(h, clock) /\ frame'[h].until = frame[h].until
      BY <1>1, <2>1 DEF Frame
    <2>3. clock < ExpiryAt(h, clock) /\ ExpiryAt(h, clock) <= frame[h].until
      BY <1>1, <1>3, ConfigAssumption DEF BoundExpiry, ExpiryAt, Least, Frame
    <2> QED
      BY <1>2, <2>2, <2>3
  <1>4. CASE Issue(h)
    <2>1. frame'[h].expires = frame[h].expires
      BY <1>1, <1>4 DEF Issue, Frame
    <2>2. pc[h] = "issue" /\ clock < frame[h].expires /\ pc'[h] = "receipt"
      BY <1>4 DEF Issue, Goto
    <2> QED
      BY <1>2, <2>1, <2>2 DEF ExpiryInv
  <1> QED
    BY <1>3, <1>4

LEMMA TokenStep ==
    ASSUME TypeInv, ExpiryInv, [Next]_vars
    PROVE  ExpiryInv' /\ \A h \in Handler : TokenInTime(h)
  <1>1. CASE Tick \/ UNCHANGED vars
    BY <1>1 DEF Tick, vars, control, ExpiryInv, TokenInTime
  <1>2. ASSUME NEW h \in Handler, NoToken(h)
        PROVE  ExpiryInv' /\ \A g \in Handler : TokenInTime(g)
    BY <1>2 DEF NoToken, OthersStay, ExpiryInv, TokenInTime
  <1>3. ASSUME NEW h \in Handler, BoundExpiry(h) \/ Issue(h)
        PROVE  ExpiryInv' /\ \A g \in Handler : TokenInTime(g)
    BY <1>3, TokenBounded DEF OthersStay, ExpiryInv, TokenInTime
  <1> QED
    BY <1>1, <1>2, <1>3, SharedNoToken, ManagementNoToken, AuthenticationNoToken
    DEF Next, WaitStep, PlainStep

(* However long mark_exchange_issuing waits for the account's row, no token *)
(* is asked for or accepted once the credential it admitted has expired,    *)
(* nor one that would outlive it.                                           *)
THEOREM TokensEndWithCredentials == Spec => NoTokenAfterExpiry
  BY TokenStep, TypeInit, TypeStep, ExpiryInit, PTL DEF Spec, NoTokenAfterExpiry

=============================================================================
