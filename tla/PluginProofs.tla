---------------------------- MODULE PluginProofs ----------------------------
(***************************************************************************)
(* The lifecycle: what activation, deactivation and changes of secrets      *)
(* leave of the database and of the guarantees of the handlers, for every   *)
(* set of handlers, requests, ids and secrets and any number of             *)
(* activations.                                                             *)
(***************************************************************************)
EXTENDS OutcomeProofs, Plugin

-----------------------------------------------------------------------------
(* A handler's step under the lifecycle is one of ServiceAccount, or one of *)
(* two that it has not: a secret of another pepper does not verify, and a   *)
(* receipt of another key cannot be read.                                   *)

Mismatches(h) == pc[h] = "verify" /\ Reject(h, "invalid_credentials")

FailsClosed(h) ==
    /\ pc[h] = "find"
    /\ Respond(h, "failure")
    /\ UNCHANGED <<clock, tables, performed>>

Moves(h) == WaitStep(h) \/ PlainStep(h) \/ Fail(h) \/ Mismatches(h) \/ FailsClosed(h)

Connected(h) == pc[h] \in DatabaseStep => HasConnection(h)

Serves(h) ==
    /\ Moves(h)
    /\ Connected(h) \/ Fail(h)
    /\ Hashes(h) /\ Seals(h) /\ Release(h) /\ Drop(h)
    /\ UNCHANGED lifecycle

LEMMA HandlerServes ==
    ASSUME NEW h \in Handler,
           \/ HandlerWaits(h) \/ HandlerRuns(h) \/ PepperMismatch(h)
           \/ ReceiptUnreadable(h) \/ ConnectionRefused(h) \/ HandlerFails(h)
    PROVE  Serves(h)
  <1>1. CASE HandlerWaits(h) \/ HandlerRuns(h)
    BY <1>1 DEF HandlerWaits, HandlerRuns, Proceeds, Progress, Serves, Moves, Connected
  <1>2. CASE PepperMismatch(h)
    BY <1>2 DEF PepperMismatch, Progress, Serves, Moves, Mismatches, Connected
  <1>3. CASE ReceiptUnreadable(h)
    BY <1>3 DEF ReceiptUnreadable, Replays, Progress, Serves, Moves, FailsClosed, Connected
  <1>4. CASE ConnectionRefused(h) \/ HandlerFails(h)
    BY <1>4 DEF ConnectionRefused, HandlerFails, Progress, Serves, Moves
  <1> QED
    BY <1>1, <1>2, <1>3, <1>4

(* The lifecycle's own steps.                                               *)
LifecycleStep ==
    \/ ResolveUrl \/ Activated \/ ActivateFails \/ PoolClosed
    \/ \E s \in Secret : ResolvePepper(s) \/ ResolveKey(s)
    \/ \E S \in SUBSET Handler : Deactivate(S)

LEMMA PluginKinds ==
    ASSUME [PluginNext]_pluginVars
    PROVE  \/ LifecycleStep
           \/ \E h \in Handler, r \in Request : Call(h, r)
           \/ \E h \in Handler : Serves(h)
           \/ PluginTick \/ UNCHANGED pluginVars
  BY HandlerServes DEF PluginNext, LifecycleStep

LEMMA LifecycleQuiet ==
    ASSUME LifecycleStep
    PROVE  UNCHANGED <<vars, held, crypto>>
  BY DEF LifecycleStep, ResolveUrl, Activated, ActivateFails, PoolClosed, ResolvePepper,
     ResolveKey, Deactivate

(* Only a handler that runs a statement changes a table.                    *)
LEMMA StatementsOnly ==
    ASSUME NEW h \in Handler, Moves(h), pc[h] \notin DatabaseStep
    PROVE  UNCHANGED tables
  <1> USE DEF DatabaseStep
  <1>1. CASE WaitStep(h)
    BY <1>1 DEF WaitStep, ManagementLock, AuthenticationLock, CountAccounts, LockToRotate,
       LockToRevoke, TooManyAccounts, AlreadyRevoked, RevisionConflict, RecheckCredential,
       NoLongerValid
  <1>2. CASE Reserve(h) \/ AlreadyReserved(h) \/ Find(h) \/ Record(h) \/ Return(h)
    BY <1>2 DEF Reserve, AlreadyReserved, Find, Record, Return
  <1>3. CASE ManagementStep(h)
    BY <1>3 DEF ManagementStep, EnsureIdentity, IdentityRejected, CreateAccount,
       NameConflict, SubjectConflict, RotateAccount, RotationRefused, RevokeAccount,
       NotFound, Reject
  <1>4. CASE AuthenticationStep(h)
    BY <1>4 DEF AuthenticationStep, TakeRateSlot, RateLimited, VerifySecret, InvalidSecret,
       SubjectActive, SubjectDisabled, Admit, BoundExpiry, ExpiredMeanwhile, Issue,
       IssueAmbiguous, IssueDisabled, StoreReceipt, Reject
  <1>5. CASE Fail(h) \/ Mismatches(h) \/ FailsClosed(h)
    BY <1>5 DEF Fail, Mismatches, FailsClosed, Reject
  <1> QED
    BY <1>1, <1>2, <1>3, <1>4, <1>5 DEF Moves, PlainStep

-----------------------------------------------------------------------------
(* The inductive invariant of the lifecycle: a published state has the      *)
(* secrets that activate has resolved last, only a closing pool drains, and *)
(* the connections it waits for are ones of the last activation.            *)

Published == phase \in {"active", "closing"}

LifecycleOK ==
    /\ generation \in 0..MaxGeneration
    /\ phase \in {"inactive", "active", "closing"} \cup Activation
    /\ phase \in Activation => generation < MaxGeneration
    /\ DOMAIN keys = 1..MaxGeneration
    /\ Published => generation >= 1 /\ keys[generation] = staged

PoolOK ==
    /\ held \in [Handler -> 0..generation]
    /\ draining \subseteq Handler
    /\ phase # "closing" => draining = {}
    /\ \A h \in draining : held[h] = generation

PluginInv == LifecycleOK /\ PoolOK

LEMMA PluginInvInit == PluginInit => PluginInv
  BY SecretAssumption
  DEF PluginInit, PluginInv, LifecycleOK, PoolOK, Published, Activation

LEMMA PluginInvLifecycle ==
    ASSUME PluginInv, LifecycleStep
    PROVE  PluginInv'
  <1> USE SecretAssumption DEF PluginInv, LifecycleOK, PoolOK, Published, Activation
  <1>1. CASE ResolveUrl
    BY <1>1 DEF ResolveUrl
  <1>2. ASSUME NEW s \in Secret, ResolvePepper(s) \/ ResolveKey(s)
        PROVE  PluginInv'
    BY <1>2 DEF ResolvePepper, ResolveKey
  <1>3. CASE Activated
    <2>1. generation + 1 \in 1..MaxGeneration /\ generation' = generation + 1
      BY <1>3 DEF Activated
    <2>2. keys'[generation'] = staged /\ DOMAIN keys' = 1..MaxGeneration /\ staged' = staged
      BY <1>3, <2>1 DEF Activated
    <2>3. held' \in [Handler -> 0..generation']
      BY <1>3, <2>1 DEF Activated
    <2> QED
      BY <1>3, <2>1, <2>2, <2>3 DEF Activated
  <1>4. CASE ActivateFails
    BY <1>4 DEF ActivateFails
  <1>5. ASSUME NEW S \in SUBSET Handler, Deactivate(S)
        PROVE  PluginInv'
    BY <1>5 DEF Deactivate
  <1>6. CASE PoolClosed
    BY <1>6 DEF PoolClosed
  <1> QED
    BY <1>1, <1>2, <1>3, <1>4, <1>5, <1>6 DEF LifecycleStep

LEMMA PluginInvServes ==
    ASSUME PluginInv, NEW h \in Handler, Serves(h)
    PROVE  PluginInv'
  <1>1. LifecycleOK' /\ generation' = generation /\ phase' = phase /\ generation \in Nat
    BY SecretAssumption DEF Serves, lifecycle, PluginInv, LifecycleOK, Published
  <1>2. held' \in [Handler -> 0..generation]
    BY <1>1 DEF Serves, Drop, PluginInv, PoolOK
  <1>3. /\ draining' \subseteq draining
        /\ pc'[h] = "idle" => h \notin draining'
    BY DEF Serves, Release, InTransaction
  <1>4. \A g \in draining' : held'[g] = generation
    BY <1>3 DEF Serves, Drop, PluginInv, PoolOK
  <1> QED
    BY <1>1, <1>2, <1>3, <1>4 DEF PluginInv, PoolOK

LEMMA PluginInvNext == PluginInv /\ [PluginNext]_pluginVars => PluginInv'
  <1> SUFFICES ASSUME PluginInv, [PluginNext]_pluginVars
               PROVE  PluginInv'
    OBVIOUS
  <1>1. ASSUME NEW h \in Handler, NEW r \in Request, Call(h, r)
        PROVE  PluginInv'
    BY <1>1, SecretAssumption
    DEF Call, lifecycle, PluginInv, LifecycleOK, PoolOK, Published
  <1>2. CASE PluginTick \/ UNCHANGED pluginVars
    BY <1>2 DEF PluginTick, pluginVars, lifecycle, PluginInv, LifecycleOK, PoolOK, Published
  <1> QED
    BY <1>1, <1>2, PluginKinds, PluginInvLifecycle, PluginInvServes

-----------------------------------------------------------------------------
(* Deactivation and changes of secrets.                                     *)

(* Who changes a table has a connection of the published state.             *)
LEMMA WritersAreCurrent ==
    ASSUME PluginInv, NEW h \in Handler, Serves(h), ~UNCHANGED tables
    PROVE  Published /\ keys[held[h]] = staged
  <1>1. pc[h] \in DatabaseStep
    BY StatementsOnly DEF Serves
  <1>2. ~Fail(h)
    BY DEF Fail
  <1>3. HasConnection(h)
    BY <1>1, <1>2 DEF Serves, Connected
  <1>4. Published /\ held[h] = generation
    BY <1>3 DEF HasConnection, PluginInv, PoolOK, Published
  <1> QED
    BY <1>4 DEF PluginInv, LifecycleOK

LEMMA QuietUnlessPublished ==
    ASSUME PluginInv, [PluginNext]_pluginVars, ~Published
    PROVE  UNCHANGED tables
  <1>1. CASE LifecycleStep
    BY <1>1, LifecycleQuiet DEF vars
  <1>2. ASSUME NEW h \in Handler, NEW r \in Request, Call(h, r)
        PROVE  FALSE
    BY <1>2 DEF Call, Published
  <1>3. ASSUME NEW h \in Handler, Serves(h)
        PROVE  UNCHANGED tables
    BY <1>3, WritersAreCurrent
  <1>4. CASE PluginTick \/ UNCHANGED pluginVars
    BY <1>4 DEF PluginTick, Tick, pluginVars, vars
  <1> QED
    BY <1>1, <1>2, <1>3, <1>4, PluginKinds

(* deactivate's pool.close() is the last word: until activate has published *)
(* a state again no handler that outlived it changes a table, however many  *)
(* are still waiting for the Directory or the Issuer.                       *)
THEOREM DatabaseIsQuiet == PluginSpec => DatabaseQuiet
  <1>1. PluginInv /\ [PluginNext]_pluginVars =>
            [phase \notin {"active", "closing"} => UNCHANGED tables]_pluginVars
    BY QuietUnlessPublished DEF Published
  <1> QED
    BY <1>1, PluginInvInit, PluginInvNext, PTL DEF PluginSpec, DatabaseQuiet

WrittenWithCurrent ==
    /\ \A c \in Credential :
          peppered'[c] # peppered[c] => peppered'[c] = staged.pepper
    /\ \A k \in Command :
          sealed'[k] \notin {sealed[k], None} => sealed'[k] = staged.key

LEMMA SecretsAreCurrent ==
    ASSUME PluginInv, [PluginNext]_pluginVars
    PROVE  WrittenWithCurrent
  <1>1. CASE UNCHANGED crypto
    BY <1>1 DEF crypto, WrittenWithCurrent
  <1>2. ASSUME NEW h \in Handler, Serves(h), UNCHANGED tables
        PROVE  WrittenWithCurrent
    BY <1>2 DEF Serves, Hashes, Seals, tables, WrittenWithCurrent
  <1>3. ASSUME NEW h \in Handler, Serves(h), ~UNCHANGED tables
        PROVE  WrittenWithCurrent
    <2>1. keys[held[h]] = staged
      BY <1>3, WritersAreCurrent
    <2> QED
      BY <1>3, <2>1 DEF Serves, Hashes, Seals, WrittenWithCurrent
  <1>4. CASE \/ LifecycleStep \/ PluginTick \/ UNCHANGED pluginVars
             \/ \E h \in Handler, r \in Request : Call(h, r)
    BY <1>1, <1>4, LifecycleQuiet DEF PluginTick, Call, pluginVars
  <1> QED
    BY <1>2, <1>3, <1>4, PluginKinds

(* Every verifier and every receipt is made with the pepper and the receipt *)
(* key of the last activation: a handler that still carries older ones has  *)
(* no connection left to store what it made of them.                        *)
THEOREM KeysAreCurrent == PluginSpec => KeysCurrent
  <1>1. PluginInv /\ [PluginNext]_pluginVars => [WrittenWithCurrent]_pluginVars
    BY SecretsAreCurrent
  <1>2. PluginSpec => [][WrittenWithCurrent]_pluginVars
    BY <1>1, PluginInvInit, PluginInvNext, PTL DEF PluginSpec
  <1> QED
    BY <1>2, PTL DEF KeysCurrent, WrittenWithCurrent

-----------------------------------------------------------------------------
(* What is proved of the handlers holds under the lifecycle too.  For each  *)
(* invariant it remains to look at the two steps ServiceAccount has not.    *)

Interrupts(h) == Mismatches(h) \/ FailsClosed(h)

LEMMA PluginMoves ==
    ASSUME [PluginNext]_pluginVars
    PROVE  [Next]_vars \/ \E h \in Handler : Interrupts(h)
  <1>1. ASSUME NEW h \in Handler, Serves(h)
        PROVE  Next \/ Interrupts(h)
    BY <1>1 DEF Serves, Moves, Interrupts, Next
  <1>2. ASSUME NEW h \in Handler, NEW r \in Request, Call(h, r)
        PROVE  Next
    BY <1>2 DEF Call, Next
  <1>3. CASE LifecycleStep
    BY <1>3, LifecycleQuiet
  <1>4. CASE PluginTick
    BY <1>4 DEF PluginTick, Next
  <1>5. CASE UNCHANGED pluginVars
    BY <1>5 DEF pluginVars
  <1> QED
    BY <1>1, <1>2, <1>3, <1>4, <1>5, PluginKinds

(* Both leave every table alone, and the request of their handler.          *)
LEMMA InterruptEffect ==
    ASSUME TypeInv, NEW h \in Handler, Interrupts(h)
    PROVE  /\ UNCHANGED <<clock, tables, performed, req>>
           /\ OthersStay(h)
           /\ pc'[h] \in {"record", "answer"}
           /\ frame'[h].answer \in {"failure", "invalid_credentials"}
  BY DEF Interrupts, Mismatches, FailsClosed, Reject, Respond, Goto, NoFrame, OthersStay,
     TypeInv, TypeOK, HandlersTypeOK

LEMMA InterruptTypes ==
    ASSUME TypeInv, NEW h \in Handler, Interrupts(h)
    PROVE  TypeInv'
  <1>1. CASE Mismatches(h)
    BY <1>1, RejectType DEF Mismatches, ErrorCode
  <1>2. CASE FailsClosed(h)
    <2>1. ControlType'
      BY <1>2, RespondType, TypeInvParts DEF FailsClosed, Answer
    <2> QED
      BY <1>2, <2>1, TablesUnchanged DEF FailsClosed
  <1> QED
    BY <1>1, <1>2 DEF Interrupts

LEMMA InterruptOwners ==
    ASSUME TypeInv, OwnerInv, NEW h \in Handler, Interrupts(h)
    PROVE  OwnerInv'
  <1>1. CASE Mismatches(h)
    BY <1>1, OwnerReject DEF Mismatches, Working
  <1>2. CASE FailsClosed(h)
    <2>1. pc'[h] = "answer"
      BY <1>2 DEF FailsClosed, Respond, Goto, TypeInv, TypeOK, HandlersTypeOK
    <2>2. ~Working(h)'
      BY <2>1 DEF Working
    <2> QED
      BY <2>2, InterruptEffect, OwnerIdleStep DEF OthersStay, tables
  <1> QED
    BY <1>1, <1>2 DEF Interrupts

LEMMA InterruptQuiet ==
    ASSUME TypeInv, NEW h \in Handler, Interrupts(h)
    PROVE  Quiet(h)
  <1>1. CASE Mismatches(h)
    BY <1>1, RejectQuiet DEF Mismatches, Working
  <1>2. CASE FailsClosed(h)
    BY <1>2, RespondKeeps DEF FailsClosed, Quiet, Working, tables, TypeInv, TypeOK
  <1> QED
    BY <1>1, <1>2 DEF Interrupts

LEMMA InterruptAccounts ==
    ASSUME TypeInv, AccountInv, NEW h \in Handler, Interrupts(h)
    PROVE  AccountInv'
  BY InterruptEffect, LocklessStep DEF OthersStay, tables

LEMMA InterruptOrganizations ==
    ASSUME TypeInv, OrganizationInv, NEW h \in Handler, Interrupts(h)
    PROVE  OrganizationInv'
  <1>1. /\ accounts' = accounts /\ req' = req
        /\ \A g \in Handler : pc'[g] = "insert" => pc[g] = "insert"
    BY InterruptEffect DEF OthersStay, tables
  <1>2. \A o : AccountsOf(o)' = AccountsOf(o)
    BY <1>1 DEF AccountsOf
  <1> QED
    BY <1>1, <1>2
    DEF OrganizationInv, BlankRows, OrganizationBounded, PlaceLeft, OneInserts

LEMMA InterruptTruth ==
    ASSUME TypeInv, TypeInv', OrganizationInv, OrganizationInv', TruthInv,
           NEW h \in Handler, Interrupts(h)
    PROVE  TruthInv'
  <1>1. /\ UNCHANGED <<commands, accounts, credentials, performed>> /\ OthersStay(h)
        /\ pc'[h] \in {"record", "answer"} /\ req'[h] = req[h]
        /\ frame'[h].answer \in {"failure", "invalid_credentials"}
    BY InterruptEffect DEF tables
  <1>2. PICK r \in Request : r = req[h]
    BY DEF Interrupts, Mismatches, FailsClosed, TypeInv, ControlOK
  <1>3. PICK x \in Neutral : x = frame'[h].answer
    BY <1>1 DEF Neutral
  <1>4. Truthful(x, r)'
    BY DEF Neutral, Truthful, Fits, Justified
  <1>5. Sound(h)
    BY <1>1, <1>2, <1>3, <1>4, Refusing
  <1>6. NothingRevivedBy
    BY <1>1, UntouchedRows DEF NothingRevivedBy
  <1>7. Grows
    <2>1. \A o \in Organization : Cardinality(AccountsOf(o)) \in Nat
      BY FS_CardinalityType DEF OrganizationInv
    <2>2. \A o \in Organization : AccountsOf(o)' = AccountsOf(o)
      BY <1>1 DEF AccountsOf
    <2>3. \A k \in Command : performed[k].times \in Nat
      BY DEF TypeInv, TypeOK, HandlersTypeOK
    <2> QED
      BY <1>1, <2>1, <2>2, <2>3 DEF Grows
  <1> QED
    BY <1>5, <1>6, <1>7, TruthOf DEF Sound

(* All of them together.                                                    *)
HandlersInv ==
    /\ TypeInv /\ OwnerInv /\ AccountInv
    /\ LedgerInv /\ OrganizationInv /\ TruthInv

LEMMA HandlersInvInit == PluginInit => HandlersInv
  BY TypeInit, OwnerInit, AccountInit, LedgerInit, OrganizationInit, TruthInit
  DEF PluginInit, HandlersInv

LEMMA HandlersInvNext == HandlersInv /\ [PluginNext]_pluginVars => HandlersInv'
  <1> SUFFICES ASSUME HandlersInv, [PluginNext]_pluginVars
               PROVE  HandlersInv'
    OBVIOUS
  <1> USE DEF HandlersInv
  <1>1. CASE [Next]_vars
    <2>1. TypeInv' /\ OwnerInv' /\ AccountInv'
      BY <1>1, TypeStep, OwnerNext, AccountNext
    <2>2. LedgerInv' /\ OrganizationInv'
      BY <1>1, <2>1, LedgerNext, OrganizationStep
    <2> QED
      BY <1>1, <2>1, <2>2, TruthStep
  <1>2. ASSUME NEW h \in Handler, Interrupts(h)
        PROVE  HandlersInv'
    <2>1. TypeInv' /\ OwnerInv' /\ AccountInv' /\ OrganizationInv'
      BY <1>2, InterruptTypes, InterruptOwners, InterruptAccounts, InterruptOrganizations
    <2>2. LedgerInv'
      BY <1>2, <2>1, InterruptQuiet, LedgerQuiet
    <2> QED
      BY <1>2, <2>1, <2>2, InterruptTruth
  <1> QED
    BY <1>1, <1>2, PluginMoves

(* Neither a restart nor a change of secrets executes a command again: a    *)
(* replay whose receipt the new key cannot open fails closed, and a handler *)
(* of an earlier activation finds its command as it left it.                *)
THEOREM RestartsDoNotReexecute == PluginSpec => ExecutionsSpaced
  <1>1. HandlersInv /\ [PluginNext]_pluginVars => [ExecutedAnewSpaced]_vars
    <2> SUFFICES ASSUME HandlersInv, [PluginNext]_pluginVars
                 PROVE  [ExecutedAnewSpaced]_vars
      OBVIOUS
    <2>1. CASE [Next]_vars
      BY <2>1, SpacedStep DEF HandlersInv
    <2>2. ASSUME NEW h \in Handler, Interrupts(h)
          PROVE  ExecutedAnewSpaced
      BY <2>2, InterruptEffect DEF HandlersInv, ExecutedAnewSpaced
    <2> QED
      BY <2>1, <2>2, PluginMoves
  <1> QED
    BY <1>1, HandlersInvInit, HandlersInvNext, PTL DEF PluginSpec, ExecutionsSpaced

(* Deactivation drops handlers in the middle of a command and activation    *)
(* brings in new ones, yet no two ever work on one command.                 *)
THEOREM SolelyOwnedAcrossRestarts == PluginSpec => []SoleOwner
  <1>1. HandlersInv => SoleOwner
    BY OwnerImpliesSole DEF HandlersInv
  <1> QED
    BY <1>1, HandlersInvInit, HandlersInvNext, PTL DEF PluginSpec

(* What receipts and answers say of the accounts is true under any secrets: *)
(* a mismatch is answered as invalid_credentials or as a failure, never by  *)
(* an outcome that speaks of the accounts.                                  *)
THEOREM TruthfulAcrossRestarts == PluginSpec => []OutcomesTruthful
  <1>1. HandlersInv => OutcomesTruthful
    BY TruthImplies DEF HandlersInv
  <1> QED
    BY <1>1, HandlersInvInit, HandlersInvNext, PTL DEF PluginSpec

(* A command that a restart interrupted waits for an operator: no handler   *)
(* of a later activation resumes, completes, prunes or executes it.         *)
THEOREM AbandonedAcrossRestarts == PluginSpec => AbandonedStays
  <1>1. HandlersInv /\ [PluginNext]_pluginVars => [AbandonedKept]_vars
    <2> SUFFICES ASSUME HandlersInv, [PluginNext]_pluginVars
                 PROVE  [AbandonedKept]_vars
      OBVIOUS
    <2>1. CASE [Next]_vars
      BY <2>1, AbandonedStep DEF HandlersInv
    <2>2. ASSUME NEW h \in Handler, Interrupts(h)
          PROVE  AbandonedKept
      BY <2>2, InterruptEffect DEF HandlersInv, AbandonedKept, tables
    <2> QED
      BY <2>1, <2>2, PluginMoves
  <1> QED
    BY <1>1, HandlersInvInit, HandlersInvNext, PTL DEF PluginSpec, AbandonedStays

(* Neither secrets nor restarts revive a credential or an account.          *)
THEOREM NothingRevivedAcrossRestarts == PluginSpec => NothingRevived
  <1>1. HandlersInv /\ [PluginNext]_pluginVars => [NothingRevivedBy]_vars
    <2> SUFFICES ASSUME HandlersInv, [PluginNext]_pluginVars
                 PROVE  [NothingRevivedBy]_vars
      OBVIOUS
    <2>1. CASE [Next]_vars
      BY <2>1, NothingRevivedStep DEF HandlersInv
    <2>2. ASSUME NEW h \in Handler, Interrupts(h)
          PROVE  NothingRevivedBy
      BY <2>2, InterruptEffect, UntouchedRows DEF HandlersInv, NothingRevivedBy, tables
    <2> QED
      BY <2>1, <2>2, PluginMoves
  <1> QED
    BY <1>1, HandlersInvInit, HandlersInvNext, PTL DEF PluginSpec, NothingRevived

(* The plugin with its lifecycle implements the ledger: activations,        *)
(* deactivations and unreadable receipts do nothing to a key.               *)
THEOREM LifecycleImplementsLedger == PluginSpec => ImplementsLedger
  <1>1. PluginInit => Ledger!Init
    BY RefinesInit DEF PluginInit
  <1>2. HandlersInv /\ [PluginNext]_pluginVars => [Ledger!Next]_(Ledger!ledgerVars)
    <2> SUFFICES ASSUME HandlersInv, [PluginNext]_pluginVars
                 PROVE  [Ledger!Next]_(Ledger!ledgerVars)
      OBVIOUS
    <2>1. CASE [Next]_vars
      BY <2>1, RefinesNext DEF HandlersInv
    <2>2. ASSUME NEW h \in Handler, Interrupts(h)
          PROVE  UNCHANGED Ledger!ledgerVars
      <3>1. UNCHANGED <<clock, commands, performed>>
        BY <2>2, InterruptEffect DEF HandlersInv, tables
      <3> QED
        BY <3>1, RefinesQuiet
    <2> QED
      BY <2>1, <2>2, PluginMoves
  <1> QED
    BY <1>1, <1>2, HandlersInvInit, HandlersInvNext, PTL
    DEF PluginSpec, ImplementsLedger, Ledger!Spec

=============================================================================
