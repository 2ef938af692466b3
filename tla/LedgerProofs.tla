---------------------------- MODULE LedgerProofs ----------------------------
(***************************************************************************)
(* The plugin implements CommandLedger, and what follows about receipts and *)
(* executions, for every set of handlers, requests and ids.                 *)
(***************************************************************************)
EXTENDS ServiceAccountProofs, LedgerRefinement

(* The command k has not taken effect since its reservation, and if it did  *)
(* before, then more than ReceiptTtl before t.                              *)
Spaced(k, t) == performed[k].at # 0 => performed[k].at + ReceiptTtl < t

Due(k, t) == t # 0 /\ ~performed[k].current /\ Spaced(k, t)

RowInv(k) ==
    /\ commands[k].status = "absent" => Spaced(k, clock)
    /\ commands[k].status = "reserved" => ~performed[k].current
    /\ commands[k].status = "completed_error" => Due(k, clock)
    /\ commands[k].status = "completed_success" =>
          performed[k].current /\ performed[k].at <= commands[k].completedAt
    /\ performed[k].times > 0 => performed[k].at # 0
    /\ commands[k].status # "verifying"

(* The time at which the step of h that takes effect does so.               *)
Committing == {"insert", "rotate", "revoke"}

HandlerInv(h) ==
    LET k == CommandOf(req[h]) IN
    /\ frame[h].now <= clock
    /\ pc[h] = "receipt" => performed[k].current /\ performed[k].at <= frame[h].now
    /\ pc[h] = "record" => Due(k, clock)
    /\ Working(h) /\ pc[h] \notin {"receipt", "record"} => Due(k, frame[h].now)
    /\ pc[h] \in Committing => Due(k, frame[h].begun) /\ frame[h].begun <= clock

(* The inductive invariant.                                                 *)
LedgerInv ==
    /\ \A k \in Command : RowInv(k)
    /\ \A h \in Handler : HandlerInv(h)

-----------------------------------------------------------------------------
(* What the steps do to commands and executions, by kind.                   *)

OthersKept(h) ==
    \A g \in Handler : g # h =>
        pc'[g] = pc[g] /\ req'[g] = req[g] /\ frame'[g] = frame[g]

Quiet(h) ==
    /\ UNCHANGED <<clock, commands, performed>>
    /\ OthersKept(h)
    /\ frame'[h].now \in {0, frame[h].now, clock}
    /\ Working(h)' =>
          /\ Working(h) /\ req'[h] = req[h]
          /\ pc[h] \notin {"receipt", "record"} /\ pc'[h] # "receipt"
          /\ pc'[h] # "record" => frame'[h].now \in {frame[h].now, clock}
          /\ pc'[h] \in Committing =>
                frame[h].now <= frame'[h].begun /\ frame'[h].begun <= clock

Executes(h) ==
    /\ pc[h] = "issue"
    /\ Perform(req[h], clock)
    /\ UNCHANGED <<clock, commands, req>>
    /\ OthersKept(h)
    /\ \/ pc'[h] = "receipt" /\ frame'[h].now = clock
       \/ pc'[h] = "answer" /\ frame'[h].now = 0

Commits(h) ==
    /\ pc[h] \in Committing
    /\ CompleteSuccess(req[h], frame[h].begun)
    /\ Perform(req[h], frame[h].begun)
    /\ Respond(h, "success")
    /\ UNCHANGED clock

Stores(h) ==
    /\ pc[h] = "receipt"
    /\ \E t \in Nat :
          /\ frame[h].now <= t /\ t <= clock
          /\ CompleteSuccess(req[h], t)
    /\ Respond(h, "success")
    /\ UNCHANGED <<clock, performed>>

LEMMA RespondKeeps ==
    ASSUME HandlersTypeOK, NEW h \in Handler, NEW x, Respond(h, x)
    PROVE  OthersKept(h) /\ pc'[h] = "answer" /\ frame'[h].now = 0 /\ req' = req
  BY DEF Respond, Goto, HandlersTypeOK, NoFrame, Frame, OthersKept

LEMMA RejectQuiet ==
    ASSUME TypeInv, NEW h \in Handler, Working(h), pc[h] \notin {"receipt", "record"},
           NEW x, Reject(h, x)
    PROVE  Quiet(h)
  <1>1. OthersKept(h) /\ pc'[h] = "record" /\ frame'[h].now = 0 /\ req' = req
    BY DEF Reject, Goto, TypeInv, TypeOK, HandlersTypeOK, NoFrame, Frame, OthersKept
  <1>2. UNCHANGED <<clock, commands, performed>>
    BY DEF Reject, tables
  <1> QED
    BY <1>1, <1>2 DEF Quiet, Committing

LEMMA SharedKinds ==
    ASSUME TypeInv, NEW h \in Handler,
           AlreadyReserved(h) \/ Find(h) \/ Return(h) \/ Fail(h)
    PROVE  Quiet(h)
  <1> USE DEF TypeInv, TypeOK, HandlersTypeOK
  <1>1. CASE AlreadyReserved(h)
    BY <1>1 DEF AlreadyReserved, Goto, Quiet, OthersKept, Working, tables
  <1>2. CASE Find(h)
    BY <1>2, RespondKeeps DEF Find, Quiet, Working, tables
  <1>3. CASE Return(h) \/ Fail(h)
    BY <1>3 DEF Return, Fail, Leave, Goto, NoFrame, Frame, Quiet, OthersKept, Working, tables
  <1> QED
    BY <1>1, <1>2, <1>3

LEMMA ManagementKinds ==
    ASSUME TypeInv, NEW h \in Handler, ManagementLock(h) \/ ManagementStep(h)
    PROVE  Quiet(h) \/ Commits(h)
  <1> USE DEF TypeInv, TypeOK, HandlersTypeOK
  <1>1. ASSUME NEW s \in Subject, EnsureIdentity(h, s)
        PROVE  Quiet(h)
    <2> DEFINE new == [frame[h] EXCEPT !.subject = s, !.now = clock]
    <2>1. new.now = clock
      BY DEF Frame
    <2>2. frame' = [frame EXCEPT ![h] = new]
      BY <1>1 DEF EnsureIdentity
    <2> HIDE DEF new
    <2> QED
      BY <1>1, <2>1, <2>2
      DEF EnsureIdentity, Goto, Quiet, OthersKept, Working, Committing, tables
  <1>2. ASSUME NEW t \in frame[h].now..clock,
               CountAccounts(h, t) \/ LockToRotate(h, t)
        PROVE  Quiet(h)
    <2> DEFINE new == [frame[h] EXCEPT !.begun = t]
    <2>1. new.now = frame[h].now /\ new.begun = t
      BY DEF Frame
    <2>2. frame' = [frame EXCEPT ![h] = new]
      BY <1>2 DEF CountAccounts, LockToRotate
    <2>3. frame[h].now <= t /\ t <= clock
      BY <1>2 DEF CountAccounts, LockToRotate, BeginsAt
    <2> HIDE DEF new
    <2> QED
      BY <1>2, <2>1, <2>2, <2>3
      DEF CountAccounts, LockToRotate, Goto, Quiet, OthersKept, Working, Committing, tables
  <1>3. ASSUME NEW t \in frame[h].now..clock, LockToRevoke(h, t)
        PROVE  Quiet(h)
    <2> DEFINE new == [frame[h] EXCEPT !.begun = t, !.now = clock]
    <2>1. new.now = clock /\ new.begun = t
      BY DEF Frame
    <2>2. frame' = [frame EXCEPT ![h] = new]
      BY <1>3 DEF LockToRevoke
    <2>3. frame[h].now <= t /\ t <= clock
      BY <1>3 DEF LockToRevoke, BeginsAt
    <2> HIDE DEF new
    <2> QED
      BY <1>3, <2>1, <2>2, <2>3
      DEF LockToRevoke, Goto, Quiet, OthersKept, Working, Committing, tables
  <1>4. CASE \/ \E a \in Account, c \in Credential : CreateAccount(h, a, c)
             \/ \E c \in Credential : RotateAccount(h, c)
             \/ RevokeAccount(h)
    BY <1>4 DEF CreateAccount, RotateAccount, RevokeAccount, Commits, Committing
  <1>5. CASE RotationRefused(h)
    BY <1>5, RespondKeeps DEF RotationRefused, Quiet, Working, tables
  <1>6. CASE \/ IdentityRejected(h) \/ TooManyAccounts(h) \/ NameConflict(h)
             \/ SubjectConflict(h) \/ NotFound(h) \/ AlreadyRevoked(h)
             \/ RevisionConflict(h)
    BY <1>6, RejectQuiet
    DEF IdentityRejected, TooManyAccounts, NameConflict, SubjectConflict, NotFound,
        AlreadyRevoked, RevisionConflict, Working
  <1> QED
    BY <1>1, <1>2, <1>3, <1>4, <1>5, <1>6 DEF ManagementLock, ManagementStep

LEMMA AuthenticationKinds ==
    ASSUME TypeInv, NEW h \in Handler, AuthenticationLock(h) \/ AuthenticationStep(h)
    PROVE  Quiet(h) \/ Executes(h) \/ Stores(h) \/ Admit(h)
  <1> USE DEF TypeInv, TypeOK, HandlersTypeOK
  <1>1. CASE TakeRateSlot(h)
    BY <1>1 DEF TakeRateSlot, Goto, Quiet, OthersKept, Working, Committing
  <1>2. CASE RateLimited(h)
    BY <1>2 DEF RateLimited, Goto, NoFrame, Frame, Quiet, OthersKept, Working, Committing
  <1>3. CASE VerifySecret(h) \/ RecheckCredential(h)
    <2>1. frame'[h].now = frame[h].now /\ OthersKept(h) /\ req' = req
      BY <1>3 DEF VerifySecret, RecheckCredential, Goto, Frame, OthersKept
    <2> QED
      BY <1>3, <2>1
      DEF VerifySecret, RecheckCredential, Goto, Quiet, Working, Committing, tables
  <1>4. CASE SubjectActive(h)
    <2>1. frame'[h].now = clock /\ OthersKept(h) /\ req' = req
      BY <1>4 DEF SubjectActive, Goto, Frame, OthersKept
    <2> QED
      BY <1>4, <2>1 DEF SubjectActive, Goto, Quiet, Working, Committing, tables
  <1>5. CASE BoundExpiry(h)
    <2> DEFINE new == [frame[h] EXCEPT !.now = clock, !.expires = ExpiryAt(h, clock)]
    <2>1. new.now = clock
      BY DEF Frame
    <2>2. frame' = [frame EXCEPT ![h] = new]
      BY <1>5 DEF BoundExpiry
    <2> HIDE DEF new
    <2> QED
      BY <1>5, <2>1, <2>2
      DEF BoundExpiry, Goto, Quiet, OthersKept, Working, Committing, tables
  <1>6. CASE Issue(h)
    <2>1. frame'[h].now = clock /\ OthersKept(h) /\ req' = req
      BY <1>6 DEF Issue, Goto, Frame, OthersKept
    <2> QED
      BY <1>6, <2>1 DEF Issue, Goto, Executes, tables
  <1>7. CASE IssueAmbiguous(h)
    BY <1>7, RespondKeeps DEF IssueAmbiguous, Executes, tables
  <1>8. ASSUME NEW t \in frame[h].now..clock, StoreReceipt(h, t)
        PROVE  Stores(h)
    BY <1>8 DEF StoreReceipt, Stores
  <1>9. CASE \/ InvalidSecret(h) \/ SubjectDisabled(h) \/ NoLongerValid(h)
             \/ ExpiredMeanwhile(h) \/ IssueDisabled(h)
    BY <1>9, RejectQuiet
    DEF InvalidSecret, SubjectDisabled, NoLongerValid, ExpiredMeanwhile, IssueDisabled,
        Working
  <1> QED
    BY <1>1, <1>2, <1>3, <1>4, <1>5, <1>6, <1>7, <1>8, <1>9
    DEF AuthenticationLock, AuthenticationStep

Kind(h) ==
    \/ \E r \in Request : Accept(h, r)
    \/ Reserve(h) \/ Record(h) \/ Admit(h)
    \/ Executes(h) \/ Commits(h) \/ Stores(h) \/ Quiet(h)

(* Every step is of one of these kinds.                                     *)
LEMMA StepKinds ==
    ASSUME TypeInv, [Next]_vars
    PROVE  Tick \/ UNCHANGED vars \/ \E h \in Handler : Kind(h)
  <1>1. ASSUME NEW h \in Handler, WaitStep(h) \/ PlainStep(h) \/ Fail(h)
        PROVE  Kind(h)
    BY <1>1, SharedKinds, ManagementKinds, AuthenticationKinds
    DEF WaitStep, PlainStep, Kind
  <1> QED
    BY <1>1 DEF Next, Kind

-----------------------------------------------------------------------------
(* The invariant.                                                           *)

(* The types that the steps below need.                                     *)
LEMMA Types ==
    ASSUME TypeInv
    PROVE  /\ clock \in Nat \ {0} /\ ReceiptTtl \in Nat
           /\ \A k \in Command :
                 /\ commands[k] \in CommandRow
                 /\ commands[k].completedAt \in Nat
                 /\ performed[k].at \in Nat /\ performed[k].times \in Nat
                 /\ performed[k].current \in BOOLEAN
           /\ \A h \in Handler : frame[h].now \in Nat /\ frame[h].begun \in Nat
           /\ \A h \in Handler : Working(h) => CommandOf(req[h]) \in Command
  <1>1. \A k \in Command : commands[k] \in CommandRow /\ commands[k].completedAt \in Nat
    BY DEF TypeInv, TypeOK, StorageTypeOK, CommandRow
  <1>2. \A k \in Command : performed[k].at \in Nat /\ performed[k].times \in Nat
                            /\ performed[k].current \in BOOLEAN
    BY DEF TypeInv, TypeOK, HandlersTypeOK
  <1>3. \A h \in Handler : frame[h].now \in Nat /\ frame[h].begun \in Nat
    BY DEF TypeInv, TypeOK, HandlersTypeOK, Frame
  <1>4. \A h \in Handler : Working(h) => CommandOf(req[h]) \in Command
    BY RequestFields DEF TypeInv, ControlOK, Working
  <1> QED
    BY <1>1, <1>2, <1>3, <1>4, ConfigAssumption DEF TypeInv, TypeOK, StorageTypeOK

LEMMA DueLater ==
    ASSUME TypeInv, NEW k \in Command, NEW s \in Nat, NEW t \in Nat, s <= t, Due(k, s)
    PROVE  Due(k, t)
  BY Types DEF Due, Spaced

(* A step of h that touches at most the row of the command it works on.     *)
LEMMA LedgerStep ==
    ASSUME TypeInv, OwnerInv, LedgerInv, NEW h \in Handler, Working(h),
           clock' = clock, OthersKept(h),
           \A k \in Command : k # CommandOf(req[h]) =>
              commands'[k] = commands[k] /\ performed'[k] = performed[k],
           \A k \in Command : k = CommandOf(req[h]) => RowInv(k)',
           HandlerInv(h)'
    PROVE  LedgerInv'
  <1>1. ASSUME NEW k \in Command
        PROVE  RowInv(k)'
    <2>1. CASE k = CommandOf(req[h])
      BY <2>1
    <2>2. CASE k # CommandOf(req[h])
      BY <2>2 DEF LedgerInv, RowInv, Due, Spaced
    <2> QED
      BY <2>1, <2>2
  <1>2. ASSUME NEW g \in Handler
        PROVE  HandlerInv(g)'
    <2>1. CASE g = h
      BY <2>1
    <2>2. CASE g # h
      <3>1. pc'[g] = pc[g] /\ req'[g] = req[g] /\ frame'[g] = frame[g]
        BY <2>2 DEF OthersKept
      <3>2. HandlerInv(g)
        BY DEF LedgerInv
      <3>3. CASE ~Working(g)
        BY <3>1, <3>2, <3>3 DEF HandlerInv, Working, Committing
      <3>4. CASE Working(g)
        <4>1. CommandOf(req[g]) # CommandOf(req[h]) /\ CommandOf(req[g]) \in Command
          BY <2>2, <3>4, Types DEF OwnerInv
        <4>2. CommandOf(req'[g]) = CommandOf(req[g])
              /\ performed'[CommandOf(req[g])] = performed[CommandOf(req[g])]
          BY <3>1, <4>1 DEF CommandOf
        <4> QED
          BY <3>1, <3>2, <4>2 DEF HandlerInv, Working, Due, Spaced
      <3> QED
        BY <3>3, <3>4
    <2> QED
      BY <2>1, <2>2
  <1> QED
    BY <1>1, <1>2 DEF LedgerInv

LEMMA LedgerInit == Init => LedgerInv
  BY DEF Init, StorageInit, HandlersInit, LedgerInv, RowInv, HandlerInv, Due, Spaced,
     Working, Committing, NoCommand, NoFrame

LEMMA LedgerTime ==
    ASSUME TypeInv, LedgerInv, Tick \/ UNCHANGED vars
    PROVE  LedgerInv'
  <1>1. /\ UNCHANGED <<commands, performed, pc, req, frame>>
        /\ clock' \in Nat /\ clock <= clock'
    BY Types DEF Tick, vars, tables, control
  <1>2. ASSUME NEW k \in Command
        PROVE  RowInv(k)'
    <2>1. RowInv(k) /\ (Spaced(k, clock) => Spaced(k, clock'))
      BY <1>1, Types DEF LedgerInv, Spaced
    <2>2. Due(k, clock) => Due(k, clock')
      BY <1>1, Types, DueLater
    <2> QED
      BY <1>1, <2>1, <2>2 DEF RowInv, Due, Spaced
  <1>3. ASSUME NEW h \in Handler
        PROVE  HandlerInv(h)'
    <2>1. HandlerInv(h) /\ frame[h].now <= clock'
          /\ (frame[h].begun <= clock => frame[h].begun <= clock')
      BY <1>1, Types DEF LedgerInv, HandlerInv
    <2>2. pc[h] = "record" => Due(CommandOf(req[h]), clock')
      BY <1>1, <2>1, Types, DueLater DEF HandlerInv, Working
    <2> QED
      BY <1>1, <2>1, <2>2 DEF HandlerInv, Due, Spaced, Working, CommandOf
  <1> QED
    BY <1>2, <1>3 DEF LedgerInv

LEMMA LedgerAccept ==
    ASSUME TypeInv, OwnerInv, LedgerInv, NEW h \in Handler, NEW r \in Request, Accept(h, r)
    PROVE  LedgerInv'
  <1>1. /\ UNCHANGED <<clock, performed, frame>>
        /\ ~Working(h)' /\ pc'[h] = "reserve"
        /\ \A g \in Handler : g # h => pc'[g] = pc[g] /\ req'[g] = req[g]
    BY DEF Accept, Goto, Working, TypeInv, TypeOK, HandlersTypeOK
  <1>2. ASSUME NEW k \in Command
        PROVE  RowInv(k)'
    <2>1. CASE commands'[k] = commands[k]
      BY <1>1, <2>1 DEF LedgerInv, RowInv, Due, Spaced
    <2>2. CASE /\ commands'[k] = NoCommand /\ commands[k].completedAt # 0
               /\ commands[k].completedAt + ReceiptTtl < clock
      <3>1. commands[k].status \notin Unfinished
        BY <2>2 DEF OwnerInv, OpenRows
      <3>2. commands[k].status \in {"absent", "completed_success", "completed_error"}
        BY <3>1, Types DEF CommandRow
      <3>3. Spaced(k, clock)
        BY <2>2, <3>2, Types DEF LedgerInv, RowInv, Due, Spaced
      <3> QED
        BY <1>1, <2>2, <3>3 DEF LedgerInv, RowInv, Due, Spaced, NoCommand
    <2> QED
      BY <2>1, <2>2 DEF Accept, Prune
  <1>3. ASSUME NEW g \in Handler
        PROVE  HandlerInv(g)'
    BY <1>1 DEF LedgerInv, HandlerInv, Due, Spaced, Working, CommandOf, Committing
  <1> QED
    BY <1>2, <1>3 DEF LedgerInv

LEMMA LedgerReserve ==
    ASSUME TypeInv, OwnerInv, LedgerInv, NEW h \in Handler, Reserve(h)
    PROVE  LedgerInv'
  <1> DEFINE k == CommandOf(req[h])
  <1>1. k \in Command
    BY RequestFields DEF Reserve, TypeInv, ControlOK
  <1>2. /\ commands[k].status = "absent" /\ commands'[k].status = "reserved"
        /\ \A j \in Command : j # k =>
              commands'[j] = commands[j] /\ performed'[j] = performed[j]
    BY <1>1 DEF Reserve, InsertCommand, TypeInv, TypeOK, StorageTypeOK, HandlersTypeOK
  <1>3. /\ performed'[k].at = performed[k].at
        /\ performed'[k].times = performed[k].times
        /\ performed'[k].current = FALSE
    BY <1>1 DEF Reserve, TypeInv, TypeOK, HandlersTypeOK
  <1>4. /\ req' = req /\ clock' = clock
        /\ pc'[h] \in {"ensure", "rate", "lock"} /\ frame'[h].now = clock
        /\ \A g \in Handler : g # h => pc'[g] = pc[g] /\ frame'[g] = frame[g]
    BY DEF Reserve, Goto, FirstStep, TypeInv, TypeOK, HandlersTypeOK, Frame
  <1>5. ASSUME NEW j \in Command
        PROVE  RowInv(j)'
    <2>1. CASE j = k
      BY <1>1, <1>2, <1>3, <2>1 DEF LedgerInv, RowInv
    <2>2. CASE j # k
      BY <1>2, <1>4, <2>2 DEF LedgerInv, RowInv, Due, Spaced
    <2> QED
      BY <2>1, <2>2
  <1>6. HandlerInv(h)'
    <2>1. Spaced(k, clock) /\ clock # 0
      BY <1>1, <1>2, Types DEF LedgerInv, RowInv
    <2> QED
      BY <1>3, <1>4, <2>1, Types DEF HandlerInv, Due, Spaced, Working, Committing
  <1>7. ASSUME NEW g \in Handler, g # h
        PROVE  HandlerInv(g)'
    <2>1. HandlerInv(g) /\ pc'[g] = pc[g] /\ frame'[g] = frame[g]
      BY <1>4, <1>7 DEF LedgerInv
    <2>2. Working(g) => CommandOf(req[g]) # k /\ CommandOf(req[g]) \in Command
      BY <1>2, Types DEF OwnerInv, RowFits, Unfinished
    <2>3. CASE ~Working(g)
      BY <1>4, <2>1, <2>3 DEF HandlerInv, Working, Committing
    <2>4. CASE Working(g)
      <3>1. performed'[CommandOf(req[g])] = performed[CommandOf(req[g])]
        BY <1>2, <2>2, <2>4
      <3> QED
        BY <1>4, <2>1, <3>1 DEF HandlerInv, Working, Due, Spaced
    <2> QED
      BY <2>3, <2>4
  <1> QED
    BY <1>5, <1>6, <1>7 DEF LedgerInv

LEMMA LedgerQuiet ==
    ASSUME TypeInv, TypeInv', OwnerInv, LedgerInv, NEW h \in Handler, Quiet(h)
    PROVE  LedgerInv'
  <1>1. UNCHANGED <<clock, commands, performed>> /\ OthersKept(h)
    BY DEF Quiet
  <1>2. \A k \in Command : RowInv(k)'
    BY <1>1 DEF LedgerInv, RowInv, Due, Spaced
  <1>3. frame'[h].now <= clock
    BY Types DEF Quiet, LedgerInv, HandlerInv
  <1>4. HandlerInv(h)'
    <2>1. CASE ~Working(h)'
      BY <1>1, <1>3, <2>1 DEF HandlerInv, Working, Committing
    <2>2. CASE Working(h)'
      <3> DEFINE k == CommandOf(req[h])
      <3>1. /\ Working(h) /\ req'[h] = req[h] /\ k \in Command
            /\ Due(k, frame[h].now) /\ frame[h].now <= clock
        BY <2>2, Types DEF Quiet, LedgerInv, HandlerInv
      <3>2. Due(k, clock)
        BY <3>1, Types, DueLater
      <3>3. pc'[h] # "record" => Due(k, frame'[h].now)
        BY <2>2, <3>1, <3>2 DEF Quiet
      <3>4. pc'[h] \in Committing =>
               Due(k, frame'[h].begun) /\ frame'[h].begun <= clock
        <4>1. frame'[h].begun \in Nat
          BY DEF TypeInv, TypeOK, HandlersTypeOK, Frame
        <4> QED
          BY <2>2, <3>1, <4>1, Types, DueLater DEF Quiet
      <3>5. pc'[h] # "receipt"
        BY <2>2 DEF Quiet
      <3> QED
        BY <1>1, <1>3, <3>1, <3>2, <3>3, <3>4, <3>5
        DEF HandlerInv, Due, Spaced, CommandOf
    <2> QED
      BY <2>1, <2>2
  <1>5. ASSUME NEW g \in Handler, g # h
        PROVE  HandlerInv(g)'
    BY <1>1, <1>5 DEF OthersKept, LedgerInv, HandlerInv, Due, Spaced, Working, CommandOf
  <1> QED
    BY <1>2, <1>4, <1>5 DEF LedgerInv

LEMMA LedgerRecord ==
    ASSUME TypeInv, OwnerInv, LedgerInv, NEW h \in Handler, Record(h)
    PROVE  LedgerInv'
  <1>1. Working(h) /\ CommandOf(req[h]) \in Command
    BY Types DEF Record, Working
  <1>2. /\ OthersKept(h) /\ pc'[h] = "answer" /\ frame'[h].now = 0
        /\ UNCHANGED <<clock, performed>>
    BY RespondKeeps DEF Record, TypeInv, TypeOK
  <1>3. ASSUME NEW k \in Command, k = CommandOf(req[h])
        PROVE  /\ RowInv(k)'
               /\ \A j \in Command : j # k => commands'[j] = commands[j]
    <2>1. /\ commands'[k].status = "completed_error"
          /\ \A j \in Command : j # k => commands'[j] = commands[j]
      BY <1>3 DEF Record, CompleteError, TypeInv, TypeOK, StorageTypeOK
    <2>2. Due(k, clock) /\ RowInv(k)
      BY <1>3 DEF Record, LedgerInv, HandlerInv
    <2> QED
      BY <1>2, <2>1, <2>2 DEF RowInv, Due, Spaced
  <1>4. HandlerInv(h)'
    BY <1>2, Types DEF HandlerInv, Working, Committing
  <1> QED
    BY <1>1, <1>2, <1>3, <1>4, LedgerStep

LEMMA LedgerAdmit ==
    ASSUME TypeInv, OwnerInv, LedgerInv, NEW h \in Handler, Admit(h)
    PROVE  LedgerInv'
  <1>1. Working(h) /\ CommandOf(req[h]) \in Command
    BY Types DEF Admit, Working
  <1>2. /\ OthersKept(h) /\ pc'[h] = "bound"
        /\ UNCHANGED <<req, frame, clock, performed>>
    BY DEF Admit, Goto, OthersKept, TypeInv, TypeOK, HandlersTypeOK
  <1>3. ASSUME NEW k \in Command, k = CommandOf(req[h])
        PROVE  /\ RowInv(k)'
               /\ \A j \in Command : j # k => commands'[j] = commands[j]
    <2>1. /\ commands'[k].status = "issuing"
          /\ \A j \in Command : j # k => commands'[j] = commands[j]
      BY <1>3 DEF Admit, MarkIssuing, TypeInv, TypeOK, StorageTypeOK, CommandRow
    <2> QED
      BY <1>2, <2>1 DEF LedgerInv, RowInv, Due, Spaced
  <1>4. HandlerInv(h)'
    BY <1>1, <1>2 DEF Admit, LedgerInv, HandlerInv, Due, Spaced, Working, Committing
  <1> QED
    BY <1>1, <1>2, <1>3, <1>4, LedgerStep

(* The effect of Perform on the record of executions.                       *)
LEMMA Performs ==
    ASSUME TypeInv, NEW r \in Request, NEW t, Perform(r, t),
           NEW k \in Command, k = CommandOf(r)
    PROVE  /\ performed'[k].at = t /\ performed'[k].current = TRUE
           /\ performed'[k].times = performed[k].times + 1
           /\ \A j \in Command : j # k => performed'[j] = performed[j]
  BY DEF Perform, TypeInv, TypeOK, HandlersTypeOK

LEMMA LedgerExecutes ==
    ASSUME TypeInv, OwnerInv, LedgerInv, NEW h \in Handler, Executes(h)
    PROVE  LedgerInv'
  <1>1. Working(h) /\ CommandOf(req[h]) \in Command /\ req[h] \in Request
    BY Types DEF Executes, Working, TypeInv, ControlOK
  <1>2. OthersKept(h) /\ UNCHANGED <<req, clock, commands>> /\ clock \in Nat \ {0}
    BY Types DEF Executes
  <1>3. ASSUME NEW k \in Command, k = CommandOf(req[h])
        PROVE  /\ RowInv(k)'
               /\ performed'[k].at = clock /\ performed'[k].current = TRUE
               /\ \A j \in Command : j # k => performed'[j] = performed[j]
    <2>1. /\ performed'[k].at = clock /\ performed'[k].current = TRUE
          /\ \A j \in Command : j # k => performed'[j] = performed[j]
      BY <1>1, <1>3, Performs DEF Executes
    <2>2. commands'[k].status = "issuing"
      BY <1>1, <1>2, <1>3 DEF Executes, OwnerInv, RowFits
    <2> QED
      BY <1>2, <2>1, <2>2 DEF RowInv
  <1>4. HandlerInv(h)'
    <2>1. /\ performed'[CommandOf(req[h])].current = TRUE
          /\ performed'[CommandOf(req[h])].at = clock
      BY <1>1, <1>3
    <2>2. \/ pc'[h] = "receipt" /\ frame'[h].now = clock
          \/ pc'[h] = "answer" /\ frame'[h].now = 0
      BY DEF Executes
    <2> QED
      BY <1>2, <2>1, <2>2 DEF HandlerInv, Working, Committing
  <1> QED
    BY <1>1, <1>2, <1>3, <1>4, LedgerStep

LEMMA LedgerCommits ==
    ASSUME TypeInv, OwnerInv, LedgerInv, NEW h \in Handler, Commits(h)
    PROVE  LedgerInv'
  <1>1. Working(h) /\ CommandOf(req[h]) \in Command /\ req[h] \in Request
    BY Types DEF Commits, Committing, Working, TypeInv, ControlOK
  <1>2. OthersKept(h) /\ pc'[h] = "answer" /\ frame'[h].now = 0 /\ clock' = clock
    BY RespondKeeps DEF Commits, TypeInv, TypeOK
  <1>3. ASSUME NEW k \in Command, k = CommandOf(req[h])
        PROVE  /\ RowInv(k)'
               /\ \A j \in Command : j # k =>
                     commands'[j] = commands[j] /\ performed'[j] = performed[j]
    <2>1. /\ performed'[k].at = frame[h].begun /\ performed'[k].current = TRUE
          /\ \A j \in Command : j # k => performed'[j] = performed[j]
      BY <1>1, <1>3 DEF Commits, Perform, TypeInv, TypeOK, HandlersTypeOK
    <2>2. /\ commands'[k].status = "completed_success"
          /\ commands'[k].completedAt = frame[h].begun
          /\ \A j \in Command : j # k => commands'[j] = commands[j]
      BY <1>3 DEF Commits, CompleteSuccess, TypeInv, TypeOK, StorageTypeOK
    <2>3. frame[h].begun # 0 /\ frame[h].begun \in Nat
      BY Types DEF Commits, LedgerInv, HandlerInv, Due
    <2> QED
      BY <2>1, <2>2, <2>3 DEF RowInv
  <1>4. HandlerInv(h)'
    BY <1>2, Types DEF HandlerInv, Working, Committing
  <1> QED
    BY <1>1, <1>2, <1>3, <1>4, LedgerStep

LEMMA LedgerStores ==
    ASSUME TypeInv, OwnerInv, LedgerInv, NEW h \in Handler, Stores(h)
    PROVE  LedgerInv'
  <1>1. Working(h) /\ CommandOf(req[h]) \in Command
    BY Types DEF Stores, Working
  <1>2. /\ OthersKept(h) /\ pc'[h] = "answer" /\ frame'[h].now = 0
        /\ UNCHANGED <<clock, performed>>
    BY RespondKeeps DEF Stores, TypeInv, TypeOK
  <1>3. ASSUME NEW k \in Command, k = CommandOf(req[h])
        PROVE  /\ RowInv(k)'
               /\ \A j \in Command : j # k => commands'[j] = commands[j]
    <2>1. PICK t \in Nat : frame[h].now <= t /\ CompleteSuccess(req[h], t)
      BY DEF Stores
    <2>2. /\ commands'[k].status = "completed_success" /\ commands'[k].completedAt = t
          /\ \A j \in Command : j # k => commands'[j] = commands[j]
      BY <1>3, <2>1 DEF CompleteSuccess, TypeInv, TypeOK, StorageTypeOK
    <2>3. performed[k].current /\ performed[k].at <= t
      BY <1>3, <2>1, Types DEF Stores, LedgerInv, HandlerInv
    <2> QED
      BY <1>2, <2>2, <2>3 DEF LedgerInv, RowInv
  <1>4. HandlerInv(h)'
    BY <1>2, Types DEF HandlerInv, Working, Committing
  <1> QED
    BY <1>1, <1>2, <1>3, <1>4, LedgerStep

LEMMA LedgerNext == TypeInv /\ TypeInv' /\ OwnerInv /\ LedgerInv /\ [Next]_vars => LedgerInv'
  <1> SUFFICES ASSUME TypeInv, TypeInv', OwnerInv, LedgerInv, [Next]_vars
               PROVE  LedgerInv'
    OBVIOUS
  <1>1. CASE Tick \/ UNCHANGED vars
    BY <1>1, LedgerTime
  <1>2. ASSUME NEW h \in Handler, Kind(h)
        PROVE  LedgerInv'
    BY <1>2, LedgerAccept, LedgerReserve, LedgerRecord, LedgerAdmit, LedgerExecutes,
       LedgerCommits, LedgerStores, LedgerQuiet DEF Kind
  <1> QED
    BY <1>1, <1>2, StepKinds

(* A success receipt stands for an execution since the reservation, an      *)
(* error receipt and a reservation for none, and inspect_command reports    *)
(* every execution that has no receipt: whatever complete_success,          *)
(* complete_error, the Issuer's answers, failures and retries do.           *)
THEOREM ReceiptsMatchExecutions == Spec => []ReceiptMatchesExecution
  <1>1. TypeInv => \A k \in Command :
            commands[k].status \in {"absent", "reserved", "verifying", "issuing",
                                   "completed_success", "completed_error"}
    BY DEF TypeInv, TypeOK, StorageTypeOK, CommandRow, Unfinished
  <1>2. TypeInv /\ LedgerInv => ReceiptMatchesExecution
    BY <1>1 DEF LedgerInv, RowInv, Due, ReceiptMatchesExecution, RequiresIssuerReconciliation
  <1> QED
    BY <1>2, TypeInit, TypeStep, OwnerInit, OwnerNext, LedgerInit, LedgerNext, PTL DEF Spec

-----------------------------------------------------------------------------
(* Executions are spaced.                                                   *)

LEMMA SpacedStep ==
    ASSUME TypeInv, OwnerInv, LedgerInv, [Next]_vars
    PROVE  ExecutedAnewSpaced
  <1> SUFFICES ASSUME NEW k \in Command, performed[k].times > 0,
                      performed'[k].times # performed[k].times
               PROVE  performed[k].at + ReceiptTtl < performed'[k].at
    BY DEF ExecutedAnewSpaced
  <1>1. performed[k].at # 0
    BY DEF LedgerInv, RowInv
  <1>2. CASE Tick \/ UNCHANGED vars
    BY <1>2 DEF Tick, vars
  <1>3. ASSUME NEW h \in Handler, Executes(h)
        PROVE  performed[k].at + ReceiptTtl < performed'[k].at
    <2>1. Working(h) /\ req[h] \in Request /\ CommandOf(req[h]) \in Command
      BY <1>3, Types DEF Executes, Working, TypeInv, ControlOK
    <2>2. k = CommandOf(req[h]) /\ performed'[k].at = clock
      BY <1>3, <2>1 DEF Executes, Perform, TypeInv, TypeOK, HandlersTypeOK
    <2>3. Due(k, frame[h].now) /\ frame[h].now <= clock
      BY <1>3, <2>1, <2>2 DEF Executes, LedgerInv, HandlerInv
    <2> QED
      BY <1>1, <2>2, <2>3, Types DEF Due, Spaced
  <1>4. ASSUME NEW h \in Handler, Commits(h)
        PROVE  performed[k].at + ReceiptTtl < performed'[k].at
    <2>1. CommandOf(req[h]) \in Command
      BY <1>4, Types DEF Commits, Committing, Working
    <2>2. k = CommandOf(req[h]) /\ performed'[k].at = frame[h].begun
      BY <1>4, <2>1 DEF Commits, Perform, TypeInv, TypeOK, HandlersTypeOK
    <2>3. Due(k, frame[h].begun)
      BY <1>4, <2>2 DEF Commits, LedgerInv, HandlerInv
    <2> QED
      BY <1>1, <2>2, <2>3 DEF Due, Spaced
  <1>5. ASSUME NEW h \in Handler, Reserve(h)
        PROVE  FALSE
    <2>1. CommandOf(req[h]) \in Command
      BY <1>5, RequestFields DEF Reserve, TypeInv, ControlOK
    <2> QED
      BY <1>5, <2>1 DEF Reserve, TypeInv, TypeOK, HandlersTypeOK
  <1>6. ASSUME NEW h \in Handler,
               \/ \E r \in Request : Accept(h, r)
               \/ Record(h) \/ Admit(h) \/ Stores(h) \/ Quiet(h)
        PROVE  FALSE
    BY <1>6 DEF Accept, Record, Admit, Stores, Quiet
  <1> QED
    BY <1>2, <1>3, <1>4, <1>5, <1>6, StepKinds DEF Kind

(* A key takes effect again only more than ReceiptTtl after the last time:  *)
(* prune, claim_command, the clock readings of the handlers and the Issuer's *)
(* lost answers never bring it about sooner.                                *)
THEOREM ExecutionsAreSpaced == Spec => ExecutionsSpaced
  <1>1. TypeInv /\ OwnerInv /\ LedgerInv /\ [Next]_vars => [ExecutedAnewSpaced]_vars
    BY SpacedStep
  <1> QED
    BY <1>1, TypeInit, TypeStep, OwnerInit, OwnerNext, LedgerInit, LedgerNext, PTL
    DEF Spec, ExecutionsSpaced

-----------------------------------------------------------------------------
(* A command whose handler is gone.                                         *)

LEMMA OwnedWhileWorking ==
    ASSUME NEW h \in Handler, Working(h), NEW k, k = CommandOf(req[h])
    PROVE  Owned(k)
  BY DEF Working, Owned, Owns

LEMMA AbandonedStep ==
    ASSUME TypeInv, OwnerInv, [Next]_vars
    PROVE  AbandonedKept
  <1> SUFFICES ASSUME NEW k \in Command, commands[k].status \in Unfinished, ~Owned(k)
               PROVE  commands'[k] = commands[k] /\ performed'[k] = performed[k]
    BY DEF AbandonedKept
  <1>0. \A h \in Handler : Working(h) => k # CommandOf(req[h])
    BY OwnedWhileWorking
  <1>1. CASE Tick \/ UNCHANGED vars
    BY <1>1 DEF Tick, vars, tables
  <1>2. ASSUME NEW h \in Handler, NEW r \in Request, Accept(h, r)
        PROVE  commands'[k] = commands[k] /\ performed'[k] = performed[k]
    BY <1>2 DEF Accept, Prune, OwnerInv, OpenRows
  <1>3. ASSUME NEW h \in Handler, Reserve(h)
        PROVE  commands'[k] = commands[k] /\ performed'[k] = performed[k]
    <2>1. commands[CommandOf(req[h])].status = "absent"
      BY <1>3 DEF Reserve, InsertCommand
    <2>2. k # CommandOf(req[h])
      BY <2>1 DEF Unfinished
    <2> QED
      BY <1>3, <2>2
      DEF Reserve, InsertCommand, TypeInv, TypeOK, StorageTypeOK, HandlersTypeOK
  <1>4. ASSUME NEW h \in Handler,
               Record(h) \/ Admit(h) \/ Executes(h) \/ Commits(h) \/ Stores(h)
        PROVE  commands'[k] = commands[k] /\ performed'[k] = performed[k]
    <2>1. k # CommandOf(req[h])
      BY <1>0, <1>4 DEF Record, Admit, Executes, Commits, Stores, Committing, Working
    <2>2. CASE Record(h) \/ Admit(h)
      BY <2>1, <2>2 DEF Record, Admit, CompleteError, MarkIssuing, TypeInv, TypeOK,
         StorageTypeOK
    <2>3. CASE Executes(h) \/ Commits(h) \/ Stores(h)
      BY <2>1, <2>3 DEF Executes, Commits, Stores, CompleteSuccess, Perform, TypeInv,
         TypeOK, StorageTypeOK, HandlersTypeOK
    <2> QED
      BY <1>4, <2>2, <2>3
  <1>5. ASSUME NEW h \in Handler, Quiet(h)
        PROVE  commands'[k] = commands[k] /\ performed'[k] = performed[k]
    BY <1>5 DEF Quiet
  <1> QED
    BY <1>1, <1>2, <1>3, <1>4, <1>5, StepKinds DEF Kind

(* A command whose handler failed is left as it is by every later call:     *)
(* claim_command, prune and the completions never touch it.                 *)
THEOREM AbandonedCommandsStay == Spec => AbandonedStays
  <1>1. TypeInv /\ OwnerInv /\ [Next]_vars => [AbandonedKept]_vars
    BY AbandonedStep
  <1> QED
    BY <1>1, TypeInit, TypeStep, OwnerInit, OwnerNext, PTL DEF Spec, AbandonedStays

-----------------------------------------------------------------------------
(* The refinement.                                                          *)

LedgerRows == [k \in Command |-> LedgerRow(k)]

(* A step that changes one row changes one row of the ledger.               *)
LEMMA OneRow ==
    ASSUME NEW k \in Command, NEW row,
           LedgerRow(k)' = row,
           \A j \in Command : j # k =>
              commands'[j] = commands[j] /\ performed'[j] = performed[j]
    PROVE  LedgerRows' = [LedgerRows EXCEPT ![k] = row]
  <1>1. \A j \in Command : j # k => LedgerRow(j)' = LedgerRow(j)
    BY DEF LedgerRow
  <1> QED
    BY <1>1 DEF LedgerRows

LEMMA RowNext ==
    ASSUME NEW k, commands'[k].status # "absent", performed'[k].current \in BOOLEAN
    PROVE  LedgerRow(k)' = [phase |-> LedgerPhase(commands'[k].status),
                            intent |-> commands'[k].intent,
                            executed |-> performed'[k].current,
                            executedAt |-> performed'[k].at,
                            completedAt |-> commands'[k].completedAt]
  <1>1. (commands'[k].status # "absent" /\ performed'[k].current) = performed'[k].current
    OBVIOUS
  <1>2. LedgerPhase(commands[k].status)' = LedgerPhase(commands'[k].status)
    BY DEF LedgerPhase
  <1> QED
    BY <1>1, <1>2, Zenon DEF LedgerRow

LEMMA RefinesInit == Init => Ledger!Init
  <1> SUFFICES ASSUME Init
               PROVE  Ledger!Init
    OBVIOUS
  <1>1. ASSUME NEW k \in Command
        PROVE  LedgerRow(k) = Ledger!FreeRow(0)
    <2>1. commands[k] = NoCommand /\ performed[k].at = 0 /\ performed[k].current = FALSE
      BY DEF Init, StorageInit, HandlersInit
    <2>2. (commands[k].status # "absent" /\ performed[k].current) = FALSE
      BY <2>1
    <2>3. LedgerPhase(commands[k].status) = "free" /\ commands[k].intent = None
          /\ commands[k].completedAt = 0
      BY <2>1 DEF LedgerPhase, NoCommand
    <2> QED
      BY <2>1, <2>2, <2>3, Zenon DEF LedgerRow, Ledger!FreeRow
  <1> QED
    BY <1>1 DEF Init, StorageInit, Ledger!Init

LEMMA RefinesQuiet ==
    ASSUME UNCHANGED <<clock, commands, performed>>
    PROVE  UNCHANGED Ledger!ledgerVars
  BY DEF Ledger!ledgerVars, LedgerRow, LedgerPhase

LEMMA RefinesAccept ==
    ASSUME TypeInv, OwnerInv, NEW h \in Handler, NEW r \in Request, Accept(h, r)
    PROVE  Ledger!Expire
  <1>1. UNCHANGED <<clock, performed>> /\ Prune
    BY DEF Accept
  <1>2. ASSUME NEW k \in Command
        PROVE  LedgerRow(k)' = IF /\ commands[k].completedAt # 0
                                 /\ commands[k].completedAt + ReceiptTtl < clock
                              THEN Ledger!FreeRow(performed[k].at) ELSE LedgerRow(k)
    BY <1>1 DEF Prune, LedgerRow, LedgerPhase, Ledger!FreeRow, NoCommand
  <1> QED
    BY <1>1, <1>2 DEF Ledger!Expire, Ledger!Outdated, LedgerRow

LEMMA RefinesReserve ==
    ASSUME TypeInv, NEW h \in Handler, Reserve(h)
    PROVE  \E k \in Command : \E i \in Request : Ledger!Reserve(k, i)
  <1>1. PICK k \in Command : k = CommandOf(req[h])
    BY RequestFields DEF Reserve, TypeInv, ControlOK
  <1>2. req[h] \in Request /\ clock' = clock
    BY DEF Reserve, TypeInv, ControlOK
  <1>3. /\ commands[k].status = "absent"
        /\ commands'[k] = [status |-> "reserved", intent |-> req[h], error |-> "none",
                           completedAt |-> 0]
        /\ performed'[k].at = performed[k].at /\ performed'[k].current = FALSE
        /\ \A j \in Command : j # k =>
              commands'[j] = commands[j] /\ performed'[j] = performed[j]
    BY <1>1 DEF Reserve, InsertCommand, TypeInv, TypeOK, StorageTypeOK, HandlersTypeOK
  <1> DEFINE row == [phase |-> "open", intent |-> req[h], executed |-> FALSE,
                     executedAt |-> performed[k].at, completedAt |-> 0]
  <1>4. LedgerRow(k)' = row
    <2>1. /\ LedgerPhase(commands'[k].status) = "open" /\ commands'[k].status # "absent"
          /\ commands'[k].intent = req[h] /\ commands'[k].completedAt = 0
      BY <1>3 DEF LedgerPhase
    <2> QED
      BY <1>3, <2>1, RowNext, Zenon
  <1>5. LedgerRows' = [LedgerRows EXCEPT ![k] = row]
    BY <1>3, <1>4, OneRow
  <1>6. LedgerRow(k).phase = "free" /\ LedgerRow(k).executedAt = performed[k].at
    BY <1>3 DEF LedgerRow, LedgerPhase
  <1>7. Ledger!Reserve(k, req[h])
    BY <1>2, <1>5, <1>6 DEF Ledger!Reserve, Ledger!Become, LedgerRows
  <1> QED
    BY <1>2, <1>7

(* The row of the command h works on, before its step.                      *)
LEMMA OpenRow ==
    ASSUME TypeInv, OwnerInv, NEW h \in Handler, Working(h),
           NEW k \in Command, k = CommandOf(req[h])
    PROVE  /\ LedgerRow(k).phase = "open"
           /\ LedgerRow(k).intent = commands[k].intent
           /\ LedgerRow(k).executed <=> performed[k].current
           /\ LedgerRow(k).executedAt = performed[k].at
           /\ commands[k].status \in Unfinished /\ commands[k].completedAt = 0
  <1>1. commands[k].status \in Unfinished
    BY DEF OwnerInv, RowFits, Unfinished
  <1> QED
    BY <1>1 DEF OwnerInv, OpenRows, Unfinished, LedgerRow, LedgerPhase

LEMMA RefinesRecord ==
    ASSUME TypeInv, OwnerInv, LedgerInv, NEW h \in Handler, Record(h)
    PROVE  \E k \in Command : Ledger!Refuse(k)
  <1>1. PICK k \in Command : k = CommandOf(req[h])
    BY Types DEF Record, Working
  <1>2. Working(h) /\ UNCHANGED <<clock, performed>>
    BY DEF Record, Working
  <1>3. /\ commands'[k].status = "completed_error"
        /\ commands'[k].intent = commands[k].intent
        /\ commands'[k].completedAt = clock
        /\ \A j \in Command : j # k => commands'[j] = commands[j]
    BY <1>1 DEF Record, CompleteError, TypeInv, TypeOK, StorageTypeOK
  <1>4. performed[k].current = FALSE
    BY <1>1, Types DEF Record, LedgerInv, HandlerInv, Due
  <1> DEFINE row == [phase |-> "refused", intent |-> commands[k].intent,
                     executed |-> FALSE, executedAt |-> performed[k].at,
                     completedAt |-> clock]
  <1>5. LedgerRow(k)' = row
    <2>1. /\ LedgerPhase(commands'[k].status) = "refused"
          /\ commands'[k].status # "absent" /\ performed'[k] = performed[k]
      BY <1>2, <1>3 DEF LedgerPhase
    <2> QED
      BY <1>3, <1>4, <2>1, RowNext, Zenon
  <1>6. LedgerRows' = [LedgerRows EXCEPT ![k] = row]
    BY <1>2, <1>3, <1>5, OneRow
  <1> QED
    BY <1>1, <1>2, <1>4, <1>6, OpenRow DEF Ledger!Refuse, Ledger!Become, LedgerRows

LEMMA RefinesAdmit ==
    ASSUME TypeInv, OwnerInv, NEW h \in Handler, Admit(h)
    PROVE  UNCHANGED Ledger!ledgerVars
  <1>1. PICK k \in Command : k = CommandOf(req[h])
    BY Types DEF Admit, Working
  <1>2. UNCHANGED <<clock, performed>>
    BY DEF Admit
  <1>3. /\ commands[k].status = "reserved" /\ commands'[k].status = "issuing"
        /\ commands'[k].intent = commands[k].intent
        /\ commands'[k].completedAt = commands[k].completedAt
        /\ \A j \in Command : j # k => commands'[j] = commands[j]
    BY <1>1 DEF Admit, MarkIssuing, TypeInv, TypeOK, StorageTypeOK, CommandRow
  <1>4. LedgerRow(k)' = LedgerRow(k)
    BY <1>2, <1>3 DEF LedgerRow, LedgerPhase
  <1>5. \A j \in Command : LedgerRow(j)' = LedgerRow(j)
    BY <1>2, <1>3, <1>4 DEF LedgerRow
  <1> QED
    BY <1>2, <1>5 DEF Ledger!ledgerVars

LEMMA RefinesExecutes ==
    ASSUME TypeInv, OwnerInv, LedgerInv, NEW h \in Handler, Executes(h)
    PROVE  \E k \in Command : \E t \in 0..clock : Ledger!Execute(k, t)
  <1>1. PICK k \in Command : k = CommandOf(req[h])
    BY Types DEF Executes, Working
  <1>2. Working(h) /\ UNCHANGED <<clock, commands>> /\ clock \in Nat
    BY Types DEF Executes, Working
  <1>3. /\ performed'[k].at = clock /\ performed'[k].current = TRUE
        /\ \A j \in Command : j # k => performed'[j] = performed[j]
    BY <1>1 DEF Executes, Perform, TypeInv, TypeOK, HandlersTypeOK
  <1>4. Due(k, clock)
    <2>1. Due(k, frame[h].now) /\ frame[h].now <= clock
      BY <1>1, <1>2 DEF Executes, LedgerInv, HandlerInv
    <2> QED
      BY <1>2, <2>1, Types, DueLater
  <1>5. /\ commands[k].status = "issuing" /\ commands[k].completedAt = 0
    BY <1>1, <1>2, OpenRow DEF Executes, OwnerInv, RowFits
  <1> DEFINE row == [phase |-> "open", intent |-> commands[k].intent,
                     executed |-> TRUE, executedAt |-> clock, completedAt |-> 0]
  <1>6. LedgerRow(k)' = row
    <2>1. /\ LedgerPhase(commands'[k].status) = "open"
          /\ commands'[k].status # "absent" /\ commands'[k] = commands[k]
      BY <1>2, <1>5 DEF LedgerPhase
    <2> QED
      BY <1>3, <1>5, <2>1, RowNext, Zenon
  <1>7. LedgerRows' = [LedgerRows EXCEPT ![k] = row]
    BY <1>2, <1>3, <1>6, OneRow
  <1>8. /\ LedgerRow(k).phase = "open" /\ ~LedgerRow(k).executed
        /\ LedgerRow(k).intent = commands[k].intent
        /\ LedgerRow(k).executedAt # 0 => LedgerRow(k).executedAt + ReceiptTtl < clock
    BY <1>1, <1>2, <1>4, OpenRow DEF Due, Spaced
  <1>9. Ledger!Execute(k, clock)
    <2>1. Ledger!MayExecute(k, clock)
      BY <1>2, <1>8 DEF Ledger!MayExecute
    <2>2. Ledger!Become(k, row)
      BY <1>2, <1>7 DEF Ledger!Become, LedgerRows
    <2> QED
      BY <1>8, <2>1, <2>2 DEF Ledger!Execute
  <1> QED
    BY <1>2, <1>9

LEMMA RefinesCommits ==
    ASSUME TypeInv, OwnerInv, LedgerInv, NEW h \in Handler, Commits(h)
    PROVE  \E k \in Command : \E t \in 0..clock : Ledger!ExecuteAndComplete(k, t)
  <1>1. PICK k \in Command : k = CommandOf(req[h])
    BY Types DEF Commits, Committing, Working
  <1> DEFINE t == frame[h].begun
  <1>2. Working(h) /\ clock' = clock /\ t \in Nat /\ t <= clock /\ Due(k, t)
    BY <1>1, Types DEF Commits, Committing, Working, LedgerInv, HandlerInv
  <1>3. /\ performed'[k].at = t /\ performed'[k].current = TRUE
        /\ commands'[k].status = "completed_success"
        /\ commands'[k].intent = commands[k].intent /\ commands'[k].completedAt = t
        /\ \A j \in Command : j # k =>
              commands'[j] = commands[j] /\ performed'[j] = performed[j]
    BY <1>1 DEF Commits, Perform, CompleteSuccess, TypeInv, TypeOK, StorageTypeOK,
       HandlersTypeOK
  <1> DEFINE row == [phase |-> "succeeded", intent |-> commands[k].intent,
                     executed |-> TRUE, executedAt |-> t, completedAt |-> t]
  <1>4. LedgerRow(k)' = row
    <2>1. /\ LedgerPhase(commands'[k].status) = "succeeded"
          /\ commands'[k].status # "absent"
      BY <1>3 DEF LedgerPhase
    <2> QED
      BY <1>3, <2>1, RowNext, Zenon
  <1>5. LedgerRows' = [LedgerRows EXCEPT ![k] = row]
    BY <1>3, <1>4, OneRow
  <1>6. /\ LedgerRow(k).phase = "open" /\ ~LedgerRow(k).executed
        /\ LedgerRow(k).intent = commands[k].intent
        /\ LedgerRow(k).executedAt # 0 => LedgerRow(k).executedAt + ReceiptTtl < t
    BY <1>1, <1>2, OpenRow DEF Due, Spaced
  <1>7. Ledger!ExecuteAndComplete(k, t)
    BY <1>2, <1>5, <1>6
    DEF Ledger!ExecuteAndComplete, Ledger!MayExecute, Ledger!Become, LedgerRows
  <1> QED
    BY <1>2, <1>7, Types

LEMMA RefinesStores ==
    ASSUME TypeInv, OwnerInv, LedgerInv, NEW h \in Handler, Stores(h)
    PROVE  \E k \in Command : \E t \in 0..clock : Ledger!Complete(k, t)
  <1>1. PICK k \in Command : k = CommandOf(req[h])
    BY Types DEF Stores, Working
  <1>2. PICK t \in Nat :
           frame[h].now <= t /\ t <= clock /\ CompleteSuccess(req[h], t)
    BY DEF Stores
  <1>3. Working(h) /\ UNCHANGED <<clock, performed>>
    BY DEF Stores, Working
  <1>4. performed[k].current = TRUE /\ performed[k].at <= t
    BY <1>1, <1>2, Types DEF Stores, LedgerInv, HandlerInv
  <1>5. /\ commands'[k].status = "completed_success"
        /\ commands'[k].intent = commands[k].intent /\ commands'[k].completedAt = t
        /\ \A j \in Command : j # k => commands'[j] = commands[j]
    BY <1>1, <1>2 DEF CompleteSuccess, TypeInv, TypeOK, StorageTypeOK
  <1> DEFINE row == [phase |-> "succeeded", intent |-> commands[k].intent,
                     executed |-> TRUE, executedAt |-> performed[k].at,
                     completedAt |-> t]
  <1>6. LedgerRow(k)' = row
    <2>1. /\ LedgerPhase(commands'[k].status) = "succeeded"
          /\ commands'[k].status # "absent" /\ performed'[k] = performed[k]
      BY <1>3, <1>5 DEF LedgerPhase
    <2> QED
      BY <1>4, <1>5, <2>1, RowNext, Zenon
  <1>7. LedgerRows' = [LedgerRows EXCEPT ![k] = row]
    BY <1>3, <1>5, <1>6, OneRow
  <1>8. /\ LedgerRow(k).phase = "open" /\ LedgerRow(k).executed
        /\ LedgerRow(k).intent = commands[k].intent
        /\ LedgerRow(k).executedAt = performed[k].at
    BY <1>1, <1>3, <1>4, OpenRow
  <1>9. Ledger!Complete(k, t)
    BY <1>2, <1>3, <1>4, <1>7, <1>8 DEF Ledger!Complete, Ledger!Become, LedgerRows
  <1> QED
    BY <1>2, <1>9, Types

LEMMA RefinesNext ==
    TypeInv /\ OwnerInv /\ LedgerInv /\ [Next]_vars => [Ledger!Next]_(Ledger!ledgerVars)
  <1> SUFFICES ASSUME TypeInv, OwnerInv, LedgerInv, [Next]_vars
               PROVE  [Ledger!Next]_(Ledger!ledgerVars)
    OBVIOUS
  <1>1. CASE Tick
    <2>1. clock' = clock + 1 /\ UNCHANGED <<commands, performed>>
      BY <1>1 DEF Tick, tables
    <2>2. \A k \in Command : LedgerRow(k)' = LedgerRow(k)
      BY <2>1 DEF LedgerRow
    <2>3. Ledger!Advance
      BY <2>1, <2>2 DEF Ledger!Advance
    <2> QED
      BY <2>3 DEF Ledger!Next
  <1>2. CASE UNCHANGED vars
    BY <1>2, RefinesQuiet DEF vars, tables
  <1>3. ASSUME NEW h \in Handler, Kind(h)
        PROVE  Ledger!Next \/ UNCHANGED Ledger!ledgerVars
    <2>1. ASSUME NEW r \in Request, Accept(h, r)
          PROVE  Ledger!Next
      BY <2>1, RefinesAccept DEF Ledger!Next
    <2>2. CASE Reserve(h)
      BY <2>2, RefinesReserve DEF Ledger!Next
    <2>3. CASE Record(h)
      BY <2>3, RefinesRecord DEF Ledger!Next
    <2>4. CASE Executes(h)
      BY <2>4, RefinesExecutes DEF Ledger!Next
    <2>5. CASE Commits(h)
      BY <2>5, RefinesCommits DEF Ledger!Next
    <2>6. CASE Stores(h)
      BY <2>6, RefinesStores DEF Ledger!Next
    <2>7. CASE Admit(h)
      BY <2>7, RefinesAdmit
    <2>8. CASE Quiet(h)
      BY <2>8, RefinesQuiet DEF Quiet
    <2> QED
      BY <1>3, <2>1, <2>2, <2>3, <2>4, <2>5, <2>6, <2>7, <2>8 DEF Kind
  <1> QED
    BY <1>1, <1>2, <1>3, StepKinds

(* The handlers over the tables implement the ledger: every step of any     *)
(* number of calls, with their crashes, retries and lost answers, binds,    *)
(* executes, completes, refuses or forgets a key as CommandLedger says, or  *)
(* does nothing to it.                                                      *)
THEOREM PluginImplementsLedger == Spec => ImplementsLedger
  BY RefinesInit, RefinesNext, TypeInit, TypeStep, OwnerInit, OwnerNext, LedgerInit,
     LedgerNext, PTL DEF Spec, ImplementsLedger, Ledger!Spec

=============================================================================
