------------------------------ MODULE Storage ------------------------------
(***************************************************************************)
(* The four tables of migrations/001_create_service_account_state.sql and   *)
(* the SQL statements that storage.rs runs against them.                    *)
(*                                                                          *)
(* A table is a function from its primary key to a row.  A key that has no  *)
(* row is mapped to an explicit empty row.  A nullable timestamp is a       *)
(* natural number whose value 0 stands for NULL: the clock starts at 1.     *)
(* PostgreSQL's now() and the host's OffsetDateTime::now_utc() read the     *)
(* same clock.  Columns that are only written, and never read back by a     *)
(* statement or an answer, are left out (superseded_at, last_used_at,       *)
(* updated_at), and so is an account's created_at, which is only shown.     *)
(* What the verifier and the encrypted response depend on is in Plugin.     *)
(***************************************************************************)
EXTENDS Naturals, FiniteSets

CONSTANTS
    Caller,             \* instances the host may call the plugin from
    Key,                \* idempotency keys
    Actor,              \* subjects of verified user assertions
    Organization,
    Name,               \* account names, as requested
    NameKey,            \* the folded name: a function on Name
    Subject,            \* canonical subjects the Identity Directory hands out
    Account,            \* service account ids, drawn at random by create
    Credential,         \* credential ids, drawn at random by create and rotate
    Request,            \* the requests clients send
    None                \* no value: SQL NULL, Rust None

CONSTANTS               \* the limits of the plugin's configuration
    CredentialTtl, RotationOverlap, TokenTtl, ReceiptTtl,
    ExchangeWindow, MaxExchanges, ExchangeLockout, MaxAccounts

(* What ServiceAccountConfig::validate accepts, with the absolute limits in *)
(* seconds scaled down to the ticks of the model's clock.                   *)
ASSUME ConfigAssumption ==
    /\ CredentialTtl \in Nat /\ CredentialTtl > 0
    /\ RotationOverlap \in Nat /\ RotationOverlap < CredentialTtl
    /\ TokenTtl \in Nat /\ TokenTtl > 0 /\ TokenTtl <= CredentialTtl
    /\ ReceiptTtl \in Nat /\ ReceiptTtl > 0
    /\ ExchangeWindow \in Nat /\ ExchangeWindow > 0
    /\ MaxExchanges \in Nat /\ MaxExchanges > 0
    /\ ExchangeLockout \in Nat /\ ExchangeLockout > 0
    /\ MaxAccounts \in Nat /\ MaxAccounts > 0

-----------------------------------------------------------------------------
(* The requests of the four operations that change state, after validation  *)
(* and authorization.  None is the id of an account that does not exist.  A *)
(* secret carries the id of the credential it claims to be (None when it is *)
(* malformed or unknown) and matches the stored verifier (genuine) or not.  *)

CreateRequest ==
    [op: {"create"}, caller: Caller, key: Key, actor: Actor,
     organization: Organization, name: Name]

RotateRequest ==
    [op: {"rotate_secret"}, caller: Caller, key: Key, actor: Actor,
     organization: Organization, account: Account \cup {None},
     revision: Nat \ {0}]

RevokeRequest ==
    [op: {"revoke"}, caller: Caller, key: Key, actor: Actor,
     organization: Organization, account: Account \cup {None},
     revision: Nat \ {0}]

ExchangeRequest ==
    [op: {"exchange_secret"}, caller: Caller, key: Key,
     credential: Credential \cup {None}, genuine: BOOLEAN]

ASSUME RequestAssumption ==
    /\ Request \subseteq CreateRequest \cup RotateRequest
                         \cup RevokeRequest \cup ExchangeRequest
    /\ NameKey \in [Name -> Name]
    /\ None \notin Request /\ None \notin Account /\ None \notin Credential
    /\ None \notin Subject /\ None \notin Organization /\ None \notin Name

Operation == {"create", "rotate_secret", "revoke", "exchange_secret"}

(* The primary key of service_account_commands.                             *)
Command == Caller \X Operation \X Key

CommandOf(r) == <<r.caller, r.op, r.key>>

(* The codes an error receipt stores: what create_error, rotate_error,      *)
(* revoke_error and exchange_error decode.                                  *)
ErrorCode ==
    {"name_conflict", "directory_rejected", "too_many_service_accounts",
     "not_found", "revoked", "revision_conflict",
     "invalid_credentials", "rate_limited", "disabled"}

-----------------------------------------------------------------------------
VARIABLES
    clock,              \* the current time
    commands,           \* service_account_commands
    accounts,           \* service_accounts
    credentials,        \* service_account_credentials
    limits              \* service_account_exchange_limits

tables == <<commands, accounts, credentials, limits>>

(* "verifying" is allowed by the schema and written by no statement.        *)
Unfinished == {"reserved", "verifying", "issuing"}

(* The intent hash covers the actor and the whole request, so a command     *)
(* remembers the request itself.                                            *)
CommandRow ==
    [status: {"absent", "completed_success", "completed_error"} \cup Unfinished,
     intent: Request \cup {None},
     error: ErrorCode \cup {"none"},
     completedAt: Nat]

AccountRow ==
    [status: {"absent", "active", "revoked"},
     organization: Organization \cup {None},
     subject: Subject \cup {None},
     nameKey: Name \cup {None},
     revision: Nat, rotatedAt: Nat, revokedAt: Nat]

CredentialRow ==
    [account: Account \cup {None},
     validFrom: Nat, validUntil: Nat, revokedAt: Nat, createdAt: Nat]

LimitRow == [windowStartedAt: Nat, attempts: Nat, lockedUntil: Nat]

NoCommand == [status |-> "absent", intent |-> None, error |-> "none",
              completedAt |-> 0]

NoAccount == [status |-> "absent", organization |-> None, subject |-> None,
              nameKey |-> None, revision |-> 0, rotatedAt |-> 0,
              revokedAt |-> 0]

NoCredential == [account |-> None, validFrom |-> 0, validUntil |-> 0,
                 revokedAt |-> 0, createdAt |-> 0]

NoLimit == [windowStartedAt |-> 0, attempts |-> 0, lockedUntil |-> 0]

(* A schema that ServiceAccountOperator::setup has just migrated.           *)
StorageInit ==
    /\ clock = 1
    /\ commands = [k \in Command |-> NoCommand]
    /\ accounts = [a \in Account |-> NoAccount]
    /\ credentials = [c \in Credential |-> NoCredential]
    /\ limits = [w \in Caller |-> NoLimit]

StorageTypeOK ==
    /\ clock \in Nat \ {0}
    /\ commands \in [Command -> CommandRow]
    /\ accounts \in [Account -> AccountRow]
    /\ credentials \in [Credential -> CredentialRow]
    /\ limits \in [Caller -> LimitRow]

-----------------------------------------------------------------------------
(* Commands.                                                                *)

(* Mutant: the test for NULL is dropped, so open commands are pruned too.   *)
PruneUnfinished ==
    commands' = [k \in Command |->
        IF commands[k].completedAt + ReceiptTtl < clock
        THEN NoCommand ELSE commands[k]]

(* Mutant: off by one, a receipt of exactly ReceiptTtl goes.                *)
PruneEarly ==
    commands' = [k \in Command |->
        IF commands[k].completedAt # 0
           /\ commands[k].completedAt + ReceiptTtl <= clock
        THEN NoCommand ELSE commands[k]]

(* prune: delete the receipts completed more than ReceiptTtl ago.           *)
Prune ==
    commands' = [k \in Command |->
        IF commands[k].completedAt # 0
           /\ commands[k].completedAt + ReceiptTtl < clock
        THEN NoCommand ELSE commands[k]]

(* Mutant: a retry with the same intent takes an unfinished command over.   *)
InsertCommandTakingOver(r) ==
    /\ \/ commands[CommandOf(r)].status = "absent"
       \/ /\ commands[CommandOf(r)].status \in Unfinished
          /\ commands[CommandOf(r)].intent = r
    /\ commands' = [commands EXCEPT ![CommandOf(r)] =
          [status |-> "reserved", intent |-> r, error |-> "none",
           completedAt |-> 0]]

(* claim_command's INSERT ... ON CONFLICT DO NOTHING that inserts.          *)
InsertCommand(r) ==
    /\ commands[CommandOf(r)].status = "absent"
    /\ commands' = [commands EXCEPT ![CommandOf(r)] =
          [status |-> "reserved", intent |-> r, error |-> "none",
           completedAt |-> 0]]

(* Mutant: the stored status is passed on undecoded.                        *)
ClaimOutcomeUndecoded(r) ==
    LET row == commands[CommandOf(r)] IN
    IF row.intent # r THEN "idempotency_conflict" ELSE row.status

(* claim_command's SELECT after an INSERT that did nothing.                 *)
ClaimOutcome(r) ==
    LET row == commands[CommandOf(r)] IN
    IF row.status = "absent" THEN "failure"
    ELSE IF row.intent # r THEN "idempotency_conflict"
    ELSE IF row.status = "completed_success" THEN "replayed"
    ELSE IF row.status = "completed_error" THEN row.error
    ELSE "operation_in_progress"

(* complete_success, in a transaction that began at time t, and             *)
(* complete_error.  Both only touch an unfinished command.                  *)
CompleteSuccess(r, t) ==
    /\ commands[CommandOf(r)].status \in Unfinished
    /\ commands' = [commands EXCEPT ![CommandOf(r)] =
          [status |-> "completed_success", intent |-> @.intent,
           error |-> "none", completedAt |-> t]]

CompleteError(r, code) ==
    /\ commands[CommandOf(r)].status \in Unfinished
    /\ commands' = [commands EXCEPT ![CommandOf(r)] =
          [status |-> "completed_error", intent |-> @.intent,
           error |-> code, completedAt |-> clock]]

(* mark_exchange_issuing's last UPDATE.                                     *)
MarkIssuing(r) ==
    /\ commands[CommandOf(r)].status = "reserved"
    /\ commands' = [commands EXCEPT ![CommandOf(r)].status = "issuing"]

(* What an operator's inspect_command reports as a command whose token may  *)
(* have been minted.                                                        *)
RequiresIssuerReconciliation(k) == commands[k].status = "issuing"

-----------------------------------------------------------------------------
(* Accounts and credentials.                                                *)

Least(x, y) == IF x <= y THEN x ELSE y

Greatest(x, y) == IF x >= y THEN x ELSE y

AccountsOf(o) == {a \in Account : accounts[a].organization = o}

CredentialsOf(a) == {c \in Credential : credentials[c].account = a}

(* lock_account's WHERE clause.                                             *)
Found(r) == /\ r.account # None
            /\ accounts[r.account].status # "absent"
            /\ accounts[r.account].organization = r.organization

(* The unique constraints of service_accounts.                              *)
NameTaken(o, n) == \E a \in AccountsOf(o) : accounts[a].nameKey = n

SubjectTaken(s) == \E a \in Account : accounts[a].subject = s

(* create_account's two INSERTs.                                            *)
InsertAccount(a, r, subject) ==
    accounts' = [accounts EXCEPT ![a] =
        [status |-> "active", organization |-> r.organization,
         subject |-> subject, nameKey |-> NameKey[r.name],
         revision |-> 1, rotatedAt |-> 0, revokedAt |-> 0]]

NewCredential(a, from, at) ==
    [account |-> a, validFrom |-> from, validUntil |-> from + CredentialTtl,
     revokedAt |-> 0, createdAt |-> at]

(* Mutant: LEAST and GREATEST swapped.                                      *)
SupersededLate(row, now) ==
    IF row.revokedAt = 0 /\ row.validUntil > now
    THEN [row EXCEPT !.validUntil = Greatest(@, now + RotationOverlap)]
    ELSE row

(* rotate_account bounds the older credentials to the overlap ...           *)
Superseded(row, now) ==
    IF row.revokedAt = 0 /\ row.validUntil > now
    THEN [row EXCEPT !.validUntil = Least(@, now + RotationOverlap)]
    ELSE row

(* ... unless a row would break the table's CHECK (valid_from <= valid_until) *)
SupersedeAllowed(a, now) ==
    \A c \in CredentialsOf(a) :
        credentials[c].validFrom <= Superseded(credentials[c], now).validUntil

RotateCredentials(a, new, now, at) ==
    credentials' = [c \in Credential |->
        IF c = new THEN NewCredential(a, now, at)
        ELSE IF credentials[c].account = a THEN Superseded(credentials[c], now)
        ELSE credentials[c]]

RotateAccountRow(a, now) ==
    accounts' = [accounts EXCEPT ![a].revision = @ + 1, ![a].rotatedAt = now]

(* revoke_account's two UPDATEs.                                            *)
RevokeAccountRow(a, now) ==
    accounts' = [accounts EXCEPT ![a].status = "revoked",
                                 ![a].revision = @ + 1,
                                 ![a].revokedAt = now]

(* Mutant: valid_until is left as it was.                                   *)
RevokedRowStillValid(row, now) ==
    [row EXCEPT !.revokedAt = IF @ = 0 THEN now ELSE @]

(* Mutant: LEAST forgotten, an ended credential is valid until now.         *)
RevokedRowUntilNow(row, now) ==
    [row EXCEPT !.revokedAt = IF @ = 0 THEN now ELSE @,
                !.validUntil = Greatest(row.validFrom, now)]

RevokedRow(row, now) ==
    [row EXCEPT !.revokedAt = IF @ = 0 THEN now ELSE @,
                !.validUntil = Greatest(row.validFrom, Least(@, now))]

RevokeCredentials(a, now) ==
    credentials' = [c \in Credential |->
        IF credentials[c].account = a THEN RevokedRow(credentials[c], now)
        ELSE credentials[c]]

(* The conditions under which exchange accepts a credential at time now:    *)
(* the filter on load_credential's row and the recheck's WHERE clause.      *)
Usable(c, now) ==
    /\ credentials[c].account # None
    /\ accounts[credentials[c].account].status = "active"
    /\ credentials[c].revokedAt = 0
    /\ credentials[c].validFrom <= now
    /\ now < credentials[c].validUntil

-----------------------------------------------------------------------------
(* The caller's rate limit: reserve_rate_slot.                              *)

(* The row after INSERT ... ON CONFLICT DO NOTHING.                         *)
LimitAt(w, now) ==
    IF limits[w].windowStartedAt = 0
    THEN [windowStartedAt |-> now, attempts |-> 0, lockedUntil |-> 0]
    ELSE limits[w]

(* Mutant: a reading from before the window restarts it too.                *)
WindowMovedBack(row, now) ==
    IF now >= row.windowStartedAt + ExchangeWindow \/ now < row.windowStartedAt
    THEN [row EXCEPT !.windowStartedAt = now, !.attempts = 0]
    ELSE row

(* An elapsed window starts again at now with no attempts.                  *)
Window(row, now) ==
    IF now >= row.windowStartedAt + ExchangeWindow
    THEN [row EXCEPT !.windowStartedAt = now, !.attempts = 0]
    ELSE row

(* Mutant: a new window lifts the lockout.                                  *)
LockedOutInWindow(row, now) ==
    now < row.lockedUntil /\ now < row.windowStartedAt + ExchangeWindow

LockedOut(row, now) == now < row.lockedUntil

Exhausted(row, now) == Window(row, now).attempts >= MaxExchanges

SlotGranted(w, now) ==
    /\ ~LockedOut(LimitAt(w, now), now)
    /\ ~Exhausted(LimitAt(w, now), now)

(* Mutant: the lockout is counted from the end of the window.               *)
AfterSlotFromWindowEnd(w, now) ==
    LET row == LimitAt(w, now)
        win == Window(row, now)
    IN  IF LockedOut(row, now) THEN row
        ELSE IF Exhausted(row, now)
        THEN [windowStartedAt |-> win.windowStartedAt, attempts |-> row.attempts,
              lockedUntil |-> win.windowStartedAt + ExchangeWindow + ExchangeLockout]
        ELSE [windowStartedAt |-> win.windowStartedAt,
              attempts |-> win.attempts + 1, lockedUntil |-> 0]

(* The row reserve_rate_slot leaves behind.                                 *)
AfterSlot(w, now) ==
    LET row == LimitAt(w, now)
        win == Window(row, now)
    IN  IF LockedOut(row, now) THEN row
        ELSE IF Exhausted(row, now)
        THEN [windowStartedAt |-> win.windowStartedAt,
              attempts |-> row.attempts, lockedUntil |-> now + ExchangeLockout]
        ELSE [windowStartedAt |-> win.windowStartedAt,
              attempts |-> win.attempts + 1, lockedUntil |-> 0]

ReserveRateSlot(w, now) ==
    limits' = [limits EXCEPT ![w] = AfterSlot(w, now)]

=============================================================================
