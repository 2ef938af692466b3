------------------------------- MODULE Reads -------------------------------
(***************************************************************************)
(* The read operation get, beside the handlers that write: what a summary   *)
(* reports.  The handler runs one SELECT and changes nothing, so its answer *)
(* is a function of the tables.                                             *)
(***************************************************************************)
EXTENDS ServiceAccount

CONSTANT CredentialOrder    \* the order of credential ids

ASSUME CredentialOrderAssumption ==
    /\ CredentialOrder \in [Credential -> Nat]
    /\ \A c, d \in Credential : CredentialOrder[c] = CredentialOrder[d] => c = d

-----------------------------------------------------------------------------
(* The subquery of load_account, load_account_in_transaction and            *)
(* list_accounts: the credential of the latest created_at, then id.         *)
NewestCredential(a) ==
    CHOOSE c \in CredentialsOf(a) : \A d \in CredentialsOf(a) :
        \/ credentials[d].createdAt < credentials[c].createdAt
        \/ /\ credentials[d].createdAt = credentials[c].createdAt
           /\ CredentialOrder[d] <= CredentialOrder[c]

(* load_account: the row, if the organization has it.                       *)
LoadAccount(o, a) ==
    {b \in {a} : accounts[b].status # "absent" /\ accounts[b].organization = o}

(* decode_account and summary: what an answer reports.                      *)
Summary(a) ==
    [status |-> accounts[a].status, revision |-> accounts[a].revision,
     rotatedAt |-> accounts[a].rotatedAt, revokedAt |-> accounts[a].revokedAt,
     expiresAt |-> credentials[NewestCredential(a)].validUntil]

(* The answer of get, after validation and authorization: not_found, which  *)
(* is the empty set, or a summary.                                          *)
Get(o, a) == {Summary(b) : b \in LoadAccount(o, a)}

-----------------------------------------------------------------------------
(* A revoked account is not reported with a credential that outlives the    *)
(* revocation, whichever credential created_at makes the newest and however *)
(* old the clock readings of the rotations were.                            *)
RevokedReportsEnded ==
    \A o \in Organization, a \in Account : \A answer \in Get(o, a) :
        answer.status = "revoked" => answer.expiresAt <= answer.revokedAt

(* A summary errs on one side only: the reported expiry is that of the      *)
(* longest-lived credential, or of one that ends within RotationOverlap of  *)
(* the last rotation.                                                       *)
ExpiryNotOverstated ==
    \A o \in Organization, a \in Account : \A answer \in Get(o, a) :
        \/ \A c \in CredentialsOf(a) : credentials[c].validUntil <= answer.expiresAt
        \/ answer.expiresAt <= answer.rotatedAt + RotationOverlap

=============================================================================
