--------------------------- MODULE Configuration ---------------------------
(***************************************************************************)
(* ServiceAccountConfig of lib.rs: a resolved configuration is validated    *)
(* once, before the plugin is built, and its limits are used unchecked from *)
(* then on.  Times are in seconds; a text is abstracted to which one it is, *)
(* its length in bytes, and whether all its characters are allowed.         *)
(***************************************************************************)
EXTENDS Naturals, FiniteSets, Sequences

CONSTANTS
    Proposed,           \* the configurations a host may resolve
    ReadAt              \* times the host's clock may read

(* A text: which one it is, its size, and whether its characters are        *)
(* allowed.                                                                 *)
Text == [id: Nat, size: Nat, clean: BOOLEAN]

(* The types of the fields: a caller is the list of its parts, and numbers  *)
(* are u64 and u32.                                                         *)
ASSUME ProposedAssumption ==
    /\ ReadAt \subseteq Nat
    /\ \A c \in Proposed :
       /\ {c.schema, c.directory_provider, c.auth_issuer, c.auth_public_key} \subseteq Text
       /\ {c.secrets, c.token_audience} \subseteq Seq(Text)
       /\ {c.management_callers, c.authentication_callers} \subseteq Seq(Seq(Text))
       /\ {c.credential_ttl_seconds, c.rotation_overlap_seconds, c.token_ttl_seconds,
           c.receipt_ttl_seconds, c.exchange_window_seconds, c.max_exchanges_per_window,
           c.exchange_lockout_seconds, c.max_page_size, c.max_accounts_per_organization}
             \subseteq Nat

VARIABLES
    config,
    verdict             \* of validate: "pending", "valid" or the error

configVars == <<config, verdict>>

-----------------------------------------------------------------------------
(* Texts, callers and lists.                                                *)

ValidAuthority(t, max) == t.size # 0 /\ t.size <= max /\ t.clean

ValidSecretReference(t) == ValidAuthority(t, 256)

ValidAudience(t) == t.size # 0 /\ t.size <= 256 /\ t.clean

(* A caller is an instance key of one or two parts, split at "/".           *)
CallerSize(c) == IF Len(c) = 2 THEN c[1].size + 1 + c[2].size ELSE c[1].size

ValidCaller(c) ==
    /\ CallerSize(c) <= 128
    /\ Len(c) \in 1..2
    /\ \A i \in DOMAIN c : ValidAuthority(c[i], 128)

Unique(s) == Cardinality({s[i] : i \in DOMAIN s}) = Len(s)

(* Mutant: a caller may be named twice.                                     *)
ValidCallerSetRepeating(s) ==
    /\ Len(s) \in 1..64
    /\ \A i \in DOMAIN s : ValidCaller(s[i])

ValidCallerSet(s) ==
    /\ Len(s) \in 1..64
    /\ \A i \in DOMAIN s : ValidCaller(s[i])
    /\ Unique(s)

-----------------------------------------------------------------------------
(* validate, in the order of its checks.                                    *)

(* External: schema_plan of the owned PostgreSQL library.  Its bound, the   *)
(* length of a PostgreSQL identifier, is an assumption about that library.  *)
ValidSchema(c) == c.schema.size # 0 /\ c.schema.size <= 63 /\ c.schema.clean

ValidSecretReferences(c) ==
    /\ \A i \in DOMAIN c.secrets : ValidSecretReference(c.secrets[i])
    /\ Unique(c.secrets)

ValidAuthorities(c) ==
    ValidAuthority(c.directory_provider, 128) /\ ValidAuthority(c.auth_issuer, 128)

ValidAuthPublicKey(c) ==
    c.auth_public_key.size # 0 /\ c.auth_public_key.size <= 256 /\ c.auth_public_key.clean

ValidAuthoritySets(c) ==
    /\ ValidCallerSet(c.management_callers)
    /\ ValidCallerSet(c.authentication_callers)
    /\ Len(c.token_audience) \in 1..64
    /\ \A i \in DOMAIN c.token_audience : ValidAudience(c.token_audience[i])
    /\ Unique(c.token_audience)

Between(n, low, high) == low <= n /\ n <= high

(* Mutant: an overlap as long as the credential's lifetime is let through.  *)
ValidOverlapEqual(c) ==
    /\ c.rotation_overlap_seconds <= 3600
    /\ c.rotation_overlap_seconds <= c.credential_ttl_seconds

ValidOverlap(c) ==
    /\ c.rotation_overlap_seconds <= 3600
    /\ c.rotation_overlap_seconds < c.credential_ttl_seconds

ValidLimits(c) ==
    /\ Between(c.credential_ttl_seconds, 300, 31536000)
    /\ ValidOverlap(c)
    /\ Between(c.token_ttl_seconds, 1, 86400)
    /\ c.token_ttl_seconds <= c.credential_ttl_seconds
    /\ Between(c.receipt_ttl_seconds, 300, 604800)
    /\ Between(c.exchange_window_seconds, 1, 3600)
    /\ Between(c.max_exchanges_per_window, 1, 10000)
    /\ Between(c.exchange_lockout_seconds, 1, 86400)
    /\ Between(c.max_page_size, 1, 200)
    /\ Between(c.max_accounts_per_organization, 1, 10000)

Validate(c) ==
    IF ~ValidSchema(c) THEN "InvalidSchema"
    ELSE IF ~ValidSecretReferences(c) THEN "InvalidSecretReferences"
    ELSE IF ~ValidAuthorities(c) THEN "InvalidAuthorities"
    ELSE IF ~ValidAuthPublicKey(c) THEN "InvalidAuthPublicKey"
    ELSE IF ~ValidAuthoritySets(c) THEN "InvalidAuthoritySet"
    ELSE IF ~ValidLimits(c) THEN "InvalidLimits"
    ELSE "valid"

ConfigInit ==
    /\ config \in Proposed
    /\ verdict = "pending"

(* validate_config: only a valid configuration makes a plugin.              *)
ValidateConfig ==
    /\ verdict = "pending"
    /\ verdict' = Validate(config)
    /\ UNCHANGED config

ConfigSpec == ConfigInit /\ [][ValidateConfig]_configVars

-----------------------------------------------------------------------------
Earliest(s, t) == IF s <= t THEN s ELSE t

(* What the handlers compute with an accepted configuration comes out as    *)
(* they rely on, whatever the clock reads: a rotation's new credential      *)
(* outlives all that it supersedes (also one made by a rotation with the    *)
(* same reading), a token asked for with a fresh credential is not already  *)
(* expired and ends no later than the credential, a window and a lockout    *)
(* are not empty, and a caller, an organization and a retry get at least    *)
(* one slot, one account and some time.                                     *)
AcceptedIsUsable ==
    verdict = "valid" =>
        /\ \A now \in ReadAt :
              LET fresh == now + config.credential_ttl_seconds
                  superseded == Earliest(fresh, now + config.rotation_overlap_seconds)
                  token == Earliest(now + config.token_ttl_seconds, fresh)
              IN  /\ superseded < fresh
                  /\ now < token /\ token <= fresh
                  /\ now < now + config.exchange_window_seconds
                  /\ now < now + config.exchange_lockout_seconds
        /\ config.max_exchanges_per_window > 0
        /\ config.max_accounts_per_organization > 0
        /\ config.receipt_ttl_seconds > 0

(* configuration.schema.json, which a host checks before: the lengths of    *)
(* texts and lists, the ranges of numbers, and the lists without            *)
(* repetitions.  Its types and required fields are ProposedAssumption's.    *)
SchemaAllows(c) ==
    /\ Between(c.schema.size, 1, 63)
    /\ Between(c.directory_provider.size, 1, 128) /\ Between(c.auth_issuer.size, 1, 128)
    /\ \A t \in {c.auth_public_key} \cup {c.secrets[i] : i \in DOMAIN c.secrets}
                \cup {c.token_audience[i] : i \in DOMAIN c.token_audience} :
          Between(t.size, 1, 256)
    /\ \A s \in {c.management_callers, c.authentication_callers} :
          /\ Between(Len(s), 1, 64)
          /\ Unique(s)
          /\ \A i \in DOMAIN s : Between(CallerSize(s[i]), 1, 128)
    /\ Between(Len(c.token_audience), 1, 64) /\ Unique(c.token_audience)
    /\ Between(c.credential_ttl_seconds, 300, 31536000)
    /\ Between(c.rotation_overlap_seconds, 0, 3600)
    /\ Between(c.token_ttl_seconds, 1, 86400)
    /\ Between(c.receipt_ttl_seconds, 300, 604800)
    /\ Between(c.exchange_window_seconds, 1, 3600)
    /\ Between(c.max_exchanges_per_window, 1, 10000)
    /\ Between(c.exchange_lockout_seconds, 1, 86400)
    /\ Between(c.max_page_size, 1, 200)
    /\ Between(c.max_accounts_per_organization, 1, 10000)

(* The code and the published schema agree: what validate accepts, the      *)
(* schema allows, so that no valid configuration is kept from the plugin:   *)
(* every length, range and uniqueness the schema asks for is one validate   *)
(* asks for too.                                                            *)
SchemaAgrees == verdict = "valid" => SchemaAllows(config)

=============================================================================
