--------------------------- MODULE BoundaryProofs ---------------------------
(***************************************************************************)
(* The plugin's two boundaries: what validate guarantees for every          *)
(* configuration, not only those at the edges, and what the contracts'      *)
(* clients get through any number of peers, with any payload.               *)
(***************************************************************************)
EXTENDS Configuration, Contract, TLAPS

-----------------------------------------------------------------------------
(* Configuration.                                                           *)

(* The inductive invariant: the verdict is validate's.                      *)
VerdictInv ==
    /\ config \in Proposed
    /\ verdict = "valid" => Validate(config) = "valid"

LEMMA VerdictInit == ConfigInit => VerdictInv
  BY DEF ConfigInit, VerdictInv

LEMMA VerdictNext == VerdictInv /\ [ValidateConfig]_configVars => VerdictInv'
  <1> SUFFICES ASSUME VerdictInv, [ValidateConfig]_configVars
               PROVE  VerdictInv'
    OBVIOUS
  <1>1. config' = config /\ verdict' \in {verdict, Validate(config)}
    BY DEF ValidateConfig, configVars
  <1>2. Validate(config)' = Validate(config)
    BY <1>1
  <1> QED
    BY <1>1, <1>2 DEF VerdictInv

LEMMA ValidParts ==
    ASSUME NEW c, Validate(c) = "valid"
    PROVE  /\ ValidSchema(c) /\ ValidSecretReferences(c) /\ ValidAuthorities(c)
           /\ ValidAuthPublicKey(c) /\ ValidAuthoritySets(c) /\ ValidLimits(c)
  BY DEF Validate

(* The limits that validate accepts make the handlers' times come out in    *)
(* order: overlap before expiry, token within the credential, no empty      *)
(* window or lockout, at any clock reading.                                 *)
THEOREM AcceptedConfigurationsAreUsable == ConfigSpec => []AcceptedIsUsable
  <1>1. VerdictInv => AcceptedIsUsable
    <2> SUFFICES ASSUME VerdictInv, verdict = "valid"
                 PROVE  AcceptedIsUsable
      BY DEF AcceptedIsUsable
    <2>1. ValidLimits(config) /\ config \in Proposed
      BY ValidParts DEF VerdictInv
    <2>2. /\ config.credential_ttl_seconds \in Nat /\ config.rotation_overlap_seconds \in Nat
          /\ config.token_ttl_seconds \in Nat /\ config.receipt_ttl_seconds \in Nat
          /\ config.exchange_window_seconds \in Nat /\ config.max_exchanges_per_window \in Nat
          /\ config.exchange_lockout_seconds \in Nat
          /\ config.max_accounts_per_organization \in Nat
      BY <2>1, ProposedAssumption
    <2>3. \A now \in ReadAt : now \in Nat
      BY ProposedAssumption
    <2> QED
      BY <2>1, <2>2, <2>3 DEF AcceptedIsUsable, Earliest, ValidLimits, ValidOverlap, Between
  <1> QED
    BY <1>1, VerdictInit, VerdictNext, PTL DEF ConfigSpec

LEMMA BetweenRange ==
    ASSUME NEW n, NEW high \in Nat, n \in 1..high
    PROVE  Between(n, 1, high)
  BY DEF Between

LEMMA SizesAreNumbers ==
    /\ \A t \in Text : t.size \in Nat
    /\ \A s \in Seq(Text) : \A i \in DOMAIN s : s[i].size \in Nat
  <1>1. \A t \in Text : t.size \in Nat
    BY DEF Text
  <1>2. \A s \in Seq(Text) : \A i \in DOMAIN s : s[i] \in Text
    OBVIOUS
  <1> QED
    BY <1>1, <1>2

LEMMA CallerBounds ==
    ASSUME NEW s \in Seq(Seq(Text)), ValidCallerSet(s)
    PROVE  /\ Between(Len(s), 1, 64)
           /\ Unique(s)
           /\ \A i \in DOMAIN s : Between(CallerSize(s[i]), 1, 128)
  <1>1. Between(Len(s), 1, 64)
    <2>1. Len(s) \in 1..64
      BY Zenon DEF ValidCallerSet
    <2> QED
      BY <2>1, BetweenRange
  <1>2. ASSUME NEW i \in DOMAIN s
        PROVE  Between(CallerSize(s[i]), 1, 128)
    <2>1. PICK c \in Seq(Text) : c = s[i]
      OBVIOUS
    <2>2. CallerSize(c) <= 128 /\ Len(c) \in 1..2 /\ \A j \in DOMAIN c : c[j].size # 0
      BY <2>1 DEF ValidCallerSet, ValidCaller, ValidAuthority
    <2>3. \A j \in DOMAIN c : c[j].size \in Nat
      BY SizesAreNumbers
    <2>4. 1 \in DOMAIN c /\ (Len(c) = 2 => 2 \in DOMAIN c)
      BY <2>2
    <2>5. 1 <= CallerSize(c)
      BY <2>2, <2>3, <2>4 DEF CallerSize
    <2> QED
      BY <2>1, <2>2, <2>5 DEF Between
  <1>3. Unique(s)
    BY Zenon DEF ValidCallerSet
  <1> QED
    BY <1>1, <1>2, <1>3

(* What validate accepts has the lengths, the ranges and the uniqueness of  *)
(* items that the published configuration.schema.json states, for every     *)
(* configuration of the fields' types: texts and lists of any length,       *)
(* numbers of any size.  For the name of the database schema the bound is   *)
(* the one assumed of the PostgreSQL library (ValidSchema).                 *)
THEOREM SchemaAgreesWithCode == ConfigSpec => []SchemaAgrees
  <1>1. VerdictInv => SchemaAgrees
    <2> SUFFICES ASSUME NEW c \in Proposed, Validate(c) = "valid"
                 PROVE  SchemaAllows(c)
      BY DEF VerdictInv, SchemaAgrees
    <2>1. /\ {c.schema, c.directory_provider, c.auth_issuer, c.auth_public_key} \subseteq Text
          /\ c.secrets \in Seq(Text) /\ c.token_audience \in Seq(Text)
          /\ c.management_callers \in Seq(Seq(Text))
          /\ c.authentication_callers \in Seq(Seq(Text))
          /\ c.rotation_overlap_seconds \in Nat
      BY ProposedAssumption
    <2>2. /\ Between(c.schema.size, 1, 63)
          /\ Between(c.directory_provider.size, 1, 128)
          /\ Between(c.auth_issuer.size, 1, 128)
          /\ Between(c.auth_public_key.size, 1, 256)
      <3>1. /\ c.schema.size # 0 /\ c.schema.size <= 63
            /\ c.directory_provider.size # 0 /\ c.directory_provider.size <= 128
            /\ c.auth_issuer.size # 0 /\ c.auth_issuer.size <= 128
            /\ c.auth_public_key.size # 0 /\ c.auth_public_key.size <= 256
        BY ValidParts DEF ValidSchema, ValidAuthorities, ValidAuthPublicKey, ValidAuthority
      <3>2. /\ c.schema.size \in Nat /\ c.directory_provider.size \in Nat
            /\ c.auth_issuer.size \in Nat /\ c.auth_public_key.size \in Nat
        BY <2>1, SizesAreNumbers
      <3> QED
        BY <3>1, <3>2 DEF Between
    <2>3. \A i \in DOMAIN c.secrets : Between(c.secrets[i].size, 1, 256)
      <3>1. \A i \in DOMAIN c.secrets : c.secrets[i].size # 0 /\ c.secrets[i].size <= 256
        BY ValidParts DEF ValidSecretReferences, ValidSecretReference, ValidAuthority
      <3>2. \A i \in DOMAIN c.secrets : c.secrets[i].size \in Nat
        BY <2>1, SizesAreNumbers
      <3> QED
        BY <3>1, <3>2 DEF Between
    <2>4. /\ Between(Len(c.token_audience), 1, 64)
          /\ Unique(c.token_audience)
          /\ \A i \in DOMAIN c.token_audience : Between(c.token_audience[i].size, 1, 256)
      <3>1. /\ Len(c.token_audience) \in 1..64
            /\ \A i \in DOMAIN c.token_audience :
                  c.token_audience[i].size # 0 /\ c.token_audience[i].size <= 256
        BY ValidParts DEF ValidAuthoritySets, ValidAudience
      <3>2. \A i \in DOMAIN c.token_audience : c.token_audience[i].size \in Nat
        BY <2>1, SizesAreNumbers
      <3>3. Between(Len(c.token_audience), 1, 64)
        BY <3>1, BetweenRange
      <3>4. \A i \in DOMAIN c.token_audience : Between(c.token_audience[i].size, 1, 256)
        BY <3>1, <3>2 DEF Between
      <3>5. Unique(c.token_audience)
        BY ValidParts, Zenon DEF ValidAuthoritySets
      <3> QED
        BY <3>3, <3>4, <3>5
    <2>5. \A s \in {c.management_callers, c.authentication_callers} :
             /\ Between(Len(s), 1, 64)
             /\ Unique(s)
             /\ \A i \in DOMAIN s : Between(CallerSize(s[i]), 1, 128)
      BY <2>1, ValidParts, CallerBounds DEF ValidAuthoritySets
    <2>6. /\ Between(c.credential_ttl_seconds, 300, 31536000)
          /\ Between(c.rotation_overlap_seconds, 0, 3600)
          /\ Between(c.token_ttl_seconds, 1, 86400)
          /\ Between(c.receipt_ttl_seconds, 300, 604800)
          /\ Between(c.exchange_window_seconds, 1, 3600)
          /\ Between(c.max_exchanges_per_window, 1, 10000)
          /\ Between(c.exchange_lockout_seconds, 1, 86400)
          /\ Between(c.max_page_size, 1, 200)
          /\ Between(c.max_accounts_per_organization, 1, 10000)
      BY <2>1, ValidParts DEF ValidLimits, ValidOverlap, Between
    <2> QED
      BY <2>2, <2>3, <2>4, <2>5, <2>6 DEF SchemaAllows
  <1> QED
    BY <1>1, VerdictInit, VerdictNext, PTL DEF ConfigSpec

-----------------------------------------------------------------------------
(* Contracts.                                                               *)

(* What every outcome is like, whoever answers it.                          *)
OutcomeShape(m) ==
    /\ m.kind \in {"ok", "domain", "runtime"}
    /\ m.known \in BOOLEAN
    /\ m.kind # "domain" => m.code = None /\ m.payload = None
    /\ m.known => m.kind = "domain" /\ m.payload = None

Carries(m) ==
    m.kind = origin.kind /\ m.code = origin.code /\ m.payload = origin.payload

(* Beyond repair: the answer was not an outcome on the wire, or the call    *)
(* reached no provider.                                                     *)
Lost == garbled \/ op \notin DOMAIN Codes

(* The answer in a peer: it carries the provider's, and whether it is a     *)
(* variant depends on what the peers so far knew.                           *)
DecodedInv ==
    stage \in {"provided", "received"} =>
        /\ OutcomeShape(message)
        /\ Lost => message.kind = "runtime"
        /\ ~Lost => /\ Carries(message)
                    /\ message.known => origin.known
                    /\ origin.known /\ understood => message.known

(* The answer between peers: only a variant travels as a string.            *)
EncodedInv ==
    stage = "wire" =>
        /\ message = [kind |-> message.kind, shape |-> message.shape,
                      code |-> message.code, payload |-> message.payload]
        /\ Lost => message.shape = "other" \/ message.kind = "runtime"
        /\ ~Lost => /\ Carries(message)
                    /\ message.shape \in {"string", "object"}
                    /\ message.shape = "string" => origin.known
                    /\ origin.known /\ understood => message.shape = "string"

ContractInv ==
    /\ stage \in {"provided", "wire", "received"}
    /\ garbled \in BOOLEAN /\ understood \in BOOLEAN
    /\ OutcomeShape(origin)
    /\ DecodedInv
    /\ EncodedInv

LEMMA OutcomesShaped ==
    ASSUME NEW o \in DOMAIN Codes, NEW m \in Outcomes(o)
    PROVE  OutcomeShape(m)
  <1>1. OutcomeShape(Success) /\ OutcomeShape(RuntimeFailure)
    BY DEF OutcomeShape, Success, RuntimeFailure
  <1>2. \A c : OutcomeShape(Variant(c))
    BY DEF OutcomeShape, Variant
  <1>3. \A c, p : OutcomeShape(Unknown(c, p))
    BY DEF OutcomeShape, Unknown
  <1>4. \/ m \in {Success, RuntimeFailure}
        \/ \E c : m = Variant(c)
        \/ \E c, p : m = Unknown(c, p)
    BY DEF Outcomes
  <1> QED
    BY <1>1, <1>2, <1>3, <1>4

LEMMA ContractStart == ContractInit => ContractInv
  <1> SUFFICES ASSUME ContractInit
               PROVE  ContractInv
    OBVIOUS
  <1>1. stage = "provided" /\ garbled = FALSE /\ understood = TRUE
    BY DEF ContractInit
  <1>2. OutcomeShape(Success) /\ OutcomeShape(RuntimeFailure) /\ RuntimeFailure.kind = "runtime"
    BY DEF OutcomeShape, Success, RuntimeFailure
  <1>3. CASE op \in DOMAIN Codes
    <2>1. OutcomeShape(origin) /\ message = origin
      BY <1>3, OutcomesShaped DEF ContractInit, Invoke
    <2> QED
      BY <1>1, <1>3, <2>1 DEF ContractInv, DecodedInv, EncodedInv, Lost, Carries
  <1>4. CASE op \notin DOMAIN Codes
    <2>1. origin = Success /\ message = RuntimeFailure
      BY <1>4 DEF ContractInit, Invoke
    <2> QED
      BY <1>1, <1>2, <1>4, <2>1 DEF ContractInv, DecodedInv, EncodedInv, Lost
  <1> QED
    BY <1>3, <1>4

LEMMA SendKeeps ==
    ASSUME ContractInv, Send
    PROVE  ContractInv'
  <1>1. /\ stage = "provided" /\ stage' = "wire"
        /\ UNCHANGED <<op, origin, hops, understood, garbled>>
        /\ message' = Serialize(message)
    BY DEF Send
  <1>2. /\ message'.kind = message.kind
        /\ message'.code = message.code
        /\ message'.payload = message.payload
        /\ message'.shape = IF message.kind = "domain" /\ message.known
                            THEN "string" ELSE "object"
        /\ message' = [kind |-> message'.kind, shape |-> message'.shape,
                       code |-> message'.code, payload |-> message'.payload]
    BY <1>1 DEF Serialize
  <1>3. Lost' <=> Lost
    BY <1>1 DEF Lost
  <1> QED
    BY <1>1, <1>2, <1>3
    DEF ContractInv, DecodedInv, EncodedInv, OutcomeShape, Carries

LEMMA GarbleKeeps ==
    ASSUME ContractInv, Garble
    PROVE  ContractInv'
  <1>1. /\ stage = "wire" /\ garbled' = TRUE
        /\ UNCHANGED <<op, origin, stage, hops, understood>>
        /\ message' = [message EXCEPT !.shape = "other"]
    BY DEF Garble
  <1>2. message = [kind |-> message.kind, shape |-> message.shape,
                   code |-> message.code, payload |-> message.payload]
    BY <1>1 DEF ContractInv, EncodedInv
  <1>3. message' = [kind |-> message.kind, shape |-> "other",
                    code |-> message.code, payload |-> message.payload]
    BY <1>1, <1>2
  <1>4. /\ message' = [kind |-> message'.kind, shape |-> message'.shape,
                       code |-> message'.code, payload |-> message'.payload]
        /\ message'.shape = "other"
    BY <1>3
  <1>5. Lost'
    BY <1>1 DEF Lost
  <1> QED
    BY <1>1, <1>4, <1>5
    DEF ContractInv, DecodedInv, EncodedInv, OutcomeShape

LEMMA ReceiveKeeps ==
    ASSUME ContractInv, NEW L, Receive(L)
    PROVE  ContractInv'
  <1> DEFINE codes == Codes[op] \ L
  <1>1. /\ stage = "wire" /\ stage' = "received" /\ op \in DOMAIN Codes
        /\ UNCHANGED <<op, origin, hops, garbled>>
        /\ message' = Deserialize(codes, message)
        /\ understood' = (understood /\ message.code \in codes)
    BY DEF Receive
  <1>2. understood' \in BOOLEAN /\ OutcomeShape(origin)' /\ Lost' = Lost
    BY <1>1 DEF ContractInv, OutcomeShape, Lost
  <1>3. CASE message.shape = "other" \/ message.kind = "runtime"
    <2>1. message' = RuntimeFailure
      BY <1>1, <1>3 DEF Deserialize
    <2>2. OutcomeShape(message)' /\ message'.kind = "runtime" /\ message'.known = FALSE
          /\ message'.code = None /\ message'.payload = None
      BY <2>1 DEF RuntimeFailure, OutcomeShape
    <2>3. ~Lost => Carries(message)' /\ ~origin.known
      BY <1>1, <1>3, <2>2 DEF ContractInv, EncodedInv, Carries, OutcomeShape
    <2> QED
      BY <1>1, <1>2, <2>2, <2>3 DEF ContractInv, DecodedInv, EncodedInv
  <1>4. CASE message.shape # "other" /\ message.kind = "ok"
    <2>1. message' = Success
      BY <1>1, <1>4 DEF Deserialize
    <2>2. OutcomeShape(message)' /\ message'.kind = "ok" /\ message'.known = FALSE
          /\ message'.code = None /\ message'.payload = None
      BY <2>1 DEF Success, OutcomeShape
    <2>3. ~Lost /\ Carries(message)' /\ ~origin.known
      BY <1>1, <1>4, <2>2 DEF ContractInv, EncodedInv, Carries, OutcomeShape
    <2> QED
      BY <1>1, <1>2, <2>2, <2>3 DEF ContractInv, DecodedInv, EncodedInv
  <1>5. CASE message.shape # "other" /\ message.kind \notin {"ok", "runtime"}
    <2>1. ~Lost /\ message.kind = "domain" /\ Carries(message)
          /\ message.shape \in {"string", "object"}
          /\ (message.shape = "string" => origin.known)
          /\ (origin.known /\ understood => message.shape = "string")
      BY <1>1, <1>5 DEF ContractInv, EncodedInv, Carries, OutcomeShape
    <2>2. CASE message.shape = "string" /\ message.code \in codes
      <3>1. message' = Variant(message.code)
        BY <1>1, <1>5, <2>2 DEF Deserialize
      <3>2. /\ OutcomeShape(message)' /\ message'.known = TRUE /\ message'.kind = "domain"
            /\ message'.code = message.code /\ message'.payload = None
        BY <3>1 DEF Variant, OutcomeShape
      <3>3. origin.known /\ Carries(message)'
        BY <1>1, <2>1, <2>2, <3>2 DEF ContractInv, Carries, OutcomeShape
      <3> QED
        BY <1>1, <1>2, <2>1, <3>2, <3>3 DEF ContractInv, DecodedInv, EncodedInv
    <2>3. CASE ~(message.shape = "string" /\ message.code \in codes)
      <3>1. message' = Unknown(message.code, message.payload)
        BY <1>1, <1>5, <2>3 DEF Deserialize
      <3>2. /\ OutcomeShape(message)' /\ message'.known = FALSE /\ message'.kind = "domain"
            /\ message'.code = message.code /\ message'.payload = message.payload
        BY <3>1 DEF Unknown, OutcomeShape
      <3>3. Carries(message)' /\ ~(origin.known /\ understood')
        BY <1>1, <2>1, <2>3, <3>2 DEF Carries
      <3> QED
        BY <1>1, <1>2, <2>1, <3>2, <3>3 DEF ContractInv, DecodedInv, EncodedInv
    <2> QED
      BY <2>2, <2>3
  <1> QED
    BY <1>3, <1>4, <1>5

LEMMA ContractStep == ContractInv /\ [ContractNext]_contractVars => ContractInv'
  <1> SUFFICES ASSUME ContractInv, [ContractNext]_contractVars
               PROVE  ContractInv'
    OBVIOUS
  <1>1. CASE HandOver \/ PassOn \/ UNCHANGED contractVars
    <2>1. /\ UNCHANGED <<op, origin, message, understood, garbled>>
          /\ stage' \in {"provided", "wire", "received"}
          /\ stage' = "wire" => stage = "wire"
          /\ stage' # "wire" => stage \in {"provided", "received"}
      BY <1>1 DEF HandOver, PassOn, contractVars, ContractInv
    <2>2. Lost' <=> Lost
      BY <2>1 DEF Lost
    <2> QED
      BY <2>1, <2>2 DEF ContractInv, DecodedInv, EncodedInv, OutcomeShape, Carries
  <1> QED
    BY <1>1, SendKeeps, GarbleKeeps, ReceiveKeeps DEF ContractNext

(* The generated serialize and deserialize lose nothing between them:       *)
(* through any number of peers, each of which may lack a code, a response   *)
(* stays a response and a domain error keeps its code and payload, and what *)
(* cannot be decoded becomes a runtime failure.                             *)
THEOREM OutcomesAreKept == ContractSpec => []OutcomeKept
  <1>1. ContractInv => OutcomeKept
    BY DEF ContractInv, DecodedInv, Lost, Carries, OutcomeKept
  <1> QED
    BY <1>1, ContractStart, ContractStep, PTL DEF ContractSpec

(* A variant that a client matches on is the provider's own, and arrives as *)
(* one if every peer on the way knows its code.                             *)
THEOREM VariantsAreUnderstood == ContractSpec => []VariantsUnderstood
  <1>1. ContractInv => VariantsUnderstood
    BY DEF ContractInv, DecodedInv, VariantsUnderstood
  <1> QED
    BY <1>1, ContractStart, ContractStep, PTL DEF ContractSpec

=============================================================================
