------------------------------ MODULE Contract -----------------------------
(***************************************************************************)
(* The two capability contracts between a client and the plugin: how an     *)
(* outcome gets from the provider of an operation to the client, natively   *)
(* or as portable JSON, and through clients that pass it on as the outcome  *)
(* of their own.  A peer may be of a version that lacks some of the codes,  *)
(* or has one that this version does not know.                              *)
(***************************************************************************)
EXTENDS Naturals

CONSTANTS
    FutureCode,         \* a code of a later version of the contract
    Payload,            \* what an error object may carry besides its code
    MaxHops,            \* bound of the model: peers on the way
    None

ASSUME ContractAssumption == MaxHops \in Nat /\ None \notin Payload

VARIABLES
    op,                 \* the operation invoked
    origin,             \* what its provider answered
    stage,              \* where the answer is: "provided", "wire", "received"
    message,            \* the answer there
    hops,               \* peers it has passed
    understood,         \* history: they all know its code
    garbled             \* history: it was not an outcome on the wire

contractVars == <<op, origin, stage, message, hops, understood, garbled>>

-----------------------------------------------------------------------------
(* The codes that serialize and deserialize agree on, per operation.        *)

CreateCodes ==
    {"access_denied", "directory_rejected", "forbidden", "idempotency_conflict",
     "invalid_request", "membership_required", "name_conflict",
     "operation_in_progress", "organization_not_found", "too_many_service_accounts"}

GetCodes ==
    {"access_denied", "forbidden", "invalid_request", "membership_required",
     "not_found", "organization_not_found"}

ListCodes ==
    {"access_denied", "forbidden", "invalid_request", "membership_required",
     "organization_not_found"}

RevokeCodes ==
    {"access_denied", "forbidden", "idempotency_conflict", "invalid_request",
     "membership_required", "not_found", "operation_in_progress",
     "organization_not_found", "revision_conflict"}

RotateCodes ==
    {"access_denied", "forbidden", "idempotency_conflict", "invalid_request",
     "membership_required", "not_found", "operation_in_progress",
     "organization_not_found", "revision_conflict", "revoked"}

ExchangeCodes ==
    {"disabled", "forbidden", "idempotency_conflict", "invalid_credentials",
     "invalid_request", "operation_in_progress", "rate_limited"}

Codes ==
    [create |-> CreateCodes, get |-> GetCodes, list |-> ListCodes,
     revoke |-> RevokeCodes, rotate_secret |-> RotateCodes,
     exchange_secret |-> ExchangeCodes]

(* An outcome: a response, a domain error that is one of the variants       *)
(* (known) or Unknown with its payload, or a runtime failure.               *)
Success == [kind |-> "ok", known |-> FALSE, code |-> None, payload |-> None]

RuntimeFailure ==
    [kind |-> "runtime", known |-> FALSE, code |-> None, payload |-> None]

Variant(code) == [kind |-> "domain", known |-> TRUE, code |-> code, payload |-> None]

Unknown(code, payload) ==
    [kind |-> "domain", known |-> FALSE, code |-> code, payload |-> payload]

-----------------------------------------------------------------------------
(* Mutant: every error becomes an object.                                   *)
SerializeAsObject(e) ==
    [kind |-> e.kind, shape |-> "object", code |-> e.code, payload |-> e.payload]

(* A variant is a JSON string, Unknown a JSON object.                       *)
Serialize(e) ==
    [kind |-> e.kind,
     shape |-> IF e.kind = "domain" /\ e.known THEN "string" ELSE "object",
     code |-> e.code, payload |-> e.payload]

(* Mutant: what an unknown object carries is dropped.                       *)
DeserializeCodeOnly(codes, w) ==
    IF w.shape = "other" THEN RuntimeFailure
    ELSE IF w.kind = "runtime" THEN RuntimeFailure
    ELSE IF w.kind = "ok" THEN Success
    ELSE IF w.shape = "string" /\ w.code \in codes THEN Variant(w.code)
    ELSE Unknown(w.code, None)

(* A string is a variant or an Unknown without payload; an object with a    *)
(* code is always Unknown; anything else is no domain error.                *)
Deserialize(codes, w) ==
    IF w.shape = "other" THEN RuntimeFailure
    ELSE IF w.kind = "runtime" THEN RuntimeFailure
    ELSE IF w.kind = "ok" THEN Success
    ELSE IF w.shape = "string" /\ w.code \in codes THEN Variant(w.code)
    ELSE Unknown(w.code, w.payload)

-----------------------------------------------------------------------------
(* What a provider answers, of this version or a later one.                 *)
Outcomes(o) ==
    {Success, RuntimeFailure, Variant(FutureCode)}
        \cup {Variant(c) : c \in Codes[o]}
        \cup {Unknown(c, p) : c \in Codes[o] \cup {FutureCode}, p \in Payload \cup {None}}

(* invoke of an endpoint: another operation, or a request of another type,  *)
(* is a runtime failure and reaches no provider.                            *)
Invoke(o, answer) == IF o \in DOMAIN Codes THEN answer ELSE RuntimeFailure

ContractInit ==
    /\ op \in DOMAIN Codes \cup {"other"}
    /\ origin \in IF op \in DOMAIN Codes THEN Outcomes(op) ELSE {Success}
    /\ stage = "provided"
    /\ message = Invoke(op, origin)
    /\ hops = 0
    /\ understood = TRUE
    /\ garbled = FALSE

(* A typed native call hands the outcome over as it is.                     *)
HandOver ==
    /\ stage = "provided"
    /\ stage' = "received"
    /\ UNCHANGED <<op, origin, message, hops, understood, garbled>>

Send ==
    /\ stage = "provided"
    /\ stage' = "wire"
    /\ message' = Serialize(message)
    /\ UNCHANGED <<op, origin, hops, understood, garbled>>

(* External: what arrives is neither a string nor an object with a code.    *)
Garble ==
    /\ stage = "wire"
    /\ message' = [message EXCEPT !.shape = "other"]
    /\ garbled' = TRUE
    /\ UNCHANGED <<op, origin, stage, hops, understood>>

(* A peer decodes the answer; it lacks the codes in L.                      *)
Receive(L) ==
    /\ stage = "wire"
    /\ stage' = "received"
    /\ op \in DOMAIN Codes
    /\ message' = Deserialize(Codes[op] \ L, message)
    /\ understood' = (understood /\ message.code \in Codes[op] \ L)
    /\ UNCHANGED <<op, origin, hops, garbled>>

(* The peer returns what its client got as the outcome of its own provider: *)
(* Domain stays a domain error, Runtime a runtime failure.                  *)
PassOn ==
    /\ stage = "received"
    /\ hops < MaxHops
    /\ stage' = "provided"
    /\ hops' = hops + 1
    /\ UNCHANGED <<op, origin, message, understood, garbled>>

ContractNext ==
    \/ HandOver \/ Send \/ Garble \/ PassOn
    \/ \E L \in {{}} \cup {{c} : c \in UNION {Codes[o] : o \in DOMAIN Codes}} : Receive(L)

ContractSpec == ContractInit /\ [][ContractNext]_contractVars

-----------------------------------------------------------------------------
(* An outcome is not changed on the way: through peers of any version a     *)
(* domain error keeps its code and payload, a response stays a response,    *)
(* and what cannot be decoded is a runtime failure, never a domain error.   *)
OutcomeKept ==
    stage = "received" /\ op \in DOMAIN Codes =>
        IF garbled THEN message.kind = "runtime"
        ELSE /\ message.kind = origin.kind
             /\ message.code = origin.code
             /\ message.payload = origin.payload

(* A client that gets a variant can rely on it: the provider answered that  *)
(* variant; and it does get it when all peers on the way know its code.     *)
VariantsUnderstood ==
    stage = "received" /\ message.kind = "domain" =>
        /\ message.known => origin.known
        /\ origin.known /\ understood => message.known

=============================================================================
