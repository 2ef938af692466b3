------------------------ MODULE AuthorizationProofs ------------------------
(***************************************************************************)
(* The guarantees of authorize_management for any number of calls, however  *)
(* the Membership and Access Control services change meanwhile.             *)
(***************************************************************************)
EXTENDS Authorization, TLAPS

Stage == {"idle", "membership", "permission", "admitted", "answer"}

AuthType ==
    /\ stage \in [Call -> Stage]
    /\ DOMAIN call = Call /\ DOMAIN outcome = Call

Reading(c) == c.op \in {"get", "list"}

(* What has been found out about a call, by the place it has reached.       *)
CallInv(x) ==
    /\ stage[x] = "idle" => outcome[x] = "none"
    /\ stage[x] \in {"membership", "permission"} =>
          call[x].op \in ManagementOperation /\ Trusted(call[x]) /\ outcome[x] = "none"
    /\ stage[x] = "permission" => {"exists", "member"} \subseteq seen[x]
    /\ stage[x] = "admitted" => outcome[x] = "none"
    /\ stage[x] = "admitted" /\ call[x].op \in ManagementOperation =>
          /\ Trusted(call[x])
          /\ {"exists", "member"} \subseteq seen[x]
          /\ IF Reading(call[x]) THEN "may read" \in seen[x] ELSE "may manage" \in seen[x]
    /\ stage[x] = "answer" /\ call[x].op \in ManagementOperation /\ ~Trusted(call[x]) =>
          outcome[x] \in {"forbidden", "invalid_request"}
    /\ outcome[x] = "organization_not_found" => "missing" \in seen[x]
    /\ outcome[x] = "membership_required" => "stranger" \in seen[x]
    /\ outcome[x] = "access_denied" =>
          /\ "member" \in seen[x]
          /\ IF Reading(call[x]) THEN "may not read" \in seen[x]
                                 ELSE "may not manage" \in seen[x]

(* The inductive invariant.                                                 *)
AuthInv == AuthType /\ \A x \in Call : CallInv(x)

-----------------------------------------------------------------------------
LEMMA AuthStart == AuthInit => AuthInv
  BY DEF AuthInit, AuthInv, AuthType, Stage, CallInv, Reading

(* The calls that do not move keep what they have seen.                     *)
LEMMA OtherCalls ==
    ASSUME AuthInv, Observe, NEW y \in Call,
           stage'[y] = stage[y], call'[y] = call[y], outcome'[y] = outcome[y]
    PROVE  CallInv(y)'
  <1>1. stage[y] # "idle" => seen[y] \subseteq seen'[y]
    BY DEF Observe
  <1>2. CallInv(y)
    BY DEF AuthInv
  <1>3. CASE stage[y] = "idle"
    BY <1>2, <1>3 DEF CallInv
  <1>4. CASE stage[y] # "idle"
    BY <1>1, <1>2, <1>4 DEF CallInv, Trusted, Reading
  <1> QED
    BY <1>3, <1>4

(* A step of the call x, with what it sees in its last state.               *)
LEMMA CallStep ==
    ASSUME AuthInv, NEW x \in Call, NEW to \in Stage, NEW answer,
           Becomes(x, to, answer),
           DOMAIN call' = Call,
           \A y \in Call : y # x => call'[y] = call[y],
           CallInv(x)'
    PROVE  AuthInv'
  <1>1. AuthType'
    BY DEF Becomes, AuthInv, AuthType
  <1>2. ASSUME NEW y \in Call, y # x
        PROVE  CallInv(y)'
    BY <1>2, OtherCalls DEF Becomes, AuthInv, AuthType
  <1> QED
    BY <1>1, <1>2 DEF AuthInv

LEMMA Seen ==
    ASSUME AuthInv, NEW x \in Call, NEW to \in Stage, to # "idle", NEW answer,
           Becomes(x, to, answer)
    PROVE  /\ stage'[x] = to /\ outcome'[x] = answer
           /\ seen'[x] = seen[x] \cup Facts(call'[x], organizations, members, grants)
  <1>1. stage'[x] = to /\ outcome'[x] = answer /\ UNCHANGED world
    BY DEF Becomes, AuthInv, AuthType
  <1> QED
    BY <1>1 DEF Becomes, Observe, world

LEMMA AuthBegin ==
    ASSUME AuthInv, NEW x \in Call, NEW c \in CallRecord, Begin(x, c) \/ BeginExchange(x, c)
    PROVE  AuthInv'
  <1>1. call'[x] = c /\ DOMAIN call' = Call /\ \A y \in Call : y # x => call'[y] = call[y]
    BY DEF Begin, BeginExchange, AuthInv, AuthType
  <1>2. CASE Begin(x, c)
    <2> DEFINE to == IF FirstAnswer(c) = "none" THEN "membership" ELSE "answer"
    <2>1. to \in Stage /\ to # "idle" /\ Becomes(x, to, FirstAnswer(c))
          /\ c.op \in ManagementOperation
      BY <1>2 DEF Begin, Stage
    <2>2. stage'[x] = to /\ outcome'[x] = FirstAnswer(c)
      BY <2>1, Seen
    <2>3. FirstAnswer(c) \in {"none", "invalid_request", "forbidden"}
          /\ (FirstAnswer(c) = "none" => Trusted(c))
      BY DEF FirstAnswer, MapAuthorization, Refusal, Projected, Trusted
    <2>4. CallInv(x)'
      BY <1>1, <2>1, <2>2, <2>3 DEF CallInv, Trusted, Reading
    <2> QED
      BY <1>1, <2>1, <2>4, CallStep
  <1>3. CASE BeginExchange(x, c)
    <2> DEFINE to == IF FirstExchangeAnswer(c) = "none" THEN "admitted" ELSE "answer"
    <2>1. to \in Stage /\ to # "idle" /\ Becomes(x, to, FirstExchangeAnswer(c))
          /\ c.op \notin ManagementOperation
      BY <1>3 DEF BeginExchange, Stage, ManagementOperation
    <2>2. stage'[x] = to /\ outcome'[x] = FirstExchangeAnswer(c)
      BY <2>1, Seen
    <2>3. FirstExchangeAnswer(c) \in {"none", "invalid_request", "forbidden"}
      BY DEF FirstExchangeAnswer
    <2>4. CallInv(x)'
      BY <1>1, <2>1, <2>2, <2>3 DEF CallInv, Reading
    <2> QED
      BY <1>1, <2>1, <2>4, CallStep
  <1> QED
    BY <1>2, <1>3

LEMMA AuthAnswer ==
    ASSUME AuthInv, NEW x \in Call,
           \/ OrganizationNotFound(x) \/ MembershipRequired(x)
           \/ AccessDenied(x) \/ ServiceFails(x)
    PROVE  AuthInv'
  <1>0. UNCHANGED call /\ DOMAIN call = Call /\ CallInv(x) /\ "answer" \in Stage
    BY DEF OrganizationNotFound, MembershipRequired, AccessDenied, ServiceFails, AuthInv,
       AuthType, Stage
  <1>1. CASE OrganizationNotFound(x)
    <2>1. stage[x] = "membership" /\ Becomes(x, "answer", "organization_not_found")
          /\ call[x].org \notin organizations
      BY <1>1 DEF OrganizationNotFound, MapAuthorization, Refusal
    <2>2. /\ stage'[x] = "answer" /\ outcome'[x] = "organization_not_found"
          /\ "missing" \in seen'[x]
      BY <1>0, <2>1, Seen DEF Facts
    <2>3. CallInv(x)'
      BY <1>0, <2>1, <2>2 DEF CallInv, Trusted
    <2> QED
      BY <1>0, <2>1, <2>3, CallStep
  <1>2. CASE MembershipRequired(x)
    <2>1. stage[x] = "membership" /\ Becomes(x, "answer", "membership_required")
          /\ ~IsMember(call[x])
      BY <1>2 DEF MembershipRequired, MapAuthorization, Refusal
    <2>2. /\ stage'[x] = "answer" /\ outcome'[x] = "membership_required"
          /\ "stranger" \in seen'[x]
      BY <1>0, <2>1, Seen DEF Facts, IsMember
    <2>3. CallInv(x)'
      BY <1>0, <2>1, <2>2 DEF CallInv, Trusted
    <2> QED
      BY <1>0, <2>1, <2>3, CallStep
  <1>3. CASE AccessDenied(x)
    <2>1. stage[x] = "permission" /\ Becomes(x, "answer", "access_denied")
          /\ ~Allowed(call[x])
      BY <1>3 DEF AccessDenied, MapAuthorization, Refusal
    <2>2. /\ stage'[x] = "answer" /\ outcome'[x] = "access_denied"
          /\ seen'[x] = seen[x] \cup Facts(call[x], organizations, members, grants)
      BY <1>0, <2>1, Seen
    <2>3. /\ "member" \in seen[x]
          /\ call[x].op \in ManagementOperation /\ Trusted(call[x])
      BY <1>0, <2>1 DEF CallInv
    <2>4. IF Reading(call[x]) THEN "may not read" \in seen'[x]
                              ELSE "may not manage" \in seen'[x]
      BY <2>1, <2>2 DEF Allowed, Permission, Reading, Facts
    <2>5. CallInv(x)'
      BY <1>0, <2>2, <2>3, <2>4 DEF CallInv, Trusted, Reading
    <2> QED
      BY <1>0, <2>1, <2>5, CallStep
  <1>4. CASE ServiceFails(x)
    <2>1. stage[x] \in {"membership", "permission"} /\ Becomes(x, "answer", "failure")
      BY <1>4 DEF ServiceFails, MapAuthorization, Refusal
    <2>2. stage'[x] = "answer" /\ outcome'[x] = "failure"
      BY <1>0, <2>1, Seen
    <2>3. CallInv(x)'
      BY <1>0, <2>1, <2>2 DEF CallInv, Trusted
    <2> QED
      BY <1>0, <2>1, <2>3, CallStep
  <1> QED
    BY <1>1, <1>2, <1>3, <1>4

LEMMA AuthGoesOn ==
    ASSUME AuthInv, NEW x \in Call,
           MembershipActive(x) \/ PermissionAllowed(x) \/ Finish(x)
    PROVE  AuthInv'
  <1>0. DOMAIN call = Call /\ CallInv(x) /\ {"permission", "admitted", "idle"} \subseteq Stage
    BY DEF AuthInv, AuthType, Stage
  <1>1. CASE MembershipActive(x)
    <2>1. stage[x] = "membership" /\ Becomes(x, "permission", "none") /\ UNCHANGED call
          /\ IsMember(call[x])
      BY <1>1 DEF MembershipActive
    <2>2. /\ stage'[x] = "permission" /\ outcome'[x] = "none"
          /\ seen'[x] = seen[x] \cup Facts(call[x], organizations, members, grants)
      BY <1>0, <2>1, Seen
    <2>4. "exists" \in seen'[x] /\ "member" \in seen'[x]
      BY <2>1, <2>2 DEF Facts, IsMember
    <2>3. CallInv(x)'
      BY <1>0, <2>1, <2>2, <2>4 DEF CallInv, Trusted
    <2> QED
      BY <1>0, <2>1, <2>3, CallStep
  <1>2. CASE PermissionAllowed(x)
    <2>1. stage[x] = "permission" /\ Becomes(x, "admitted", "none") /\ UNCHANGED call
          /\ Allowed(call[x])
      BY <1>2 DEF PermissionAllowed
    <2>2. /\ stage'[x] = "admitted" /\ outcome'[x] = "none"
          /\ seen'[x] = seen[x] \cup Facts(call[x], organizations, members, grants)
      BY <1>0, <2>1, Seen
    <2>3. IF Reading(call[x]) THEN "may read" \in seen'[x] ELSE "may manage" \in seen'[x]
      BY <2>1, <2>2 DEF Allowed, Permission, Reading, Facts
    <2>4. Trusted(call[x]) /\ {"exists", "member"} \subseteq seen'[x]
      BY <1>0, <2>1, <2>2 DEF CallInv
    <2>5. CallInv(x)'
      BY <2>1, <2>2, <2>3, <2>4 DEF CallInv, Trusted, Reading
    <2> QED
      BY <1>0, <2>1, <2>5, CallStep
  <1>3. CASE Finish(x)
    <2>1. Becomes(x, "idle", "none") /\ DOMAIN call' = Call
          /\ \A y \in Call : y # x => call'[y] = call[y]
      BY <1>0, <1>3 DEF Finish
    <2>2. stage'[x] = "idle" /\ outcome'[x] = "none"
      BY <2>1 DEF Becomes, AuthInv, AuthType
    <2>3. CallInv(x)'
      BY <2>2 DEF CallInv
    <2> QED
      BY <1>0, <2>1, <2>3, CallStep
  <1> QED
    BY <1>1, <1>2, <1>3

LEMMA AuthStep == AuthInv /\ [AuthNext]_authVars => AuthInv'
  <1> SUFFICES ASSUME AuthInv, [AuthNext]_authVars
               PROVE  AuthInv'
    OBVIOUS
  <1>1. CASE WorldChanges
    <2>1. UNCHANGED <<stage, call, outcome>> /\ Observe
      BY <1>1 DEF WorldChanges
    <2>2. \A x \in Call : CallInv(x)'
      BY <2>1, OtherCalls
    <2> QED
      BY <2>1, <2>2 DEF AuthInv, AuthType
  <1>2. CASE UNCHANGED authVars
    BY <1>2 DEF authVars, AuthInv, AuthType, CallInv, Trusted, Reading
  <1> QED
    BY <1>1, <1>2, AuthBegin, AuthAnswer, AuthGoesOn DEF AuthNext

(* A management call passes authorize_management only for a configured      *)
(* instance and a verified user who was an active member and had the        *)
(* operation's permission while it ran.                                     *)
THEOREM AdmissionNeedsAllFactors == AuthSpec => []AdmittedWithAllFactors
  <1>1. AuthInv => AdmittedWithAllFactors
    BY DEF AuthInv, CallInv, Reading, AdmittedWithAllFactors
  <1> QED
    BY <1>1, AuthStart, AuthStep, PTL DEF AuthSpec

(* A refusal that authorize_management gives was true at some moment of the *)
(* call; a failing service is never reported as one.                        *)
THEOREM RefusalsAreTrue == AuthSpec => []RefusalsTrue
  <1>1. AuthInv => RefusalsTrue
    BY DEF AuthInv, CallInv, Reading, RefusalsTrue
  <1> QED
    BY <1>1, AuthStart, AuthStep, PTL DEF AuthSpec

(* authorize_management asks no service, and so tells nothing, on behalf of *)
(* an instance that is not configured or an actor that is not a verified    *)
(* user.                                                                    *)
THEOREM NothingIsDisclosed == AuthSpec => []NothingDisclosed
  <1>1. AuthInv => NothingDisclosed
    BY DEF AuthInv, AuthType, Stage, CallInv, NothingDisclosed
  <1> QED
    BY <1>1, AuthStart, AuthStep, PTL DEF AuthSpec

=============================================================================
