--------------------------- MODULE Authorization ---------------------------
(***************************************************************************)
(* What stands before every handler: the validation of its request and      *)
(* authorize_management of authorization.rs, or the caller check of         *)
(* exchange_secret.  The Organization Membership and Access Control         *)
(* services are external: they answer from their own state, which changes   *)
(* between and during calls, or fail.                                       *)
(***************************************************************************)
EXTENDS Naturals

CONSTANTS
    Call,                   \* calls that can be in flight together
    Instance,               \* instances of the host that call the plugin
    ManagementCallers,      \* configured callers of the management operations
    AuthenticationCallers,  \* configured callers of exchange_secret
    Person,                 \* subjects of actor assertions
    ValidSubject,           \* the ones valid_subject accepts
    Org,                    \* organization ids
    None

ASSUME CallersAssumption ==
    /\ ManagementCallers \subseteq Instance
    /\ AuthenticationCallers \subseteq Instance
    /\ ValidSubject \subseteq Person

VARIABLES
    organizations,          \* the organizations that exist
    members,                \* who is an active member of which organization
    grants,                 \* who has which permission in which organization
    stage,                  \* where each call stands
    call,                   \* what it asks
    outcome,                \* what it was told
    seen                    \* history: the facts that held while it ran

world == <<organizations, members, grants>>

authVars == <<world, stage, call, outcome, seen>>

READ_PERMISSION == "service-account.read"

MANAGE_PERMISSION == "service-account.manage"

(* Mutant: rotation asks for the permission to read.                        *)
PermissionToRotateRead(op) ==
    IF op \in {"get", "list", "rotate_secret"}
    THEN READ_PERMISSION ELSE MANAGE_PERMISSION

(* The permission each handler passes to authorize_management.              *)
Permission(op) ==
    IF op \in {"get", "list"} THEN READ_PERMISSION ELSE MANAGE_PERMISSION

ManagementOperation == {"create", "get", "list", "rotate_secret", "revoke"}

(* A call: who makes it, whether its fields pass validation, and the actor  *)
(* assertion in its context, verified for this operation at this time by    *)
(* the host's authority or not.                                             *)
CallRecord ==
    [op: ManagementOperation \cup {"exchange_secret"}, caller: Instance,
     valid: BOOLEAN, verified: BOOLEAN, kind: {"user", "service"},
     subject: Person, org: Org]

Refusal == {"forbidden", "organization_not_found", "membership_required",
            "access_denied"}

AuthInit ==
    /\ organizations \in SUBSET Org
    /\ members = {}
    /\ grants = {}
    /\ stage = [x \in Call |-> "idle"]
    /\ call = [x \in Call |-> None]
    /\ outcome = [x \in Call |-> "none"]
    /\ seen = [x \in Call |-> {}]

-----------------------------------------------------------------------------
(* History: what is so, for the call c, in the state given by its other     *)
(* arguments.                                                               *)
Facts(c, os, ms, gs) ==
    {IF c.org \in os THEN "exists" ELSE "missing",
     IF c.org \in os /\ <<c.subject, c.org>> \in ms THEN "member" ELSE "stranger",
     IF <<c.subject, c.org, MANAGE_PERMISSION>> \in gs THEN "may manage" ELSE "may not manage",
     IF <<c.subject, c.org, READ_PERMISSION>> \in gs THEN "may read" ELSE "may not read"}

Observe ==
    seen' = [x \in Call |->
        IF stage'[x] = "idle" THEN {}
        ELSE seen[x] \cup Facts(call'[x], organizations', members', grants')]

(* A step of the call x that leaves the world alone.                        *)
Becomes(x, to, answer) ==
    /\ stage' = [stage EXCEPT ![x] = to]
    /\ outcome' = [outcome EXCEPT ![x] = answer]
    /\ UNCHANGED world
    /\ Observe

-----------------------------------------------------------------------------
(* authorize_management up to its first await.                              *)

(* Mutant: any verified assertion will do.                                  *)
ProjectedAny(c) == c.verified /\ c.subject \in ValidSubject

(* project_context::<UserActor> and valid_subject.                          *)
Projected(c) == c.verified /\ c.kind = "user" /\ c.subject \in ValidSubject

(* map_authorization and the five functions on top of it: a refusal is the  *)
(* operation's error of the same name, a runtime failure stays one.         *)
MapAuthorization(error) == IF error \in Refusal THEN error ELSE "failure"

(* Before anybody is asked: the request's fields, the configured callers    *)
(* and the actor, in this order ...                                         *)
FirstAnswer(c) ==
    IF ~c.valid THEN "invalid_request"
    ELSE IF c.caller \notin ManagementCallers \/ ~Projected(c)
    THEN MapAuthorization("forbidden") ELSE "none"

(* ... and for exchange_secret the callers come first.                      *)
FirstExchangeAnswer(c) ==
    IF c.caller \notin AuthenticationCallers THEN "forbidden"
    ELSE IF ~c.valid THEN "invalid_request" ELSE "none"

(* A management call goes on to the Membership service.                     *)
Begin(x, c) ==
    /\ stage[x] = "idle"
    /\ c.op \in ManagementOperation
    /\ call' = [call EXCEPT ![x] = c]
    /\ Becomes(x, IF FirstAnswer(c) = "none" THEN "membership" ELSE "answer",
               FirstAnswer(c))

BeginExchange(x, c) ==
    /\ stage[x] = "idle"
    /\ c.op = "exchange_secret"
    /\ call' = [call EXCEPT ![x] = c]
    /\ Becomes(x, IF FirstExchangeAnswer(c) = "none" THEN "admitted" ELSE "answer",
               FirstExchangeAnswer(c))

(* The Membership service answers.                                          *)
OrganizationNotFound(x) ==
    /\ stage[x] = "membership"
    /\ call[x].org \notin organizations
    /\ UNCHANGED call
    /\ Becomes(x, "answer", MapAuthorization("organization_not_found"))

IsMember(c) == c.org \in organizations /\ <<c.subject, c.org>> \in members

MembershipRequired(x) ==
    /\ stage[x] = "membership"
    /\ call[x].org \in organizations
    /\ ~IsMember(call[x])
    /\ UNCHANGED call
    /\ Becomes(x, "answer", MapAuthorization("membership_required"))

MembershipActive(x) ==
    /\ stage[x] = "membership"
    /\ IsMember(call[x])
    /\ UNCHANGED call
    /\ Becomes(x, "permission", "none")

(* Access Control answers: the call is refused or let through.              *)
Allowed(c) == <<c.subject, c.org, Permission(c.op)>> \in grants

AccessDenied(x) ==
    /\ stage[x] = "permission"
    /\ ~Allowed(call[x])
    /\ UNCHANGED call
    /\ Becomes(x, "answer", MapAuthorization("access_denied"))

PermissionAllowed(x) ==
    /\ stage[x] = "permission"
    /\ Allowed(call[x])
    /\ UNCHANGED call
    /\ Becomes(x, "admitted", "none")

(* Mutant: an unknown answer of a service is taken for a refusal.           *)
ServiceFailsAsRefusal(x) ==
    /\ stage[x] \in {"membership", "permission"}
    /\ UNCHANGED call
    /\ Becomes(x, "answer",
          MapAuthorization(IF stage[x] = "membership"
                           THEN "membership_required" ELSE "access_denied"))

(* A service fails, rejects the request or answers something unknown.       *)
ServiceFails(x) ==
    /\ stage[x] \in {"membership", "permission"}
    /\ UNCHANGED call
    /\ Becomes(x, "answer", MapAuthorization("runtime"))

(* The call is over, or the rest of its handler is: see Handlers, Reads.    *)
Finish(x) ==
    /\ stage[x] \in {"answer", "admitted"}
    /\ call' = [call EXCEPT ![x] = None]
    /\ Becomes(x, "idle", "none")

-----------------------------------------------------------------------------
(* External: the services' own state changes.                               *)

Flip(set, element) ==
    IF element \in set THEN set \ {element} ELSE set \cup {element}

WorldChanges ==
    /\ \/ \E o \in Org : /\ organizations' = Flip(organizations, o)
                         /\ UNCHANGED <<members, grants>>
       \/ \E p \in Person, o \in Org :
             /\ members' = Flip(members, <<p, o>>)
             /\ UNCHANGED <<organizations, grants>>
       \/ \E p \in Person, o \in Org, m \in {READ_PERMISSION, MANAGE_PERMISSION} :
             /\ grants' = Flip(grants, <<p, o, m>>)
             /\ UNCHANGED <<organizations, members>>
    /\ UNCHANGED <<stage, call, outcome>>
    /\ Observe

AuthNext ==
    \/ \E x \in Call :
          \/ \E c \in CallRecord : Begin(x, c) \/ BeginExchange(x, c)
          \/ OrganizationNotFound(x) \/ MembershipRequired(x)
          \/ MembershipActive(x)
          \/ AccessDenied(x) \/ PermissionAllowed(x)
          \/ ServiceFails(x) \/ Finish(x)
    \/ WorldChanges

AuthSpec == AuthInit /\ [][AuthNext]_authVars

-----------------------------------------------------------------------------
(* A configured instance, calling for a verified user.                      *)
Trusted(c) ==
    c.caller \in ManagementCallers /\ c.verified /\ c.kind = "user"

(* The four factors of management: a call is let through only for a         *)
(* configured instance with a verified user who, while the call ran, was an *)
(* active member and had the permission the operation changes or reads      *)
(* with.  Both were so at some time of the call; neither need be so when    *)
(* the handler later commits.                                               *)
AdmittedWithAllFactors ==
    \A x \in Call :
        stage[x] = "admitted" /\ call[x].op \in ManagementOperation =>
            /\ Trusted(call[x])
            /\ {"exists", "member"} \subseteq seen[x]
            /\ IF call[x].op \in {"get", "list"} THEN "may read" \in seen[x]
                                                 ELSE "may manage" \in seen[x]

(* A refusal is true of some moment of the call, and never stands for a     *)
(* service that failed.  Only members are told that they lack a permission. *)
RefusalsTrue ==
    \A x \in Call :
        /\ outcome[x] = "organization_not_found" => "missing" \in seen[x]
        /\ outcome[x] = "membership_required" => "stranger" \in seen[x]
        /\ outcome[x] = "access_denied" =>
              /\ "member" \in seen[x]
              /\ IF call[x].op \in {"get", "list"} THEN "may not read" \in seen[x]
                                                   ELSE "may not manage" \in seen[x]

(* Whoever is not a configured instance with a verified user learns nothing *)
(* about organizations, memberships and permissions: no service is asked    *)
(* for it.                                                                  *)
NothingDisclosed ==
    \A x \in Call :
        stage[x] # "idle" /\ call[x].op \in ManagementOperation /\ ~Trusted(call[x]) =>
            /\ stage[x] \notin {"membership", "permission"}
            /\ outcome[x] \in {"none", "forbidden", "invalid_request"}

=============================================================================
