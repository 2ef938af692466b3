------------------------------- MODULE Plugin ------------------------------
(***************************************************************************)
(* The plugin's lifecycle in one host: activate resolves three secrets,     *)
(* prepares the database and publishes the active state, deactivate takes   *)
(* it back and closes the pool.  A handler keeps the active state it began  *)
(* with, so handlers of an earlier activation are still in flight when the  *)
(* plugin is activated again, perhaps with another pepper and another       *)
(* receipt key.                                                             *)
(***************************************************************************)
EXTENDS ServiceAccount

CONSTANTS
    Secret,             \* values the Secrets service resolves
    LongSecret,         \* the ones of at least 32 bytes
    MaxGeneration       \* bound of the model: how often the plugin activates

ASSUME SecretAssumption ==
    LongSecret \subseteq Secret /\ None \notin Secret /\ MaxGeneration \in Nat

VARIABLES
    phase,              \* of the lifecycle
    staged,             \* the secrets activate has resolved
    generation,         \* how often activate has succeeded
    keys,               \* the secrets of each generation's active state
    held,               \* the generation of the state a handler cloned, or 0
    draining,           \* handlers a closing pool still waits for
    peppered,           \* the pepper in each credential's verifier
    sealed              \* the key each success receipt is encrypted with

lifecycle == <<phase, staged, generation, keys>>

crypto == <<peppered, sealed>>

pluginVars == <<vars, lifecycle, held, draining, crypto>>

NoSecrets == [pepper |-> None, key |-> None]

PluginInit ==
    /\ Init
    /\ phase = "inactive"
    /\ staged = NoSecrets
    /\ generation = 0
    /\ keys = [g \in 1..MaxGeneration |-> NoSecrets]
    /\ held = [h \in Handler |-> 0]
    /\ draining = {}
    /\ peppered = [c \in Credential |-> None]
    /\ sealed = [k \in Command |-> None]

-----------------------------------------------------------------------------
(* activate.  Each step is one await; any of them fails, times out or is    *)
(* cancelled, and then nothing of it is left.                               *)

Activation == {"url", "pepper", "key"}

ResolveUrl ==
    /\ phase = "inactive"
    /\ generation < MaxGeneration
    /\ phase' = "url"
    /\ UNCHANGED <<vars, staged, generation, keys, held, draining, crypto>>

ResolvePepper(s) ==
    /\ phase = "url"
    /\ phase' = "pepper"
    /\ staged' = [pepper |-> s, key |-> None]
    /\ UNCHANGED <<vars, generation, keys, held, draining, crypto>>

ResolveKey(s) ==
    /\ phase = "pepper"
    /\ phase' = "key"
    /\ staged' = [staged EXCEPT !.key = s]
    /\ UNCHANGED <<vars, generation, keys, held, draining, crypto>>

(* Mutant: an active state that is still there is kept.                     *)
ActivatedKeepingKeys ==
    /\ phase = "key"
    /\ staged.pepper \in LongSecret /\ staged.key \in LongSecret
    /\ phase' = "active"
    /\ generation' = generation + 1
    /\ keys' = [keys EXCEPT ![generation + 1] =
                   IF generation = 0 THEN staged ELSE keys[generation]]
    /\ UNCHANGED <<vars, staged, held, draining, crypto>>

(* Both secrets are long enough and OwnedPostgres::prepare finds the schema *)
(* as migrated: the active state is published, without another await.       *)
Activated ==
    /\ phase = "key"
    /\ staged.pepper \in LongSecret /\ staged.key \in LongSecret
    /\ phase' = "active"
    /\ generation' = generation + 1
    /\ keys' = [keys EXCEPT ![generation + 1] = staged]
    /\ UNCHANGED <<vars, staged, held, draining, crypto>>

(* Also the way out when a secret is too short or the schema has drifted.   *)
ActivateFails ==
    /\ phase \in Activation
    /\ phase' = "inactive"
    /\ staged' = NoSecrets
    /\ UNCHANGED <<vars, generation, keys, held, draining, crypto>>

-----------------------------------------------------------------------------
(* deactivate.                                                              *)

(* Steps that run a statement, and the ones inside an open transaction.     *)
DatabaseStep ==
    {"reserve", "find", "record", "count", "insert", "lock", "rotate", "revoke",
     "rate", "verify", "recheck", "admit", "receipt"}

InTransaction == {"insert", "rotate", "revoke", "admit"}

(* The active state is taken and the pool closes.  It hands out no further  *)
(* connection, and waits for the handlers S that have one: all that are     *)
(* inside a transaction, and any that got one for their next statement.     *)
Deactivate(S) ==
    /\ phase = "active"
    /\ \A h \in S : held[h] = generation /\ pc[h] \in DatabaseStep
    /\ \A h \in Handler : pc[h] \in InTransaction => h \in S
    /\ phase' = "closing"
    /\ draining' = S
    /\ UNCHANGED <<vars, staged, generation, keys, held, crypto>>

PoolClosed ==
    /\ phase = "closing"
    /\ draining = {}
    /\ phase' = "inactive"
    /\ staged' = NoSecrets
    /\ UNCHANGED <<vars, generation, keys, held, draining, crypto>>

-----------------------------------------------------------------------------
(* Handlers.                                                                *)

(* Mutant: deactivate drops the active state and leaves the pool open.      *)
HasConnectionOfItsOwn(h) == held[h] # 0

HasConnection(h) ==
    \/ phase = "active" /\ held[h] = generation
    \/ h \in draining

(* Mutant: a connection is never given back to a closing pool.              *)
ReleaseAtEnd(h) == UNCHANGED draining

(* A connection goes back to the pool with the end of its transaction; the  *)
(* state is dropped with the handler.                                       *)
Release(h) ==
    draining' = IF pc'[h] \in InTransaction THEN draining ELSE draining \ {h}

Drop(h) ==
    held' = [held EXCEPT ![h] = IF pc'[h] = "idle" THEN 0 ELSE @]

(* active(): a call is turned away unless the plugin is active.  The awaits *)
(* of authorization and prune are part of this step: a deactivation among   *)
(* them makes the pool refuse prune, and the call ends with no table        *)
(* changed.                                                                 *)
Call(h, r) ==
    /\ phase = "active"
    /\ Accept(h, r)
    /\ held' = [held EXCEPT ![h] = generation]
    /\ UNCHANGED <<lifecycle, draining, crypto>>

(* verify_secret under the pepper, decrypt under the key of the handler's   *)
(* own state.                                                               *)
PepperFits(h) == peppered[req[h].credential] = keys[held[h]].pepper

Replays(h) == pc[h] = "find" /\ ClaimOutcome(req[h]) = "replayed"

ReceiptReadable(h) == sealed[CommandOf(req[h])] = keys[held[h]].key

(* A new credential's verifier is made with the pepper, a new receipt is    *)
(* sealed with the key.                                                     *)
Hashes(h) ==
    peppered' = [c \in Credential |->
        IF credentials[c].account = None /\ credentials'[c].account # None
        THEN keys[held[h]].pepper ELSE peppered[c]]

Seals(h) ==
    sealed' = [k \in Command |->
        IF commands'[k].status # "completed_success" THEN None
        ELSE IF commands[k].status # "completed_success"
        THEN keys[held[h]].key ELSE sealed[k]]

(* Any step of the handlers in ServiceAccount, where it has a connection    *)
(* for its statement and the right secrets for what it reads.               *)
Proceeds(h) ==
    /\ pc[h] \in DatabaseStep => HasConnection(h)
    /\ Replays(h) => ReceiptReadable(h)
    /\ pc[h] = "verify" /\ SecretAccepted(h) => PepperFits(h)

Progress(h, step) ==
    /\ step
    /\ Hashes(h)
    /\ Seals(h)
    /\ Release(h)
    /\ Drop(h)
    /\ UNCHANGED lifecycle

HandlerWaits(h) == Proceeds(h) /\ Progress(h, WaitStep(h))

HandlerRuns(h) == Proceeds(h) /\ Progress(h, PlainStep(h))

(* A secret made under another pepper does not verify.                      *)
PepperMismatch(h) ==
    /\ pc[h] = "verify"
    /\ HasConnection(h)
    /\ SecretAccepted(h) /\ ~PepperFits(h)
    /\ Progress(h, Reject(h, "invalid_credentials"))

(* Mutant: what cannot be read is done again.                               *)
UnreadableRedone(h) ==
    /\ Replays(h)
    /\ HasConnection(h)
    /\ ~ReceiptReadable(h)
    /\ Progress(h,
          /\ Goto(h, FirstStep(req[h].op))
          /\ commands' = [commands EXCEPT ![CommandOf(req[h])] =
                [@ EXCEPT !.status = "reserved", !.completedAt = 0]]
          /\ frame' = [frame EXCEPT ![h].now = clock]
          /\ UNCHANGED <<req, clock, accounts, credentials, limits, performed>>)

(* A receipt sealed under another key fails closed.                         *)
ReceiptUnreadable(h) ==
    /\ Replays(h)
    /\ HasConnection(h)
    /\ ~ReceiptReadable(h)
    /\ Progress(h, Respond(h, "failure") /\ UNCHANGED <<clock, tables, performed>>)

(* Mutant: a handler waits for a connection of a closed pool.               *)
ConnectionAwaited(h) ==
    /\ FALSE
    /\ Progress(h, Fail(h))

(* The pool refuses a connection.                                           *)
ConnectionRefused(h) ==
    /\ pc[h] \in DatabaseStep
    /\ ~HasConnection(h)
    /\ Progress(h, Fail(h))

HandlerFails(h) == Progress(h, Fail(h))

PluginTick ==
    /\ Tick
    /\ UNCHANGED <<lifecycle, held, draining, crypto>>

PluginNext ==
    \/ ResolveUrl \/ Activated \/ ActivateFails \/ PoolClosed
    \/ \E s \in Secret : ResolvePepper(s) \/ ResolveKey(s)
    \/ \E S \in SUBSET Handler : Deactivate(S)
    \/ \E h \in Handler :
          \/ \E r \in Request : Call(h, r)
          \/ HandlerWaits(h) \/ HandlerRuns(h)
          \/ PepperMismatch(h) \/ ReceiptUnreadable(h)
          \/ ConnectionRefused(h) \/ HandlerFails(h)
    \/ PluginTick

PluginSpec == PluginInit /\ [][PluginNext]_pluginVars

(* A handler is polled until its future resolves, so a step that waits for  *)
(* nothing but a statement or an external call is taken in the end; the     *)
(* database hands a row lock or an advisory lock to its waiters in turn, so *)
(* a step that waits for one is taken if the lock is free again and again.  *)
(* A pool whose last connection came back is closed.  Nobody has to call,   *)
(* fail, activate or deactivate, and time may stand still.                  *)
PluginFairness ==
    /\ WF_pluginVars(PoolClosed)
    /\ \A h \in Handler :
          /\ SF_pluginVars(HandlerWaits(h))
          /\ WF_pluginVars(HandlerRuns(h) \/ PepperMismatch(h)
                              \/ ReceiptUnreadable(h) \/ ConnectionRefused(h))

PluginFairSpec == PluginSpec /\ PluginFairness

-----------------------------------------------------------------------------
(* Deactivation leaves the database alone: once the pool is closed, and     *)
(* until the plugin is active again, no handler changes a table, though     *)
(* handlers of the last activation may still wait for the Directory or the  *)
(* Issuer.                                                                  *)
DatabaseQuiet ==
    [][phase \notin {"active", "closing"} => UNCHANGED tables]_pluginVars

(* After a change of secrets nothing is written with the old ones: every    *)
(* verifier and every receipt is made with the secrets of the last          *)
(* activation, also by handlers that were in flight across it.              *)
KeysCurrent ==
    [][/\ \A c \in Credential :
             peppered'[c] # peppered[c] => peppered'[c] = staged.pepper
       /\ \A k \in Command :
             sealed'[k] \notin {sealed[k], None} => sealed'[k] = staged.key]_pluginVars

(* deactivate ends: no handler keeps a connection for good.                 *)
DeactivationEnds == phase = "closing" ~> phase # "closing"

=============================================================================
