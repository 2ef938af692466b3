---------------------------- MODULE RateLimiter ----------------------------
(***************************************************************************)
(* reserve_rate_slot on its own, under many calls of one caller.  A call    *)
(* reads the host's clock, then waits for the caller's row, so the row is   *)
(* updated with times that are old and out of order.  Only the limits table *)
(* is touched; the operators on it are the ones exchange_secret uses.       *)
(***************************************************************************)
EXTENDS Storage

CONSTANTS
    Call,               \* calls of reserve_rate_slot that can be in flight
    MaxGrants,          \* bound of the model: slots granted to a caller
    LastTime            \* bound of the model: the last time

ASSUME LimiterAssumption == MaxGrants \in Nat /\ LastTime \in Nat

VARIABLES
    waiting,            \* the caller and the clock reading of each call
    granted,            \* history: slots granted to each caller
    windows,            \* history: windows started for each caller
    firstWindow         \* history: when the first of them started

limiterVars == <<clock, tables, waiting, granted, windows, firstWindow>>

history == <<granted, windows, firstWindow>>

NoCall == [caller |-> None, now |-> 0]

LimiterInit ==
    /\ StorageInit
    /\ waiting = [x \in Call |-> NoCall]
    /\ granted = [w \in Caller |-> 0]
    /\ windows = [w \in Caller |-> 0]
    /\ firstWindow = [w \in Caller |-> 0]

LimiterTypeOK ==
    /\ clock \in Nat \ {0}
    /\ limits \in [Caller -> LimitRow]
    /\ waiting \in [Call -> [caller: Caller \cup {None}, now: Nat]]
    /\ granted \in [Caller -> Nat]
    /\ windows \in [Caller -> Nat]
    /\ firstWindow \in [Caller -> Nat]

-----------------------------------------------------------------------------
Waits(x, w) == waiting[x].caller = w /\ waiting[x].now # 0

(* exchange_secret reads the clock and calls reserve_rate_slot.             *)
Arrive(x, w) ==
    /\ waiting[x] = NoCall
    /\ waiting' = [waiting EXCEPT ![x] = [caller |-> w, now |-> clock]]
    /\ UNCHANGED <<clock, tables, history>>

(* The row starts a window: its first one, or one after the last elapsed.   *)
StartsWindow(w, now) ==
    AfterSlot(w, now).windowStartedAt # limits[w].windowStartedAt

NoteWindow(w, now) ==
    /\ windows' = [windows EXCEPT ![w] = IF StartsWindow(w, now) THEN @ + 1 ELSE @]
    /\ firstWindow' = [firstWindow EXCEPT ![w] = IF @ = 0 THEN now ELSE @]

(* The transaction under the lock of the caller's row, either way.          *)
Grant(x, w) ==
    LET now == waiting[x].now IN
    /\ Waits(x, w)
    /\ granted[w] < MaxGrants
    /\ SlotGranted(w, now)
    /\ ReserveRateSlot(w, now)
    /\ granted' = [granted EXCEPT ![w] = @ + 1]
    /\ NoteWindow(w, now)
    /\ waiting' = [waiting EXCEPT ![x] = NoCall]
    /\ UNCHANGED <<clock, commands, accounts, credentials>>

Deny(x, w) ==
    LET now == waiting[x].now IN
    /\ Waits(x, w)
    /\ ~SlotGranted(w, now)
    /\ ReserveRateSlot(w, now)
    /\ NoteWindow(w, now)
    /\ waiting' = [waiting EXCEPT ![x] = NoCall]
    /\ UNCHANGED <<clock, commands, accounts, credentials, granted>>

(* A call that fails or is dropped while it waits.                          *)
GiveUp(x) ==
    /\ waiting[x] # NoCall
    /\ waiting' = [waiting EXCEPT ![x] = NoCall]
    /\ UNCHANGED <<clock, tables, history>>

LimiterTick ==
    /\ clock < LastTime
    /\ clock' = clock + 1
    /\ UNCHANGED <<tables, waiting, history>>

LimiterNext ==
    \/ \E x \in Call :
          \/ \E w \in Caller : Arrive(x, w) \/ Grant(x, w) \/ Deny(x, w)
          \/ GiveUp(x)
    \/ LimiterTick

LimiterSpec == LimiterInit /\ [][LimiterNext]_limiterVars

-----------------------------------------------------------------------------
(* The rate in the long run, whatever the order in which late calls get the *)
(* row: a caller gets at most MaxExchanges slots for each window, and       *)
(* windows start at least ExchangeWindow apart.  Calls that waited may use  *)
(* up the slots of several past windows at once, but no slot is given out   *)
(* twice.                                                                   *)
RateBounded ==
    \A w \in Caller :
        /\ granted[w] <= MaxExchanges * windows[w]
        /\ windows[w] > 0 =>
              firstWindow[w] + (windows[w] - 1) * ExchangeWindow <= clock

(* A lockout is not prolonged by the calls it denies: it ends within        *)
(* ExchangeLockout of the end of the window that was used up.               *)
LockoutBounded ==
    \A w \in Caller : limits[w].lockedUntil # 0 =>
        limits[w].lockedUntil
            < limits[w].windowStartedAt + ExchangeWindow + ExchangeLockout

LockoutKept ==
    \A w \in Caller : clock < limits[w].lockedUntil =>
        limits'[w] = limits[w] /\ granted'[w] = granted[w]

(* A lockout is kept to its end: until then no call, however old its clock  *)
(* reading, gets a slot, starts a window or lifts the lockout.              *)
LockoutHolds == [][LockoutKept]_limiterVars

=============================================================================
