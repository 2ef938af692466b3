------------------------- MODULE RateLimiterProofs --------------------------
(***************************************************************************)
(* The rate and the lockout of reserve_rate_slot, for every number of calls *)
(* and every accepted configuration, however late the calls get the row.    *)
(***************************************************************************)
EXTENDS RateLimiter, Integers, TLAPS

(* One caller's row and its history.                                        *)
RowLimits(w) ==
    LET row == limits[w] IN
    /\ row.attempts <= MaxExchanges
    /\ row.windowStartedAt <= clock
    /\ row.windowStartedAt = 0 =>
          /\ row.lockedUntil = 0
          /\ windows[w] = 0 /\ granted[w] = 0 /\ firstWindow[w] = 0
    /\ row.windowStartedAt # 0 =>
          /\ windows[w] > 0 /\ firstWindow[w] # 0
          /\ granted[w] + MaxExchanges <= MaxExchanges * windows[w] + row.attempts
          /\ firstWindow[w] + (windows[w] - 1) * ExchangeWindow <= row.windowStartedAt
    /\ row.lockedUntil # 0 =>
          row.lockedUntil < row.windowStartedAt + ExchangeWindow + ExchangeLockout

(* No call carries a time that is still to come.                            *)
ReadingsPast == \A x \in Call : waiting[x].now <= clock

(* The inductive invariant.                                                 *)
LimiterInv ==
    /\ LimiterTypeOK
    /\ ReadingsPast
    /\ \A w \in Caller : RowLimits(w)

-----------------------------------------------------------------------------
(* What reserve_rate_slot makes of a row, by case.                          *)
LEMMA SlotCases ==
    ASSUME LimiterTypeOK, NEW w \in Caller, NEW now \in Nat, now # 0
    PROVE  LET row == limits[w]
               new == AfterSlot(w, now)
           IN  \/ /\ SlotGranted(w, now)
                  /\ \/ row.windowStartedAt = 0
                     \/ now >= row.windowStartedAt + ExchangeWindow
                  /\ now >= row.lockedUntil \/ row.windowStartedAt = 0
                  /\ new.windowStartedAt = now /\ new.attempts = 1
                  /\ new.lockedUntil = 0
               \/ /\ SlotGranted(w, now)
                  /\ row.windowStartedAt # 0 /\ now >= row.lockedUntil
                  /\ row.attempts < MaxExchanges
                  /\ new.windowStartedAt = row.windowStartedAt
                  /\ new.attempts = row.attempts + 1
                  /\ new.lockedUntil = 0
               \/ /\ ~SlotGranted(w, now)
                  /\ row.windowStartedAt # 0 /\ now < row.lockedUntil
                  /\ new = row
               \/ /\ ~SlotGranted(w, now)
                  /\ row.windowStartedAt # 0 /\ now >= row.lockedUntil
                  /\ now < row.windowStartedAt + ExchangeWindow
                  /\ new.windowStartedAt = row.windowStartedAt
                  /\ new.attempts = row.attempts
                  /\ new.lockedUntil = now + ExchangeLockout
  <1> DEFINE row == limits[w]
             at == LimitAt(w, now)
             win == Window(at, now)
  <1>0. /\ row \in LimitRow /\ row.windowStartedAt \in Nat /\ row.attempts \in Nat
        /\ row.lockedUntil \in Nat
        /\ MaxExchanges \in Nat /\ MaxExchanges > 0 /\ ExchangeWindow \in Nat
    BY ConfigAssumption DEF LimiterTypeOK, LimitRow
  <1>1. CASE row.windowStartedAt = 0
    <2>1. at = [windowStartedAt |-> now, attempts |-> 0, lockedUntil |-> 0]
      BY <1>1 DEF LimitAt
    <2>2. win.windowStartedAt = now /\ win.attempts = 0 /\ at.lockedUntil = 0
      BY <1>0, <2>1, ConfigAssumption DEF Window
    <2> QED
      BY <1>0, <1>1, <2>2 DEF SlotGranted, AfterSlot, LockedOut, Exhausted
  <1>2. CASE row.windowStartedAt # 0
    <2>1. at = row
      BY <1>2 DEF LimitAt
    <2>2. CASE now < row.lockedUntil
      BY <1>2, <2>1, <2>2 DEF SlotGranted, AfterSlot, LockedOut
    <2>3. CASE now >= row.lockedUntil /\ now >= row.windowStartedAt + ExchangeWindow
      <3>1. win.windowStartedAt = now /\ win.attempts = 0
        BY <1>0, <2>1, <2>3 DEF Window, LimitRow
      <3> QED
        BY <1>0, <2>1, <2>3, <3>1 DEF SlotGranted, AfterSlot, LockedOut, Exhausted
    <2>4. CASE now >= row.lockedUntil /\ now < row.windowStartedAt + ExchangeWindow
      <3>1. win = row
        BY <1>0, <2>1, <2>4 DEF Window
      <3> QED
        BY <1>0, <1>2, <2>1, <2>4, <3>1 DEF SlotGranted, AfterSlot, LockedOut, Exhausted
    <2> QED
      BY <1>0, <2>2, <2>3, <2>4
  <1> QED
    BY <1>0, <1>1, <1>2

LEMMA LimiterStart == LimiterInit => LimiterInv
  BY ConfigAssumption DEF LimiterInit, StorageInit, LimiterInv, LimiterTypeOK, ReadingsPast,
     RowLimits, NoLimit, LimitRow, NoCall

(* The step of a call that gets the row of its caller.                      *)
LEMMA SlotTypes ==
    ASSUME LimiterInv, NEW x \in Call, NEW w \in Caller, Grant(x, w) \/ Deny(x, w)
    PROVE  /\ LimiterTypeOK' /\ ReadingsPast'
           /\ waiting[x].now \in Nat /\ waiting[x].now # 0 /\ waiting[x].now <= clock
           /\ limits'[w] = AfterSlot(w, waiting[x].now)
           /\ \A v \in Caller : v # w => limits'[v] = limits[v]
  <1> DEFINE now == waiting[x].now
  <1>1. now \in Nat /\ now # 0 /\ now <= clock
    BY DEF Grant, Deny, Waits, LimiterInv, LimiterTypeOK, ReadingsPast
  <1>2. AfterSlot(w, now) \in LimitRow
    <2>1. limits[w] \in LimitRow
      BY DEF LimiterInv, LimiterTypeOK
    <2>2. LimitAt(w, now) \in LimitRow
      BY <1>1, <2>1 DEF LimitAt, LimitRow
    <2>3. Window(LimitAt(w, now), now) \in LimitRow
      BY <1>1, <2>2 DEF Window, LimitRow
    <2> HIDE DEF now
    <2> QED
      BY <1>1, <2>2, <2>3, ConfigAssumption DEF AfterSlot, LimitRow
  <1>3. /\ limits' = [limits EXCEPT ![w] = AfterSlot(w, now)]
        /\ waiting' = [waiting EXCEPT ![x] = NoCall] /\ clock' = clock
        /\ granted' \in [Caller -> Nat]
    BY DEF Grant, Deny, ReserveRateSlot, LimiterInv, LimiterTypeOK
  <1>4. windows' \in [Caller -> Nat] /\ firstWindow' \in [Caller -> Nat]
    BY <1>1 DEF Grant, Deny, NoteWindow, LimiterInv, LimiterTypeOK
  <1>5. waiting' \in [Call -> [caller: Caller \cup {None}, now: Nat]] /\ ReadingsPast'
    BY <1>3 DEF NoCall, LimiterInv, LimiterTypeOK, ReadingsPast
  <1> QED
    BY <1>1, <1>2, <1>3, <1>4, <1>5 DEF LimiterInv, LimiterTypeOK

LEMMA SlotHistory ==
    ASSUME LimiterInv, NEW x \in Call, NEW w \in Caller, Grant(x, w) \/ Deny(x, w)
    PROVE  LET now == waiting[x].now
               started == AfterSlot(w, now).windowStartedAt # limits[w].windowStartedAt
           IN  /\ windows'[w] = IF started THEN windows[w] + 1 ELSE windows[w]
               /\ firstWindow'[w] = IF firstWindow[w] = 0 THEN now ELSE firstWindow[w]
               /\ granted'[w] = IF SlotGranted(w, now) THEN granted[w] + 1 ELSE granted[w]
               /\ \A v \in Caller : v # w =>
                     /\ windows'[v] = windows[v] /\ firstWindow'[v] = firstWindow[v]
                     /\ granted'[v] = granted[v]
  BY DEF Grant, Deny, NoteWindow, StartsWindow, LimiterInv, LimiterTypeOK

LEMMA SlotRow ==
    ASSUME LimiterInv, NEW x \in Call, NEW w \in Caller, Grant(x, w) \/ Deny(x, w)
    PROVE  RowLimits(w)'
  <1> DEFINE now == waiting[x].now
             row == limits[w]
             new == limits'[w]
  <1>1. /\ now \in Nat /\ now # 0 /\ now <= clock /\ clock' = clock /\ clock \in Nat
        /\ new = AfterSlot(w, now)
    BY SlotTypes DEF Grant, Deny, LimiterInv, LimiterTypeOK
  <1>2. /\ row.windowStartedAt \in Nat /\ row.attempts \in Nat /\ row.lockedUntil \in Nat
        /\ windows[w] \in Nat /\ granted[w] \in Nat /\ firstWindow[w] \in Nat
        /\ MaxExchanges \in Nat /\ MaxExchanges > 0
        /\ ExchangeWindow \in Nat /\ ExchangeWindow > 0
        /\ ExchangeLockout \in Nat /\ ExchangeLockout > 0
    BY ConfigAssumption DEF LimiterInv, LimiterTypeOK, LimitRow
  <1>3. RowLimits(w)
    BY DEF LimiterInv
  <1>4. /\ MaxExchanges * (windows[w] + 1) = MaxExchanges * windows[w] + MaxExchanges
        /\ MaxExchanges * windows[w] \in Nat /\ windows[w] * ExchangeWindow \in Nat
        /\ windows[w] > 0 =>
              windows[w] * ExchangeWindow = (windows[w] - 1) * ExchangeWindow + ExchangeWindow
    BY <1>2
  <1>5. CASE /\ SlotGranted(w, now)
             /\ \/ row.windowStartedAt = 0
                \/ now >= row.windowStartedAt + ExchangeWindow
             /\ new.windowStartedAt = now /\ new.attempts = 1 /\ new.lockedUntil = 0
    <2>1. /\ windows'[w] = windows[w] + 1 /\ granted'[w] = granted[w] + 1
          /\ firstWindow'[w] = IF firstWindow[w] = 0 THEN now ELSE firstWindow[w]
      BY <1>1, <1>2, <1>5, SlotHistory
    <2>2. granted[w] <= MaxExchanges * windows[w]
      <3> DEFINE p == MaxExchanges * windows[w]
      <3>1. CASE row.windowStartedAt = 0
        BY <1>3, <1>4, <3>1 DEF RowLimits
      <3>2. CASE row.windowStartedAt # 0
        <4>1. granted[w] + MaxExchanges <= p + row.attempts /\ row.attempts <= MaxExchanges
          BY <1>3, <3>2 DEF RowLimits
        <4>2. p \in Nat
          BY <1>4
        <4>3. granted[w] <= p
          <5> HIDE DEF p
          <5> QED
            BY <1>2, <4>1, <4>2
        <4> QED
          BY <4>3
      <3> QED
        BY <3>1, <3>2
    <2>3. granted'[w] + MaxExchanges <= MaxExchanges * windows'[w] + 1
      BY <1>2, <1>4, <2>1, <2>2
    <2>4. firstWindow'[w] + (windows'[w] - 1) * ExchangeWindow <= now
      <3>1. (windows'[w] - 1) * ExchangeWindow = windows[w] * ExchangeWindow
        BY <1>2, <2>1
      <3>2. CASE row.windowStartedAt = 0
        <4>1. windows[w] = 0 /\ firstWindow'[w] = now
          BY <1>3, <2>1, <3>2 DEF RowLimits
        <4>2. windows[w] * ExchangeWindow = 0
          BY <1>2, <4>1
        <4> QED
          BY <1>1, <3>1, <4>1, <4>2
      <3>3. CASE row.windowStartedAt # 0
        <4>1. /\ windows[w] > 0 /\ firstWindow'[w] = firstWindow[w]
              /\ firstWindow[w] + (windows[w] - 1) * ExchangeWindow <= row.windowStartedAt
              /\ now >= row.windowStartedAt + ExchangeWindow
          BY <1>3, <1>5, <2>1, <3>3 DEF RowLimits
        <4> QED
          BY <1>1, <1>2, <1>4, <3>1, <4>1
      <3> QED
        BY <3>2, <3>3
    <2>5. windows'[w] > 0 /\ firstWindow'[w] # 0
      BY <1>1, <1>2, <2>1
    <2> HIDE DEF now, row
    <2> QED
      BY <1>1, <1>2, <1>5, <2>3, <2>4, <2>5 DEF RowLimits
  <1>6. CASE /\ SlotGranted(w, now)
             /\ row.windowStartedAt # 0 /\ row.attempts < MaxExchanges
             /\ new.windowStartedAt = row.windowStartedAt
             /\ new.attempts = row.attempts + 1 /\ new.lockedUntil = 0
    <2>1. /\ windows'[w] = windows[w] /\ granted'[w] = granted[w] + 1
          /\ firstWindow'[w] = firstWindow[w]
      BY <1>1, <1>3, <1>6, SlotHistory DEF RowLimits
    <2> QED
      BY <1>1, <1>2, <1>3, <1>4, <1>6, <2>1 DEF RowLimits
  <1>7. CASE /\ ~SlotGranted(w, now)
             /\ row.windowStartedAt # 0
             /\ new.windowStartedAt = row.windowStartedAt /\ new.attempts = row.attempts
             /\ \/ new.lockedUntil = row.lockedUntil
                \/ /\ now < row.windowStartedAt + ExchangeWindow
                   /\ new.lockedUntil = now + ExchangeLockout
    <2>1. /\ windows'[w] = windows[w] /\ granted'[w] = granted[w]
          /\ firstWindow'[w] = firstWindow[w]
      BY <1>1, <1>3, <1>7, SlotHistory DEF RowLimits
    <2> QED
      BY <1>1, <1>2, <1>3, <1>4, <1>7, <2>1 DEF RowLimits
  <1>8. LimiterTypeOK
    BY DEF LimiterInv
  <1> QED
    BY <1>1, <1>5, <1>6, <1>7, <1>8, SlotCases

LEMMA LimiterStep == LimiterInv /\ [LimiterNext]_limiterVars => LimiterInv'
  <1> SUFFICES ASSUME LimiterInv, [LimiterNext]_limiterVars
               PROVE  LimiterInv'
    OBVIOUS
  <1>1. ASSUME NEW x \in Call, NEW w \in Caller, Grant(x, w) \/ Deny(x, w)
        PROVE  LimiterInv'
    <2>1. ASSUME NEW v \in Caller, v # w
          PROVE  RowLimits(v)'
      <3>1. /\ limits'[v] = limits[v] /\ clock' = clock
            /\ windows'[v] = windows[v] /\ firstWindow'[v] = firstWindow[v]
            /\ granted'[v] = granted[v]
        BY <1>1, <2>1, SlotTypes, SlotHistory DEF Grant, Deny
      <3> QED
        BY <3>1 DEF LimiterInv, RowLimits
    <2> QED
      BY <1>1, <2>1, SlotTypes, SlotRow DEF LimiterInv
  <1>2. ASSUME NEW x \in Call, NEW w \in Caller, Arrive(x, w)
        PROVE  LimiterInv'
    <2>1. LimiterTypeOK' /\ ReadingsPast'
      BY <1>2 DEF Arrive, LimiterInv, LimiterTypeOK, ReadingsPast, tables, history
    <2> QED
      BY <1>2, <2>1 DEF Arrive, LimiterInv, RowLimits, tables, history
  <1>3. ASSUME NEW x \in Call, GiveUp(x)
        PROVE  LimiterInv'
    <2>1. LimiterTypeOK' /\ ReadingsPast'
      BY <1>3 DEF GiveUp, NoCall, LimiterInv, LimiterTypeOK, ReadingsPast, tables, history
    <2> QED
      BY <1>3, <2>1 DEF GiveUp, LimiterInv, RowLimits, tables, history
  <1>4. CASE LimiterTick
    <2>1. /\ clock' = clock + 1 /\ clock \in Nat \ {0}
          /\ UNCHANGED <<limits, waiting, granted, windows, firstWindow>>
      BY <1>4 DEF LimiterTick, LimiterInv, LimiterTypeOK, tables, history
    <2>2. LimiterTypeOK' /\ ReadingsPast'
      BY <2>1 DEF LimiterInv, LimiterTypeOK, ReadingsPast
    <2>3. ASSUME NEW w \in Caller
          PROVE  RowLimits(w)'
      <3>1. RowLimits(w) /\ limits[w].windowStartedAt \in Nat
        BY DEF LimiterInv, LimiterTypeOK, LimitRow
      <3>2. limits[w].windowStartedAt <= clock'
        BY <2>1, <3>1 DEF RowLimits
      <3> QED
        BY <2>1, <3>1, <3>2 DEF RowLimits
    <2> QED
      BY <2>2, <2>3 DEF LimiterInv
  <1>5. CASE UNCHANGED limiterVars
    BY <1>5 DEF limiterVars, LimiterInv, LimiterTypeOK, ReadingsPast, RowLimits, tables
  <1> QED
    BY <1>1, <1>2, <1>3, <1>4, <1>5 DEF LimiterNext

(* reserve_rate_slot never gives a caller more than MaxExchanges slots per  *)
(* window, and its windows start at least ExchangeWindow apart, although    *)
(* the calls apply old clock readings in any order.                         *)
THEOREM RateIsBounded == LimiterSpec => []RateBounded
  <1>1. LimiterInv => RateBounded
    <2> SUFFICES ASSUME LimiterInv, NEW w \in Caller
                 PROVE  /\ granted[w] <= MaxExchanges * windows[w]
                        /\ windows[w] > 0 =>
                              firstWindow[w] + (windows[w] - 1) * ExchangeWindow <= clock
      BY DEF RateBounded
    <2>1. RowLimits(w)
      BY DEF LimiterInv
    <2>2. /\ limits[w].windowStartedAt \in Nat /\ limits[w].attempts \in Nat
          /\ clock \in Nat /\ granted[w] \in Nat /\ windows[w] \in Nat
          /\ firstWindow[w] \in Nat /\ ExchangeWindow \in Nat /\ MaxExchanges \in Nat
          /\ MaxExchanges * windows[w] \in Nat
          /\ (windows[w] - 1) * ExchangeWindow \in Int
      BY ConfigAssumption DEF LimiterInv, LimiterTypeOK, LimitRow
    <2>3. CASE limits[w].windowStartedAt = 0
      BY <2>1, <2>2, <2>3 DEF RowLimits
    <2>4. CASE limits[w].windowStartedAt # 0
      BY <2>1, <2>2, <2>4 DEF RowLimits
    <2> QED
      BY <2>3, <2>4
  <1> QED
    BY <1>1, LimiterStart, LimiterStep, PTL DEF LimiterSpec

(* The calls a lockout denies do not prolong it: it ends within             *)
(* ExchangeLockout of the end of the window whose slots were used up.       *)
THEOREM LockoutIsBounded == LimiterSpec => []LockoutBounded
  <1>1. LimiterInv => LockoutBounded
    BY DEF LimiterInv, RowLimits, LockoutBounded
  <1> QED
    BY <1>1, LimiterStart, LimiterStep, PTL DEF LimiterSpec

LEMMA LockoutStep ==
    ASSUME LimiterInv, [LimiterNext]_limiterVars
    PROVE  LockoutKept
  <1> SUFFICES ASSUME NEW v \in Caller, clock < limits[v].lockedUntil
               PROVE  limits'[v] = limits[v] /\ granted'[v] = granted[v]
    BY DEF LockoutKept
  <1>1. ASSUME NEW x \in Call, NEW w \in Caller, Grant(x, w) \/ Deny(x, w)
        PROVE  limits'[v] = limits[v] /\ granted'[v] = granted[v]
    <2> DEFINE now == waiting[x].now
    <2>1. CASE v # w
      BY <1>1, <2>1, SlotTypes, SlotHistory
    <2>2. CASE v = w
      <3>1. now \in Nat /\ now # 0 /\ now <= clock /\ limits'[v] = AfterSlot(v, now)
        BY <1>1, <2>2, SlotTypes
      <3>2. /\ clock \in Nat /\ limits[v].lockedUntil \in Nat
            /\ limits[v].windowStartedAt # 0
        BY DEF LimiterInv, LimiterTypeOK, LimitRow, RowLimits
      <3>3. ~SlotGranted(v, now) /\ AfterSlot(v, now) = limits[v]
        BY <3>1, <3>2, SlotCases DEF LimiterInv
      <3> QED
        BY <1>1, <2>2, <3>1, <3>3, SlotHistory
    <2> QED
      BY <2>1, <2>2
  <1>2. CASE LimiterTick \/ UNCHANGED limiterVars
    BY <1>2 DEF LimiterTick, limiterVars, tables, history
  <1>3. ASSUME NEW x \in Call, GiveUp(x) \/ \E w \in Caller : Arrive(x, w)
        PROVE  limits'[v] = limits[v] /\ granted'[v] = granted[v]
    BY <1>3 DEF GiveUp, Arrive, tables, history
  <1> QED
    BY <1>1, <1>2, <1>3 DEF LimiterNext

(* A lockout lasts to its end: no call with an old clock reading gets a     *)
(* slot, starts a window or lifts it.                                       *)
THEOREM LockoutLasts == LimiterSpec => LockoutHolds
  <1>1. LimiterInv /\ [LimiterNext]_limiterVars => [LockoutKept]_limiterVars
    BY LockoutStep
  <1> QED
    BY <1>1, LimiterStart, LimiterStep, PTL DEF LimiterSpec, LockoutHolds

=============================================================================
