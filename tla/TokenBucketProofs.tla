------------------------- MODULE TokenBucketProofs -------------------------
(***************************************************************************)
(* What the rate limiter guarantees for every rate, burst, sweep interval  *)
(* and set of clients.                                                     *)
(***************************************************************************)
EXTENDS TokenBucket, FiniteSetTheorems, TLAPS

(* What a client could be granted at once if it asked now.                 *)
Available(c) == IF c \in Tracked THEN Refilled(buckets[c]) ELSE Full

(* What the watched client was granted and could still be granted now fits *)
(* in a burst and the refill since its window began.                       *)
WindowInv ==
    /\ window.start <= now
    /\ Token * window.granted + Available(window.client)
          <= Full + (now - window.start) * RPM

ClocksOrdered == /\ lastCleanup <= now
                 /\ \A c \in Tracked : buckets[c].lastCheck <= now

-----------------------------------------------------------------------------
LEMMA ConfigFacts == RPM \in Nat /\ RPM > 0 /\ BurstSize \in Nat /\ BurstSize > 0
                     /\ Full \in Nat /\ Full >= Token /\ Token = 60
  BY ConfigAssumption DEF RPM, BurstSize, Full, Token

LEMMA TimesNat ==
    ASSUME NEW a \in Nat, NEW b \in Nat
    PROVE  a * b \in Nat /\ (a + 1) * b = a * b + b
  OBVIOUS

(* A refill stays within the bucket and never takes tokens away.           *)
LEMMA RefillFacts ==
    ASSUME NEW b \in Bucket, now \in Nat, b.lastCheck <= now
    PROVE  /\ Refilled(b) \in 0..Full
           /\ (now - b.lastCheck) * RPM \in Nat
           /\ Refilled(b) = IF b.tokens + (now - b.lastCheck) * RPM > Full
                            THEN Full ELSE b.tokens + (now - b.lastCheck) * RPM
<1>1. b.tokens \in 0..Full /\ b.lastCheck \in Nat
  BY DEF Bucket
<1>2. now - b.lastCheck \in Nat
  BY <1>1
<1>3. (now - b.lastCheck) * RPM \in Nat
  BY <1>2, ConfigFacts, TimesNat
<1> QED BY <1>1, <1>3, ConfigFacts DEF Refilled

(* The buckets a sweep leaves are among those there were.                  *)
LEMMA SweptFacts ==
    ASSUME TypeOK, NEW age
    PROVE  /\ Swept(age) \in [Clients -> Bucket \cup {NoBucket}]
           /\ \A c \in Clients : Swept(age)[c] # NoBucket =>
                 c \in Tracked /\ Swept(age)[c] = buckets[c]
                 /\ ~Idle(buckets[c], age)
           /\ \A c \in Clients : Swept(age)[c] = NoBucket =>
                 c \notin Tracked \/ Idle(buckets[c], age)
  BY DEF Swept, Tracked, TypeOK

-----------------------------------------------------------------------------
(* What is available is a number of tokens a bucket can hold.              *)
LEMMA AvailableFacts ==
    ASSUME TypeOK, ClocksOrdered, NEW c \in Clients
    PROVE  Available(c) \in 0..Full
  BY ConfigFacts, RefillFacts DEF Available, Tracked, TypeOK, ClocksOrdered

(* The two ways Allow leaves the buckets, and what it answers.             *)
Outcome(c, bs, granted) ==
    \E t \in 0..Full :
        /\ t = (IF bs[c] = NoBucket THEN Full ELSE Refilled(bs[c]))
               - (IF granted THEN Token ELSE 0)
        /\ buckets' = [bs EXCEPT ![c] = [tokens |-> t, lastCheck |-> now]]
        /\ Count(c, granted)

LEMMA ServeOutcome ==
    ASSUME NEW bs \in [Clients -> Bucket \cup {NoBucket}], NEW c \in Clients,
           now \in Nat, bs[c] # NoBucket => bs[c].lastCheck <= now, Serve(c, bs)
    PROVE  Outcome(c, bs, TRUE) \/ Outcome(c, bs, FALSE)
<1>1. CASE bs[c] = NoBucket
  <2>1. Full - Token \in 0..Full
    BY ConfigFacts
  <2>2. buckets' = [bs EXCEPT ![c] = [tokens |-> Full - Token, lastCheck |-> now]]
        /\ Count(c, TRUE)
    BY <1>1 DEF Serve
  <2> QED BY <1>1, <2>1, <2>2 DEF Outcome
<1>2. CASE bs[c] # NoBucket
  <2>1. bs[c] \in Bucket
    BY <1>2
  <2>2. Refilled(bs[c]) \in 0..Full
    BY <1>2, <2>1, RefillFacts
  <2>3. CASE Refilled(bs[c]) >= Token
    <3>1. Refilled(bs[c]) - Token \in 0..Full
      BY <2>2, <2>3, ConfigFacts
    <3>2. ~(Refilled(bs[c]) < Token)
      BY <2>2, <2>3, ConfigFacts
    <3>3. buckets' = [bs EXCEPT ![c] = [tokens |-> Refilled(bs[c]) - Token,
                                        lastCheck |-> now]]
          /\ Count(c, TRUE)
      BY <1>2, <3>2 DEF Serve
    <3> QED BY <1>2, <3>1, <3>3 DEF Outcome
  <2>4. CASE ~(Refilled(bs[c]) >= Token)
    <3>1. buckets' = [bs EXCEPT ![c] = [tokens |-> Refilled(bs[c]),
                                        lastCheck |-> now]]
          /\ Count(c, FALSE)
      BY <1>2, <2>4 DEF Serve
    <3>2. Refilled(bs[c]) - 0 = Refilled(bs[c])
      BY <2>2
    <3> QED BY <1>2, <2>2, <3>1, <3>2 DEF Outcome
  <2> QED BY <2>3, <2>4
<1> QED BY <1>1, <1>2

(* Allow serves the client from the buckets the sweep left, if one was due.*)
LEMMA AllowOutcome ==
    ASSUME TypeOK, ClocksOrdered, NEW c \in Clients, Allow(c)
    PROVE  \E bs \in [Clients -> Bucket \cup {NoBucket}], granted \in BOOLEAN :
              /\ \/ bs = Swept(MaxAge) /\ lastCleanup' = now
                 \/ bs = buckets /\ UNCHANGED lastCleanup /\ ~SweepDue
              /\ Outcome(c, bs, granted)
              /\ now' = now
<1>1. PICK bs \in {Swept(MaxAge), buckets} :
         /\ \/ bs = Swept(MaxAge) /\ lastCleanup' = now
            \/ bs = buckets /\ UNCHANGED lastCleanup /\ ~SweepDue
         /\ Serve(c, bs)
         /\ now' = now
  BY DEF Allow
<1>2. bs \in [Clients -> Bucket \cup {NoBucket}]
  BY <1>1, SweptFacts DEF TypeOK
<1>3. bs[c] # NoBucket => bs[c].lastCheck <= now
  BY <1>1, SweptFacts DEF ClocksOrdered, Tracked
<1>4. Outcome(c, bs, TRUE) \/ Outcome(c, bs, FALSE)
  BY <1>1, <1>2, <1>3, ServeOutcome DEF TypeOK
<1> QED BY <1>1, <1>2, <1>4

LEMMA TypeStep == TypeOK /\ ClocksOrdered /\ [Next]_vars
                    => TypeOK' /\ ClocksOrdered'
<1> SUFFICES ASSUME TypeOK, ClocksOrdered, [Next]_vars
             PROVE  TypeOK' /\ ClocksOrdered'
  OBVIOUS
<1>1. CASE Tick
  BY <1>1 DEF Tick, TypeOK, ClocksOrdered, Tracked, Bucket
<1>2. ASSUME NEW c \in Clients, Allow(c) PROVE TypeOK' /\ ClocksOrdered'
  <2>1. PICK bs \in [Clients -> Bucket \cup {NoBucket}], granted \in BOOLEAN :
              /\ \/ bs = Swept(MaxAge) /\ lastCleanup' = now
                 \/ bs = buckets /\ UNCHANGED lastCleanup
              /\ Outcome(c, bs, granted)
              /\ now' = now
    BY <1>2, AllowOutcome
  <2>2. PICK t \in 0..Full :
              /\ buckets' = [bs EXCEPT ![c] = [tokens |-> t, lastCheck |-> now]]
              /\ Count(c, granted)
    BY <2>1 DEF Outcome
  <2>3. now \in Nat /\ [tokens |-> t, lastCheck |-> now] \in Bucket
    BY DEF TypeOK, Bucket
  <2>4. window' \in [client : Clients, start : Nat, granted : Nat]
    BY <2>2 DEF Count, TypeOK
  <2>5. buckets' \in [Clients -> Bucket \cup {NoBucket}]
    BY <2>2, <2>3
  <2>6. \A d \in Clients : d # c => buckets'[d] = bs[d]
    BY <2>2
  <2>7. \A d \in Clients : bs[d] # NoBucket => bs[d].lastCheck <= now
    BY <2>1, SweptFacts DEF ClocksOrdered, Tracked
  <2>8. ClocksOrdered'
    BY <2>1, <2>2, <2>3, <2>6, <2>7 DEF ClocksOrdered, Tracked, TypeOK
  <2> QED BY <2>1, <2>3, <2>4, <2>5, <2>8 DEF TypeOK
<1>3. ASSUME NEW c \in Clients, Watch(c) PROVE TypeOK' /\ ClocksOrdered'
  BY <1>3 DEF Watch, TypeOK, ClocksOrdered, Tracked
<1>4. CASE UNCHANGED vars
  BY <1>4 DEF vars, TypeOK, ClocksOrdered, Tracked
<1> QED BY <1>1, <1>2, <1>3, <1>4 DEF Next

(* TypeOK holds in every reachable state.                                  *)
THEOREM TypeCorrect == Spec => [](TypeOK /\ ClocksOrdered)
<1>1. Init => TypeOK /\ ClocksOrdered
  BY DEF Init, TypeOK, ClocksOrdered, Tracked
<1> QED BY <1>1, TypeStep, PTL DEF Spec

-----------------------------------------------------------------------------
LEMMA RecentStep ==
    TypeOK /\ ClocksOrdered /\ OnlyRecentClients /\ [Next]_vars
      => OnlyRecentClients'
<1> SUFFICES ASSUME TypeOK, ClocksOrdered, OnlyRecentClients, [Next]_vars
             PROVE  OnlyRecentClients'
  OBVIOUS
<1>1. ASSUME NEW c \in Clients, Allow(c) PROVE OnlyRecentClients'
  <2>1. PICK bs \in [Clients -> Bucket \cup {NoBucket}], granted \in BOOLEAN :
              /\ \/ bs = Swept(MaxAge) /\ lastCleanup' = now
                 \/ bs = buckets /\ UNCHANGED lastCleanup /\ ~SweepDue
              /\ Outcome(c, bs, granted)
              /\ now' = now
    BY <1>1, AllowOutcome
  <2>2. PICK t \in 0..Full :
              buckets' = [bs EXCEPT ![c] = [tokens |-> t, lastCheck |-> now]]
    BY <2>1 DEF Outcome
  <2>3. buckets'[c].lastCheck = now /\ \A d \in Clients : d # c => buckets'[d] = bs[d]
    BY <2>2
  <2>4. /\ now \in Nat /\ lastCleanup \in Nat /\ MaxAge \in Nat \ {0}
        /\ CleanEvery \in Nat /\ lastCleanup <= now
        /\ \A d \in Tracked : buckets[d].lastCheck \in Nat
                              /\ buckets[d].lastCheck <= now
    BY TimesAssumption DEF TypeOK, ClocksOrdered, Tracked, Bucket
  <2>5. CASE bs = Swept(MaxAge) /\ lastCleanup' = now
    <3>1. \A d \in Clients : d # c /\ buckets'[d] # NoBucket =>
             /\ d \in Tracked /\ buckets'[d] = buckets[d]
             /\ ~Idle(buckets[d], MaxAge)
      BY <2>3, <2>5, SweptFacts
    <3> QED BY <2>3, <2>4, <2>5, <3>1 DEF OnlyRecentClients, Tracked, Idle
  <2>6. CASE bs = buckets /\ UNCHANGED lastCleanup /\ ~SweepDue
    <3>1. ~(now - lastCleanup > CleanEvery)
      BY <2>6 DEF SweepDue
    <3>2. \A d \in Clients : d # c /\ buckets'[d] # NoBucket =>
             d \in Tracked /\ buckets'[d] = buckets[d]
      BY <2>3, <2>6 DEF Tracked
    <3> QED BY <2>3, <2>4, <2>6, <3>1, <3>2 DEF OnlyRecentClients, Tracked
  <2> QED BY <2>1, <2>5, <2>6
<1>2. CASE UNCHANGED <<buckets, lastCleanup>>
  BY <1>2 DEF OnlyRecentClients, Tracked
<1> QED BY <1>1, <1>2 DEF Next, vars, Tick, Watch

(* OnlyRecentClients: the sweeps bound how old a client the map holds.     *)
THEOREM RecentClients == Spec => []OnlyRecentClients
<1>1. Init => OnlyRecentClients
  BY DEF Init, OnlyRecentClients, Tracked
<1> QED BY <1>1, RecentStep, TypeCorrect, PTL DEF Spec

-----------------------------------------------------------------------------
(* Time passing adds at most the refill to what is available.              *)
LEMMA WindowTick ==
    ASSUME TypeOK, ClocksOrdered, WindowInv, Tick
    PROVE  WindowInv'
<1> DEFINE c == window.client
<1>1. /\ now \in Nat /\ now' = now + 1 /\ window' = window /\ buckets' = buckets
      /\ window.start \in Nat /\ window.granted \in Nat /\ c \in Clients
      /\ window.start <= now
  BY DEF Tick, TypeOK, WindowInv
<1>2. (now' - window.start) * RPM = (now - window.start) * RPM + RPM
      /\ (now - window.start) * RPM \in Nat
  <2> DEFINE e == now - window.start
  <2>1. e \in Nat /\ now' - window.start = e + 1
    BY <1>1
  <2>2. e * RPM \in Nat /\ (e + 1) * RPM = e * RPM + RPM
    BY <2>1, ConfigFacts, TimesNat
  <2> QED BY <2>1, <2>2
<1>3. /\ Available(c) \in Nat /\ Available(c)' \in Nat
      /\ Available(c)' <= Available(c) + RPM
  <2>1. CASE c \in Tracked
    <3>1. buckets[c] \in Bucket /\ buckets[c].lastCheck <= now
          /\ buckets[c].lastCheck \in Nat /\ buckets[c].tokens \in Nat
      BY <2>1 DEF TypeOK, Tracked, ClocksOrdered, Bucket
    <3> DEFINE d == now - buckets[c].lastCheck
    <3>2. d \in Nat /\ now' - buckets[c].lastCheck = d + 1
      BY <1>1, <3>1
    <3>3. d * RPM \in Nat /\ (d + 1) * RPM = d * RPM + RPM
      BY <3>2, ConfigFacts, TimesNat
    <3>4. Refilled(buckets[c]) = IF buckets[c].tokens + d * RPM > Full
                                 THEN Full ELSE buckets[c].tokens + d * RPM
      BY DEF Refilled
    <3>5. Refilled(buckets[c])' = IF buckets[c].tokens + (d + 1) * RPM > Full
                                  THEN Full ELSE buckets[c].tokens + (d + 1) * RPM
      BY <1>1, <3>2 DEF Refilled
    <3>6. c \in Tracked /\ (c \in Tracked)' /\ c' = c
      BY <1>1, <2>1 DEF Tracked
    <3>7. Available(c) = Refilled(buckets[c]) /\ Available(c)' = Refilled(buckets[c])'
      BY <3>6, <1>1 DEF Available
    <3> HIDE DEF d
    <3> QED BY <3>1, <3>3, <3>4, <3>5, <3>7, ConfigFacts
  <2>2. CASE c \notin Tracked
    BY <1>1, <2>2, ConfigFacts DEF Available, Tracked
  <2> QED BY <2>1, <2>2
<1>4. Token * window.granted + Available(c) <= Full + (now - window.start) * RPM
  BY DEF WindowInv
<1>5. Token * window.granted \in Nat
  BY <1>1, ConfigFacts
<1>6. Token * window.granted + Available(c)' <= Full + (now' - window.start) * RPM
  <2> HIDE DEF c
  <2> QED BY <1>2, <1>3, <1>4, <1>5, ConfigFacts
<1> QED BY <1>1, <1>6 DEF WindowInv

(* A sweep takes no tokens away and, if a stale bucket is a full one, adds *)
(* none.                                                                   *)
LEMMA SweepKeepsAvailable ==
    ASSUME TypeOK, ClocksOrdered, RefillsBeforeStale, NEW c \in Clients,
           Swept(MaxAge)[c] = NoBucket
    PROVE  Available(c) = Full
<1>1. CASE c \notin Tracked
  BY <1>1 DEF Available
<1>2. CASE c \in Tracked
  <2>1. Idle(buckets[c], MaxAge)
    BY <1>2, SweptFacts
  <2>2. buckets[c] \in Bucket /\ buckets[c].lastCheck <= now
        /\ buckets[c].lastCheck \in Nat /\ buckets[c].tokens \in Nat /\ now \in Nat
    BY <1>2 DEF TypeOK, Tracked, ClocksOrdered, Bucket
  <2>3. PICK e \in Nat : now - buckets[c].lastCheck = MaxAge + e
    <3>1. now - buckets[c].lastCheck - MaxAge \in Nat
      BY <2>1, <2>2, TimesAssumption DEF Idle
    <3> QED BY <2>2, <3>1, TimesAssumption
  <2>4. (MaxAge + e) * RPM = MaxAge * RPM + e * RPM /\ e * RPM \in Nat
        /\ MaxAge * RPM \in Nat
    BY <2>3, ConfigFacts, TimesAssumption, TimesNat
  <2>5. buckets[c].tokens + (now - buckets[c].lastCheck) * RPM >= Full
    BY <2>2, <2>3, <2>4, ConfigFacts DEF RefillsBeforeStale
  <2>6. Refilled(buckets[c]) = Full
    <3>1. /\ (now - buckets[c].lastCheck) * RPM \in Nat
          /\ Refilled(buckets[c]) =
                IF buckets[c].tokens + (now - buckets[c].lastCheck) * RPM > Full
                THEN Full ELSE buckets[c].tokens + (now - buckets[c].lastCheck) * RPM
      BY <2>2, RefillFacts
    <3>2. PICK s \in Nat :
             s = buckets[c].tokens + (now - buckets[c].lastCheck) * RPM
      BY <2>2, <3>1
    <3>3. s >= Full /\ Refilled(buckets[c]) = IF s > Full THEN Full ELSE s
      BY <2>5, <3>1, <3>2
    <3> QED BY <3>2, <3>3, ConfigFacts
  <2> QED BY <1>2, <2>6 DEF Available
<1> QED BY <1>1, <1>2

LEMMA WindowAllow ==
    ASSUME TypeOK, TypeOK', ClocksOrdered, WindowInv, RefillsBeforeStale,
           NEW c \in Clients, Allow(c)
    PROVE  WindowInv'
<1>0. PICK w \in Clients : w = window.client
  BY DEF TypeOK
<1>1. PICK bs \in [Clients -> Bucket \cup {NoBucket}], granted \in BOOLEAN :
              /\ \/ bs = Swept(MaxAge) \/ bs = buckets
              /\ Outcome(c, bs, granted)
              /\ now' = now
  BY AllowOutcome
<1>2. PICK t \in 0..Full :
        /\ t = (IF bs[c] = NoBucket THEN Full ELSE Refilled(bs[c]))
               - (IF granted THEN Token ELSE 0)
        /\ buckets' = [bs EXCEPT ![c] = [tokens |-> t, lastCheck |-> now]]
        /\ Count(c, granted)
  BY <1>1 DEF Outcome
<1>3. /\ now \in Nat /\ w \in Clients /\ window.start \in Nat
      /\ window.granted \in Nat /\ window.start <= now
  BY DEF TypeOK, WindowInv
<1>4. \A d \in Clients : (IF bs[d] = NoBucket THEN Full ELSE Refilled(bs[d]))
                            = Available(d)
  BY <1>1, SweptFacts, SweepKeepsAvailable DEF Available, Tracked
<1>5. ASSUME NEW d \in Clients, d # c PROVE Available(d)' = Available(d)
  <2>1. buckets'[d] = bs[d]
    BY <1>2, <1>5
  <2>2. Available(d)' = IF bs[d] = NoBucket THEN Full ELSE Refilled(bs[d])
    BY <1>1, <2>1 DEF Available, Tracked, Refilled
  <2> QED BY <1>4, <2>2
<1>6. Available(c)' = Available(c) - (IF granted THEN Token ELSE 0)
      /\ Available(c)' \in 0..Full
  <2>1. buckets'[c] = [tokens |-> t, lastCheck |-> now] /\ buckets'[c] \in Bucket
    BY <1>2, <1>3 DEF Bucket
  <2>2. (c \in Tracked)'
    BY <2>1, AbsentAssumption DEF Tracked
  <2>3. (now - now) * RPM = 0
    BY <1>3, ConfigFacts
  <2>4. Available(c)' = t
    BY <1>1, <1>3, <2>1, <2>2, <2>3, ConfigFacts DEF Available, Refilled
  <2> QED BY <1>2, <1>4, <2>4
<1>7. /\ window'.start = window.start /\ window'.client = w
      /\ window'.granted = window.granted
                           + (IF granted /\ w = c THEN 1 ELSE 0)
  BY <1>0, <1>2, <1>3 DEF Count, TypeOK
<1>8. Token * window.granted + Available(w) <= Full + (now - window.start) * RPM
  BY <1>0 DEF WindowInv
<1>9. (now - window.start) * RPM \in Nat
  BY <1>3, ConfigFacts, TimesNat
<1>10. Token * window'.granted + Available(w)' <= Full + (now - window.start) * RPM
  <2>1. CASE w # c
    BY <1>3, <1>5, <1>7, <1>8, <2>1
  <2>2. CASE w = c
    <3>1. Available(w)' = Available(w) - (IF granted THEN Token ELSE 0)
          /\ Available(w)' \in 0..Full /\ Available(w) \in Int
      BY <1>6, <2>2, AvailableFacts
    <3> QED BY <1>3, <1>7, <1>8, <1>9, <2>2, <3>1, ConfigFacts
  <2> QED BY <2>1, <2>2
<1> QED BY <1>1, <1>3, <1>7, <1>10 DEF WindowInv
LEMMA WindowStep ==
    ASSUME RefillsBeforeStale
    PROVE  TypeOK /\ TypeOK' /\ ClocksOrdered /\ WindowInv /\ [Next]_vars
             => WindowInv'
<1> SUFFICES ASSUME TypeOK, TypeOK', ClocksOrdered, WindowInv, [Next]_vars
             PROVE  WindowInv'
  OBVIOUS
<1>1. ASSUME NEW c \in Clients, Watch(c) PROVE WindowInv'
  <2>1. /\ window' = [client |-> c, start |-> now, granted |-> 0]
        /\ now' = now /\ buckets' = buckets /\ now \in Nat
    BY <1>1 DEF Watch, TypeOK
  <2>2. Available(c)' = Available(c) /\ Available(c) \in 0..Full
    BY <2>1, AvailableFacts DEF Available, Tracked, Refilled
  <2>3. (now - now) * RPM = 0 /\ Token * 0 = 0
    BY <2>1, ConfigFacts
  <2> QED BY <2>1, <2>2, <2>3, ConfigFacts DEF WindowInv
<1>2. CASE UNCHANGED vars
  BY <1>2 DEF vars, WindowInv, Available, Tracked, Refilled
<1> QED BY <1>1, <1>2, WindowTick, WindowAllow DEF Next

(* WindowBounded: if a bucket refills before it is stale, no client is     *)
(* granted more than a burst plus the refill in any window of time.        *)
THEOREM WindowIsBounded ==
    ASSUME RefillsBeforeStale
    PROVE  Spec => []WindowBounded
<1>1. Init => WindowInv
  <2> SUFFICES ASSUME Init PROVE WindowInv
    OBVIOUS
  <2>1. /\ window.granted = 0 /\ window.start = 0 /\ now = 0
        /\ Available(window.client) = Full
    BY DEF Init, Available, Tracked
  <2>2. (0 - 0) * RPM = 0
    BY ConfigFacts
  <2> QED BY <2>1, <2>2, ConfigFacts DEF WindowInv
<1>2. TypeOK /\ ClocksOrdered /\ WindowInv => WindowBounded
  <2> SUFFICES ASSUME TypeOK, ClocksOrdered, WindowInv PROVE WindowBounded
    OBVIOUS
  <2>1. /\ Available(window.client) \in 0..Full
        /\ Token * window.granted \in Nat
        /\ now - window.start \in Nat
    BY AvailableFacts, ConfigFacts DEF TypeOK, WindowInv
  <2>2. (now - window.start) * RPM \in Nat
    BY <2>1, ConfigFacts, TimesNat
  <2> QED BY <2>1, <2>2, ConfigFacts DEF WindowInv, WindowBounded
<1>3. TypeOK /\ TypeOK' /\ ClocksOrdered /\ WindowInv /\ [Next]_vars => WindowInv'
  BY WindowStep
<1> QED BY <1>1, <1>2, <1>3, TypeCorrect, PTL DEF Spec

=============================================================================
