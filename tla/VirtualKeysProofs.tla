------------------------- MODULE VirtualKeysProofs -------------------------
(***************************************************************************)
(* What VirtualKeys guarantees for every set of keys and requests, every   *)
(* choice of settings, every clock and every cost bound.                   *)
(***************************************************************************)
EXTENDS VirtualKeys, FiniteSetTheorems, TLAPS

(* No administrator gives a key more than MaxRPM, and no action raises it. *)
RatesBounded == \A k \in Registered : keys[k].rpm <= MaxRPM

-----------------------------------------------------------------------------
(* Changing only the spend of a settings record leaves a settings record   *)
(* that agrees with it everywhere else.                                    *)
LEMMA SpendUpdate ==
    ASSUME NEW s \in VK, NEW n \in Nat
    PROVE  LET t == [s EXCEPT !.spent = n] IN
           /\ t \in VK
           /\ t.spent = n
           /\ t.rpm = s.rpm /\ t.budget = s.budget
           /\ t.enabled = s.enabled /\ t.expiresAt = s.expiresAt
  BY DEF VK

(* A burst is a natural number, at least two, and grows with the rate.     *)
LEMMA BurstFacts ==
    ASSUME NEW a \in Nat, NEW b \in Nat, a <= b
    PROVE  Burst(a) \in Nat /\ Burst(a) >= 2 /\ Burst(a) <= Burst(b)
  BY DEF Burst

(* What a bucket holds after its refill is a natural number, at most a     *)
(* full bucket and at most what it held plus the refill at that rate.      *)
LEMMA RefillFacts ==
    ASSUME TypeOK, NEW k \in KeyNames, keys[k] # Unregistered,
           buckets[k] # NoBucket, buckets[k].lastCheck <= now
    PROVE  /\ Refilled(k) \in Nat
           /\ Refilled(k) <= Token * Burst(keys[k].rpm)
           /\ Refilled(k) <= buckets[k].tokens
                             + (now - buckets[k].lastCheck) * keys[k].rpm
<1>1. keys[k].rpm \in Nat /\ buckets[k].tokens \in Nat
      /\ buckets[k].lastCheck \in Nat /\ now \in Nat
  BY DEF TypeOK, VK, Bucket
<1>2. (now - buckets[k].lastCheck) * keys[k].rpm \in Nat
  <2> DEFINE d == now - buckets[k].lastCheck
  <2>1. d \in Nat
    BY <1>1
  <2>2. d * keys[k].rpm \in Nat
    BY <2>1, <1>1
  <2> QED BY <2>2
<1>3. Token * Burst(keys[k].rpm) \in Nat
  BY <1>1, BurstFacts DEF Token
<1> QED BY <1>1, <1>2, <1>3 DEF Refilled

(* A request record, and what TypeOK says of the requests.                 *)
Request == [phase : Phases, key : KeyNames \cup {NoHeader}, rpm : Nat]

NamesAKey(q) == q.phase \in {"validate", "limit"} => q.key \in KeyNames

ReqTyped == req \in [Requests -> Request] /\ \A r \in Requests : NamesAKey(req[r])

(* Moving one request on to a well-formed record keeps all well formed.    *)
LEMMA ReqUpdate ==
    ASSUME ReqTyped, NEW r \in Requests, NEW q \in Request, NamesAKey(q),
           req' = [req EXCEPT ![r] = q]
    PROVE  ReqTyped'
  BY DEF ReqTyped

(* The records a request moves to.                                         *)
LEMMA RequestRecords ==
    /\ Idle \in Request /\ NamesAKey(Idle)
    /\ [Idle EXCEPT !.phase = "serving"] \in Request
    /\ NamesAKey([Idle EXCEPT !.phase = "serving"])
    /\ \A key \in KeyNames :
          LET q == [Idle EXCEPT !.phase = "validate", !.key = key] IN
          q \in Request /\ NamesAKey(q)
    /\ \A q \in Request :
          LET t == [q EXCEPT !.phase = "serving"] IN
          t \in Request /\ NamesAKey(t)
  BY DEF Request, Idle, NamesAKey, Phases

-----------------------------------------------------------------------------
(* Every state the program reaches is well formed; the bucket clocks never *)
(* run ahead of the clock, which is what keeps a refill non-negative.      *)
ClocksOrdered ==
    \A k \in KeyNames : buckets[k] # NoBucket => buckets[k].lastCheck <= now

LEMMA TypeStep == TypeOK /\ ClocksOrdered /\ [Next]_vars
                    => TypeOK' /\ ClocksOrdered'
<1> SUFFICES ASSUME TypeOK, ClocksOrdered, [Next]_vars
             PROVE  TypeOK' /\ ClocksOrdered'
  OBVIOUS
<1> DEFINE Rest == /\ keys \in [KeyNames -> VK \cup {Unregistered}]
                   /\ buckets \in [KeyNames -> Bucket \cup {NoBucket}]
                   /\ now \in Nat
                   /\ atAdd \in [KeyNames -> Nat]
                   /\ meter \in [KeyNames -> [born : Nat, granted : Nat]]
<1>a. Rest /\ ReqTyped
  BY DEF TypeOK, ReqTyped, Request, NamesAKey
<1>b. Rest' /\ ReqTyped' => TypeOK'
  BY DEF TypeOK, ReqTyped, Request, NamesAKey
<1>1. ASSUME NEW k \in KeyNames, NEW s \in Settings, Add(k, s)
      PROVE  TypeOK' /\ ClocksOrdered'
  <2>1. s \in VK /\ SpendAfterAdd(k, s) \in Nat
    BY SettingsAssumption DEF SpendAfterAdd, VK, TypeOK
  <2>2. [s EXCEPT !.spent = SpendAfterAdd(k, s)] \in VK
    BY <2>1, SpendUpdate
  <2> QED BY <1>1, <2>1, <2>2 DEF Add, TypeOK, ClocksOrdered
<1>2. ASSUME NEW k \in KeyNames, Delete(k)
      PROVE  TypeOK' /\ ClocksOrdered'
  BY <1>2 DEF Delete, TypeOK, NoMeter, ClocksOrdered
<1>3. ASSUME NEW r \in Requests,
             NEW key \in KeyNames \cup MasterKeys \cup {NoHeader}, Arrive(r, key)
      PROVE  TypeOK' /\ ClocksOrdered'
  <2>1. PICK q \in Request : NamesAKey(q) /\ req' = [req EXCEPT ![r] = q]
    BY <1>3, RequestRecords DEF Arrive
  <2>2. ReqTyped'
    BY <1>a, <2>1, ReqUpdate
  <2>3. Rest' /\ ClocksOrdered'
    BY <1>3, <1>a DEF Arrive, ClocksOrdered
  <2> QED BY <1>b, <2>2, <2>3
<1>4. ASSUME NEW r \in Requests, Validate(r)
      PROVE  TypeOK' /\ ClocksOrdered'
  <2>1. req[r].key \in KeyNames
    BY <1>4 DEF Validate, TypeOK
  <2>2. Valid(req[r].key) => keys[req[r].key].rpm \in Nat
    BY <2>1 DEF Valid, TypeOK, VK
  <2> QED BY <1>4, <2>1, <2>2 DEF Validate, Idle, Phases, TypeOK, ClocksOrdered
<1>5. ASSUME NEW r \in Requests, AllowKey(r)
      PROVE  TypeOK' /\ ClocksOrdered'
  <2>1. PICK k \in KeyNames : k = req[r].key
    BY <1>5 DEF AllowKey, TypeOK
  <2>2. /\ UNCHANGED <<keys, now, atAdd>>
        /\ \/ req' = [req EXCEPT ![r] = [@ EXCEPT !.phase = "serving"]]
           \/ req' = [req EXCEPT ![r] = Idle]
    BY <1>5 DEF AllowKey
  <2>3. ReqTyped'
    <3>1. req[r] \in Request
      BY <1>a DEF ReqTyped
    <3>2. PICK q \in Request : NamesAKey(q) /\ req' = [req EXCEPT ![r] = q]
      BY <2>2, <3>1, RequestRecords
    <3> QED BY <1>a, <3>2, ReqUpdate
  <2>4. ASSUME k \in Limited
        PROVE  Token * Burst(keys[k].rpm) \in Nat /\ Token * Burst(keys[k].rpm) >= Token
    <3>1. keys[k].rpm \in Nat
      BY <2>1, <2>4 DEF TypeOK, VK, Limited, Registered
    <3> QED BY <3>1, BurstFacts DEF Token
  <2>5. ASSUME k \in Limited, buckets[k] # NoBucket PROVE Refilled(k) \in Nat
    BY <2>1, <2>5, RefillFacts DEF Limited, Registered, ClocksOrdered
  <2>6. ASSUME NEW t \in Nat, t >= Token, Grant(k, t)
        PROVE  /\ buckets' \in [KeyNames -> Bucket \cup {NoBucket}]
               /\ meter' \in [KeyNames -> [born : Nat, granted : Nat]]
               /\ ClocksOrdered'
    <3>1. now \in Nat /\ now' = now
      BY <1>a, <2>2
    <3>2. [tokens |-> t - Token, lastCheck |-> now] \in Bucket
      BY <2>6, <3>1 DEF Bucket, Token
    <3>3. meter[k] \in [born : Nat, granted : Nat]
      BY <1>a
    <3>4. /\ [born |-> now, granted |-> 1] \in [born : Nat, granted : Nat]
          /\ [meter[k] EXCEPT !.granted = meter[k].granted + 1] \in [born : Nat, granted : Nat]
      BY <3>1, <3>3
    <3>5. buckets' \in [KeyNames -> Bucket \cup {NoBucket}]
      BY <1>a, <2>6, <3>2 DEF Grant
    <3>6. meter' \in [KeyNames -> [born : Nat, granted : Nat]]
      BY <1>a, <2>6, <3>4 DEF Grant
    <3>7. ClocksOrdered'
      BY <1>a, <2>6, <3>1, <3>2 DEF Grant, ClocksOrdered
    <3> QED BY <3>5, <3>6, <3>7
  <2>7. CASE k \notin Limited
    BY <1>5, <1>a, <1>b, <2>1, <2>2, <2>3, <2>7 DEF AllowKey, ClocksOrdered
  <2>8. CASE k \in Limited /\ buckets[k] = NoBucket
    <3>1. Grant(k, Token * Burst(keys[k].rpm))
      BY <1>5, <2>1, <2>8 DEF AllowKey
    <3> QED BY <1>a, <1>b, <2>2, <2>3, <2>4, <2>6, <2>8, <3>1
  <2>9. CASE k \in Limited /\ buckets[k] # NoBucket /\ Refilled(k) >= Token
    <3>1. Grant(k, Refilled(k))
      BY <1>5, <2>1, <2>5, <2>9 DEF AllowKey, Token
    <3> QED BY <1>a, <1>b, <2>2, <2>3, <2>5, <2>6, <2>9, <3>1
  <2>10. CASE k \in Limited /\ buckets[k] # NoBucket /\ ~(Refilled(k) >= Token)
    <3>1. /\ buckets' = [buckets EXCEPT ![k] = [tokens |-> Refilled(k),
                                               lastCheck |-> now]]
          /\ UNCHANGED meter
      BY <1>5, <2>1, <2>10 DEF AllowKey
    <3>2. [tokens |-> Refilled(k), lastCheck |-> now] \in Bucket
      BY <1>a, <2>5, <2>10 DEF Bucket
    <3> QED BY <1>a, <1>b, <2>2, <2>3, <3>1, <3>2 DEF ClocksOrdered
  <2> QED BY <2>7, <2>8, <2>9, <2>10
<1>6. ASSUME NEW r \in Requests, NEW cost \in 0..MaxCost, Finish(r, cost)
      PROVE  TypeOK' /\ ClocksOrdered'
  <2>1. ReqTyped'
    BY <1>6, <1>a, RequestRecords, ReqUpdate DEF Finish
  <2>2. keys' \in [KeyNames -> VK \cup {Unregistered}]
    <3>1. CASE req[r].key \in Registered
      <4>1. PICK k \in KeyNames : k = req[r].key /\ keys[k] \in VK
        BY <1>a, <3>1 DEF Registered
      <4>2. keys[k].spent + cost \in Nat
        BY <4>1, NumbersAssumption DEF VK
      <4>3. [keys[k] EXCEPT !.spent = keys[k].spent + cost] \in VK
        BY <4>1, <4>2, SpendUpdate
      <4>4. keys' = [keys EXCEPT
                       ![k] = [keys[k] EXCEPT !.spent = keys[k].spent + cost]]
        BY <1>6, <3>1, <4>1 DEF Finish, RecordSpend
      <4> QED BY <1>a, <4>3, <4>4
    <3>2. CASE req[r].key \notin Registered
      BY <1>6, <1>a, <3>2 DEF Finish
    <3> QED BY <3>1, <3>2
  <2>3. UNCHANGED <<buckets, now, atAdd, meter>>
    BY <1>6 DEF Finish
  <2> QED BY <1>a, <1>b, <2>1, <2>2, <2>3 DEF ClocksOrdered
<1>7. ASSUME Tick PROVE TypeOK' /\ ClocksOrdered'
  BY <1>7 DEF Tick, TypeOK, Bucket, ClocksOrdered
<1>8. CASE UNCHANGED vars
  BY <1>8 DEF vars, TypeOK, ClocksOrdered
<1> QED BY <1>1, <1>2, <1>3, <1>4, <1>5, <1>6, <1>7, <1>8 DEF Next

(* TypeOK holds in every reachable state.                                  *)
THEOREM TypeCorrect == Spec => [](TypeOK /\ ClocksOrdered)
<1>1. Init => TypeOK /\ ClocksOrdered
  BY SettingsAssumption
     DEF Init, TypeOK, ClocksOrdered, Idle, NoMeter, Phases, VK
<1> QED BY <1>1, TypeStep, PTL DEF Spec
-----------------------------------------------------------------------------
(* The arithmetic the bounds rest on.                                      *)
LEMMA TimesMonotone ==
    ASSUME NEW a \in Nat, NEW b \in Nat, NEW c \in Nat, b <= c
    PROVE  /\ a * b \in Nat /\ a * c \in Nat /\ a * b <= a * c
           /\ b * a \in Nat /\ c * a \in Nat /\ b * a <= c * a
<1>1. PICK d \in Nat : c = b + d
  <2>1. c - b \in Nat /\ c = b + (c - b)
    OBVIOUS
  <2> QED BY <2>1
<1>2. a * d \in Nat /\ a * b \in Nat /\ a * c = a * b + a * d
  BY <1>1
<1>3. b * a = a * b /\ c * a = a * c
  OBVIOUS
<1> QED BY <1>2, <1>3

LEMMA TimesSplit ==
    ASSUME NEW a \in Int, NEW b \in Int, NEW c \in Int, NEW m \in Int
    PROVE  (a - b) * m + (b - c) * m = (a - c) * m
  OBVIOUS

LEMMA TimesNext ==
    ASSUME NEW n \in Int, NEW m \in Int
    PROVE  (n + 1) * m = n * m + m /\ (n - 1) * m = n * m - m
  OBVIOUS

-----------------------------------------------------------------------------
(* Settings come only from the administrator, within MaxRPM.               *)
LEMMA RatesStep ==
    TypeOK /\ RatesBounded /\ [Next]_vars => RatesBounded'
<1> SUFFICES ASSUME TypeOK, RatesBounded, [Next]_vars PROVE RatesBounded'
  OBVIOUS
<1>1. ASSUME NEW k \in KeyNames, NEW s \in Settings, Add(k, s)
      PROVE  RatesBounded'
  <2>1. s \in VK /\ s.rpm <= MaxRPM /\ SpendAfterAdd(k, s) \in Nat
    BY SettingsAssumption DEF SpendAfterAdd, VK, TypeOK
  <2>2. [s EXCEPT !.spent = SpendAfterAdd(k, s)].rpm = s.rpm
    BY <2>1, SpendUpdate
  <2> QED BY <1>1, <2>1, <2>2 DEF Add, RatesBounded, Registered, TypeOK
<1>2. ASSUME NEW k \in KeyNames, Delete(k) PROVE RatesBounded'
  BY <1>2 DEF Delete, RatesBounded, Registered, TypeOK
<1>3. ASSUME NEW r \in Requests, NEW cost \in 0..MaxCost, Finish(r, cost)
      PROVE  RatesBounded'
  <2>1. CASE req[r].key \in Registered
    <3>1. PICK k \in Registered : k = req[r].key /\ keys[k] \in VK
      BY <2>1 DEF Registered, TypeOK
    <3>2. keys[k].spent + cost \in Nat
      BY <3>1, NumbersAssumption DEF VK
    <3>3. keys' = [keys EXCEPT
                     ![k] = [keys[k] EXCEPT !.spent = keys[k].spent + cost]]
      BY <1>3, <2>1, <3>1 DEF Finish, RecordSpend
    <3>4. [keys[k] EXCEPT !.spent = keys[k].spent + cost].rpm = keys[k].rpm
      BY <3>1, <3>2, SpendUpdate
    <3> QED BY <3>1, <3>3, <3>4 DEF RatesBounded, Registered, TypeOK
  <2>2. CASE req[r].key \notin Registered
    BY <1>3, <2>2 DEF Finish, RatesBounded, Registered
  <2> QED BY <2>1, <2>2
<1>4. CASE UNCHANGED keys
  BY <1>4 DEF RatesBounded, Registered
<1> QED BY <1>1, <1>2, <1>3, <1>4
        DEF Next, vars, Arrive, Validate, AllowKey, Tick

(* Only AllowKey makes a bucket, under a key it has just looked up; only   *)
(* Delete removes a key, and the bucket goes with it.                      *)
LEMMA OrphanStep ==
    TypeOK /\ NoOrphanBucket /\ [Next]_vars => NoOrphanBucket'
<1> SUFFICES ASSUME TypeOK, NoOrphanBucket, [Next]_vars PROVE NoOrphanBucket'
  OBVIOUS
<1>1. ASSUME NEW k \in KeyNames, NEW s \in Settings, Add(k, s)
      PROVE  NoOrphanBucket'
  <2>1. s \in VK /\ SpendAfterAdd(k, s) \in Nat
    BY SettingsAssumption DEF SpendAfterAdd, VK, TypeOK
  <2>2. [s EXCEPT !.spent = SpendAfterAdd(k, s)] # Unregistered
    BY <2>1, SpendUpdate, AbsentAssumption
  <2> QED BY <1>1, <2>2 DEF Add, NoOrphanBucket, TypeOK
<1>2. ASSUME NEW k \in KeyNames, Delete(k) PROVE NoOrphanBucket'
  BY <1>2 DEF Delete, NoOrphanBucket, TypeOK
<1>3. ASSUME NEW r \in Requests, AllowKey(r) PROVE NoOrphanBucket'
  <2>1. PICK k \in KeyNames : k = req[r].key
    BY <1>3 DEF AllowKey, TypeOK
  <2>2. keys' = keys
    BY <1>3 DEF AllowKey
  <2>3. CASE k \in Limited
    <3>1. \A j \in KeyNames : j # k => buckets'[j] = buckets[j]
      BY <1>3, <2>1, <2>3 DEF AllowKey, Grant, TypeOK
    <3> QED BY <2>2, <2>3, <3>1 DEF NoOrphanBucket, Limited, Registered
  <2>4. CASE k \notin Limited
    BY <1>3, <2>1, <2>2, <2>4 DEF AllowKey, NoOrphanBucket
  <2> QED BY <2>3, <2>4
<1>4. ASSUME NEW r \in Requests, NEW cost \in 0..MaxCost, Finish(r, cost)
      PROVE  NoOrphanBucket'
  <2>1. CASE req[r].key \in Registered
    <3>1. PICK k \in Registered : k = req[r].key /\ keys[k] \in VK
      BY <2>1 DEF Registered, TypeOK
    <3>2. keys[k].spent + cost \in Nat
      BY <3>1, NumbersAssumption DEF VK
    <3>3. keys' = [keys EXCEPT
                     ![k] = [keys[k] EXCEPT !.spent = keys[k].spent + cost]]
      BY <1>4, <2>1, <3>1 DEF Finish, RecordSpend
    <3>4. [keys[k] EXCEPT !.spent = keys[k].spent + cost] # Unregistered
      BY <3>1, <3>2, SpendUpdate, AbsentAssumption
    <3> QED BY <1>4, <3>3, <3>4 DEF Finish, NoOrphanBucket, TypeOK
  <2>2. CASE req[r].key \notin Registered
    BY <1>4, <2>2 DEF Finish, NoOrphanBucket
  <2> QED BY <2>1, <2>2
<1>5. CASE UNCHANGED <<keys, buckets>>
  BY <1>5 DEF NoOrphanBucket
<1> QED BY <1>1, <1>2, <1>3, <1>4, <1>5 DEF Next, vars, Arrive, Validate, Tick

(* NoOrphanBucket: no bucket outlives its key, in any order of requests    *)
(* and administrators.                                                     *)
THEOREM NoOrphan == Spec => []NoOrphanBucket
<1>1. Init => NoOrphanBucket
  BY DEF Init, NoOrphanBucket
<1> QED BY <1>1, OrphanStep, TypeCorrect, PTL DEF Spec
-----------------------------------------------------------------------------
(* What one bucket has granted and still holds, against what it may grant. *)
GrantBound(k) ==
    /\ meter[k].born <= buckets[k].lastCheck
    /\ buckets[k].lastCheck <= now
    /\ buckets[k].tokens <= Token * Burst(MaxRPM)
    /\ Token * meter[k].granted + buckets[k].tokens
          <= Token * Burst(MaxRPM)
             + (buckets[k].lastCheck - meter[k].born) * MaxRPM

(* A refill moves the bucket's clock to now and adds no more than MaxRPM   *)
(* for each second it moves.                                               *)
LEMMA RefillWithinBound ==
    ASSUME TypeOK, RatesBounded, NEW k \in Limited, buckets[k] # NoBucket,
           GrantBound(k)
    PROVE  /\ Refilled(k) \in Nat
           /\ Refilled(k) <= Token * Burst(MaxRPM)
           /\ Token * meter[k].granted + Refilled(k)
                 <= Token * Burst(MaxRPM) + (now - meter[k].born) * MaxRPM
<1>1. /\ k \in KeyNames /\ keys[k] # Unregistered
      /\ keys[k].rpm \in Nat /\ keys[k].rpm <= MaxRPM
      /\ buckets[k].tokens \in Nat /\ buckets[k].lastCheck \in Nat
      /\ meter[k].born \in Nat /\ meter[k].granted \in Nat
      /\ now \in Nat /\ MaxRPM \in Nat
  BY NumbersAssumption
     DEF Limited, Registered, TypeOK, VK, Bucket, RatesBounded
<1> DEFINE last == buckets[k].lastCheck
           born == meter[k].born
           rpm  == keys[k].rpm
<1>2. last <= now /\ born <= last
  BY DEF GrantBound
<1>3. Refilled(k) \in Nat /\ Refilled(k) <= buckets[k].tokens + (now - last) * rpm
  BY <1>1, <1>2, RefillFacts
<1>4. (now - last) * rpm \in Nat /\ (now - last) * rpm <= (now - last) * MaxRPM
      /\ (now - last) * MaxRPM \in Nat
  <2>1. now - last \in Nat
    BY <1>1, <1>2
  <2> QED BY <2>1, <1>1, TimesMonotone
<1>5. (now - last) * MaxRPM + (last - born) * MaxRPM = (now - born) * MaxRPM
  BY <1>1, TimesSplit
<1>6. (last - born) * MaxRPM \in Nat /\ (now - born) * MaxRPM \in Nat
  <2>1. last - born \in Nat /\ now - born \in Nat
    BY <1>1, <1>2
  <2> QED BY <2>1, <1>1, TimesMonotone
<1>7. Token * Burst(MaxRPM) \in Nat /\ Token * meter[k].granted \in Nat
  BY <1>1, BurstFacts DEF Token
<1>8. Token * meter[k].granted + buckets[k].tokens
         <= Token * Burst(MaxRPM) + (last - born) * MaxRPM
  BY DEF GrantBound
<1>9. Refilled(k) <= Token * Burst(MaxRPM)
  <2>1. Refilled(k) <= Token * Burst(rpm)
    BY <1>1, <1>2, RefillFacts
  <2>2. Burst(rpm) \in Nat /\ Burst(MaxRPM) \in Nat /\ Burst(rpm) <= Burst(MaxRPM)
    BY <1>1, BurstFacts
  <2> QED BY <1>3, <2>1, <2>2 DEF Token
<1>10. Token * meter[k].granted + Refilled(k)
          <= Token * Burst(MaxRPM) + (now - born) * MaxRPM
  <2> HIDE DEF last, born, rpm
  <2> QED BY <1>1, <1>3, <1>4, <1>5, <1>6, <1>7, <1>8 DEF last, born, rpm
<1> QED BY <1>3, <1>9, <1>10

LEMMA GrantsStep ==
    TypeOK /\ RatesBounded /\ GrantsBounded /\ [Next]_vars => GrantsBounded'
<1> SUFFICES ASSUME TypeOK, RatesBounded, GrantsBounded, [Next]_vars
             PROVE  GrantsBounded'
  OBVIOUS
<1>a. \A k \in KeyNames : buckets[k] # NoBucket => GrantBound(k)
  BY DEF GrantsBounded, GrantBound
<1>b. (\A k \in KeyNames : (buckets[k] # NoBucket)' => GrantBound(k)')
        => GrantsBounded'
  BY DEF GrantsBounded, GrantBound
<1>1. ASSUME NEW k \in KeyNames, Delete(k) PROVE GrantsBounded'
  <2>1. \A j \in KeyNames : buckets'[j] # NoBucket =>
            buckets'[j] = buckets[j] /\ meter'[j] = meter[j] /\ now' = now
    BY <1>1 DEF Delete, TypeOK
  <2> QED BY <1>a, <1>b, <2>1 DEF Delete, TypeOK, GrantBound
<1>2. ASSUME NEW r \in Requests, AllowKey(r) PROVE GrantsBounded'
  <2>1. PICK k \in KeyNames : k = req[r].key
    BY <1>2 DEF AllowKey, TypeOK
  <2>2. now' = now /\ now \in Nat
    BY <1>2 DEF AllowKey, TypeOK
  <2>3. CASE k \notin Limited
    BY <1>2, <2>1, <2>3 DEF AllowKey, GrantsBounded
  <2>4. CASE k \in Limited
    <3>1. \A j \in KeyNames : j # k =>
             buckets'[j] = buckets[j] /\ meter'[j] = meter[j]
      BY <1>2, <2>1, <2>4 DEF AllowKey, Grant, TypeOK
    <3>2. GrantBound(k)'
      <4>1. keys[k].rpm \in Nat /\ keys[k].rpm <= MaxRPM /\ MaxRPM \in Nat
        BY <2>4, NumbersAssumption DEF Limited, Registered, TypeOK, VK, RatesBounded
      <4>2. /\ Token * Burst(keys[k].rpm) <= Token * Burst(MaxRPM)
            /\ Token * Burst(keys[k].rpm) \in Nat /\ Token * Burst(MaxRPM) \in Nat
        BY <4>1, BurstFacts DEF Token
      <4>3. CASE buckets[k] = NoBucket
        <5>1. /\ buckets'[k] = [tokens |-> Token * Burst(keys[k].rpm) - Token,
                                lastCheck |-> now]
              /\ meter'[k] = [born |-> now, granted |-> 1]
          BY <1>2, <2>1, <2>4, <4>3 DEF AllowKey, Grant, TypeOK
        <5>2. (now - now) * MaxRPM = 0
          BY <2>2, <4>1
        <5> QED BY <2>2, <4>2, <5>1, <5>2 DEF GrantBound, Token
      <4>4. CASE buckets[k] # NoBucket
        <5>1. GrantBound(k)
          BY <1>a, <4>4
        <5>2. /\ Refilled(k) \in Nat
              /\ Refilled(k) <= Token * Burst(MaxRPM)
              /\ Token * meter[k].granted + Refilled(k)
                    <= Token * Burst(MaxRPM) + (now - meter[k].born) * MaxRPM
          BY <2>4, <4>4, <5>1, RefillWithinBound
        <5>3. /\ meter[k] \in [born : Nat, granted : Nat]
              /\ buckets[k] \in Bucket
          BY <4>4 DEF TypeOK
        <5>4. (now - meter[k].born) * MaxRPM \in Nat
          BY <2>2, <4>1, <5>1, <5>3, TimesMonotone DEF GrantBound, Bucket
        <5>5. CASE Refilled(k) >= Token
          <6>1. /\ buckets'[k] = [tokens |-> Refilled(k) - Token, lastCheck |-> now]
                /\ meter'[k].born = meter[k].born
                /\ meter'[k].granted = meter[k].granted + 1
            BY <1>2, <2>1, <2>4, <4>4, <5>2, <5>3, <5>5
               DEF AllowKey, Grant, TypeOK, Token
          <6> QED BY <2>2, <4>2, <5>1, <5>2, <5>3, <5>4, <6>1
                  DEF GrantBound, Token, Bucket
        <5>6. CASE ~(Refilled(k) >= Token)
          <6>1. /\ buckets'[k] = [tokens |-> Refilled(k), lastCheck |-> now]
                /\ meter'[k] = meter[k]
            BY <1>2, <2>1, <2>4, <4>4, <5>2, <5>6 DEF AllowKey, TypeOK, Token
          <6> QED BY <2>2, <4>2, <5>1, <5>2, <5>3, <5>4, <6>1
                  DEF GrantBound, Token, Bucket
        <5> QED BY <5>5, <5>6
      <4> QED BY <4>3, <4>4
    <3> QED BY <1>a, <1>b, <2>2, <3>1, <3>2 DEF GrantBound
  <2> QED BY <2>3, <2>4
<1>3. CASE Tick
  BY <1>3 DEF Tick, GrantsBounded, TypeOK, Bucket
<1>4. CASE UNCHANGED <<buckets, meter, now>>
  BY <1>4 DEF GrantsBounded
<1> QED BY <1>1, <1>2, <1>3, <1>4 DEF Next, vars, Add, Arrive, Validate, Finish

(* GrantsBounded: a key's limiter grants at most a burst and the refill at *)
(* MaxRPM, whatever the administrators do to its limit.                    *)
THEOREM GrantsAreBounded == Spec => []GrantsBounded
<1>1. Init => RatesBounded /\ GrantsBounded
  BY SettingsAssumption DEF Init, RatesBounded, GrantsBounded, Registered
<1> QED BY <1>1, RatesStep, GrantsStep, TypeCorrect, PTL DEF Spec
-----------------------------------------------------------------------------
(* The overshoot of one key, with the requests that may still be charged.  *)
Slack(k) ==
    \/ keys[k].spent + Cardinality(Charging(k)) * MaxCost
          < keys[k].budget + Cardinality(Requests) * MaxCost
    \/ keys[k].spent + Cardinality(Charging(k)) * MaxCost
          <= atAdd[k] + Cardinality(Requests) * MaxCost

(* At most all requests may still be charged to a key.                     *)
LEMMA ChargingFacts ==
    ASSUME NEW k
    PROVE  /\ IsFiniteSet(Charging(k))
           /\ Cardinality(Charging(k)) \in Nat
           /\ Cardinality(Requests) \in Nat
           /\ Cardinality(Charging(k)) <= Cardinality(Requests)
           /\ Cardinality(Charging(k)) * MaxCost \in Nat
           /\ Cardinality(Requests) * MaxCost \in Nat
           /\ Cardinality(Charging(k)) * MaxCost <= Cardinality(Requests) * MaxCost
<1>1. Charging(k) \in SUBSET Requests
  BY DEF Charging
<1>2. /\ IsFiniteSet(Charging(k))
      /\ Cardinality(Charging(k)) <= Cardinality(Requests)
  BY <1>1, RequestsAssumption, FS_Subset
<1>3. Cardinality(Charging(k)) \in Nat /\ Cardinality(Requests) \in Nat
  BY <1>2, RequestsAssumption, FS_CardinalityType
<1> QED BY <1>2, <1>3, NumbersAssumption, TimesMonotone

(* A step that changes neither the key's settings nor its spend, and adds  *)
(* no request to those that may be charged to it, keeps its slack.         *)
LEMMA SlackKept ==
    ASSUME TypeOK, NEW k \in Registered, Slack(k), atAdd'[k] = atAdd[k],
           keys'[k] = keys[k], Charging(k)' \subseteq Charging(k)
    PROVE  Slack(k)'
<1>1. keys[k].spent \in Nat /\ keys[k].budget \in Nat /\ atAdd[k] \in Nat
  BY DEF TypeOK, Registered, VK
<1>2. /\ Cardinality(Charging(k)') <= Cardinality(Charging(k))
      /\ Cardinality(Charging(k)') \in Nat
  BY ChargingFacts, FS_Subset, FS_CardinalityType
<1>3. /\ Cardinality(Charging(k)') * MaxCost <= Cardinality(Charging(k)) * MaxCost
      /\ Cardinality(Charging(k)') * MaxCost \in Nat
  BY <1>2, ChargingFacts, NumbersAssumption, TimesMonotone
<1> QED BY <1>1, <1>3, ChargingFacts DEF Slack

LEMMA OvershootStep ==
    TypeOK /\ TypeOK' /\ OvershootBounded /\ [Next]_vars => OvershootBounded'
<1> SUFFICES ASSUME TypeOK, TypeOK', OvershootBounded, [Next]_vars,
                    NEW k \in KeyNames, keys'[k] # Unregistered,
                    keys'[k].budget > 0
             PROVE  Slack(k)'
  BY DEF OvershootBounded, Slack, Registered
<1>a. keys[k] # Unregistered /\ keys[k].budget > 0 => k \in Registered /\ Slack(k)
  BY DEF OvershootBounded, Slack, Registered
<1>1. ASSUME NEW j \in KeyNames, NEW s \in Settings, Add(j, s)
      PROVE  Slack(k)'
  <2>1. Charging(k)' = Charging(k)
    BY <1>1 DEF Add, Charging
  <2>2. CASE j = k
    <3>1. s \in VK /\ SpendAfterAdd(k, s) \in Nat
      BY SettingsAssumption DEF SpendAfterAdd, VK, TypeOK
    <3>2. /\ keys'[k] = [s EXCEPT !.spent = SpendAfterAdd(k, s)]
          /\ atAdd'[k] = SpendAfterAdd(k, s)
      BY <1>1, <2>2 DEF Add, TypeOK
    <3>3. keys'[k].spent = atAdd'[k] /\ atAdd'[k] \in Nat
      BY <3>1, <3>2, SpendUpdate
    <3> QED BY <2>1, <3>3, ChargingFacts DEF Slack
  <2>3. CASE j # k
    <3>1. keys'[k] = keys[k] /\ atAdd'[k] = atAdd[k]
      BY <1>1, <2>3 DEF Add, TypeOK
    <3> QED BY <1>a, <2>1, <3>1, SlackKept
  <2> QED BY <2>2, <2>3
<1>2. ASSUME NEW j \in KeyNames, Delete(j) PROVE Slack(k)'
  <2>1. keys'[k] = keys[k] /\ atAdd'[k] = atAdd[k] /\ Charging(k)' = Charging(k)
    BY <1>2 DEF Delete, TypeOK, Charging
  <2> QED BY <1>a, <2>1, SlackKept
<1>3. ASSUME NEW r \in Requests,
             NEW key \in KeyNames \cup MasterKeys \cup {NoHeader}, Arrive(r, key)
      PROVE  Slack(k)'
  <2>1. /\ keys'[k] = keys[k] /\ atAdd'[k] = atAdd[k]
        /\ \A q \in Requests : q # r => req'[q] = req[q]
        /\ \/ req'[r] = [Idle EXCEPT !.phase = "serving"]
           \/ req'[r] = [Idle EXCEPT !.phase = "validate", !.key = key]
    BY <1>3 DEF Arrive, TypeOK
  <2>2. req'[r].key = NoHeader \/ req'[r].phase = "validate"
    BY <2>1 DEF Idle
  <2>3. r \notin Charging(k)'
    BY <2>2, NamesAssumption DEF Charging
  <2>4. Charging(k)' \subseteq Charging(k)
    BY <2>1, <2>3 DEF Charging
  <2> QED BY <1>a, <2>1, <2>4, SlackKept
<1>4. ASSUME NEW r \in Requests, Validate(r) PROVE Slack(k)'
  <2>1. keys'[k] = keys[k] /\ atAdd'[k] = atAdd[k]
    BY <1>4 DEF Validate
  <2>2. CASE req[r].key = k /\ Valid(k)
    <3>1. keys[k].spent < keys[k].budget
      BY <2>1, <2>2 DEF Valid, OverBudget, TypeOK, VK
    <3>2. keys[k].spent \in Nat /\ keys[k].budget \in Nat
      BY <2>1 DEF TypeOK, VK
    <3>3. /\ Cardinality(Charging(k)') * MaxCost \in Nat
          /\ Cardinality(Charging(k)') * MaxCost <= Cardinality(Requests) * MaxCost
      <4>1. Charging(k)' \in SUBSET Requests
        BY DEF Charging
      <4>2. /\ Cardinality(Charging(k)') \in Nat
            /\ Cardinality(Charging(k)') <= Cardinality(Requests)
        BY <4>1, RequestsAssumption, FS_Subset, FS_CardinalityType
      <4> QED BY <4>2, ChargingFacts, NumbersAssumption, TimesMonotone
    <3> QED BY <2>1, <3>1, <3>2, <3>3, ChargingFacts DEF Slack
  <2>3. CASE ~(req[r].key = k /\ Valid(k))
    <3>1. /\ \A q \in Requests : q # r => req'[q] = req[q]
          /\ req'[r] = Idle \/ req'[r].key = req[r].key
          /\ Valid(req[r].key) \/ req'[r] = Idle
      BY <1>4 DEF Validate, TypeOK
    <3>2. r \notin Charging(k)'
      BY <2>3, <3>1, NamesAssumption DEF Charging, Idle
    <3>3. Charging(k)' \subseteq Charging(k)
      BY <3>1, <3>2 DEF Charging
    <3> QED BY <1>a, <2>1, <3>3, SlackKept
  <2> QED BY <2>2, <2>3
<1>5. ASSUME NEW r \in Requests, AllowKey(r) PROVE Slack(k)'
  <2>1. /\ keys'[k] = keys[k] /\ atAdd'[k] = atAdd[k]
        /\ req[r].phase = "limit"
        /\ \/ req' = [req EXCEPT ![r].phase = "serving"]
           \/ req' = [req EXCEPT ![r] = Idle]
    BY <1>5 DEF AllowKey
  <2>2. /\ \A q \in Requests : q # r => req'[q] = req[q]
        /\ req'[r] = Idle \/ req'[r].key = req[r].key
    BY <2>1 DEF TypeOK
  <2>3. Charging(k)' \subseteq Charging(k)
    BY <2>1, <2>2, NamesAssumption DEF Charging, Idle
  <2> QED BY <1>a, <2>1, <2>3, SlackKept
<1>6. ASSUME NEW r \in Requests, NEW cost \in 0..MaxCost, Finish(r, cost)
      PROVE  Slack(k)'
  <2>1. /\ atAdd' = atAdd /\ req[r].phase = "serving" /\ r \in Requests
        /\ \A q \in Requests : q # r => req'[q] = req[q]
        /\ req'[r] = Idle
    BY <1>6 DEF Finish, TypeOK
  <2>2. Charging(k)' = Charging(k) \ {r}
    BY <2>1, NamesAssumption DEF Charging, Idle
  <2>3. CASE k # req[r].key \/ k \notin Registered
    <3>1. keys'[k] = keys[k]
      BY <1>6, <2>3 DEF Finish, RecordSpend, TypeOK, Registered
    <3> QED BY <1>a, <2>1, <2>2, <3>1, SlackKept
  <2>4. CASE k = req[r].key /\ k \in Registered
    <3>1. /\ keys[k] \in VK
          /\ keys[k].spent + cost \in Nat /\ keys[k].spent \in Nat
          /\ keys[k].budget \in Nat /\ cost \in Nat /\ cost <= MaxCost
          /\ atAdd[k] \in Nat /\ MaxCost \in Nat
      BY <2>4, NumbersAssumption DEF TypeOK, VK, Registered
    <3>2. keys' = [keys EXCEPT
                     ![k] = [keys[k] EXCEPT !.spent = keys[k].spent + cost]]
      BY <1>6, <2>4 DEF Finish, RecordSpend
    <3>3. /\ keys'[k].spent = keys[k].spent + cost
          /\ keys'[k].budget = keys[k].budget
      BY <3>1, <3>2, SpendUpdate DEF TypeOK
    <3>4. r \in Charging(k)
      BY <2>1, <2>4 DEF Charging
    <3>5. Cardinality(Charging(k)') = Cardinality(Charging(k)) - 1
      BY <2>2, <3>4, ChargingFacts, FS_RemoveElement
    <3>6. Cardinality(Charging(k)') * MaxCost
             = Cardinality(Charging(k)) * MaxCost - MaxCost
      BY <3>1, <3>5, ChargingFacts, TimesNext
    <3>7. Slack(k)
      BY <1>a, <2>4, <3>3 DEF Registered
    <3> QED BY <2>1, <3>1, <3>3, <3>6, <3>7, ChargingFacts DEF Slack
  <2> QED BY <2>3, <2>4
<1>7. CASE UNCHANGED <<keys, atAdd, req>>
  <2>1. Charging(k)' = Charging(k) /\ keys'[k] = keys[k] /\ atAdd'[k] = atAdd[k]
    BY <1>7 DEF Charging
  <2> QED BY <1>a, <2>1, SlackKept
<1> QED BY <1>1, <1>2, <1>3, <1>4, <1>5, <1>6, <1>7 DEF Next, vars, Tick

(* OvershootBounded: however many requests, administrators and charges     *)
(* interleave, a key overshoots its budget by less than one response per   *)
(* request that can be in flight.                                          *)
THEOREM OvershootIsBounded == Spec => []OvershootBounded
<1>1. Init => OvershootBounded
  <2> SUFFICES ASSUME Init, NEW k \in KeyNames, keys[k] # Unregistered
               PROVE  Slack(k)
    BY DEF OvershootBounded, Slack, Registered
  <2>1. keys[k].spent \in Nat /\ atAdd[k] = keys[k].spent
    BY SettingsAssumption DEF Init, VK
  <2> QED BY <2>1, ChargingFacts DEF Slack
<1> QED BY <1>1, OvershootStep, TypeCorrect, PTL DEF Spec
-----------------------------------------------------------------------------
(* SpendKept: while a key stays registered, its spend goes down only when  *)
(* an administrator posts it with a spend of its own.                      *)
THEOREM SpendIsKept == Spec => SpendKept
<1> DEFINE Kept == \A k \in Registered :
                      keys'[k] # Unregistered /\ keys'[k].spent < keys[k].spent
                         => \E s \in Settings : s.spent > 0 /\ keys'[k] = s
<1>1. TypeOK /\ [Next]_vars => [Kept]_vars
  <2> SUFFICES ASSUME TypeOK, Next, NEW k \in Registered,
                      keys'[k] # Unregistered, keys'[k].spent < keys[k].spent
               PROVE  \E s \in Settings : s.spent > 0 /\ keys'[k] = s
    OBVIOUS
  <2>1. k \in KeyNames /\ keys[k] \in VK /\ keys[k].spent \in Nat
    BY DEF Registered, TypeOK, VK
  <2>2. ASSUME NEW j \in KeyNames, NEW s \in Settings, Add(j, s)
        PROVE  \E t \in Settings : t.spent > 0 /\ keys'[k] = t
    <3>1. CASE j # k
      BY <2>1, <2>2, <3>1 DEF Add, TypeOK
    <3>2. CASE j = k
      <4>1. s \in VK /\ s.spent \in Nat /\ SpendAfterAdd(k, s) \in Nat
        BY <2>1, SettingsAssumption DEF SpendAfterAdd, VK
      <4>2. keys'[k] = [s EXCEPT !.spent = SpendAfterAdd(k, s)]
        BY <2>1, <2>2, <3>2 DEF Add, TypeOK
      <4>3. keys'[k].spent = SpendAfterAdd(k, s)
        BY <4>1, <4>2, SpendUpdate
      <4>4. CASE s.spent = 0
        BY <2>1, <4>3, <4>4 DEF SpendAfterAdd, Registered
      <4>5. CASE s.spent > 0
        <5>1. SpendAfterAdd(k, s) = s.spent
          BY <4>5 DEF SpendAfterAdd
        <5>2. keys'[k] = s
          BY <4>1, <4>2, <5>1 DEF VK
        <5> QED BY <4>5, <5>2
      <4> QED BY <4>1, <4>4, <4>5
    <3> QED BY <3>1, <3>2
  <2>3. ASSUME NEW j \in KeyNames, Delete(j)
        PROVE  \E t \in Settings : t.spent > 0 /\ keys'[k] = t
    BY <2>1, <2>3 DEF Delete, TypeOK
  <2>4. ASSUME NEW r \in Requests, NEW cost \in 0..MaxCost, Finish(r, cost)
        PROVE  \E t \in Settings : t.spent > 0 /\ keys'[k] = t
    <3>1. CASE k # req[r].key
      BY <2>1, <2>4, <3>1 DEF Finish, RecordSpend, TypeOK
    <3>2. CASE k = req[r].key
      <4>1. keys' = [keys EXCEPT
                       ![k] = [keys[k] EXCEPT !.spent = keys[k].spent + cost]]
        BY <2>4, <3>2 DEF Finish, RecordSpend
      <4>2. keys[k].spent + cost \in Nat /\ cost \in Nat
        BY <2>1, NumbersAssumption
      <4>3. keys'[k].spent = keys[k].spent + cost
        BY <2>1, <4>1, <4>2, SpendUpdate DEF TypeOK
      <4> QED BY <2>1, <4>2, <4>3
    <3> QED BY <3>1, <3>2
  <2>5. CASE UNCHANGED keys
    BY <2>1, <2>5
  <2> QED BY <2>2, <2>3, <2>4, <2>5 DEF Next, Arrive, Validate, AllowKey, Tick
<1> QED BY <1>1, TypeCorrect, PTL DEF Spec, SpendKept

=============================================================================
