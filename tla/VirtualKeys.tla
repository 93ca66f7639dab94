---------------------------- MODULE VirtualKeys ----------------------------
(***************************************************************************)
(* Virtual API keys: the VirtualKeyManager of internal/domain, the         *)
(* AuthMiddleware that admits a request under a key, the administrator's   *)
(* /api/virtual-keys handler, and the charge a finished request makes.     *)
(*                                                                         *)
(* Every manager method holds the manager's lock for its whole body, so a  *)
(* method is one action; an HTTP request is a process that calls several   *)
(* of them, and the administrator and other requests run in between.       *)
(* Money is counted in whole units, time in seconds, and tokens in         *)
(* sixtieths of a token, so that a second refills exactly rpm sixtieths.   *)
(***************************************************************************)
EXTENDS Integers, FiniteSets

CONSTANTS
    KeyNames,     \* the (trimmed) strings virtual keys are registered under
    MasterKeys,   \* the keys of cfg.Server.MasterKeys
    NoHeader,     \* a request that carries no API key
    Requests,     \* the requests that can be in flight at once
    Settings,     \* the key settings an administrator may post
    MaxCost,      \* no single response costs more than this
    MaxRPM,       \* no key is given a larger rate limit than this
    MaxTime,      \* bound on the clock
    MaxSpent,     \* bound on the spend a key accumulates
    Unregistered, \* what the key map holds for an absent key
    NoBucket,     \* what the bucket map holds for an absent bucket
    Never         \* the expiry of a key that has none

VK == [enabled : BOOLEAN, expiresAt : Nat \cup {Never}, budget : Nat,
       spent : Nat, rpm : Nat]

Bucket == [tokens : Nat, lastCheck : Nat]

ASSUME RequestsAssumption == IsFiniteSet(Requests)
ASSUME SettingsAssumption == /\ Settings \subseteq VK
                             /\ \A s \in Settings : s.rpm <= MaxRPM
ASSUME NumbersAssumption == MaxCost \in Nat /\ MaxRPM \in Nat
                            /\ MaxTime \in Nat /\ MaxSpent \in Nat
ASSUME AbsentAssumption == Unregistered \notin VK /\ NoBucket \notin Bucket
ASSUME NamesAssumption == NoHeader \notin KeyNames

VARIABLES
    keys,     \* m.keys
    buckets,  \* m.rateBuckets
    now,      \* the clock
    req,      \* where each request is, and the *VirtualKey it holds
    atAdd,    \* history: the spend of a key when it was last posted
    meter     \* history: when a bucket was made and what it has granted

vars == <<keys, buckets, now, req, atAdd, meter>>

Token == 60

Burst(rpm) == IF rpm \div 10 < 2 THEN 2 ELSE rpm \div 10

Phases == {"idle", "validate", "limit", "serving"}

(* A request holds the key object it validated; of that object only the   *)
(* fields nothing writes in place, the rate limit here, are read later.    *)
Idle == [phase |-> "idle", key |-> NoHeader, rpm |-> 0]

Registered == {k \in KeyNames : keys[k] # Unregistered}

Charging(k) == {r \in Requests : req[r].key = k
                                 /\ req[r].phase \in {"limit", "serving"}}

NoMeter == [born |-> 0, granted |-> 0]

TypeOK ==
    /\ keys \in [KeyNames -> VK \cup {Unregistered}]
    /\ buckets \in [KeyNames -> Bucket \cup {NoBucket}]
    /\ now \in Nat
    /\ req \in [Requests -> [phase : Phases,
                             key : KeyNames \cup {NoHeader},
                             rpm : Nat]]
    /\ \A r \in Requests :
          req[r].phase \in {"validate", "limit"} => req[r].key \in KeyNames
    /\ atAdd \in [KeyNames -> Nat]
    /\ meter \in [KeyNames -> [born : Nat, granted : Nat]]

-----------------------------------------------------------------------------

Init ==
    /\ keys \in [KeyNames -> Settings \cup {Unregistered}]
    /\ buckets = [k \in KeyNames |-> NoBucket]
    /\ now = 0
    /\ req = [r \in Requests |-> Idle]
    /\ atAdd = [k \in KeyNames |->
                   IF keys[k] = Unregistered THEN 0 ELSE keys[k].spent]
    /\ meter = [k \in KeyNames |-> NoMeter]

-----------------------------------------------------------------------------
(* The administrator.                                                      *)

(* Mutant: an update forgets the spend so far.                             *)
SpendAfterAdd_Forgets(k, s) == s.spent

(* A posted key that states no spend keeps the spend it had.               *)
SpendAfterAdd(k, s) ==
    IF s.spent = 0 /\ keys[k] # Unregistered THEN keys[k].spent ELSE s.spent

Add(k, s) ==
    /\ keys' = [keys EXCEPT ![k] = [s EXCEPT !.spent = SpendAfterAdd(k, s)]]
    /\ atAdd' = [atAdd EXCEPT ![k] = SpendAfterAdd(k, s)]
    /\ UNCHANGED <<buckets, now, req, meter>>

(* Mutant: the rate bucket is left behind.                                 *)
Delete_KeepsBucket(k) ==
    /\ keys[k] # Unregistered
    /\ keys' = [keys EXCEPT ![k] = Unregistered]
    /\ atAdd' = [atAdd EXCEPT ![k] = 0]
    /\ UNCHANGED <<buckets, meter, now, req>>

Delete(k) ==
    /\ keys[k] # Unregistered
    /\ keys' = [keys EXCEPT ![k] = Unregistered]
    /\ buckets' = [buckets EXCEPT ![k] = NoBucket]
    /\ atAdd' = [atAdd EXCEPT ![k] = 0]
    /\ meter' = [meter EXCEPT ![k] = NoMeter]
    /\ UNCHANGED <<now, req>>

-----------------------------------------------------------------------------
(* A request. A refused request, and a finished one, frees its slot.       *)

(* With nothing configured every request passes; a master key passes       *)
(* unattributed; any other key goes on to the virtual key manager.         *)
Arrive(r, key) ==
    /\ req[r].phase = "idle"
    /\ \/ /\ \/ MasterKeys = {} /\ Registered = {}
             \/ key \in MasterKeys
          /\ req' = [req EXCEPT ![r] = [Idle EXCEPT !.phase = "serving"]]
       \/ /\ ~(MasterKeys = {} /\ Registered = {})
          /\ key \in KeyNames \ MasterKeys
          /\ req' = [req EXCEPT ![r] = [Idle EXCEPT !.phase = "validate",
                                                    !.key = key]]
    /\ UNCHANGED <<keys, buckets, now, atAdd, meter>>

Expired(vk) == vk.expiresAt # Never /\ now > vk.expiresAt

(* Mutant: a key that has spent exactly its budget is still admitted.      *)
OverBudget_OffByOne(vk) == vk.budget > 0 /\ vk.spent > vk.budget

OverBudget(vk) == vk.budget > 0 /\ vk.spent >= vk.budget

(* The middleware always asks about the empty model name, so the model     *)
(* permissions of ValidateKey are never consulted here.                    *)
Valid(k) ==
    /\ keys[k] # Unregistered
    /\ keys[k].enabled
    /\ ~Expired(keys[k])
    /\ ~OverBudget(keys[k])

Validate(r) ==
    /\ req[r].phase = "validate"
    /\ LET k == req[r].key IN
       \/ /\ Valid(k)
          /\ req' = [req EXCEPT
                ![r] = [phase |-> IF keys[k].rpm > 0 THEN "limit" ELSE "serving",
                        key |-> k, rpm |-> keys[k].rpm]]
       \/ /\ ~Valid(k)
          /\ req' = [req EXCEPT ![r] = Idle]
    /\ UNCHANGED <<keys, buckets, now, atAdd, meter>>

(* Mutant: the refill is not clamped to a full bucket.                     *)
Refilled_Unclamped(k) ==
    buckets[k].tokens + (now - buckets[k].lastCheck) * keys[k].rpm

Refilled(k) ==
    LET full == Token * Burst(keys[k].rpm)
        sum  == buckets[k].tokens + (now - buckets[k].lastCheck) * keys[k].rpm
    IN  IF sum > full THEN full ELSE sum

(* AllowKey looks the key up again: the administrator may have deleted it  *)
(* or changed its limit since ValidateKey.                                 *)
Limited == {k \in Registered : keys[k].rpm > 0}

Grant(k, tokens) ==
    /\ buckets' = [buckets EXCEPT ![k] = [tokens |-> tokens - Token,
                                          lastCheck |-> now]]
    /\ meter' = [meter EXCEPT ![k] =
            IF buckets[k] = NoBucket THEN [born |-> now, granted |-> 1]
                ELSE [meter[k] EXCEPT !.granted = meter[k].granted + 1]]

AllowKey(r) ==
    /\ req[r].phase = "limit"
    /\ LET k == req[r].key IN
       \/ /\ k \notin Limited
          /\ req' = [req EXCEPT ![r].phase = "serving"]
          /\ UNCHANGED <<buckets, meter>>
       \/ /\ k \in Limited
          /\ buckets[k] = NoBucket
          /\ Grant(k, Token * Burst(keys[k].rpm))
          /\ req' = [req EXCEPT ![r].phase = "serving"]
       \/ /\ k \in Limited
          /\ buckets[k] # NoBucket
          /\ Refilled(k) >= Token
          /\ Grant(k, Refilled(k))
          /\ req' = [req EXCEPT ![r].phase = "serving"]
       \/ /\ k \in Limited
          /\ buckets[k] # NoBucket
          /\ Refilled(k) < Token
          /\ buckets' = [buckets EXCEPT ![k] = [tokens |-> Refilled(k),
                                                lastCheck |-> now]]
          /\ req' = [req EXCEPT ![r] = Idle]
          /\ UNCHANGED meter
    /\ UNCHANGED <<keys, now, atAdd>>

(* Mutant: the cost is taken off the spend.                                *)
RecordSpend_Refunds(k, cost) ==
    keys' = [keys EXCEPT ![k] = [keys[k] EXCEPT !.spent = keys[k].spent - cost]]

(* The cost is known only when the response is: the executor charges it to *)
(* whatever key is then registered under the name. A failed request, a     *)
(* cached answer and an unattributed request charge nothing.               *)
RecordSpend(k, cost) ==
    keys' = [keys EXCEPT ![k] = [keys[k] EXCEPT !.spent = keys[k].spent + cost]]

Finish(r, cost) ==
    /\ req[r].phase = "serving"
    /\ LET k == req[r].key IN
       \/ /\ k \in Registered
          /\ keys[k].spent + cost <= MaxSpent
          /\ RecordSpend(k, cost)
       \/ k \notin Registered /\ UNCHANGED keys
    /\ req' = [req EXCEPT ![r] = Idle]
    /\ UNCHANGED <<buckets, now, atAdd, meter>>

Tick ==
    /\ now < MaxTime
    /\ now' = now + 1
    /\ UNCHANGED <<keys, buckets, req, atAdd, meter>>

-----------------------------------------------------------------------------

Next ==
    \/ \E k \in KeyNames, s \in Settings : Add(k, s)
    \/ \E k \in KeyNames : Delete(k)
    \/ \E r \in Requests, key \in KeyNames \cup MasterKeys \cup {NoHeader} :
           Arrive(r, key)
    \/ \E r \in Requests : Validate(r) \/ AllowKey(r)
    \/ \E r \in Requests, cost \in 0..MaxCost : Finish(r, cost)
    \/ Tick

Spec == Init /\ [][Next]_vars

-----------------------------------------------------------------------------
(* Properties.                                                             *)

(* The budget is checked before a request is served and charged after, so  *)
(* requests admitted together can pass the limit together. What the code   *)
(* guarantees is a bound on the overshoot: counting what is still in       *)
(* flight, a key with a budget stays below the budget (or below the spend  *)
(* it was last posted with, if that was larger) plus one response per      *)
(* request that can be in flight.                                          *)
OvershootBounded ==
    \A k \in Registered : keys[k].budget > 0 =>
        \/ keys[k].spent + Cardinality(Charging(k)) * MaxCost
              < keys[k].budget + Cardinality(Requests) * MaxCost
        \/ keys[k].spent + Cardinality(Charging(k)) * MaxCost
              <= atAdd[k] + Cardinality(Requests) * MaxCost

(* A bucket exists only for a registered key, whatever order AllowKey and  *)
(* Delete run in: a key registered again starts with a full bucket and the *)
(* bucket map does not outgrow the key map.                                *)
NoOrphanBucket ==
    \A k \in KeyNames : buckets[k] # NoBucket => keys[k] # Unregistered

(* A key's limiter never grants more than a burst plus the refill at the   *)
(* largest configured rate since its bucket was made, across refills,      *)
(* refusals and administrators changing the limit in between; what is left *)
(* in the bucket is counted as granted already, and never exceeds a burst. *)
GrantsBounded ==
    \A k \in KeyNames : buckets[k] # NoBucket =>
        /\ meter[k].born <= buckets[k].lastCheck
        /\ buckets[k].lastCheck <= now
        /\ buckets[k].tokens <= Token * Burst(MaxRPM)
        /\ Token * meter[k].granted + buckets[k].tokens
              <= Token * Burst(MaxRPM)
                 + (buckets[k].lastCheck - meter[k].born) * MaxRPM

(* A key's spend is lowered by no charge and no request: only deleting the *)
(* key, or posting it with a spend of its own, takes spend away; posting   *)
(* new settings for a key keeps what it has spent.                         *)
SpendKept ==
    [][\A k \in Registered :
          keys'[k] # Unregistered /\ keys'[k].spent < keys[k].spent
             => \E s \in Settings : s.spent > 0 /\ keys'[k] = s]_vars
=============================================================================
