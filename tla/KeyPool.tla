------------------------------ MODULE KeyPool ------------------------------
(***************************************************************************)
(* KeyPool of internal/engine/pool.go, which spreads a provider's calls    *)
(* over its API keys, and the callers in internal/providers: each picks a  *)
(* key, calls upstream, and reports the key when the answer is a 429.      *)
(* NextKey only reads under the pool's lock, beside an atomic cursor, and  *)
(* MarkFailure holds the lock alone, so each is one action. Keys are the   *)
(* positions of the pool's list. The counters TotalCalls and TotalErrors,  *)
(* which nothing reads, are left out.                                      *)
(***************************************************************************)
EXTENDS Integers, FiniteSets

CONSTANTS
    ApiKeys,    \* the strings a provider may be configured with
    Blank,      \* the one that is empty, which the pool drops
    Callers,    \* upstream calls that can be in flight at once
    Cooldown,   \* how long a key cools after a 429
    CursorMod,  \* the cursor is a uint64: 2^64
    MaxTime     \* bound on the clock

ASSUME KeysAssumption == IsFiniteSet(ApiKeys)
ASSUME NumbersAssumption == /\ Cooldown \in Nat \ {0}
                            /\ CursorMod \in Nat \ {0}
                            /\ MaxTime \in Nat

(* No provider has 2^64 keys. A cursor narrower than the pool would never  *)
(* come to the keys behind it.                                             *)
ASSUME CursorAssumption == CursorMod >= Cardinality(ApiKeys)

VARIABLES
    size,          \* len(p.keys), fixed when the provider is made
    cursor,        \* p.cursor
    cooldownTill,  \* CooldownTill of each key
    now,           \* the clock
    call,          \* the key each caller is calling upstream with
    failedAt,      \* history: when a key last answered 429
    waited         \* history: picks since a key was last picked or cooling

vars == <<size, cursor, cooldownTill, now, call, failedAt, waited>>

NoKey == -1      \* a caller that found no key
LongAgo == -1    \* the zero time

Index == 0 .. size - 1

(* The distinct keys that are not blank.                                   *)
PoolOf(configured) == Cardinality(configured \ {Blank})

Idle == [busy |-> FALSE, key |-> NoKey]

TypeOK ==
    /\ size \in Nat
    /\ cursor \in 0 .. CursorMod - 1
    /\ cooldownTill \in [Index -> Nat \cup {LongAgo}]
    /\ now \in Nat
    /\ call \in [Callers -> [busy : BOOLEAN, key : Index \cup {NoKey}]]
    /\ failedAt \in [Index -> Int]
    /\ waited \in [Index -> Nat]

-----------------------------------------------------------------------------

Init ==
    /\ size \in {PoolOf(configured) : configured \in SUBSET ApiKeys}
    /\ cursor = 0
    /\ cooldownTill = [k \in Index |-> LongAgo]
    /\ now = 0
    /\ call = [c \in Callers |-> Idle]
    /\ failedAt = [k \in Index |-> LongAgo - Cooldown]
    /\ waited = [k \in Index |-> 0]

(* Mutant: a key is free again in the very instant its cooldown ends.      *)
Free_AtExpiry(k) == now >= cooldownTill[k]

Free(k) == now > cooldownTill[k]

(* Mutant: every search starts at the first key.                           *)
At_Front(i) == i % size

(* The keys from the cursor on, in order; the first free one is picked.    *)
At(i) == (cursor + i) % size

FirstFree(k) ==
    \E i \in Index : /\ k = At(i)
                     /\ Free(k)
                     /\ \A j \in 0 .. i - 1 : ~Free(At(j))

(* With every key cooling, the first of those that cool the shortest.      *)
Soonest(k) ==
    /\ \A j \in Index : ~Free(j) /\ cooldownTill[k] <= cooldownTill[j]
    /\ \A j \in 0 .. k - 1 : cooldownTill[k] < cooldownTill[j]

NextKey(k) ==
    \/ size = 0 /\ k = NoKey /\ UNCHANGED cursor
    \/ size = 1 /\ k = 0 /\ UNCHANGED cursor
    \/ /\ size > 1
       /\ cursor' = (cursor + 1) % CursorMod
       /\ k \in Index
       /\ FirstFree(k) \/ Soonest(k)

Pick(c) ==
    /\ ~call[c].busy
    /\ \E k \in Index \cup {NoKey} :
          /\ NextKey(k)
          /\ call' = [call EXCEPT ![c] = [busy |-> TRUE, key |-> k]]
          /\ waited' = [j \in Index |->
                IF j = k \/ ~Free(j) THEN 0 ELSE waited[j] + 1]
    /\ UNCHANGED <<size, cooldownTill, now, failedAt>>

(* Mutant: the cooldown is taken off the clock.                            *)
MarkFailure_Past(k) ==
    cooldownTill' = [cooldownTill EXCEPT ![k] = now - Cooldown]

(* The key cools from when the 429 arrives, however long ago it was picked.*)
MarkFailure(k) ==
    cooldownTill' = [cooldownTill EXCEPT ![k] = now + Cooldown]

TooManyRequests(c) ==
    /\ call[c].busy
    /\ \/ /\ call[c].key \in Index
          /\ MarkFailure(call[c].key)
          /\ failedAt' = [failedAt EXCEPT ![call[c].key] = now]
          /\ waited' = [waited EXCEPT ![call[c].key] = 0]
       \/ call[c].key = NoKey /\ UNCHANGED <<cooldownTill, failedAt, waited>>
    /\ call' = [call EXCEPT ![c] = Idle]
    /\ UNCHANGED <<size, cursor, now>>

OtherAnswer(c) ==
    /\ call[c].busy
    /\ call' = [call EXCEPT ![c] = Idle]
    /\ UNCHANGED <<size, cursor, cooldownTill, now, failedAt, waited>>

Tick ==
    /\ now < MaxTime
    /\ now' = now + 1
    /\ UNCHANGED <<size, cursor, cooldownTill, call, failedAt, waited>>

Next ==
    \/ \E c \in Callers : Pick(c) \/ TooManyRequests(c) \/ OtherAnswer(c)
    \/ Tick

Spec == Init /\ [][Next]_vars
-----------------------------------------------------------------------------
(* Properties.                                                             *)

Resting(k) == now - failedAt[k] <= Cooldown

(* A key that answered 429, to whichever call and however late, is left    *)
(* alone for the cooldown: a caller is given it only when every key of the *)
(* pool is resting, and then the one that has rested longest. A pool of    *)
(* one key has no choice.                                                  *)
KeysRest ==
    [][\A c \in Callers :
          /\ call'[c].busy /\ ~call[c].busy
          /\ size > 1 /\ Resting(call'[c].key)
          => \A j \in Index : Resting(j) /\ failedAt[call'[c].key] <= failedAt[j]]_vars

(* Round-robin leaves no key out: a key that stays free is picked within a *)
(* full turn of the pool, and within one more partial turn where the       *)
(* cursor wraps around at a number that is not a multiple of the size.     *)
RoundRobin ==
    size > 1 => \A k \in Index : waited[k] <= (size - 1) + (CursorMod % size)
=============================================================================
