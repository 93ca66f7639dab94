---------------------------- MODULE TokenBucket ----------------------------
(***************************************************************************)
(* TokenBucketRateLimiter of internal/server/middleware.go: one token      *)
(* bucket per client address, refilled lazily, and a sweep that evicts the *)
(* buckets of idle clients. Allow and Cleanup hold the limiter's lock for  *)
(* their whole body, so each is one action. Time is in seconds and tokens  *)
(* in sixtieths, so that a second refills exactly RPM sixtieths.           *)
(***************************************************************************)
EXTENDS Integers, FiniteSets

CONSTANTS
    Clients,          \* client addresses
    ConfiguredRPM,    \* cfg.RateLimit.RequestsPerMinute
    ConfiguredBurst,  \* cfg.RateLimit.Burst
    MaxAge,           \* a bucket idle this long is stale (5 minutes)
    CleanEvery,       \* a sweep is due after this long (2 minutes)
    MaxBuckets,       \* or once the map holds more buckets (5000)
    MaxTime,          \* bound on the clock
    NoBucket          \* what the map holds for an absent bucket

ASSUME ConfigAssumption == ConfiguredRPM \in Int /\ ConfiguredBurst \in Int
ASSUME TimesAssumption == /\ MaxAge \in Nat \ {0} /\ CleanEvery \in Nat
                          /\ MaxBuckets \in Nat /\ MaxTime \in Nat
ASSUME ClientsAssumption == IsFiniteSet(Clients)

(* NewTokenBucketRateLimiter falls back to defaults.                       *)
RPM == IF ConfiguredRPM <= 0 THEN 300 ELSE ConfiguredRPM

BurstSize == IF ConfiguredBurst <= 0 THEN 50 ELSE ConfiguredBurst

Token == 60

Full == Token * BurstSize

Bucket == [tokens : 0..Full, lastCheck : Nat]

ASSUME AbsentAssumption == NoBucket \notin Bucket

VARIABLES
    buckets,      \* limiter.buckets
    lastCleanup,  \* limiter.lastCleanup
    now,          \* the clock
    window        \* history: a window of time on one client's traffic

vars == <<buckets, lastCleanup, now, window>>

Tracked == {c \in Clients : buckets[c] # NoBucket}

TypeOK ==
    /\ buckets \in [Clients -> Bucket \cup {NoBucket}]
    /\ lastCleanup \in Nat
    /\ now \in Nat
    /\ window \in [client : Clients, start : Nat, granted : Nat]

-----------------------------------------------------------------------------

Init ==
    /\ buckets = [c \in Clients |-> NoBucket]
    /\ lastCleanup = 0
    /\ now = 0
    /\ window \in [client : Clients, start : {0}, granted : {0}]

(* Mutant: tokens pile up past the bucket's capacity.                      *)
Refilled_Unclamped(b) == b.tokens + (now - b.lastCheck) * RPM

(* What a bucket holds once refilled up to now.                            *)
Refilled(b) ==
    LET sum == b.tokens + (now - b.lastCheck) * RPM
    IN  IF sum > Full THEN Full ELSE sum

(* Mutant: the sweep evicts one second too early.                          *)
Idle_OneEarly(b, age) == now - b.lastCheck >= age - 1

(* Mutant: the sweep spares a bucket that is exactly stale.                *)
Idle_OneLate(b, age) == now - b.lastCheck > age

Idle(b, age) == now - b.lastCheck >= age

Swept(age) ==
    [c \in Clients |-> IF c \in Tracked /\ Idle(buckets[c], age)
                       THEN NoBucket ELSE buckets[c]]

SweepDue == now - lastCleanup > CleanEvery
            \/ Cardinality(Tracked) > MaxBuckets

Count(c, granted) ==
    window' = IF granted /\ window.client = c
              THEN [window EXCEPT !.granted = window.granted + 1] ELSE window

(* Serve c from the buckets left by the sweep, if one was due.             *)
Serve(c, bs) ==
    \/ /\ bs[c] = NoBucket
       /\ buckets' = [bs EXCEPT ![c] = [tokens |-> Full - Token, lastCheck |-> now]]
       /\ Count(c, TRUE)
    \/ /\ bs[c] # NoBucket
       /\ Refilled(bs[c]) >= Token
       /\ buckets' = [bs EXCEPT ![c] = [tokens |-> Refilled(bs[c]) - Token,
                                        lastCheck |-> now]]
       /\ Count(c, TRUE)
    \/ /\ bs[c] # NoBucket
       /\ Refilled(bs[c]) < Token
       /\ buckets' = [bs EXCEPT ![c] = [tokens |-> Refilled(bs[c]),
                                        lastCheck |-> now]]
       /\ Count(c, FALSE)

Allow(c) ==
    /\ \/ /\ SweepDue
          /\ Serve(c, Swept(MaxAge))
          /\ lastCleanup' = now
       \/ /\ ~SweepDue
          /\ Serve(c, buckets)
          /\ UNCHANGED lastCleanup
    /\ UNCHANGED now

Tick ==
    /\ now < MaxTime
    /\ now' = now + 1
    /\ UNCHANGED <<buckets, lastCleanup, window>>

(* History only: start counting what a client is granted from here on.     *)
Watch(c) ==
    /\ window' = [client |-> c, start |-> now, granted |-> 0]
    /\ UNCHANGED <<buckets, lastCleanup, now>>

Next == Tick \/ \E c \in Clients : Allow(c) \/ Watch(c)

Spec == Init /\ [][Next]_vars

-----------------------------------------------------------------------------
(* Properties.                                                             *)

(* Evicting a bucket gives its client a full one. That is harmless when an *)
(* idle bucket has had the time to fill up again before it is stale.       *)
RefillsBeforeStale == MaxAge * RPM >= Full

(* In no window of time, whenever it begins, is a client granted more than *)
(* a burst plus the refill over the window, across refusals, refills, and  *)
(* its bucket being evicted and made anew.                                 *)
WindowBounded ==
    Token * window.granted <= Full + (now - window.start) * RPM

(* Sweeps keep the map to recent clients: a bucket that is still there was *)
(* not stale at the last sweep, and no bucket is used later than a sweep   *)
(* interval after the last sweep without causing another.                  *)
OnlyRecentClients ==
    \A c \in Tracked :
        /\ lastCleanup < buckets[c].lastCheck + MaxAge
        /\ buckets[c].lastCheck <= lastCleanup + CleanEvery
=============================================================================
