------------------------------ MODULE LRUCache ------------------------------
(***************************************************************************)
(* What the exact cache of internal/cache promises its callers: a list of  *)
(* entries, the most recently used first, no longer than its capacity, in  *)
(* which an entry lives for a time to live. Module ExactCache, the map and *)
(* doubly linked list of the code, implements it.                          *)
(***************************************************************************)
EXTENDS Integers, SequencesExt

CONSTANTS
    Keys,       \* the request hashes
    Values,     \* the responses
    Capacities, \* the capacities the cache may be configured with
    TTL,        \* the time to live of an entry
    MaxTime,    \* bound on the clock
    Miss        \* the answer of a Get that finds nothing

Entry == [key : Keys, val : Values, expiresAt : 0 .. TTL]

VARIABLES
    capacity,   \* c.capacity
    entries,    \* the entries, most recently used first
    now,        \* the clock
    answer      \* what the last Get returned

vars == <<capacity, entries, now, answer>>

At(k) == {i \in DOMAIN entries : entries[i].key = k}

Alive(e) == now <= e.expiresAt

(* It starts with some entries of a snapshot, each alive and of a key of   *)
(* its own, in any order.                                                  *)
Init ==
    /\ capacity \in Capacities
    /\ Len(entries) <= capacity
    /\ \A i \in DOMAIN entries :
          /\ entries[i] \in Entry
          /\ entries[i].expiresAt > 0
          /\ At(entries[i].key) = {i}
    /\ now = 0
    /\ answer = Miss

Get(k) ==
    /\ \/ At(k) = {} /\ answer' = Miss /\ UNCHANGED entries
       \/ \E i \in At(k) :
             /\ ~Alive(entries[i])
             /\ answer' = Miss
             /\ entries' = RemoveAt(entries, i)
       \/ \E i \in At(k) :
             /\ Alive(entries[i])
             /\ answer' = entries[i].val
             /\ entries' = <<entries[i]>> \o RemoveAt(entries, i)
    /\ UNCHANGED <<capacity, now>>

(* An entry goes in front, in the place of the one that its key had; what  *)
(* then does not fit falls off the end.                                    *)
Set(k, v) ==
    /\ LET e == [key |-> k, val |-> v, expiresAt |-> now + TTL] IN
       \/ \E i \in At(k) : entries' = <<e>> \o RemoveAt(entries, i)
       \/ /\ At(k) = {}
          /\ entries' = <<e>> \o SubSeq(entries, 1, Min({capacity - 1, Len(entries)}))
    /\ UNCHANGED <<capacity, now, answer>>

Clear == entries' = <<>> /\ UNCHANGED <<capacity, now, answer>>

Tick == now < MaxTime /\ now' = now + 1 /\ UNCHANGED <<capacity, entries, answer>>

Next ==
    \/ \E k \in Keys : Get(k) \/ \E v \in Values : Set(k, v)
    \/ Clear
    \/ Tick

Spec == Init /\ [][Next]_vars
=============================================================================
