----------------------------- MODULE ExactCache -----------------------------
(***************************************************************************)
(* ExactCache of internal/cache/exact_cache.go: a map from request hashes  *)
(* to nodes of a doubly linked list kept in order of use. Every method     *)
(* holds the cache's lock, so each is one action; the pointer surgery of   *)
(* each is kept. The cache starts with what the boot sequence imports from *)
(* a snapshot file. The hit and miss counters are left out.                *)
(***************************************************************************)
EXTENDS Integers, FiniteSets, SequencesExt

CONSTANTS
    Keys,       \* the request hashes
    Values,     \* the responses
    Capacities, \* the capacities the cache may be configured with
    TTL,        \* the time to live of an entry
    MaxTime,    \* bound on the clock
    Miss,       \* the answer of a Get that finds nothing
    Unused      \* a key with no use that counts

ASSUME KeysAssumption == IsFiniteSet(Keys) /\ \A used \in SUBSET Keys : used # Unused
ASSUME NumbersAssumption == /\ Capacities \subseteq Nat \ {0}
                            /\ TTL \in Nat \ {0}
                            /\ MaxTime \in Nat
ASSUME MissAssumption == Miss \notin Values

VARIABLES
    capacity,   \* c.capacity
    cache,      \* c.items, c.head, c.tail and the nodes
    now,        \* the clock
    answer,     \* what the last Get returned
    since       \* history: the other keys used since a key last was

vars == <<capacity, cache, now, answer, since>>

Nil == 0

Nodes == 1 .. Cardinality(Keys) + 1

Node == [key : Keys, val : Values, expiresAt : 0 .. MaxTime + TTL,
         prev : Nodes \cup {Nil}, next : Nodes \cup {Nil}]

Garbage == [key |-> Miss, val |-> Miss, expiresAt |-> 0, prev |-> Nil, next |-> Nil]

EmptyCache == [items |-> [k \in Keys |-> Nil],
               node  |-> [n \in Nodes |-> Garbage],
               head  |-> Nil, tail |-> Nil]

Cached(c) == {k \in Keys : c.items[k] # Nil}

Mapped(c) == {c.items[k] : k \in Cached(c)}

(* A node that nothing refers to any more is collected, and a new one is   *)
(* allocated where there is none.                                          *)
Referenced(c) == Mapped(c) \cup {c.head, c.tail}
                    \cup {c.node[n].prev : n \in Mapped(c)}
                    \cup {c.node[n].next : n \in Mapped(c)}
Collect(c) == [c EXCEPT !.node = [n \in Nodes |->
                  IF n \in Referenced(c) THEN c.node[n] ELSE Garbage]]
Fresh(c) == CHOOSE n \in Nodes : n \notin Referenced(c)

-----------------------------------------------------------------------------
(* The linked list.                                                        *)

AddToHead(c, n) ==
    LET linked == [c.node EXCEPT ![n].prev = Nil, ![n].next = c.head]
    IN  [c EXCEPT
           !.node = IF c.head = Nil THEN linked
                    ELSE [linked EXCEPT ![c.head].prev = n],
           !.head = n,
           !.tail = IF c.tail = Nil THEN n ELSE c.tail]

(* Mutant: the tail is not moved back.                                     *)
RemoveNode_KeepsTail(c, n) ==
    LET p == c.node[n].prev
        s == c.node[n].next
    IN  [c EXCEPT
           !.node = [m \in Nodes |-> [c.node[m] EXCEPT
                        !.next = IF m = p THEN s ELSE c.node[m].next,
                        !.prev = IF m = s THEN p ELSE c.node[m].prev]],
           !.head = IF p = Nil THEN s ELSE c.head]

(* The removed node keeps its own pointers.                                *)
RemoveNode(c, n) ==
    LET p == c.node[n].prev
        s == c.node[n].next
    IN  [c EXCEPT
           !.node = [m \in Nodes |-> [c.node[m] EXCEPT
                        !.next = IF m = p THEN s ELSE c.node[m].next,
                        !.prev = IF m = s THEN p ELSE c.node[m].prev]],
           !.head = IF p = Nil THEN s ELSE c.head,
           !.tail = IF s = Nil THEN p ELSE c.tail]

(* Mutant: a hit does not count as a use.                                  *)
MoveToHead_Stays(c, n) == c

MoveToHead(c, n) == IF c.head = n THEN c ELSE AddToHead(RemoveNode(c, n), n)

Drop(c, n) == Collect([RemoveNode(c, n) EXCEPT !.items[c.node[n].key] = Nil])

(* Mutant: the new node is given no value.                                 *)
Insert_NoValue(c, e) ==
    LET n == Fresh(c)
    IN  AddToHead([c EXCEPT !.items[e.key] = n,
                            !.node[n] = [Garbage EXCEPT !.key = e.key,
                                         !.expiresAt = e.expiresAt]], n)

Insert(c, e) ==
    LET n == Fresh(c)
    IN  AddToHead([c EXCEPT !.items[e.key] = n,
                            !.node[n] = [key |-> e.key, val |-> e.val,
                                         expiresAt |-> e.expiresAt,
                                         prev |-> Nil, next |-> Nil]], n)

(* Mutant: room is made one entry too early.                               *)
MakeRoom_Early(c) ==
    IF Cardinality(Cached(c)) >= capacity - 1 /\ c.tail # Nil THEN Drop(c, c.tail)
    ELSE c

MakeRoom(c) ==
    IF Cardinality(Cached(c)) >= capacity /\ c.tail # Nil THEN Drop(c, c.tail)
    ELSE c

-----------------------------------------------------------------------------
(* The operations.                                                         *)

Expired(n) == now > cache.node[n].expiresAt

ImportEntry(c, e) ==
    IF now < e.expiresAt
    THEN Insert(IF e.key \in Cached(c) THEN Drop(c, c.items[e.key])
                ELSE MakeRoom(c), e)
    ELSE c

ImportEntries(c, file) == FoldLeft(ImportEntry, c, file)

Entry == [key : Keys, val : Values, expiresAt : 0 .. TTL]

(* A snapshot file holds the entries of an earlier process, one a key, in  *)
(* the order in which Go happened to walk its map; some expired since.     *)
SnapshotFiles ==
    {file \in UNION {[1 .. n -> Entry] : n \in 0 .. Cardinality(Keys)} :
        \A i, j \in DOMAIN file : file[i].key = file[j].key => i = j}

Init ==
    /\ capacity \in Capacities
    /\ now = 0
    /\ \E file \in SnapshotFiles : cache = ImportEntries(EmptyCache, file)
    /\ answer = Miss
    /\ since = [k \in Keys |-> Unused]

(* History: a use of k empties what k has seen, and every other key sees k.*)
Use(k) ==
    since' = [j \in Keys |-> CASE j = k -> {}
                               [] j # k /\ since[j] = Unused -> Unused
                               [] OTHER -> since[j] \cup {k}]

Get(k) ==
    /\ LET n == cache.items[k] IN
       \/ /\ k \notin Cached(cache)
          /\ answer' = Miss
          /\ UNCHANGED <<cache, since>>
       \/ /\ k \in Cached(cache)
          /\ Expired(n)
          /\ cache' = Drop(cache, n)
          /\ answer' = Miss
          /\ since' = [since EXCEPT ![k] = Unused]
       \/ /\ k \in Cached(cache)
          /\ ~Expired(n)
          /\ cache' = MoveToHead(cache, n)
          /\ answer' = cache.node[n].val
          /\ Use(k)
    /\ UNCHANGED <<capacity, now>>

Set(k, v) ==
    /\ LET n == cache.items[k] IN
       \/ /\ k \in Cached(cache)
          /\ cache' = MoveToHead([cache EXCEPT !.node[n].val = v,
                                               !.node[n].expiresAt = now + TTL], n)
       \/ /\ k \notin Cached(cache)
          /\ cache' = Insert(MakeRoom(cache),
                             [key |-> k, val |-> v, expiresAt |-> now + TTL])
    /\ Use(k)
    /\ UNCHANGED <<capacity, now, answer>>

Clear ==
    /\ cache' = Collect([cache EXCEPT !.items = EmptyCache.items,
                                      !.head = Nil, !.tail = Nil])
    /\ since' = [k \in Keys |-> Unused]
    /\ UNCHANGED <<capacity, now, answer>>

Tick ==
    /\ now < MaxTime
    /\ now' = now + 1
    /\ UNCHANGED <<capacity, cache, answer, since>>

Next ==
    \/ \E k \in Keys : Get(k) \/ \E v \in Values : Set(k, v)
    \/ Clear
    \/ Tick

Spec == Init /\ [][Next]_vars

-----------------------------------------------------------------------------
(* Properties.                                                             *)

(* The nodes from one end of the list to where the pointers end, or as     *)
(* many as there are nodes if they do not end.                             *)
Walk(first, step) ==
    LET at[i \in Nodes] == IF i = 1 THEN first ELSE step[at[i - 1]] IN at
Follow(first, step) ==
    LET at == Walk(first, step)
    IN  [i \in 1 .. Cardinality({j \in Nodes : at[j] # Nil}) |-> at[i]]

Successor(n) == IF n = Nil THEN Nil ELSE cache.node[n].next
Predecessor(n) == IF n = Nil THEN Nil ELSE cache.node[n].prev
Forwards  == Follow(cache.head, [n \in Nodes \cup {Nil} |-> Successor(n)])
Backwards == Follow(cache.tail, [n \in Nodes \cup {Nil} |-> Predecessor(n)])

TypeOK ==
    /\ capacity \in Capacities
    /\ cache.items \in [Keys -> Nodes \cup {Nil}]
    /\ \A n \in Mapped(cache) : cache.node[n] \in Node
    /\ cache.head \in Nodes \cup {Nil} /\ cache.tail \in Nodes \cup {Nil}
    /\ now \in 0 .. MaxTime
    /\ answer \in Values \cup {Miss}
    /\ \A k \in Keys : since[k] = Unused \/ since[k] \subseteq Keys \ {k}

(* The map and the list hold the same nodes, each under its own key and    *)
(* once, the list reads the same in both directions, and there are no more *)
(* of them than the capacity.                                              *)
WellLinked ==
    /\ Forwards = Reverse(Backwards)
    /\ ToSet(Forwards) = Mapped(cache)
    /\ IsInjective(Forwards)
    /\ \A k \in Cached(cache) : cache.node[cache.items[k]].key = k
    /\ Cardinality(Cached(cache)) <= capacity

(* Least recently used: a key that was stored or hit, and has not expired  *)
(* or been cleared since, is gone only when as many other keys as the      *)
(* cache holds were used after it.                                         *)
NoEarlyEviction ==
    \A k \in Keys \ Cached(cache) :
        since[k] # Unused => Cardinality(since[k]) >= capacity

(* Through the list the cache is the abstract one: the same entries in the *)
(* same order, and the same answers.                                       *)
EntryOf(n) == [key |-> cache.node[n].key, val |-> cache.node[n].val,
               expiresAt |-> cache.node[n].expiresAt]
Entries == [i \in DOMAIN Forwards |-> EntryOf(Forwards[i])]

LRU == INSTANCE LRUCache WITH entries <- Entries

RefinesLRU == LRU!Spec
=============================================================================
