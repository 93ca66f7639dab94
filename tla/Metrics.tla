------------------------------ MODULE Metrics ------------------------------
(***************************************************************************)
(* The collector of internal/metrics/metrics.go, which every request ends  *)
(* in: totals, counts and the latest records, under one lock, so that one  *)
(* call of RecordRequest is one step. A cost is in units of the price of a *)
(* token. Latencies and the rounding of costs are left out.                *)
(***************************************************************************)
EXTENDS Integers, SequencesExt

CONSTANTS
    PricedModels, \* the models that are recorded
    Prices,       \* the prices that findPricing may find for each of them
    RingSize      \* the number of records that are kept

ASSUME PricesAssumption ==
    Prices \in [PricedModels -> SUBSET [input : Nat, output : Nat]]
ASSUME RingAssumption == RingSize \in Nat \ {0}

VARIABLES collector, logs  \* logs is history

Caches == {"none", "exact", "semantic"}

Log == [model : PricedModels, success : BOOLEAN, cache : Caches,
        prompt : Nat, comp : Nat, saved : Nat, incurred : Nat]

NewCollector == [total |-> 0, success |-> 0, failed |-> 0, exact |-> 0, semantic |-> 0,
                 prompt |-> 0, comp |-> 0, incurred |-> 0, saved |-> 0,
                 recent |-> <<>>, models |-> [m \in PricedModels |-> 0]]

(* The catalogue is a map: of several entries whose names are part of the  *)
(* model's name any may be met first, anew at each call.                   *)
Costs(model, prompt, comp) ==
    IF Prices[model] = {} THEN {0}
    ELSE {prompt * p.input + comp * p.output : p \in Prices[model]}

(* Mutant: of a full ring the latest record gives way.                     *)
Ring_Latest(recent, log) ==
    Append(IF Len(recent) >= RingSize THEN Front(recent) ELSE recent, log)

Ring(recent, log) ==
    Append(IF Len(recent) >= RingSize THEN Tail(recent) ELSE recent, log)

Plus(condition) == IF condition THEN 1 ELSE 0

(* The cost of a request that no cache answered is calculated once more.   *)
Recorded(c, log, cost) ==
    [total    |-> c.total + 1,
     success  |-> c.success + Plus(log.success),
     failed   |-> c.failed + Plus(~log.success),
     exact    |-> c.exact + Plus(log.cache = "exact"),
     semantic |-> c.semantic + Plus(log.cache = "semantic"),
     prompt   |-> c.prompt + log.prompt,
     comp     |-> c.comp + log.comp,
     incurred |-> c.incurred + IF log.cache = "none" THEN cost ELSE 0,
     saved    |-> c.saved + IF log.cache = "none" THEN 0 ELSE log.saved,
     recent   |-> Ring(c.recent, log),
     models   |-> [c.models EXCEPT ![log.model] = c.models[log.model] + 1]]

RecordRequest(log) ==
    /\ \E cost \in Costs(log.model, log.prompt, log.comp) :
          collector' = Recorded(collector, log, cost)
    /\ logs' = Append(logs, log)

InitMetrics == collector = NewCollector /\ logs = <<>>

(* The share of cache hits that GetSnapshot shows, in percent.             *)
HitRatio(c) == IF c.total = 0 THEN 0 ELSE ((c.exact + c.semantic) * 100) \div c.total
=============================================================================
