--------------------------- MODULE SemanticCache ---------------------------
(***************************************************************************)
(* SemanticCache of internal/cache/semantic_cache.go: a list of answers,   *)
(* each with the vector of the prompt it was given for, searched for the   *)
(* prompt most similar to a new one. Every method holds the cache's lock,  *)
(* so each is one action. A prompt stands for its vector, and Score for    *)
(* the cosine of two; the counters of hits and misses are never written.   *)
(***************************************************************************)
EXTENDS Integers, SequencesExt, Lists

CONSTANTS
    Prompts,     \* the prompts, and their vectors
    Models,      \* the models asked for
    Answers,     \* the responses: numbers, in the order they were given; those
                 \* of an earlier process are not positive
    None,        \* the answer of a Search that finds nothing
    Score,       \* the similarity of two prompts
    Threshold,   \* the least score of a hit
    Capacities,  \* the capacities the cache may be configured with
    Files,       \* the snapshot files it may start with
    TTL,         \* the time to live of an entry
    MaxTime      \* bound on the clock

Entry == [prompt : Prompts, model : Models, answer : Answers, expiresAt : Nat]

ASSUME SemanticAssumption ==
    /\ Capacities \subseteq Nat \ {0}
    /\ TTL \in Nat \ {0} /\ MaxTime \in Nat
    /\ Threshold \in Nat /\ Score \in [Prompts \X Prompts -> Nat]
    /\ Answers \subseteq Int /\ None \notin Answers
    /\ Files \subseteq Seq(Entry)

VARIABLES
    capacity,   \* s.capacity
    semantic,   \* s.entries, oldest first
    now,        \* the clock
    log,        \* history: what was put in the cache
    cleared     \* history: how much of it was there when it was last cleared

vars == <<capacity, semantic, now, log, cleared>>

(* Saved, and kept at the capacity, until the instant of its expiry, but   *)
(* served in that instant too.                                             *)
Lives(e)  == now < e.expiresAt
Serves(e) == now <= e.expiresAt

-----------------------------------------------------------------------------
(* Search.                                                                 *)

Similarity(p, q) == Score[<<p, q>>]

(* Mutant: the score that makes a hit need not be the best one.            *)
Consider_AnyHit(best, e, p, m) ==
    IF e.model # m \/ ~Serves(e) THEN best
    ELSE LET score == Similarity(p, e.prompt) IN
         IF score <= best.score /\ score < Threshold THEN best
         ELSE [score |-> score, answer |-> e.answer,
               found |-> best.found \/ score >= Threshold]

Consider(best, e, p, m) ==
    IF e.model # m \/ ~Serves(e) THEN best
    ELSE LET score == Similarity(p, e.prompt) IN
         IF score <= best.score THEN best
         ELSE [score |-> score, answer |-> e.answer,
               found |-> best.found \/ score >= Threshold]

(* The loop over the entries; the score it starts with is below any other. *)
Search(p, m) ==
    LET best == FoldLeft(LAMBDA b, e : Consider(b, e, p, m),
                         [score |-> -1, answer |-> None, found |-> FALSE], semantic)
    IN  IF best.found THEN best.answer ELSE None

-----------------------------------------------------------------------------
(* The operations that change the list.                                    *)

(* Mutant: a fifth.                                                        *)
DropCount_Fifth == IF capacity \div 5 = 0 THEN 1 ELSE capacity \div 5

(* A tenth of the capacity, and at least one.                              *)
DropCount == IF capacity \div 10 = 0 THEN 1 ELSE capacity \div 10

(* Mutant: room is made when the cache is over its capacity.               *)
MakeRoom_Late(entries) ==
    IF Len(entries) <= capacity THEN entries
    ELSE LET valid == Kept(entries, Lives) IN
         IF Len(valid) < capacity THEN valid
         ELSE SubSeq(valid, DropCount + 1, Len(valid))

(* At the capacity the expired entries go, and if there are none of them   *)
(* the oldest.                                                             *)
MakeRoom(entries) ==
    IF Len(entries) < capacity THEN entries
    ELSE LET valid == Kept(entries, Lives) IN
         IF Len(valid) < capacity THEN valid
         ELSE SubSeq(valid, DropCount + 1, Len(valid))

Added(entries, p, m, a) ==
    Append(MakeRoom(entries),
           [prompt |-> p, model |-> m, answer |-> a, expiresAt |-> now + TTL])

ExportEntries(entries) == Kept(entries, Lives)

(* Mutant: of a file that is too large the oldest entries are kept.        *)
ImportEntries_Oldest(file, limit) ==
    LET alive == Kept(file, Lives)
    IN  SubSeq(alive, 1, Min({limit, Len(alive)}))

(* Into the empty cache of a starting process; of a file with too many     *)
(* entries the newest are kept.                                            *)
ImportEntries(file, limit) ==
    LET alive == Kept(file, Lives)
    IN  SubSeq(alive, Len(alive) - Min({limit, Len(alive)}) + 1, Len(alive))

Init ==
    /\ capacity \in Capacities
    /\ now = 0
    /\ \E file \in Files : semantic = ImportEntries(file, capacity) /\ log = file
    /\ cleared = 0

Latest == IF log = <<>> THEN 0 ELSE Last(log).answer

Set(p, m) ==
    /\ Latest + 1 \in Answers
    /\ semantic' = Added(semantic, p, m, Latest + 1)
    /\ log' = Append(log, Last(semantic'))
    /\ UNCHANGED <<capacity, now, cleared>>

Clear ==
    /\ semantic' = <<>>
    /\ cleared' = Len(log)
    /\ UNCHANGED <<capacity, now, log>>

Pass ==
    /\ now < MaxTime
    /\ now' = now + 1
    /\ UNCHANGED <<capacity, semantic, log, cleared>>

Next ==
    \/ \E p \in Prompts, m \in Models : Set(p, m)
    \/ Clear
    \/ Pass

Spec == Init /\ [][Next]_vars

-----------------------------------------------------------------------------
(* Properties.                                                             *)

TypeOK ==
    /\ capacity \in Capacities
    /\ semantic \in Seq(Entry) /\ Len(semantic) <= capacity
    /\ now \in 0 .. MaxTime
    /\ log \in Seq(Entry) /\ cleared \in 0 .. Len(log)

(* What the loop returns is what the cache is for: an entry for the model  *)
(* that has not expired and is similar enough, than which none is more     *)
(* similar; and if there is such an entry it returns one.                  *)
SearchIsBest ==
    \A p \in Prompts, m \in Models :
        LET hits == {e \in ToSet(semantic) : /\ e.model = m /\ Serves(e)
                                             /\ Similarity(p, e.prompt) >= Threshold}
            best == {e \in hits : \A f \in hits :
                        Similarity(p, e.prompt) >= Similarity(p, f.prompt)}
        IN  IF hits = {} THEN Search(p, m) = None
            ELSE Search(p, m) \in {e.answer : e \in best}

(* The cache gives up only what has expired or is old: of the entries      *)
(* written last, as many as fit after a drop of the oldest tenth stay      *)
(* until they expire or the cache is cleared.                              *)
RecentKept ==
    \A i \in cleared + 1 .. Len(log) :
        i >= Len(log) - capacity + Max({1, capacity \div 10}) /\ Lives(log[i])
            => log[i] \in ToSet(semantic)
=============================================================================
