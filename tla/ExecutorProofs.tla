--------------------------- MODULE ExecutorProofs ---------------------------
(***************************************************************************)
(* What the chat path guarantees for every set of models, providers,       *)
(* chains, prompts and requests in flight, and every capacity of the       *)
(* caches. One record Good says what is true of a request in each phase;   *)
(* requests meet only in the caches, of which Sound says what is true.     *)
(***************************************************************************)
EXTENDS Executor, FiniteSetTheorems, SequenceTheorems, TLAPS

Errs == {"unserved", "retriable", "fatal"}

Fields == {"phase", "stream", "prompt", "noCache", "allowed", "forced", "model", "provider",
           "at", "from", "answer", "tokens", "heard", "failures", "recorded", "charged"}

Request(q) ==
    /\ DOMAIN q = Fields
    /\ q.phase \in Phases /\ q.at \in Nat /\ q.recorded \in Nat
    /\ q.answer \in Answer \cup {None}
    /\ q.heard \in Seq(Models) /\ q.charged \in Seq(Models) /\ q.failures \in Seq(Errs)
    /\ q.phase # "idle" => q.model \in Models /\ q.prompt \in Prompts

(* The candidates of a request, by its model.                              *)
Cands(m) == <<m>> \o Chain[m]

Fits(q) ==
    /\ q.answer.prompt = q.prompt \/ <<q.prompt, q.answer.prompt>> \in Similar
    /\ \E i \in 1 .. Len(Cands(q.model)) : Cands(q.model)[i] = q.answer.by

(* Until a request is done nothing is settled, and it is at the candidate  *)
(* after the ones that failed, none of them fatally.                       *)
Pending(q) ==
    /\ q.recorded = 0 /\ q.charged = <<>> /\ q.answer = None
    /\ q.at = Len(q.failures) + 1
    /\ \A i \in 1 .. Len(q.failures) : q.failures[i] # "fatal"
    /\ q.phase # "calling" => q.heard = <<>>
    /\ q.phase \in {"exact", "semantic"} => ~q.stream
    /\ q.phase \in {"idle", "exact", "semantic"} => q.at = 1
    /\ q.phase \in {"idle", "exact", "semantic"} => q.from = None
    /\ q.phase # "idle" => q.at <= Len(Cands(q.model)) + 1
    /\ q.phase = "calling" =>
          /\ q.from # None
          /\ q.at <= Len(Cands(q.model))
          /\ \A i \in 1 .. Len(q.heard) : q.heard[i] = Cands(q.model)[q.at]

Settled(q) ==
    /\ q.recorded = IF q.stream THEN Len(q.charged) ELSE 1
    /\ q.answer # None /\ q.from # None => q.charged = <<q.answer.by>>
    /\ q.answer # None /\ q.from = None => q.charged = <<>>
    /\ q.answer = None => q.charged = IF q.heard # <<>> /\ q.tokens > 0
                                      THEN <<q.heard[1]>> ELSE <<>>
    /\ q.at \in 1 .. Len(q.failures) + 1
    /\ \A i \in 1 .. Len(q.failures) - 1 : q.failures[i] # "fatal"
    /\ q.answer = None => \/ q.failures[Len(q.failures)] = "fatal"
                          \/ Len(q.failures) = Len(Cands(q.model))
                          \/ q.heard # <<>>
    /\ q.answer # None => Fits(q)

Good(q) ==
    /\ Request(q)
    /\ ~q.stream => q.heard = <<>>
    /\ q.phase # "done" => Pending(q)
    /\ q.phase = "done" => Settled(q)

(* An entry of a cache answers its own prompt by a candidate of its model. *)
SoundEntry(e) ==
    /\ e \in Entry
    /\ e.answer.prompt = e.prompt
    /\ \E i \in 1 .. Len(Cands(e.model)) : Cands(e.model)[i] = e.answer.by

Sound(cache) ==
    /\ IsFiniteSet(cache) /\ Cardinality(cache) <= Capacity
    /\ \A e \in cache : SoundEntry(e)

IInv ==
    /\ DOMAIN req = Requests
    /\ \A r \in Requests : Good(req[r])
    /\ Sound(exact) /\ Sound(semantic)
    /\ \A e \in writers : SoundEntry(e)
    /\ purging \in BOOLEAN

-----------------------------------------------------------------------------
(* Candidates and caches.                                                  *)

LEMMA CandsType ==
    ASSUME NEW m \in Models
    PROVE  /\ Cands(m) \in Seq(Models) /\ Len(Cands(m)) \in Nat /\ Len(Cands(m)) >= 1
           /\ \A i \in 1 .. Len(Cands(m)) : Cands(m)[i] \in Models
<1>1. Chain[m] \in Seq(Models)
  BY RoutingAssumption
<1> QED BY <1>1, SMT DEF Cands

(* A cache that had room, or gave some entry away, is still within its     *)
(* capacity.                                                               *)
LEMMA AddedSound ==
    ASSUME NEW cache, NEW rest \in SUBSET cache, NEW e, NEW new \in Added(rest, e),
           Sound(cache), SoundEntry(e)
    PROVE  Sound(new)
<1>1. IsFiniteSet(rest) /\ Cardinality(rest) <= Cardinality(cache)
  BY FS_Subset DEF Sound
<1>2. Cardinality(rest) \in Nat /\ Cardinality(cache) \in Nat /\ Capacity \in Nat \ {0}
  BY <1>1, FS_CardinalityType, NumbersAssumption DEF Sound
<1>3. \A f \in new : SoundEntry(f)
  BY DEF Added, Sound
<1>4. CASE Cardinality(rest) < Capacity /\ new = rest \cup {e}
  <2>1. /\ IsFiniteSet(rest \cup {e})
        /\ \/ Cardinality(rest \cup {e}) = Cardinality(rest)
           \/ Cardinality(rest \cup {e}) = Cardinality(rest) + 1
    BY <1>1, FS_AddElement
  <2> QED BY <1>2, <1>3, <1>4, <2>1, FS_CardinalityType, SMT DEF Sound
<1>5. ASSUME NEW f \in rest, new = (rest \ {f}) \cup {e} PROVE Sound(new)
  <2>1. IsFiniteSet(rest \ {f}) /\ Cardinality(rest \ {f}) = Cardinality(rest) - 1
    BY <1>1, FS_RemoveElement
  <2>2. IsFiniteSet(new) /\ Cardinality(new) <= Cardinality(rest)
    BY <1>2, <1>5, <2>1, FS_AddElement, SMT
  <2> QED BY <1>1, <1>2, <1>3, <2>2, FS_CardinalityType, SMT DEF Sound
<1> QED BY <1>4, <1>5 DEF Added

-----------------------------------------------------------------------------
(* Steps of a request.                                                     *)

(* A step that changes one request.                                        *)
LEMMA OneRequest ==
    ASSUME IInv, NEW r \in Requests, NEW q, Good(q), req' = [req EXCEPT ![r] = q]
    PROVE  DOMAIN req' = Requests /\ \A s \in Requests : Good(req'[s])
BY DEF IInv

(* A request is answered by an entry of a cache.                           *)
LEMMA ServedGood ==
    ASSUME IInv, NEW r \in Requests, req[r].phase \in {"exact", "semantic"},
           UNCHANGED <<exact, semantic, writers, purging>>,
           NEW e, SoundEntry(e), e.model = req[r].model,
           e.prompt = req[r].prompt \/ <<req[r].prompt, e.prompt>> \in Similar,
           Served(r, e.answer)
    PROVE  IInv'
<1> DEFINE q == req[r]
<1> DEFINE a == e.answer
<1> DEFINE p == [q EXCEPT !.phase = "done", !.answer = a, !.recorded = q.recorded + 1]
<1>1. Good(q)
  BY DEF IInv
<1>2. req' = [req EXCEPT ![r] = p]
  BY DEF Served, IInv
<1>3. a \in Answer /\ a # None
  BY PromptsAssumption, SMT DEF SoundEntry, Entry, Answer
<1>4. Fits(p)
  <2>1. p.answer = a /\ p.prompt = q.prompt /\ p.model = q.model
    BY <1>1, SMT DEF Good, Request, Fields
  <2> HIDE DEF p
  <2> QED BY <2>1 DEF SoundEntry, Fits
<1>5. Good(p)
  BY <1>1, <1>3, <1>4, SMT DEF Good, Pending, Settled, Request, Phases, Fields
<1> HIDE DEF p
<1> QED BY <1>2, <1>5, OneRequest DEF IInv

LEMMA LookupExactGood ==
    ASSUME IInv, NEW r \in Requests, LookupExact(r)
    PROVE  IInv'
<1>1. Good(req[r]) /\ req[r].phase = "exact"
  BY DEF IInv, LookupExact
<1>2. UNCHANGED <<exact, semantic, writers, purging>>
  BY DEF LookupExact
<1>3. ASSUME NEW a \in ExactHit(r), Served(r, a) PROVE IInv'
  <2>1. PICK e \in exact : e.answer = a /\ e.model = req[r].model /\ e.prompt = req[r].prompt
    BY DEF ExactHit
  <2> QED BY <1>1, <1>2, <1>3, <2>1, ServedGood DEF IInv, Sound
<1>4. ASSUME req' = [req EXCEPT ![r].phase = "semantic"] PROVE IInv'
  <2> DEFINE p == [req[r] EXCEPT !.phase = "semantic"]
  <2>1. req' = [req EXCEPT ![r] = p]
    BY <1>4
  <2>2. Good(p)
    BY <1>1, SMT DEF Good, Pending, Settled, Request, Phases, Fields
  <2> HIDE DEF p
  <2> QED BY <1>2, <2>1, <2>2, OneRequest DEF IInv
<1> QED BY <1>3, <1>4 DEF LookupExact

LEMMA LookupSemanticGood ==
    ASSUME IInv, NEW r \in Requests, LookupSemantic(r)
    PROVE  IInv'
<1>1. Good(req[r]) /\ req[r].phase = "semantic"
  BY DEF IInv, LookupSemantic
<1>2. UNCHANGED <<exact, semantic, writers, purging>>
  BY DEF LookupSemantic
<1>3. ASSUME NEW a \in SemanticHit(r), Served(r, a) PROVE IInv'
  <2>1. PICK e \in semantic : /\ e.answer = a /\ e.model = req[r].model
                              /\ <<req[r].prompt, e.prompt>> \in Similar
    BY DEF SemanticHit
  <2> QED BY <1>1, <1>2, <1>3, <2>1, ServedGood DEF IInv, Sound
<1>4. ASSUME req' = [req EXCEPT ![r].phase = "next"] PROVE IInv'
  <2> DEFINE p == [req[r] EXCEPT !.phase = "next"]
  <2>1. req' = [req EXCEPT ![r] = p]
    BY <1>4
  <2>2. Good(p)
    BY <1>1, SMT DEF Good, Pending, Settled, Request, Phases, Fields
  <2> HIDE DEF p
  <2> QED BY <1>2, <2>1, <2>2, OneRequest DEF IInv
<1> QED BY <1>3, <1>4 DEF LookupSemantic

LEMMA AcceptGood ==
    ASSUME IInv, NEW r \in Requests, Accept(r)
    PROVE  IInv'
<1>0. PICK stream \in Streaming, noCache \in BOOLEAN, p \in Prompts,
           allowed \in Whitelists, asked \in Models, forced \in Forcing :
         /\ Permitted(allowed, asked)
         /\ \E t \in Targets(asked, forced) :
            req' = [req EXCEPT ![r] =
             [Idle EXCEPT !.phase = IF stream THEN "next" ELSE "exact",
                          !.stream = stream, !.prompt = p, !.noCache = noCache,
                          !.allowed = allowed, !.forced = forced,
                          !.model = t.model, !.provider = t.provider]]
  BY Zenon DEF Accept
<1>1. PICK t \in Targets(asked, forced) :
          req' = [req EXCEPT ![r] =
             [Idle EXCEPT !.phase = IF stream THEN "next" ELSE "exact",
                          !.stream = stream, !.prompt = p, !.noCache = noCache,
                          !.allowed = allowed, !.forced = forced,
                          !.model = t.model, !.provider = t.provider]]
  BY <1>0
<1>2. t.model \in Models
  <2> DEFINE m == Alias[asked]
  <2>1. m \in Models /\ Weighted[m] \subseteq [model : Models, provider : Providers]
    BY RoutingAssumption
  <2> HIDE DEF m
  <2>2. CASE t = [model |-> m, provider |-> forced]
    BY <2>1, <2>2
  <2>3. ASSUME NEW u \in Weighted[m], NEW v, t = [u EXCEPT !.provider = v]
        PROVE  t.model \in Models
    BY <2>1, <2>3, SMT
  <2> QED BY <2>2, <2>3, Zenon DEF Targets, m
<1> DEFINE q == [Idle EXCEPT !.phase = IF stream THEN "next" ELSE "exact",
                             !.stream = stream, !.prompt = p, !.noCache = noCache,
                             !.allowed = allowed, !.forced = forced,
                             !.model = t.model, !.provider = t.provider]
<1>3. DOMAIN q = Fields /\ q.stream = stream
  BY Zenon DEF Idle, Fields
<1>4. /\ q.phase = (IF stream THEN "next" ELSE "exact")
      /\ q.prompt = p /\ q.model = t.model
      /\ q.at = 1 /\ q.from = None /\ q.answer = None /\ q.recorded = 0
      /\ q.heard = <<>> /\ q.failures = <<>> /\ q.charged = <<>>
  BY SMT DEF Idle
<1> HIDE DEF q
<1>5. Good(q)
  BY <1>2, <1>3, <1>4, CandsType, ClientsAssumption, SMT DEF Good, Pending, Request, Phases
<1>6. UNCHANGED <<exact, semantic, writers, purging>>
  BY DEF Accept
<1>7. req' = [req EXCEPT ![r] = q]
  BY <1>1 DEF q
<1> QED BY <1>5, <1>6, <1>7, OneRequest DEF IInv

LEMMA FindNextGood ==
    ASSUME IInv, NEW r \in Requests, FindNext(r)
    PROVE  IInv'
<1>1. Good(req[r]) /\ req[r].phase = "next" /\ req[r].at <= Len(Cands(req[r].model))
  BY DEF IInv, FindNext, Candidates, Cands
<1>2. UNCHANGED <<exact, semantic, writers, purging>>
  BY DEF FindNext
<1>3. Len(Cands(req[r].model)) \in Nat
  BY <1>1, CandsType, SMT DEF Good, Request
<1>4. ASSUME req' = [req EXCEPT ![r].at = req[r].at + 1,
                                ![r].failures = Append(req[r].failures, "unserved")]
      PROVE  IInv'
  <2> DEFINE p == [req[r] EXCEPT !.at = req[r].at + 1,
                                 !.failures = Append(req[r].failures, "unserved")]
  <2>1. req' = [req EXCEPT ![r] = p]
    BY <1>4 DEF IInv
  <2>2. Good(p)
    BY <1>1, <1>3, SMT DEF Good, Pending, Request, Phases, Fields, Errs
  <2> HIDE DEF p
  <2> QED BY <1>2, <2>1, <2>2, OneRequest DEF IInv
<1>5. ASSUME NEW from, NEW tokens, from # None,
             req' = [req EXCEPT ![r].phase = "calling", ![r].from = from, ![r].tokens = tokens]
      PROVE  IInv'
  <2> DEFINE p == [req[r] EXCEPT !.phase = "calling", !.from = from, !.tokens = tokens]
  <2>1. req' = [req EXCEPT ![r] = p]
    BY <1>5 DEF IInv
  <2>2. Good(p)
    BY <1>1, <1>3, <1>5, SMT DEF Good, Pending, Request, Phases, Fields
  <2> HIDE DEF p
  <2> QED BY <1>2, <2>1, <2>2, OneRequest DEF IInv
<1> QED BY <1>4, <1>5 DEF FindNext

LEMMA GiveUpGood ==
    ASSUME IInv, NEW r \in Requests, GiveUp(r)
    PROVE  IInv'
<1> DEFINE q == req[r]
<1> DEFINE p == [q EXCEPT !.phase = "done", !.recorded = IF q.stream THEN 0 ELSE 1]
<1>1. Good(q) /\ q.phase = "next" /\ q.at > Len(Cands(q.model))
  BY DEF IInv, GiveUp, Candidates, Cands
<1>2. req' = [req EXCEPT ![r] = p] /\ UNCHANGED <<exact, semantic, writers, purging>>
  BY DEF GiveUp, IInv
<1>3. Len(Cands(q.model)) \in Nat
  BY <1>1, CandsType, SMT DEF Good, Request
<1>4. Good(p)
  BY <1>1, <1>3, SMT DEF Good, Pending, Settled, Request, Phases, Fields
<1> HIDE DEF p
<1> QED BY <1>2, <1>4, OneRequest DEF IInv

(* A request that calls is at one of its candidates.                       *)
LEMMA CallingCandidate ==
    ASSUME NEW q, Good(q), q.phase = "calling"
    PROVE  /\ q.model \in Models /\ q.prompt \in Prompts
           /\ Len(Cands(q.model)) \in Nat /\ q.at \in 1 .. Len(Cands(q.model))
           /\ Cands(q.model)[q.at] \in Models
<1>1. q.model \in Models /\ q.prompt \in Prompts
  BY DEF Good, Request
<1>2. q.at \in Nat /\ q.at >= 1 /\ q.at <= Len(Cands(q.model))
  <2>1. q.failures \in Seq(Errs) /\ q.at = Len(q.failures) + 1
    BY DEF Good, Request, Pending
  <2>2. q.at <= Len(Cands(q.model))
    BY DEF Good, Pending
  <2> QED BY <2>1, <2>2, LenProperties, SMT
<1> QED BY <1>1, <1>2, CandsType, SMT

LEMMA ChunkGood ==
    ASSUME IInv, NEW r \in Requests, NEW tokens, Chunk(r, tokens)
    PROVE  IInv'
<1> DEFINE q == req[r]
<1> DEFINE c == Cands(q.model)[q.at]
<1> DEFINE p == [q EXCEPT !.heard = Append(q.heard, c), !.tokens = q.tokens + tokens]
<1>1. Good(q) /\ q.phase = "calling" /\ q.stream
  BY DEF IInv, Chunk
<1>2. req' = [req EXCEPT ![r] = p] /\ UNCHANGED <<exact, semantic, writers, purging>>
  BY DEF Chunk, IInv, Target, Candidates, Cands
<1>3. c \in Models
  BY <1>1, CallingCandidate
<1>4. DOMAIN p = Fields /\ p.stream = q.stream
  BY <1>1, Zenon DEF Good, Request, Fields
<1>5. /\ p.phase = q.phase /\ p.prompt = q.prompt
      /\ p.model = q.model /\ p.at = q.at /\ p.from = q.from /\ p.answer = q.answer
      /\ p.failures = q.failures /\ p.recorded = q.recorded /\ p.charged = q.charged
      /\ p.heard = Append(q.heard, c)
  BY <1>1, SMT DEF Good, Request, Fields
<1> HIDE DEF p
<1>6. q.heard \in Seq(Models)
  BY <1>1 DEF Good, Request
<1>7. /\ p.heard \in Seq(Models)
      /\ \A i \in 1 .. Len(p.heard) : p.heard[i] = c
  <2>1. \A i \in 1 .. Len(q.heard) : q.heard[i] = c
    BY <1>1 DEF Good, Pending
  <2> HIDE DEF c
  <2> QED BY <1>3, <1>5, <1>6, <2>1, SMT
<1>8. Request(p)
  BY <1>1, <1>4, <1>5, <1>7, SMT DEF Good, Request
<1>9. Pending(p)
  BY <1>1, <1>5, <1>7, SMT DEF Good, Pending
<1> QED
  <2>1. Good(p)
    BY <1>1, <1>4, <1>5, <1>8, <1>9, SMT DEF Good
  <2> QED BY <1>2, <2>1, OneRequest DEF IInv

(* A call that ends well, of a chat or a stream.                           *)
LEMMA AnsweredGood ==
    ASSUME NEW q, Good(q), q.phase = "calling", NEW c, c = Cands(q.model)[q.at],
           NEW a, a = [prompt |-> q.prompt, by |-> c],
           NEW p, p = [q EXCEPT !.phase = "done", !.answer = a, !.recorded = q.recorded + 1,
                                !.charged = Append(q.charged, c)]
    PROVE  Good(p)
<1>1. c \in Models /\ q.at \in 1 .. Len(Cands(q.model))
  BY CallingCandidate
<1>2. a \in Answer /\ a # None
  BY <1>1, PromptsAssumption DEF Answer, Good, Request
<1>3. DOMAIN p = Fields /\ p.stream = q.stream
  BY Zenon DEF Good, Request, Fields
<1>4. /\ p.phase = "done" /\ p.prompt = q.prompt /\ p.model = q.model /\ p.at = q.at
      /\ p.from = q.from /\ p.answer = a /\ p.failures = q.failures /\ p.heard = q.heard
      /\ p.recorded = q.recorded + 1 /\ p.charged = Append(q.charged, c)
  BY SMT DEF Good, Request, Fields
<1>5. /\ q.charged = <<>> /\ q.recorded = 0 /\ q.from # None /\ q.heard \in Seq(Models)
      /\ \A i \in 1 .. Len(q.heard) : q.heard[i] = c
  BY DEF Good, Request, Pending
<1>6. p.charged = <<c>> /\ p.recorded = 1
  BY <1>1, <1>4, <1>5, SMT
<1>7. Fits(p)
  <2>1. p.answer.prompt = p.prompt /\ p.answer.by = c
    BY <1>4
  <2>2. Cands(p.model)[q.at] = c /\ q.at \in 1 .. Len(Cands(p.model))
    BY <1>1, <1>4
  <2> QED BY <2>1, <2>2, Zenon DEF Fits
<1>8. Request(p)
  BY <1>1, <1>2, <1>3, <1>4, <1>6, SMT DEF Good, Request, Phases
<1>9. Settled(p)
  BY <1>2, <1>3, <1>4, <1>5, <1>6, <1>7, SMT DEF Good, Request, Pending, Settled
<1> QED BY <1>3, <1>4, <1>8, <1>9, SMT DEF Good

LEMMA EndStreamGood ==
    ASSUME IInv, NEW r \in Requests, EndStream(r)
    PROVE  IInv'
<1> DEFINE q == req[r]
<1> DEFINE c == Cands(q.model)[q.at]
<1> DEFINE a == [prompt |-> q.prompt, by |-> c]
<1> DEFINE p == [q EXCEPT !.phase = "done", !.answer = a, !.recorded = q.recorded + 1,
                          !.charged = Append(q.charged, c)]
<1>1. Good(q) /\ q.phase = "calling"
  BY DEF IInv, EndStream
<1>2. req' = [req EXCEPT ![r] = p] /\ UNCHANGED <<exact, semantic, writers, purging>>
  BY DEF EndStream, Charged, IInv, Target, Candidates, Cands
<1>3. Good(p)
  BY <1>1, AnsweredGood
<1> HIDE DEF p
<1> QED BY <1>2, <1>3, OneRequest DEF IInv

LEMMA CompleteGood ==
    ASSUME IInv, NEW r \in Requests, Complete(r)
    PROVE  IInv'
<1> DEFINE q == req[r]
<1> DEFINE c == Cands(q.model)[q.at]
<1> DEFINE a == [prompt |-> q.prompt, by |-> c]
<1> DEFINE e == [prompt |-> q.prompt, model |-> q.model, answer |-> a]
<1> DEFINE p == [q EXCEPT !.phase = "done", !.answer = a, !.recorded = q.recorded + 1,
                          !.charged = Append(q.charged, c)]
<1> DEFINE rest == {f \in exact : f.model # e.model \/ f.prompt # e.prompt}
<1>1. Good(q) /\ q.phase = "calling"
  BY DEF IInv, Complete
<1>2. /\ req' = [req EXCEPT ![r] = p]
      /\ exact' \in Added(rest, e)
      /\ writers' \subseteq writers \cup {e}
      /\ UNCHANGED <<semantic, purging>>
  BY DEF Complete, Charged, IInv, Target, Candidates, Cands
<1>3. Good(p)
  BY <1>1, AnsweredGood
<1>4. SoundEntry(e)
  <2>1. /\ c \in Models /\ q.at \in 1 .. Len(Cands(q.model))
        /\ q.prompt \in Prompts /\ q.model \in Models
    BY <1>1, CallingCandidate
  <2> QED BY <2>1 DEF SoundEntry, Entry, Answer
<1> HIDE DEF p, e
<1>5. Sound(exact')
  BY <1>2, <1>4, AddedSound DEF IInv
<1>6. \A f \in writers' : SoundEntry(f)
  BY <1>2, <1>4 DEF IInv
<1>7. DOMAIN req' = Requests /\ \A s \in Requests : Good(req'[s])
  BY <1>2, <1>3, OneRequest
<1> QED BY <1>2, <1>5, <1>6, <1>7 DEF IInv

LEMMA FailGood ==
    ASSUME IInv, NEW r \in Requests, NEW error \in Errors, Fail(r, error)
    PROVE  IInv'
<1> DEFINE q == req[r]
<1> DEFINE c == Cands(q.model)[q.at]
<1> DEFINE failures == Append(q.failures, error)
<1>1. Good(q) /\ q.phase = "calling"
  BY DEF IInv, Fail
<1>2. UNCHANGED <<exact, semantic, writers, purging>>
  BY DEF Fail
<1>3. /\ c \in Models /\ q.at \in 1 .. Len(Cands(q.model))
      /\ Len(Cands(q.model)) \in Nat
  BY <1>1, CallingCandidate
<1>4. /\ failures \in Seq(Errs) /\ Len(failures) = q.at
      /\ failures[Len(failures)] = error
      /\ \A i \in 1 .. Len(failures) - 1 : failures[i] # "fatal"
  BY <1>1, SMT DEF Good, Request, Pending, Errs, Errors
<1>5. /\ q.heard \in Seq(Models) /\ q.answer = None /\ q.recorded = 0 /\ q.charged = <<>>
      /\ \A i \in 1 .. Len(q.heard) : q.heard[i] = c
      /\ ~q.stream => q.heard = <<>>
  BY <1>1 DEF Good, Request, Pending
<1> HIDE DEF failures, c
<1>6. CASE Broken(r)
  <2> DEFINE charged == ChargeBroken(r)
  <2> DEFINE p == [q EXCEPT !.phase = "done", !.failures = failures,
                            !.recorded = q.recorded + IF q.tokens > 0 THEN 1 ELSE 0,
                            !.charged = charged]
  <2>1. req' = [req EXCEPT ![r] = p] /\ q.heard # <<>>
    BY <1>6 DEF Fail, Broken, IInv, failures
  <2>2. charged = IF q.tokens > 0 THEN <<c>> ELSE <<>>
    BY <1>3, <1>5, SMT DEF ChargeBroken, Charged, Target, Candidates, Cands, c
  <2>3. DOMAIN p = Fields /\ p.stream = q.stream
    BY <1>1, Zenon DEF Good, Request, Fields
  <2>4. /\ p.phase = "done" /\ p.prompt = q.prompt /\ p.model = q.model /\ p.at = q.at
        /\ p.answer = q.answer /\ p.failures = failures /\ p.heard = q.heard
        /\ p.recorded = (IF q.tokens > 0 THEN 1 ELSE 0) /\ p.charged = charged
        /\ p.tokens = q.tokens
    BY <1>1, <1>5, SMT DEF Good, Request, Fields
  <2> HIDE DEF p, charged
  <2>5. Request(p)
    BY <1>1, <1>3, <1>4, <2>2, <2>3, <2>4, SMT DEF Good, Request, Phases
  <2>6. Settled(p)
    BY <1>3, <1>4, <1>5, <2>1, <2>2, <2>3, <2>4, SMT DEF Settled
  <2>7. Good(p)
    BY <1>5, <2>3, <2>4, <2>5, <2>6, SMT DEF Good
  <2> QED BY <1>2, <2>1, <2>7, OneRequest DEF IInv
<1>7. CASE ~Broken(r) /\ MovesOn(r, error)
  <2> DEFINE p == [q EXCEPT !.phase = "next", !.failures = failures, !.at = q.at + 1]
  <2>1. /\ req' = [req EXCEPT ![r] = p] /\ q.heard = <<>>
        /\ error = "retriable" /\ q.at < Len(Cands(q.model))
    BY <1>7 DEF Fail, Broken, MovesOn, Candidates, Cands, IInv, failures
  <2>2. DOMAIN p = Fields /\ p.stream = q.stream
    BY <1>1, Zenon DEF Good, Request, Fields
  <2>3. /\ p.phase = "next" /\ p.prompt = q.prompt /\ p.model = q.model /\ p.at = q.at + 1
        /\ p.answer = q.answer /\ p.failures = failures /\ p.heard = q.heard
        /\ p.recorded = q.recorded /\ p.charged = q.charged
    BY <1>1, SMT DEF Good, Request, Fields
  <2> HIDE DEF p
  <2>4. Request(p)
    BY <1>1, <1>3, <1>4, <2>2, <2>3, SMT DEF Good, Request, Phases
  <2>5. Pending(p)
    BY <1>3, <1>4, <1>5, <2>1, <2>3, SMT DEF Pending
  <2>6. Good(p)
    BY <2>1, <2>3, <2>4, <2>5, SMT DEF Good
  <2> QED BY <1>2, <2>1, <2>6, OneRequest DEF IInv
<1>8. CASE ~Broken(r) /\ ~MovesOn(r, error)
  <2> DEFINE p == [q EXCEPT !.phase = "done", !.failures = failures,
                            !.recorded = IF q.stream THEN 0 ELSE 1]
  <2>1. /\ req' = [req EXCEPT ![r] = p] /\ q.heard = <<>>
        /\ error = "fatal" \/ ~(q.at < Len(Cands(q.model)))
    BY <1>8 DEF Fail, Broken, MovesOn, Candidates, Cands, IInv, failures, Errors
  <2>2. DOMAIN p = Fields /\ p.stream = q.stream
    BY <1>1, Zenon DEF Good, Request, Fields
  <2>3. /\ p.phase = "done" /\ p.prompt = q.prompt /\ p.model = q.model /\ p.at = q.at
        /\ p.answer = q.answer /\ p.failures = failures /\ p.heard = q.heard
        /\ p.recorded = (IF q.stream THEN 0 ELSE 1) /\ p.charged = q.charged
    BY <1>1, SMT DEF Good, Request, Fields
  <2> HIDE DEF p
  <2>4. Request(p)
    BY <1>1, <1>3, <1>4, <2>2, <2>3, SMT DEF Good, Request, Phases
  <2>5. Settled(p)
    BY <1>3, <1>4, <1>5, <2>1, <2>2, <2>3, SMT DEF Settled
  <2>6. Good(p)
    BY <2>1, <2>3, <2>4, <2>5, SMT DEF Good
  <2> QED BY <1>2, <2>1, <2>6, OneRequest DEF IInv
<1> QED BY <1>6, <1>7, <1>8

LEMMA ReplyGood ==
    ASSUME IInv, NEW r \in Requests, Reply(r)
    PROVE  IInv'
<1>1. req' = [req EXCEPT ![r] = Idle] /\ UNCHANGED <<exact, semantic, writers, purging>>
  BY DEF Reply
<1>2. Good(Idle)
  BY SMT DEF Good, Request, Pending, Idle, Fields, Phases
<1> QED BY <1>1, <1>2, OneRequest DEF IInv

-----------------------------------------------------------------------------
(* Steps of the caches alone.                                              *)

LEMMA LessSound ==
    ASSUME NEW cache, NEW rest \in SUBSET cache, Sound(cache)
    PROVE  Sound(rest)
<1>1. IsFiniteSet(rest) /\ Cardinality(rest) <= Cardinality(cache)
  BY FS_Subset DEF Sound
<1> QED BY <1>1, FS_CardinalityType, NumbersAssumption, SMT DEF Sound

LEMMA CacheStepGood ==
    ASSUME IInv, (\E w \in writers : WriteSemantic(w)) \/ Forget \/ PurgeExact \/ PurgeSemantic
    PROVE  IInv'
<1>1. ASSUME NEW w \in writers, WriteSemantic(w) PROVE IInv'
  <2>1. Sound(semantic')
    BY <1>1, AddedSound DEF WriteSemantic, IInv
  <2> QED BY <1>1, <2>1 DEF WriteSemantic, IInv
<1>2. ASSUME UNCHANGED <<req, writers>>, exact' \subseteq exact, semantic' \subseteq semantic,
             purging' \in BOOLEAN
      PROVE  IInv'
  <2>1. Sound(exact') /\ Sound(semantic')
    BY <1>2, LessSound DEF IInv
  <2> QED BY <1>2, <2>1 DEF IInv
<1> QED BY <1>1, <1>2 DEF IInv, Forget, PurgeExact, PurgeSemantic

-----------------------------------------------------------------------------

LEMMA InitGood == Init => IInv
<1> SUFFICES ASSUME Init PROVE IInv
  OBVIOUS
<1>1. Good(Idle)
  BY SMT DEF Good, Request, Pending, Idle, Fields, Phases
<1>2. DOMAIN req = Requests /\ \A r \in Requests : Good(req[r])
  BY <1>1 DEF Init
<1>3. Sound({})
  BY FS_EmptySet, NumbersAssumption, SMT DEF Sound
<1> QED BY <1>2, <1>3 DEF Init, IInv

LEMMA StepGood == IInv /\ [Next]_vars => IInv'
<1> SUFFICES ASSUME IInv, [Next]_vars PROVE IInv'
  OBVIOUS
<1>1. ASSUME NEW r \in Requests, Accept(r) PROVE IInv'
  BY <1>1, AcceptGood
<1>2. ASSUME NEW r \in Requests, Steps(r) PROVE IInv'
  BY <1>2, LookupExactGood, LookupSemanticGood, FindNextGood, GiveUpGood, CompleteGood,
     EndStreamGood, FailGood, ReplyGood DEF Steps, Answers
<1>3. ASSUME NEW r \in Requests, NEW tokens \in 0 .. 1, Chunk(r, tokens) PROVE IInv'
  BY <1>3, ChunkGood
<1>4. CASE UNCHANGED vars
  BY <1>4 DEF vars, IInv
<1> QED BY <1>1, <1>2, <1>3, <1>4, CacheStepGood DEF Next

LEMMA IInvHolds == Spec => []IInv
BY InitGood, StepGood, PTL DEF Spec

(* Requests, caches and goroutines stay within their types and capacities. *)
THEOREM TypeCorrect == Spec => []TypeOK
<1>1. IInv => TypeOK
  <2> SUFFICES ASSUME IInv PROVE TypeOK
    OBVIOUS
  <2>1. ASSUME NEW r \in Requests
        PROVE  /\ req[r].phase \in Phases
               /\ req[r].phase # "idle" => req[r].model \in Models
               /\ req[r].answer \in Answer \cup {None}
               /\ req[r].at \in 1 .. Len(req[r].failures) + 1
               /\ req[r].charged \in Seq(Models) /\ req[r].heard \in Seq(Models)
    <3>1. Good(req[r])
      BY DEF IInv
    <3>2. req[r].at \in 1 .. Len(req[r].failures) + 1
      BY <3>1, LenProperties, SMT DEF Good, Request, Pending, Settled
    <3> QED BY <3>1, <3>2 DEF Good, Request
  <2>2. /\ exact \subseteq Entry /\ Cardinality(exact) <= Capacity
        /\ semantic \subseteq Entry /\ Cardinality(semantic) <= Capacity
        /\ writers \subseteq Entry /\ purging \in BOOLEAN
    BY DEF IInv, Sound, SoundEntry
  <2> QED BY <2>1, <2>2 DEF TypeOK
<1> QED BY <1>1, IInvHolds, PTL

(* An answer, from upstream or a cache that another request filled, fits   *)
(* the conversation and the chain of the request that gets it.             *)
THEOREM AnswersAlwaysFit == Spec => []AnswersFit
<1>1. IInv => AnswersFit
  <2> SUFFICES ASSUME IInv, NEW r \in Requests, req[r].answer # None
               PROVE  LET a == req[r].answer IN
                      /\ a.prompt = req[r].prompt \/ <<req[r].prompt, a.prompt>> \in Similar
                      /\ \E i \in DOMAIN Candidates(r) : Candidates(r)[i] = a.by
    BY DEF AnswersFit
  <2>1. Good(req[r])
    BY DEF IInv
  <2>2. Fits(req[r])
    BY <2>1, Zenon DEF Good, Pending, Settled
  <2>3. req[r].phase = "done" /\ req[r].model \in Models
    BY <2>1, SMT DEF Good, Pending, Request
  <2>4. DOMAIN Candidates(r) = 1 .. Len(Cands(req[r].model))
    BY <2>3, CandsType, LenProperties DEF Candidates, Cands
  <2> QED BY <2>2, <2>4 DEF Fits, Candidates, Cands
<1> QED BY <1>1, IInvHolds, PTL

(* A request is charged once for what it got from upstream, at the price   *)
(* of the model that made it, nothing for what it got from a cache, and is *)
(* recorded as often as it should be.                                      *)
THEOREM SettledExactlyOnce == Spec => []SettledOnce
<1>1. IInv => SettledOnce
  <2> SUFFICES ASSUME IInv, NEW r \in Requests
               PROVE  LET q == req[r] IN
                      /\ ~Done(r) => q.recorded = 0 /\ q.charged = <<>>
                      /\ Done(r) =>
                           /\ q.recorded = IF q.stream THEN Len(q.charged) ELSE 1
                           /\ q.answer # None /\ q.from # None => q.charged = <<q.answer.by>>
                           /\ q.answer # None /\ q.from = None => q.charged = <<>>
                           /\ q.answer = None =>
                                q.charged = IF q.heard # <<>> /\ q.tokens > 0
                                            THEN <<q.heard[1]>> ELSE <<>>
    BY DEF SettledOnce
  <2>1. Good(req[r])
    BY DEF IInv
  <2> QED BY <2>1, Zenon DEF Good, Pending, Settled, Done
<1> QED BY <1>1, IInvHolds, PTL

(* Failover goes on only after errors that are retriable, and gives up     *)
(* only at a fatal one, at the end of the chain or in the middle of a      *)
(* stream.                                                                 *)
THEOREM FailoverInOrder == Spec => []FailsOver
<1>1. IInv => FailsOver
  <2> SUFFICES ASSUME IInv, NEW r \in Requests
               PROVE  LET f == req[r].failures IN
                      /\ \A i \in 1 .. Len(f) - 1 : f[i] # "fatal"
                      /\ Failed(r) => \/ f[Len(f)] = "fatal"
                                      \/ Len(f) = Len(Candidates(r))
                                      \/ req[r].heard # <<>>
    BY DEF FailsOver
  <2>1. Good(req[r])
    BY DEF IInv
  <2>2. req[r].failures \in Seq(Errs)
    BY <2>1 DEF Good, Request
  <2> QED BY <2>1, <2>2, SMT DEF Good, Pending, Settled, Done, Failed, Candidates, Cands
<1> QED BY <1>1, IInvHolds, PTL
=============================================================================
