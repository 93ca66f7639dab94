------------------------------ MODULE Executor ------------------------------
(***************************************************************************)
(* The chat path of the gateway: ChatCompletionsHandler of internal/server *)
(* and Executor of internal/engine/fallback.go, which looks a request up   *)
(* in two caches, tries the models of its fallback chain one after the     *)
(* other, streams or returns the answer, records metrics and charges the   *)
(* virtual key. Requests run concurrently and meet in the caches; the      *)
(* semantic cache is written by goroutines that outlive their request; the *)
(* administrator may purge at any time. A step of a request is what it     *)
(* does between two operations on shared state or waits for upstream.      *)
(* An answer is identified by the prompt and the model it was made for.    *)
(***************************************************************************)
EXTENDS Integers, Sequences, FiniteSets

CONSTANTS
    Models,      \* model names, those of weighted targets included
    Providers,   \* provider names
    Registered,  \* the providers that are configured
    Alias,       \* ResolveModel: the concrete model of a name
    Weighted,    \* the weighted targets of a model, none for most
    Chain,       \* the fallback chain of a model
    Serves,      \* the provider FindProvider picks for a model by its name
    Prompts,     \* conversations
    Texts,       \* the prompts that are not blank
    Similar,     \* pairs of prompts above the similarity threshold
    Whitelists,  \* the AllowedModels of virtual keys; {} allows all
    Streaming,   \* the values of the stream flag that clients send
    Forcing,     \* the providers that clients force, None among them
    Requests,    \* the requests that can be in flight at once
    Capacity,    \* of each of the two caches
    MaxChunks,   \* bound on the chunks of a stream
    MaxWriters,  \* bound on the background writes under way
    None

ASSUME RoutingAssumption ==
    /\ Registered \subseteq Providers /\ None \notin Providers \cup Models
    /\ Alias \in [Models -> Models]
    /\ Weighted \in [Models -> SUBSET [model : Models, provider : Providers]]
    /\ Chain \in [Models -> Seq(Models)]
    /\ Serves \in [Models -> Registered \cup {None}]
ASSUME PromptsAssumption ==
    /\ Texts \subseteq Prompts
    /\ Similar \subseteq Prompts \X Prompts
    /\ \A p \in Texts : <<p, p>> \in Similar
    /\ None \notin Prompts \cup [prompt : Prompts, by : Models]
ASSUME ClientsAssumption == /\ Streaming \subseteq BOOLEAN
                            /\ Forcing \subseteq Providers \cup {None}
ASSUME NumbersAssumption == /\ Capacity \in Nat \ {0}
                            /\ MaxChunks \in Nat
                            /\ MaxWriters \in Nat \ {0}

VARIABLES
    req,       \* the requests
    exact,     \* the entries of the exact cache
    semantic,  \* the entries of the semantic cache
    writers,   \* the goroutines that have yet to write to it
    purging    \* PurgeCache has cleared the exact cache only

vars == <<req, exact, semantic, writers, purging>>

Answer == [prompt : Prompts, by : Models]
Entry  == [prompt : Prompts, model : Models, answer : Answer]

Phases == {"idle", "exact", "semantic", "next", "calling", "done"}

Tokens(p) == IF p \in Texts THEN 1 ELSE 0

(* asked and forced are the client's; model and provider are what weighted *)
(* routing made of them; at is the candidate being tried, from which of    *)
(* the providers; heard, failures, recorded and charged are history.       *)
Idle == [phase |-> "idle", stream |-> FALSE, prompt |-> None, noCache |-> FALSE,
         allowed |-> {}, forced |-> None, model |-> None, provider |-> None,
         at |-> 1, from |-> None, answer |-> None, tokens |-> 0,
         heard |-> <<>>, failures |-> <<>>, recorded |-> 0, charged |-> <<>>]

Init ==
    /\ req = [r \in Requests |-> Idle]
    /\ exact = {}
    /\ semantic = {}
    /\ writers = {}
    /\ purging = FALSE

-----------------------------------------------------------------------------
(* Admission and routing.                                                  *)

Permitted(allowed, asked) ==
    allowed = {} \/ asked \in allowed \/ Alias[asked] \in allowed

(* A model with weighted targets is replaced by one of them, drawn by      *)
(* weight, and the target's provider unless the client forces one.         *)
Targets(asked, forced) ==
    LET m == Alias[asked] IN
    IF Weighted[m] = {} THEN {[model |-> m, provider |-> forced]}
    ELSE {[t EXCEPT !.provider = IF forced = None THEN t.provider ELSE forced] :
             t \in Weighted[m]}

Accept(r) ==
    /\ req[r].phase = "idle"
    /\ \E stream \in Streaming, noCache \in BOOLEAN, p \in Prompts,
          allowed \in Whitelists, asked \in Models, forced \in Forcing :
          /\ Permitted(allowed, asked)
          /\ \E t \in Targets(asked, forced) :
                req' = [req EXCEPT ![r] =
                   [Idle EXCEPT !.phase = IF stream THEN "next" ELSE "exact",
                                !.stream = stream, !.prompt = p, !.noCache = noCache,
                                !.allowed = allowed, !.forced = forced,
                                !.model = t.model, !.provider = t.provider]]
    /\ UNCHANGED <<exact, semantic, writers, purging>>

Candidates(r) == <<req[r].model>> \o Chain[req[r].model]

FindProvider(m, force) ==
    IF force = None THEN Serves[m]
    ELSE IF force \in Registered THEN force ELSE None

(* A chat asks for the provider the client forced, a stream for the one    *)
(* that weighted routing chose, whichever candidate it is for.             *)
ProviderFor(r) ==
    FindProvider(Candidates(r)[req[r].at],
                 IF req[r].stream THEN req[r].provider ELSE req[r].forced)

-----------------------------------------------------------------------------
(* The caches.                                                             *)

(* Mutant: the key leaves the conversation out.                            *)
ExactHit_AnyPrompt(r) == {e.answer : e \in {e \in exact : e.model = req[r].model}}

ExactHit(r) == {e.answer : e \in {e \in exact : /\ e.model = req[r].model
                                                /\ e.prompt = req[r].prompt}}

SemanticHit(r) ==
    {e.answer : e \in {e \in semantic : /\ e.model = req[r].model
                                        /\ <<req[r].prompt, e.prompt>> \in Similar}}

(* What a cache may be with e added to it, where some entry gives way at   *)
(* the capacity: modules ExactCache and LRUCache say which.                *)
Added(cache, e) ==
    IF Cardinality(cache) < Capacity THEN {cache \cup {e}}
    ELSE {(cache \ {f}) \cup {e} : f \in cache}

(* The request is over; a chat records every outcome.                      *)
Served(r, a) ==
    req' = [req EXCEPT ![r].phase = "done", ![r].answer = a,
                       ![r].recorded = req[r].recorded + 1]

LookupExact(r) ==
    /\ req[r].phase = "exact"
    /\ \/ /\ ~req[r].noCache
          /\ \E a \in ExactHit(r) : Served(r, a)
       \/ /\ req[r].noCache \/ ExactHit(r) = {}
          /\ req' = [req EXCEPT ![r].phase = "semantic"]
    /\ UNCHANGED <<exact, semantic, writers, purging>>

(* Of the entries for the model the most similar is taken: here any.       *)
LookupSemantic(r) ==
    /\ req[r].phase = "semantic"
    /\ LET asks == ~req[r].noCache /\ req[r].prompt \in Texts IN
       \/ asks /\ \E a \in SemanticHit(r) : Served(r, a)
       \/ /\ asks => SemanticHit(r) = {}
          /\ req' = [req EXCEPT ![r].phase = "next"]
    /\ UNCHANGED <<exact, semantic, writers, purging>>

(* Every goroutine gets its vector, from the local engine if need be.      *)
WriteSemantic(w) ==
    /\ w \in writers
    /\ writers' = writers \ {w}
    /\ semantic' \in Added(semantic, w)
    /\ UNCHANGED <<req, exact, purging>>

(* An entry expires or is evicted.                                         *)
Forget ==
    /\ \/ (\E e \in exact : exact' = exact \ {e}) /\ UNCHANGED semantic
       \/ (\E e \in semantic : semantic' = semantic \ {e}) /\ UNCHANGED exact
    /\ UNCHANGED <<req, writers, purging>>

PurgeExact ==
    /\ ~purging
    /\ exact' = {}
    /\ purging' = TRUE
    /\ UNCHANGED <<req, semantic, writers>>

PurgeSemantic ==
    /\ purging
    /\ semantic' = {}
    /\ purging' = FALSE
    /\ UNCHANGED <<req, exact, writers>>

-----------------------------------------------------------------------------
(* Upstream.                                                               *)

(* Mutant: a candidate nobody serves is asked for again.                   *)
FindNext_Stuck(r) ==
    /\ req[r].phase = "next"
    /\ req[r].at <= Len(Candidates(r))
    /\ ProviderFor(r) # None
    /\ req' = [req EXCEPT ![r].phase = "calling", ![r].from = ProviderFor(r),
                          ![r].tokens = IF req[r].stream THEN Tokens(req[r].prompt)
                                        ELSE 0]
    /\ UNCHANGED <<exact, semantic, writers, purging>>

FindNext(r) ==
    /\ req[r].phase = "next"
    /\ req[r].at <= Len(Candidates(r))
    /\ \/ /\ ProviderFor(r) = None
          /\ req' = [req EXCEPT ![r].at = req[r].at + 1,
                                ![r].failures = Append(req[r].failures, "unserved")]
       \/ /\ ProviderFor(r) # None
          /\ req' = [req EXCEPT ![r].phase = "calling", ![r].from = ProviderFor(r),
                                ![r].tokens = IF req[r].stream
                                              THEN Tokens(req[r].prompt) ELSE 0]
    /\ UNCHANGED <<exact, semantic, writers, purging>>

(* No candidate is left. A stream that heard nothing records nothing.      *)
GiveUp(r) ==
    /\ req[r].phase = "next"
    /\ req[r].at > Len(Candidates(r))
    /\ req' = [req EXCEPT ![r].phase = "done",
                          ![r].recorded = IF req[r].stream THEN 0 ELSE 1]
    /\ UNCHANGED <<exact, semantic, writers, purging>>

Target(r) == Candidates(r)[req[r].at]

(* Mutant: the price is that of the model the request was routed to.       *)
Charged_Routed(r) == Append(req[r].charged, req[r].model)

(* What is used is charged at the price of the model that was called.      *)
Charged(r) == Append(req[r].charged, Target(r))

(* A complete answer is cached, under the model the request was routed to  *)
(* and even for a request that bypasses the caches; a blank prompt only in *)
(* the exact one.                                                          *)
Complete(r) ==
    /\ req[r].phase = "calling" /\ ~req[r].stream
    /\ Cardinality(writers) < MaxWriters
    /\ LET a == [prompt |-> req[r].prompt, by |-> Target(r)]
           e == [prompt |-> req[r].prompt, model |-> req[r].model, answer |-> a]
       IN  /\ exact' \in Added({f \in exact : f.model # e.model \/ f.prompt # e.prompt}, e)
           /\ writers' = IF req[r].prompt \in Texts THEN writers \cup {e}
                         ELSE writers
           /\ req' = [req EXCEPT ![r].phase = "done", ![r].answer = a,
                                 ![r].recorded = req[r].recorded + 1,
                                 ![r].charged = Charged(r)]
    /\ UNCHANGED <<semantic, purging>>

Chunk(r, tokens) ==
    /\ req[r].phase = "calling" /\ req[r].stream
    /\ Len(req[r].heard) < MaxChunks
    /\ req' = [req EXCEPT ![r].heard = Append(req[r].heard, Target(r)),
                          ![r].tokens = req[r].tokens + tokens]
    /\ UNCHANGED <<exact, semantic, writers, purging>>

EndStream(r) ==
    /\ req[r].phase = "calling" /\ req[r].stream
    /\ req' = [req EXCEPT ![r].phase = "done",
                          ![r].answer = [prompt |-> req[r].prompt, by |-> Target(r)],
                          ![r].recorded = req[r].recorded + 1,
                          ![r].charged = Charged(r)]
    /\ UNCHANGED <<exact, semantic, writers, purging>>

(* A stream that breaks after its first chunk is not retried.              *)
Broken(r) == req[r].heard # <<>>

(* Mutant: a broken stream is charged at the price of the provider.        *)
ChargeBroken_Provider(r) == Append(req[r].charged, req[r].from)

ChargeBroken(r) == IF req[r].tokens > 0 THEN Charged(r) ELSE req[r].charged

(* Mutant: any error moves on to the next candidate.                       *)
MovesOn_Always(r, error) == req[r].at < Len(Candidates(r))

MovesOn(r, error) == error = "retriable" /\ req[r].at < Len(Candidates(r))

(* The call fails: 429, 500, 502 to 504 and network errors are retriable,  *)
(* any other answer is not.                                                *)
Fail(r, error) ==
    /\ req[r].phase = "calling"
    /\ LET failures == Append(req[r].failures, error) IN
       \/ /\ Broken(r)
          /\ req' = [req EXCEPT ![r].phase = "done", ![r].failures = failures,
                                ![r].recorded = req[r].recorded
                                       + IF req[r].tokens > 0 THEN 1 ELSE 0,
                                ![r].charged = ChargeBroken(r)]
       \/ /\ ~Broken(r)
          /\ MovesOn(r, error)
          /\ req' = [req EXCEPT ![r].phase = "next", ![r].failures = failures,
                                ![r].at = req[r].at + 1]
       \/ /\ ~Broken(r)
          /\ ~MovesOn(r, error)
          /\ req' = [req EXCEPT ![r].phase = "done", ![r].failures = failures,
                                ![r].recorded = IF req[r].stream THEN 0 ELSE 1]
    /\ UNCHANGED <<exact, semantic, writers, purging>>

Reply(r) ==
    /\ req[r].phase = "done"
    /\ req' = [req EXCEPT ![r] = Idle]
    /\ UNCHANGED <<exact, semantic, writers, purging>>

Errors == {"retriable", "fatal"}

Answers(r) == Complete(r) \/ EndStream(r) \/ \E error \in Errors : Fail(r, error)

Steps(r) == \/ LookupExact(r) \/ LookupSemantic(r)
            \/ FindNext(r) \/ GiveUp(r) \/ Answers(r) \/ Reply(r)

Next ==
    \/ \E r \in Requests : Accept(r) \/ Steps(r) \/ \E tokens \in 0 .. 1 : Chunk(r, tokens)
    \/ \E w \in writers : WriteSemantic(w)
    \/ Forget
    \/ PurgeExact \/ PurgeSemantic

Spec == Init /\ [][Next]_vars

(* Each step of a request is a goroutine that the scheduler runs; a call   *)
(* upstream ends, since its HTTP client times out; a background write has  *)
(* a deadline of its own.                                                  *)
FairSpec ==
    /\ Spec
    /\ \A r \in Requests : WF_vars(Steps(r))
    /\ WF_vars(\E w \in writers : WriteSemantic(w))

-----------------------------------------------------------------------------
(* Properties.                                                             *)

Done(r) == req[r].phase = "done"
Failed(r) == Done(r) /\ req[r].answer = None

TypeOK ==
    /\ \A r \in Requests :
          /\ req[r].phase \in Phases
          /\ req[r].phase # "idle" => req[r].model \in Models
          /\ req[r].answer \in Answer \cup {None}
          /\ req[r].at \in 1 .. Len(req[r].failures) + 1
          /\ req[r].charged \in Seq(Models) /\ req[r].heard \in Seq(Models)
    /\ exact \subseteq Entry /\ Cardinality(exact) <= Capacity
    /\ semantic \subseteq Entry /\ Cardinality(semantic) <= Capacity
    /\ writers \subseteq Entry
    /\ purging \in BOOLEAN

(* Whether it comes from upstream or from a cache another request filled,  *)
(* an answer was made for this conversation or, by the semantic cache, a   *)
(* similar one, and by a model this request could have fallen back to.     *)
AnswersFit ==
    \A r \in Requests : req[r].answer # None =>
        LET a == req[r].answer IN
        /\ a.prompt = req[r].prompt \/ <<req[r].prompt, a.prompt>> \in Similar
        /\ \E i \in DOMAIN Candidates(r) : Candidates(r)[i] = a.by

(* Settlement (fallback.go:243-263, 385-433). An answer that came from     *)
(* upstream is charged once, at the price of the model that made it; one   *)
(* out of a cache costs nothing (no provider was called for it: from is    *)
(* None); a request that fails is charged only for the part of a stream it *)
(* passed on, at the price of the model that sent it. A chat leaves one    *)
(* record however it ends, a stream one for its charge and none without;   *)
(* until a request is done it has neither.                                 *)
SettledOnce ==
    \A r \in Requests :
        LET q == req[r] IN
        /\ ~Done(r) => q.recorded = 0 /\ q.charged = <<>>
        /\ Done(r) =>
             /\ q.recorded = IF q.stream THEN Len(q.charged) ELSE 1
             /\ q.answer # None /\ q.from # None => q.charged = <<q.answer.by>>
             /\ q.answer # None /\ q.from = None => q.charged = <<>>
             /\ q.answer = None =>
                  q.charged = IF q.heard # <<>> /\ q.tokens > 0
                              THEN <<q.heard[1]>> ELSE <<>>

(* Failover: a request gives up only at an error that is not retriable, at *)
(* the end of its chain, or with part of a stream already delivered, and   *)
(* it goes on to the next candidate only after an error that is retriable  *)
(* or a candidate nobody serves.                                           *)
FailsOver ==
    \A r \in Requests :
        LET f == req[r].failures IN
        /\ \A i \in 1 .. Len(f) - 1 : f[i] # "fatal"
        /\ Failed(r) => \/ f[Len(f)] = "fatal"
                        \/ Len(f) = Len(Candidates(r))
                        \/ req[r].heard # <<>>

(* Every request is answered, whatever fails upstream.                     *)
Answered == \A r \in Requests : (req[r].phase # "idle") ~> (req[r].phase = "idle")

(* README.md's "strict allowed model whitelists": a key with a whitelist   *)
(* gets answers of no other model. The handler checks the model the client *)
(* names and the alias it stands for, but neither the weighted target nor  *)
(* the fallback that answers.                                              *)
WhitelistIsStrict ==
    \A r \in Requests :
        req[r].allowed # {} /\ req[r].answer # None
            => req[r].answer.by \in req[r].allowed

(* README.md's "Weighted Provider Load Balancing": the target drawn names  *)
(* a provider and a model, and the provider serves the model. For a chat   *)
(* the code passes FindProvider the client's provider instead of it.       *)
WeightedProviderServes ==
    \A r \in Requests :
        req[r].phase = "calling" /\ req[r].at = 1 /\ req[r].provider # None
            => req[r].from = req[r].provider
=============================================================================
