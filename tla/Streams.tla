------------------------------ MODULE Streams ------------------------------
(***************************************************************************)
(* One streamed request after the other, from the lines that upstream      *)
(* sends to the events the client reads: Stream of the providers (openai   *)
(* and those that share its code, anthropic, gemini, ollama, mock), the    *)
(* callback in which ExecuteChatStream counts tokens, its records and      *)
(* charges, and the SSE writer of the handler. Executor is the abstract    *)
(* specification of the loop over the fallback chain. Upstream may say     *)
(* anything its protocol has, in any order, end or break off at any line;  *)
(* the client may leave at any time. A text is known by the position of    *)
(* its line, and is one token long by the executor's estimate.             *)
(***************************************************************************)
EXTENDS Metrics

CONSTANTS
    Models,       \* the names of models
    Serves,       \* the protocol of the provider of a model, or None
    Chain,        \* the fallback chain of a model
    Count,        \* what upstream counts, prompt or completion
    MaxLines,     \* bound on the lines of a stream
    MaxStreams,   \* bound on the records when a stream begins
    MaxRecords,   \* bound on the records when a chat does
    None

Protocols == {"anthropic", "gemini", "ollama", "openai", "mock"}

ASSUME StreamsAssumption ==
    /\ None \notin Models \cup Protocols
    /\ None \notin {"stop", "length", "tool_calls", "[DONE]", "error"}
    /\ None \notin [prompt : Nat, comp : Nat]
    /\ Models \subseteq PricedModels
    /\ Serves \in [Models -> Protocols \cup {None}]
    /\ Chain \in [Models -> Seq(Models)]
    /\ Count \in Nat \ {0} /\ MaxLines \in Nat
    /\ MaxStreams \in Nat /\ MaxRecords \in Nat

VARIABLES
    phase,    \* of the request
    asked, prompt,  \* the model and whether the prompt has text
    at, from, \* the candidate that is tried, and its protocol
    lines,    \* what upstream has sent in this stream
    counted,  \* what the provider remembers of them
    passed,   \* the chunks the provider has passed to the callback
    tokens,   \* the executor's counts
    failures, \* of the candidates, as errors that are retriable or fatal
    client,   \* what the client has read
    gone,     \* the client has left
    bill,     \* the model the request is recorded under
    spent     \* the spend of the virtual key

request == <<phase, asked, prompt, at, from, lines, counted, passed, tokens, failures, client,
             gone, bill>>
vars == <<request, spent, collector, logs>>

Zero == [prompt |-> 0, comp |-> 0]
Candidates == <<asked>> \o Chain[asked]
Target == Candidates[at]

-----------------------------------------------------------------------------
(* What upstream sends. A line is a server-sent event or a line of JSON.   *)

Line == [kind |-> "data", text |-> FALSE, call |-> FALSE, finish |-> None,
         prompt |-> 0, comp |-> 0]
Garbage   == [Line EXCEPT !.kind = "garbage"]
TextLine  == [Line EXCEPT !.text = TRUE]
CallLine  == [Line EXCEPT !.call = TRUE]
Done      == [Line EXCEPT !.kind = "[DONE]"]
Finish(f) == [Line EXCEPT !.finish = f]
Counts(n) == [Line EXCEPT !.prompt = n, !.comp = n]

(* Anthropic's events have a name; an error is one like any other. Gemini  *)
(* counts beside a text. Ollama's last line is done. Mock sends words and  *)
(* then the end.                                                           *)
Lines(p) ==
    CASE p = "anthropic" ->
            {Garbage, TextLine, CallLine, Finish("stop"),
             [Line EXCEPT !.kind = "message_start", !.prompt = Count],
             [Line EXCEPT !.kind = "message_delta", !.comp = Count]}
      [] p = "gemini" ->
            {Garbage, TextLine, CallLine, Done, Finish("length"),
             [Counts(Count) EXCEPT !.text = TRUE, !.finish = "stop"]}
      [] p = "ollama" ->
            {Garbage, Line, TextLine}
               \cup {[Counts(n) EXCEPT !.finish = "stop"] : n \in {0, Count}}
      [] p = "openai" ->
            {Garbage, Line, TextLine, CallLine, Done, Finish("stop"), Counts(Count)}
      [] p = "mock" -> {TextLine} \cup IF lines = <<>> THEN {} ELSE {Finish("stop")}

-----------------------------------------------------------------------------
(* What a provider makes of a line: the chunks it passes on, given what it *)
(* remembers and the number of the line, and whether it reads on.          *)

Chunk(text, finish, usage) == [text |-> text, finish |-> finish, usage |-> usage]

(* What else the client reads: an error as JSON, or [DONE].                *)
Event(name) == Chunk(0, name, None)

(* Mutant: an event that counts one of the two forgets the other.          *)
Counted_Forgets(p, m) ==
    IF p = "anthropic" THEN [prompt |-> m.prompt, comp |-> m.comp] ELSE counted

Counted(p, m) ==
    IF p = "anthropic"
    THEN [prompt |-> IF m.prompt > 0 THEN m.prompt ELSE counted.prompt,
          comp   |-> IF m.comp > 0 THEN m.comp ELSE counted.comp]
    ELSE counted

Usage(m) == IF m.prompt > 0 \/ m.comp > 0
            THEN [prompt |-> m.prompt, comp |-> m.comp] ELSE None

(* Only texts and the end are passed on, and with it what was counted.     *)
AnthropicChunks(m, n) ==
    CASE m.text -> <<Chunk(n, None, None)>>
      [] m.finish # None -> <<Chunk(0, "stop", Usage(counted))>>
      [] OTHER -> <<>>

(* The reason STOP and all counts are left out.                            *)
GeminiChunks(m, n) ==
    LET finish == CASE m.call -> "tool_calls"
                    [] ~m.call /\ m.finish \in {None, "stop"} -> None
                    [] OTHER -> m.finish
    IN  IF m.text \/ finish # None
        THEN <<Chunk(IF m.text THEN n ELSE 0, finish, None)>> ELSE <<>>

OllamaChunks(m, n) ==
    IF m = Garbage THEN <<>>
    ELSE <<Chunk(IF m.text THEN n ELSE 0, m.finish, IF m.finish = None THEN None ELSE Usage(m))>>

OpenAIChunks(m, n) ==
    IF m \in {Garbage, Done} THEN <<>>
    ELSE <<Chunk(IF m.text THEN n ELSE 0, m.finish, Usage(m))>>

MockChunks(m, n) == IF m.text THEN <<Chunk(n, None, None)>> ELSE <<Chunk(0, "stop", None)>>

Chunks(p, m, n) ==
    CASE p = "anthropic" -> AnthropicChunks(m, n)
      [] p = "gemini" -> GeminiChunks(m, n)
      [] p = "ollama" -> OllamaChunks(m, n)
      [] p = "openai" -> OpenAIChunks(m, n)
      [] p = "mock" -> MockChunks(m, n)

Ends(p, m) ==
    CASE p \in {"gemini", "openai"} -> m = Done
      [] p \in {"anthropic", "ollama", "mock"} -> m.finish = "stop"

-----------------------------------------------------------------------------
(* The request.                                                            *)

Init ==
    /\ phase = "idle"
    /\ asked = None /\ prompt = FALSE /\ at = 1 /\ from = None
    /\ lines = <<>> /\ counted = Zero /\ passed = <<>> /\ tokens = Zero
    /\ failures = <<>> /\ client = <<>> /\ gone = FALSE /\ bill = None
    /\ spent = 0
    /\ InitMetrics

(* The model is resolved and the request admitted.                         *)
Accept(m, text) ==
    /\ phase = "idle"
    /\ Len(logs) < MaxStreams
    /\ phase' = "next" /\ asked' = m /\ prompt' = text
    /\ UNCHANGED <<at, from, lines, counted, passed, tokens, failures, client, gone, bill, spent,
                   collector, logs>>

(* The client reads an error if it is one of the API, as all are that come *)
(* with a status or for want of a connection or a provider.                *)
Refused == IF gone THEN client ELSE Append(client, Event("error"))

FindNext ==
    /\ phase = "next"
    /\ \/ /\ at > Len(Candidates)
          /\ phase' = "done" /\ client' = Refused
          /\ UNCHANGED <<at, from, lines, counted, tokens, failures>>
       \/ /\ at <= Len(Candidates)
          /\ Serves[Target] = None
          /\ at' = at + 1
          /\ failures' = Append(failures, "unserved")
          /\ UNCHANGED <<phase, from, lines, counted, tokens, client>>
       \/ /\ at <= Len(Candidates)
          /\ Serves[Target] # None
          /\ phase' = "reading"
          /\ from' = Serves[Target]
          /\ lines' = <<>> /\ counted' = Zero
          /\ tokens' = [Zero EXCEPT !.prompt = Plus(prompt)]
          /\ UNCHANGED <<at, failures, client>>
    /\ UNCHANGED <<asked, prompt, passed, gone, bill, spent, collector, logs>>

(* A count of upstream replaces the estimate so far.                       *)
Tally(c) ==
    IF c.usage = None
    THEN [tokens EXCEPT !.comp = tokens.comp + Plus(c.text > 0)]
    ELSE [prompt |-> IF c.usage.prompt > 0 THEN c.usage.prompt ELSE tokens.prompt,
          comp   |-> IF c.usage.comp > 0 THEN c.usage.comp ELSE tokens.comp]

(* These two do not look whether their last chunk was written.             *)
Heedless(p, m) == p \in {"anthropic", "mock"} /\ Ends(p, m)

Then(p, m) == IF Ends(p, m) THEN "ended" ELSE "reading"

(* A line is read and what it makes is counted and written. To a client    *)
(* that has left some writes still succeed.                                *)
Receive(m) ==
    /\ phase = "reading"
    /\ Len(lines) < MaxLines
    /\ lines' = Append(lines, m)
    /\ counted' = Counted(from, m)
    /\ LET chunks == Chunks(from, m, Len(lines'))
       IN  \/ /\ chunks = <<>>
              /\ phase' = Then(from, m)
              /\ UNCHANGED <<passed, tokens, client>>
           \/ /\ chunks # <<>>
              /\ passed' = passed \o chunks
              /\ tokens' = Tally(chunks[1])
              /\ client' = IF gone THEN client ELSE client \o chunks
              /\ phase' \in IF gone /\ ~Heedless(from, m)
                            THEN {Then(from, m), "broken"} ELSE {Then(from, m)}
    /\ UNCHANGED <<asked, prompt, at, from, failures, gone, bill, spent, collector, logs>>

(* The body ends, wherever that is: all is well.                           *)
EndOfBody ==
    /\ phase = "reading" /\ from # "mock"
    /\ phase' = "ended"
    /\ UNCHANGED <<asked, prompt, at, from, lines, counted, passed, tokens, failures, client,
                   gone, bill, spent, collector, logs>>

(* Mutant: a stream that broke is continued by the next candidate.         *)
Broken_Retried == FALSE

Broken == passed # <<>>

(* The call fails, or reading does. Nobody answers for the mock provider,  *)
(* which only stops for a client that left. An error of reading is none of *)
(* the API, and the client hears nothing of it.                            *)
Fail(error, api) ==
    /\ phase = "reading"
    /\ from = "mock" => gone /\ error = "fatal" /\ ~api
    /\ api => lines = <<>>
    /\ \/ /\ Broken
          /\ phase' = "broken"
          /\ UNCHANGED <<at, failures, client>>
       \/ /\ ~Broken
          /\ error = "retriable" /\ at < Len(Candidates)
          /\ phase' = "next" /\ at' = at + 1
          /\ failures' = Append(failures, error)
          /\ UNCHANGED client
       \/ /\ ~Broken
          /\ error = "fatal" \/ at = Len(Candidates)
          /\ phase' = "done"
          /\ failures' = Append(failures, error)
          /\ client' = IF api THEN Refused ELSE client
          /\ UNCHANGED at
    /\ UNCHANGED <<asked, prompt, from, lines, counted, passed, tokens, gone, bill, spent,
                   collector, logs>>

Bill(cost) == [model |-> Target, success |-> TRUE, cache |-> "none", prompt |-> tokens.prompt,
               comp |-> tokens.comp, saved |-> 0, incurred |-> cost]

(* Mutant: what a broken stream used up is not recorded.                   *)
Settles_Whole == phase = "ended"

(* Broken streams are settled too, if they used up anything.               *)
Settles == phase = "ended" \/ (phase = "broken" /\ (tokens.comp > 0 \/ tokens.prompt > 0))

Settle ==
    /\ Settles
    /\ \E cost \in Costs(Target, tokens.prompt, tokens.comp) : RecordRequest(Bill(cost))
    /\ phase' = IF phase = "ended" THEN "settled" ELSE "charging"
    /\ bill' = Target
    /\ UNCHANGED <<asked, prompt, at, from, lines, counted, passed, tokens, failures, client,
                   gone, spent>>

(* Mutant: whichever way a stream ends, the client is told it is whole.    *)
Farewell_Always == IF gone THEN client ELSE Append(client, Event("[DONE]"))

(* [DONE] is written when the executor returned no error.                  *)
Farewell ==
    IF phase = "settled" /\ ~gone THEN Append(client, Event("[DONE]")) ELSE client

(* The virtual key is charged, and a whole stream is closed.               *)
Charge ==
    /\ \/ /\ phase \in {"settled", "charging"}
          /\ spent' = spent + Last(logs).incurred
       \/ phase = "broken" /\ ~Settles /\ UNCHANGED spent
    /\ client' = Farewell
    /\ failures' = IF phase = "settled" THEN failures ELSE Append(failures, "fatal")
    /\ phase' = "done"
    /\ UNCHANGED <<asked, prompt, at, from, lines, counted, passed, tokens, gone, bill, collector,
                   logs>>

Reply ==
    /\ phase = "done"
    /\ phase' = "idle"
    /\ asked' = None /\ prompt' = FALSE /\ at' = 1 /\ from' = None
    /\ lines' = <<>> /\ counted' = Zero /\ passed' = <<>> /\ tokens' = Zero
    /\ failures' = <<>> /\ client' = <<>> /\ gone' = FALSE /\ bill' = None
    /\ UNCHANGED <<spent, collector, logs>>

Leave ==
    /\ phase \notin {"idle", "done"} /\ ~gone
    /\ gone' = TRUE
    /\ UNCHANGED <<phase, asked, prompt, at, from, lines, counted, passed, tokens, failures,
                   client, bill, spent, collector, logs>>

(* A chat that a cache answers, or that fails, is recorded between streams *)
(* (it meets them in the collector only, in one step).                     *)
Chat(log) ==
    /\ phase = "idle"
    /\ Len(logs) < MaxRecords
    /\ RecordRequest(log)
    /\ UNCHANGED <<request, spent>>

Chats == {[model |-> m, success |-> TRUE, cache |-> cache, prompt |-> Count, comp |-> Count,
           saved |-> Count, incurred |-> 0] :
             m \in Models, cache \in {"exact", "semantic"}}
         \cup {[model |-> m, success |-> FALSE, cache |-> "none", prompt |-> 0, comp |-> 0,
                saved |-> 0, incurred |-> 0] : m \in Models}

Next ==
    \/ \E m \in Models, text \in BOOLEAN : Accept(m, text)
    \/ FindNext
    \/ phase = "reading" /\ \E m \in Lines(from) : Receive(m)
    \/ EndOfBody
    \/ \E error \in {"retriable", "fatal"}, api \in BOOLEAN : Fail(error, api)
    \/ Settle \/ Charge \/ Reply \/ Leave
    \/ \E log \in Chats : Chat(log)

Spec == Init /\ [][Next]_vars

-----------------------------------------------------------------------------
(* Properties.                                                             *)

TextsIn(cs) == {cs[i].text : i \in DOMAIN cs} \ {0}
TextLines == {i \in DOMAIN lines : lines[i].text}

InOrder(cs) ==
    \A i, j \in DOMAIN cs : i < j /\ cs[j].text # 0 => cs[i].text < cs[j].text

(* Through providers, callback and fallbacks the client reads the texts of *)
(* one upstream stream, each once and in order: all of them if it stays,   *)
(* and those before it left otherwise.                                     *)
TextsInOrder ==
    /\ InOrder(passed) /\ TextsIn(passed) = TextLines
    /\ InOrder(client) /\ TextsIn(client) \subseteq TextsIn(passed)
    /\ \A u \in TextsIn(client) : \A t \in TextsIn(passed) : t < u => t \in TextsIn(client)
    /\ ~gone => TextsIn(client) = TextsIn(passed)

Whole == phase \in {"ended", "settled"}

(* The request ended with no failure of the candidate it was at.           *)
Answered == phase = "done" /\ Len(failures) < at /\ at <= Len(Candidates)

(* A client that stays is told that a stream is whole if and only if the   *)
(* stream was recorded and charged as one, whichever provider sent it and  *)
(* whatever its candidates before it did (handler.go:113-133,              *)
(* fallback.go:385-434): so it is of a stream that ends as its protocol    *)
(* says, and not of one that breaks or never begins. Of a stream that is   *)
(* not whole no client is told so; none reads an error behind a chunk or   *)
(* anything behind [DONE]. A provider that translates the end of its       *)
(* protocol passes nothing on after it, and a stream that ended so is one  *)
(* the client sees finished.                                               *)
Closed ==
    /\ \A i \in DOMAIN client :
          /\ client[i].finish = "[DONE]" => phase = "done" /\ i = Len(client)
          /\ client[i].finish = "error" => phase = "done" /\ i = 1 /\ Len(client) = 1
    /\ phase = "done" =>
          LET told  == client # <<>> /\ Last(client).finish = "[DONE]"
              whole == Answered /\ bill = Target
          IN  /\ told => whole
              /\ ~gone => (told <=> whole)
              /\ ~gone /\ lines # <<>> /\ Ends(from, Last(lines)) => told
    /\ from \in {"anthropic", "ollama", "mock"} =>
          /\ \A i \in 1 .. Len(passed) - 1 : passed[i].finish = None
          /\ Whole /\ lines # <<>> /\ Last(lines).finish = "stop" =>
                passed # <<>> /\ Last(passed).finish = "stop"

Counting == {i \in DOMAIN lines : lines[i].prompt > 0 \/ lines[i].comp > 0}

(* A stream that ends as its protocol says is recorded by what upstream    *)
(* counted, wherever in the stream it stands (Anthropic counts the prompt  *)
(* before its texts and the completion behind them), and by the estimate   *)
(* if it did not count; of Gemini's counts nothing is known. Only OpenAI's *)
(* usage chunk may be followed by texts, which the estimate then goes on   *)
(* with: its completion is what it counted if no text follows.             *)
Metered ==
    phase = "settled" /\ lines # <<>> /\ Ends(from, Last(lines)) =>
        LET log  == Last(logs)
            last == \A i \in Counting : \A j \in i + 1 .. Len(lines) : ~lines[j].text
            est  == [prompt |-> Plus(prompt), comp |-> Cardinality(TextLines)]
            In(field) == {lines[i][field] : i \in Counting} \ {0}
            Of(field) == IF In(field) = {} \/ from = "gemini" THEN est[field]
                         ELSE CHOOSE n \in In(field) : TRUE
        IN  /\ log.prompt = Of("prompt")
            /\ (from = "openai" => last) => log.comp = Of("comp")

Total(field) == FoldLeft(LAMBDA sum, log : sum + log[field], 0, logs)

(* A catalogue in which a model meets one entry at most.                   *)
OnePrice == \A m \in PricedModels : \A p, q \in Prices[m] : p = q

(* The books balance: the collector's totals are those of all records, it  *)
(* keeps the latest ones, and virtual keys are charged what the records    *)
(* say was incurred, but for the request that is just being charged. So    *)
(* says the collector, if the price of a request is the same both times    *)
(* that it is looked up.                                                   *)
Books ==
    LET c == collector IN
    /\ c.total = Len(logs) /\ c.success + c.failed = c.total
    /\ c.recent = SubSeq(logs, Max({1, Len(logs) - RingSize + 1}), Len(logs))
    /\ c.prompt = Total("prompt") /\ c.comp = Total("comp")
    /\ Total("incurred")
          = spent + IF phase \in {"settled", "charging"} THEN Last(logs).incurred ELSE 0
    /\ OnePrice => c.incurred = Total("incurred")
    /\ HitRatio(c) \in 0 .. 100

-----------------------------------------------------------------------------
(* The loop over the chain, with all of the providers in it, does what     *)
(* Executor says of it.                                                    *)

Words  == IF prompt THEN "text" ELSE "blank"
Billed == phase = "done" /\ bill # None

ExecutorRequest ==
    [phase |-> IF phase \in {"idle", "next", "done"} THEN phase ELSE "calling",
     stream |-> phase # "idle", prompt |-> IF phase = "idle" THEN None ELSE Words,
     noCache |-> FALSE, allowed |-> {}, forced |-> None,
     model |-> asked, provider |-> None, at |-> at, from |-> from,
     answer |-> IF Answered THEN [prompt |-> Words, by |-> Target] ELSE None,
     tokens |-> Plus(tokens # Zero),
     heard |-> [i \in DOMAIN passed |-> Target],
     failures |-> failures,
     recorded |-> Plus(Billed), charged |-> IF Billed THEN <<bill>> ELSE <<>>]

Abstract == INSTANCE Executor WITH
    Providers <- Protocols, Registered <- Protocols,
    Alias <- [m \in Models |-> m], Weighted <- [m \in Models |-> {}],
    Prompts <- {"text", "blank"}, Texts <- {"text"}, Similar <- {<<"text", "text">>},
    Whitelists <- {{}}, Streaming <- {TRUE}, Forcing <- {None}, Requests <- {1},
    Capacity <- 1, MaxChunks <- MaxLines, MaxWriters <- 1,
    req <- [r \in {1} |-> ExecutorRequest],
    exact <- {}, semantic <- {}, writers <- {}, purging <- FALSE

RefinesExecutor == Abstract!Spec
=============================================================================
