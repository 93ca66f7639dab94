---------------------------- MODULE StreamsProofs ----------------------------
(***************************************************************************)
(* A stream, read line by line from a provider of any kind and counted and *)
(* written by the callback, is a stream of the executor: for all models,   *)
(* chains, prices, counts and lengths of streams.                          *)
(***************************************************************************)
EXTENDS Streams, FiniteSetTheorems, SequenceTheorems, WellFoundedInduction, TLAPS

Pair     == [prompt : Nat, comp : Nat]
Finishes == {None, "stop", "length", "tool_calls"}
Chunkset == [text : Nat, finish : Finishes, usage : Pair \cup {None}]

(* What matters of a line of upstream.                                     *)
GoodLine(m) == /\ m.text \in BOOLEAN /\ m.call \in BOOLEAN /\ m.finish \in Finishes
               /\ m.prompt \in Nat /\ m.comp \in Nat

Phases == {"idle", "next", "reading", "ended", "broken", "settled", "charging", "done"}
Calling == {"reading", "ended", "broken", "settled", "charging"}
Errs == {"unserved", "retriable", "fatal"}

(* The counts and positions that the steps of the executor depend on.      *)
Types ==
    /\ phase \in Phases
    /\ prompt \in BOOLEAN
    /\ phase # "idle" => asked \in Models
    /\ at \in Nat /\ at >= 1
    /\ counted \in Pair /\ tokens \in Pair
    /\ failures \in Seq(Errs)
    /\ Len(lines) \in Nat /\ \E S : lines \in Seq(S)
    /\ passed \in Seq(Chunkset)

(* Nothing is passed on before a candidate is called, at most one chunk    *)
(* for a line, and a stream is broken only behind a chunk. Candidates fail *)
(* one by one, and the one that is called is billed.                       *)
IInv ==
    /\ Types
    /\ phase = "idle" => asked = None /\ ~prompt /\ at = 1 /\ from = None /\ tokens = Zero
    /\ phase \in {"idle", "next"} => passed = <<>>
    /\ phase # "done" => Len(failures) = at - 1
    /\ phase \in Calling => at <= Len(Candidates) /\ from \in Protocols
    /\ Len(passed) <= Len(lines)
    /\ phase \in {"broken", "charging"} => passed # <<>>
    /\ phase = "charging" => tokens # Zero
    /\ phase \in {"idle", "next", "reading", "ended", "broken"} => bill = None
    /\ phase \in {"settled", "charging"} => bill = Target

-----------------------------------------------------------------------------
(* Lines and chunks.                                                       *)

LEMMA LinesGood ==
    ASSUME NEW p \in Protocols, NEW m \in Lines(p)
    PROVE  GoodLine(m)
<1>1. Count \in Nat
  BY StreamsAssumption
<1>2. /\ GoodLine(Line) /\ GoodLine(Garbage) /\ GoodLine(TextLine) /\ GoodLine(CallLine)
      /\ GoodLine(Done) /\ GoodLine(Finish("stop")) /\ GoodLine(Finish("length"))
  BY SMT DEF GoodLine, Finishes, Line, Garbage, TextLine, CallLine, Done, Finish
<1>3. \A n \in Nat : GoodLine(Counts(n)) /\ GoodLine([Counts(n) EXCEPT !.finish = "stop"])
  BY SMT DEF GoodLine, Finishes, Line, Counts
<1>4. CASE p = "anthropic"
  <2>1. /\ GoodLine([Line EXCEPT !.kind = "message_start", !.prompt = Count])
        /\ GoodLine([Line EXCEPT !.kind = "message_delta", !.comp = Count])
    BY <1>1, SMT DEF GoodLine, Finishes, Line
  <2> QED BY <1>2, <1>4, <2>1, Zenon DEF Lines
<1>5. CASE p = "gemini"
  <2>1. GoodLine([Counts(Count) EXCEPT !.text = TRUE, !.finish = "stop"])
    BY <1>1, SMT DEF GoodLine, Finishes, Line, Counts
  <2> QED BY <1>2, <1>5, <2>1, SMT DEF Lines
<1>6. CASE p = "ollama"
  BY <1>1, <1>2, <1>3, <1>6, SMT DEF Lines
<1>7. CASE p = "openai"
  <2>1. Lines(p) = {Garbage, Line, TextLine, CallLine, Done, Finish("stop"), Counts(Count)}
    BY <1>7, SMT DEF Lines
  <2> QED BY <1>1, <1>2, <1>3, <2>1, Zenon
<1>8. CASE p = "mock"
  BY <1>2, <1>8, SMT DEF Lines
<1> QED BY <1>4, <1>5, <1>6, <1>7, <1>8 DEF Protocols

LEMMA CandidatesType ==
    ASSUME asked \in Models
    PROVE  /\ Candidates \in Seq(Models) /\ Len(Candidates) \in Nat
           /\ \A i \in 1 .. Len(Candidates) : Candidates[i] \in Models
<1>1. Chain[asked] \in Seq(Models)
  BY StreamsAssumption
<1> QED BY <1>1, SMT DEF Candidates

(* A line makes one chunk at most.                                         *)
LEMMA OneChunk ==
    ASSUME NEW p \in Protocols, NEW m, GoodLine(m), NEW n \in Nat, counted \in Pair,
           Chunks(p, m, n) # <<>>
    PROVE  \E c \in Chunkset : Chunks(p, m, n) = <<c>>
<1>1. Usage(m) \in Pair \cup {None}
  BY SMT DEF Usage, GoodLine, Pair
<1>2. Usage(counted) \in Pair \cup {None}
  BY SMT DEF Usage, Pair
<1>3. \A t \in Nat, f \in Finishes, u \in Pair \cup {None} : Chunk(t, f, u) \in Chunkset
  BY SMT DEF Chunk, Chunkset
<1>4. /\ None \in Finishes /\ "stop" \in Finishes /\ "tool_calls" \in Finishes
      /\ m.finish \in Finishes
  BY DEF Finishes, GoodLine
<1>5. m.text \in BOOLEAN /\ m.call \in BOOLEAN
  BY DEF GoodLine
<1> DEFINE One(cs) == cs = <<>> \/ \E c \in Chunkset : cs = <<c>>
<1> DEFINE t == IF m.text THEN n ELSE 0
<1>6. t \in Nat /\ 0 \in Nat
  OBVIOUS
<1>7. One(AnthropicChunks(m, n))
  <2>1. Chunk(n, None, None) \in Chunkset /\ Chunk(0, "stop", Usage(counted)) \in Chunkset
    BY <1>2, <1>3, <1>4
  <2> QED BY <2>1, SMT DEF AnthropicChunks
<1>8. One(GeminiChunks(m, n))
  <2> DEFINE finish == CASE m.call -> "tool_calls"
                         [] ~m.call /\ m.finish \in {None, "stop"} -> None
                         [] OTHER -> m.finish
  <2>1. finish \in Finishes
    BY <1>4, <1>5, SMT
  <2>2. GeminiChunks(m, n) = IF m.text \/ finish # None THEN <<Chunk(t, finish, None)>> ELSE <<>>
    BY DEF GeminiChunks
  <2> HIDE DEF finish, t
  <2>3. Chunk(t, finish, None) \in Chunkset
    BY <1>3, <1>6, <2>1
  <2> QED BY <2>2, <2>3, SMT
<1>9. One(OllamaChunks(m, n))
  <2> DEFINE u == IF m.finish = None THEN None ELSE Usage(m)
  <2>1. u \in Pair \cup {None}
    BY <1>1
  <2>2. OllamaChunks(m, n) = IF m = Garbage THEN <<>> ELSE <<Chunk(t, m.finish, u)>>
    BY DEF OllamaChunks
  <2> HIDE DEF u, t
  <2>3. Chunk(t, m.finish, u) \in Chunkset
    BY <1>3, <1>4, <1>6, <2>1
  <2> QED BY <2>2, <2>3, SMT
<1>10. One(OpenAIChunks(m, n))
  <2>1. OpenAIChunks(m, n) = IF m \in {Garbage, Done} THEN <<>> ELSE <<Chunk(t, m.finish,
            Usage(m))>>
    BY DEF OpenAIChunks
  <2> HIDE DEF t
  <2>2. Chunk(t, m.finish, Usage(m)) \in Chunkset
    BY <1>1, <1>3, <1>4, <1>6
  <2> QED BY <2>1, <2>2, SMT
<1>11. One(MockChunks(m, n))
  <2>1. Chunk(n, None, None) \in Chunkset /\ Chunk(0, "stop", None) \in Chunkset
    BY <1>3, <1>4
  <2> QED BY <2>1, SMT DEF MockChunks
<1>12. One(Chunks(p, m, n))
  <2> HIDE DEF One
  <2> QED BY <1>7, <1>8, <1>9, <1>10, <1>11, SMT DEF Chunks, Protocols
<1> QED BY <1>12

(* A count never goes back to nothing.                                     *)
LEMMA TallyGrows ==
    ASSUME tokens \in Pair, NEW c \in Chunkset
    PROVE  Tally(c) \in Pair /\ (tokens # Zero => Tally(c) # Zero)
BY SMT DEF Tally, Pair, Zero, Chunkset, Plus

-----------------------------------------------------------------------------
(* The invariant.                                                          *)

LEMMA InitIInv == Init => IInv
<1>1. ASSUME Init PROVE counted \in Pair /\ tokens \in Pair /\ tokens = Zero
  BY <1>1, SMT DEF Init, Pair, Zero
<1>2. ASSUME Init
      PROVE  /\ lines \in Seq({}) /\ Len(lines) = 0 /\ passed \in Seq(Chunkset) /\ Len(passed) = 0
             /\ failures \in Seq(Errs) /\ Len(failures) = 0
  BY <1>2 DEF Init
<1>3. ASSUME Init
      PROVE  /\ phase = "idle" /\ asked = None /\ ~prompt /\ prompt \in BOOLEAN /\ at = 1
             /\ from = None /\ bill = None
  BY <1>3 DEF Init
<1> QED BY <1>1, <1>2, <1>3, SMT DEF IInv, Types, Phases, Calling

(* Steps that leave the candidates alone.                                  *)
LEMMA SameCandidates ==
    ASSUME asked' = asked
    PROVE  Candidates' = Candidates /\ (at' = at => Target' = Target)
BY DEF Candidates, Target

LEMMA AcceptIInv ==
    ASSUME IInv, NEW m \in Models, NEW text \in BOOLEAN, Accept(m, text)
    PROVE  IInv'
<1>1. phase = "idle" /\ phase' = "next" /\ asked' = m /\ prompt' = text
  BY DEF Accept
<1>2. UNCHANGED <<at, from, lines, counted, passed, tokens, failures, bill>>
  BY DEF Accept
<1> QED BY <1>1, <1>2, SMT DEF IInv, Types, Phases, Calling

LEMMA FindNextIInv ==
    ASSUME IInv, FindNext
    PROVE  IInv'
<1>1. Candidates' = Candidates /\ (at' = at => Target' = Target)
  BY SameCandidates DEF FindNext
<1>2. phase = "next" /\ asked \in Models /\ Len(Candidates) \in Nat
  BY CandidatesType DEF FindNext, IInv, Types
<1>3. CASE at > Len(Candidates) /\ phase' = "done" /\ UNCHANGED <<at, from, lines, counted,
          tokens, failures>>
  BY <1>1, <1>2, <1>3, SMT DEF FindNext, IInv, Types, Phases, Calling
<1>4. CASE /\ at' = at + 1 /\ failures' = Append(failures, "unserved")
           /\ UNCHANGED <<phase, from, lines, counted, tokens, client>>
  BY <1>1, <1>2, <1>4, SMT DEF FindNext, IInv, Types, Phases, Calling, Errs
<1>5. CASE /\ at <= Len(Candidates) /\ Serves[Target] # None
           /\ phase' = "reading" /\ from' = Serves[Target]
           /\ lines' = <<>> /\ counted' = Zero
           /\ tokens' = [Zero EXCEPT !.prompt = Plus(prompt)]
           /\ UNCHANGED <<at, failures, client>>
  <2>1. Serves[Target] \in Protocols
    BY <1>2, <1>5, CandidatesType, StreamsAssumption, SMT DEF IInv, Types, Target
  <2>2. counted' \in Pair /\ tokens' \in Pair
    BY <1>5, SMT DEF Pair, Zero, Plus
  <2>3. lines' \in Seq({}) /\ Len(lines') = 0
    BY <1>5
  <2>4. UNCHANGED <<asked, prompt, passed, bill>>
    BY DEF FindNext
  <2> QED BY <1>1, <1>2, <1>5, <2>1, <2>2, <2>3, <2>4, SMT DEF IInv, Types, Phases, Calling
<1> QED BY <1>3, <1>4, <1>5 DEF FindNext

LEMMA ReceiveIInv ==
    ASSUME IInv, phase = "reading", NEW m \in Lines(from), Receive(m)
    PROVE  IInv'
<1>1. Candidates' = Candidates /\ Target' = Target
  BY SameCandidates DEF Receive
<1>2. from \in Protocols /\ GoodLine(m)
  BY LinesGood DEF IInv, Calling
<1>3. counted' \in Pair
  BY <1>2, SMT DEF Receive, Counted, IInv, Types, Pair, GoodLine
<1>4. Len(lines') \in Nat /\ Len(lines') = Len(lines) + 1 /\ \E S : lines' \in Seq(S)
  <2>1. PICK S : lines \in Seq(S)
    BY DEF IInv, Types
  <2>2. lines \in Seq(S \cup {m}) /\ lines' = Append(lines, m)
    BY <2>1, SMT DEF Receive
  <2> QED BY <2>2, SMT
<1>5. UNCHANGED <<asked, prompt, at, from, failures, bill>>
  BY DEF Receive
<1> DEFINE chunks == Chunks(from, m, Len(lines'))
<1>6. CASE chunks = <<>> /\ phase' = Then(from, m) /\ UNCHANGED <<passed, tokens, client>>
  <2>1. phase' \in {"reading", "ended"}
    BY <1>6 DEF Then
  <2> QED BY <1>1, <1>2, <1>3, <1>4, <1>5, <1>6, <2>1, SMT DEF IInv, Types, Phases, Calling
<1>7. CASE /\ chunks # <<>>
           /\ passed' = passed \o chunks /\ tokens' = Tally(chunks[1])
           /\ phase' \in {Then(from, m), "broken"}
  <2>1. PICK c \in Chunkset : chunks = <<c>>
    BY <1>2, <1>4, <1>7, OneChunk DEF IInv, Types
  <2>2. tokens' \in Pair
    BY <1>7, <2>1, TallyGrows DEF IInv, Types
  <2>3. phase' \in {"reading", "ended", "broken"}
    BY <1>7 DEF Then
  <2>4. passed' = passed \o <<c>>
    BY <1>7, <2>1
  <2>5. passed \in Seq(Chunkset)
    BY DEF IInv, Types
  <2>6. passed' \in Seq(Chunkset) /\ Len(passed') = Len(passed) + 1 /\ passed' # <<>>
    BY <2>4, <2>5, SMT
  <2> QED BY <1>1, <1>2, <1>3, <1>4, <1>5, <2>2, <2>3, <2>5, <2>6, SMT
          DEF IInv, Types, Phases, Calling
<1> QED BY <1>6, <1>7, Zenon DEF Receive

LEMMA EndOfBodyIInv ==
    ASSUME IInv, EndOfBody
    PROVE  IInv'
<1>1. Candidates' = Candidates /\ Target' = Target
  BY SameCandidates DEF EndOfBody
<1> QED BY <1>1, SMT DEF EndOfBody, IInv, Types, Phases, Calling

LEMMA FailIInv ==
    ASSUME IInv, NEW error \in {"retriable", "fatal"}, NEW api \in BOOLEAN, Fail(error, api)
    PROVE  IInv'
<1>1. Candidates' = Candidates /\ (at' = at => Target' = Target)
  BY SameCandidates DEF Fail
<1>2. phase = "reading" /\ asked \in Models /\ Len(Candidates) \in Nat
  BY CandidatesType DEF Fail, IInv, Types
<1>3. CASE Broken /\ phase' = "broken" /\ UNCHANGED <<at, failures, client>>
  BY <1>1, <1>2, <1>3, SMT DEF Fail, Broken, IInv, Types, Phases, Calling
<1>4. CASE /\ ~Broken /\ phase' = "next" /\ at' = at + 1 /\ failures' = Append(failures, error)
  BY <1>1, <1>2, <1>4, SMT DEF Fail, Broken, IInv, Types, Phases, Calling, Errs
<1>5. CASE /\ phase' = "done" /\ failures' = Append(failures, error) /\ UNCHANGED at
  BY <1>1, <1>2, <1>5, SMT DEF Fail, IInv, Types, Phases, Calling, Errs
<1> QED BY <1>3, <1>4, <1>5 DEF Fail

LEMMA SettleIInv ==
    ASSUME IInv, Settle
    PROVE  IInv'
<1>1. Candidates' = Candidates /\ Target' = Target
  BY SameCandidates DEF Settle
<1>2. tokens \in Pair
  BY DEF IInv, Types
<1>3. tokens.comp > 0 \/ tokens.prompt > 0 => tokens # Zero
  BY <1>2, SMT DEF Pair, Zero
<1> QED BY <1>1, <1>3, SMT DEF Settle, Settles, IInv, Types, Phases, Calling

LEMMA ChargeIInv ==
    ASSUME IInv, Charge
    PROVE  IInv'
<1>1. Candidates' = Candidates /\ Target' = Target
  BY SameCandidates DEF Charge
<1> QED BY <1>1, SMT DEF Charge, IInv, Types, Phases, Calling, Errs

LEMMA ReplyIInv ==
    ASSUME IInv, Reply
    PROVE  IInv'
<1>1. counted' \in Pair /\ tokens' \in Pair /\ tokens' = Zero
  BY SMT DEF Reply, Pair, Zero
<1>2. /\ phase' = "idle" /\ asked' = None /\ ~prompt' /\ prompt' \in BOOLEAN /\ at' = 1
      /\ from' = None /\ lines' = <<>> /\ passed' = <<>> /\ failures' = <<>> /\ bill' = None
  BY DEF Reply
<1>3. lines' \in Seq({}) /\ Len(lines') = 0 /\ passed' \in Seq(Chunkset) /\ Len(passed') = 0
      /\ failures' \in Seq(Errs) /\ Len(failures') = 0
  BY <1>2
<1> QED BY <1>1, <1>2, <1>3, SMT DEF IInv, Types, Phases, Calling

LEMMA OtherIInv ==
    ASSUME IInv, UNCHANGED <<phase, asked, prompt, at, from, lines, counted, passed, tokens,
                             failures, bill>>
    PROVE  IInv'
<1>1. Candidates' = Candidates /\ Target' = Target
  BY SameCandidates
<1> QED BY <1>1, SMT DEF IInv, Types

LEMMA NextIInv ==
    ASSUME IInv, [Next]_vars
    PROVE  IInv'
<1>1. ASSUME NEW m \in Models, NEW text \in BOOLEAN, Accept(m, text) PROVE IInv'
  BY <1>1, AcceptIInv
<1>2. CASE FindNext
  BY <1>2, FindNextIInv
<1>3. ASSUME phase = "reading", NEW m \in Lines(from), Receive(m) PROVE IInv'
  BY <1>3, ReceiveIInv
<1>4. CASE EndOfBody
  BY <1>4, EndOfBodyIInv
<1>5. ASSUME NEW error \in {"retriable", "fatal"}, NEW api \in BOOLEAN, Fail(error, api)
      PROVE  IInv'
  BY <1>5, FailIInv
<1>6. CASE Settle
  BY <1>6, SettleIInv
<1>7. CASE Charge
  BY <1>7, ChargeIInv
<1>8. CASE Reply
  BY <1>8, ReplyIInv
<1>9. CASE Leave
  BY <1>9, OtherIInv DEF Leave
<1>10. ASSUME NEW log \in Chats, Chat(log) PROVE IInv'
  BY <1>10, OtherIInv DEF Chat, request
<1>11. CASE UNCHANGED vars
  BY <1>11, OtherIInv DEF vars, request
<1> QED BY <1>1, <1>2, <1>3, <1>4, <1>5, <1>6, <1>7, <1>8, <1>9, <1>10, <1>11 DEF Next

-----------------------------------------------------------------------------
(* Every step is one of the executor, or none.                             *)

(* A request of the executor, as a stream maps to it.                      *)
Seen(ph, w, m, a, f, ans, t, h, fs, n, c) ==
    [phase |-> ph, stream |-> TRUE, prompt |-> w, noCache |-> FALSE, allowed |-> {},
            forced |-> None,
     model |-> m, provider |-> None, at |-> a, from |-> f, answer |-> ans, tokens |-> t,
     heard |-> h, failures |-> fs, recorded |-> n, charged |-> c]

Heard == [i \in DOMAIN passed |-> Target]
Spent == Plus(tokens # Zero)

LEMMA SeenCalling ==
    ASSUME phase \in Calling
    PROVE  ExecutorRequest = Seen("calling", Words, asked, at, from, None, Spent, Heard,
            failures, 0, <<>>)
<1>1. ~Answered /\ ~Billed /\ (phase # "idle") = TRUE /\ phase \notin {"idle", "next", "done"}
  BY DEF Calling, Answered, Billed
<1>2. /\ (IF phase \in {"idle", "next", "done"} THEN phase ELSE "calling") = "calling"
      /\ (IF phase = "idle" THEN None ELSE Words) = Words
      /\ (IF Answered THEN [prompt |-> Words, by |-> Target] ELSE None) = None
      /\ Plus(Billed) = 0
      /\ (IF Billed THEN <<bill>> ELSE <<>>) = <<>>
  BY <1>1 DEF Plus
<1> QED BY <1>1, <1>2, Zenon DEF ExecutorRequest, Seen, Spent, Heard

LEMMA SeenIdle ==
    ASSUME IInv, phase = "idle"
    PROVE  ExecutorRequest = Abstract!Idle
<1>1. /\ ~Answered /\ ~Billed /\ (phase # "idle") = FALSE /\ phase \in {"idle", "next", "done"}
      /\ ~(tokens # Zero)
  BY DEF Answered, Billed, IInv
<1>2. asked = None /\ at = 1 /\ from = None /\ passed
          = <<>> /\ failures \in Seq(Errs) /\ Len(failures) = 0
  BY SMT DEF IInv, Types
<1>3. failures = <<>>
  BY <1>2, EmptySeq
<1>4. [i \in DOMAIN passed |-> Target] = <<>>
  BY <1>2, SMT
<1>5. /\ (IF phase \in {"idle", "next", "done"} THEN phase ELSE "calling") = "idle"
      /\ (IF phase = "idle" THEN None ELSE Words) = None
      /\ (IF Answered THEN [prompt |-> Words, by |-> Target] ELSE None) = None
      /\ Plus(Billed) = 0 /\ Plus(tokens # Zero) = 0
      /\ (IF Billed THEN <<bill>> ELSE <<>>) = <<>>
  BY <1>1 DEF Plus
<1> QED BY <1>1, <1>2, <1>3, <1>4, <1>5, Zenon DEF ExecutorRequest, Abstract!Idle

LEMMA SeenNext ==
    ASSUME IInv, phase = "next"
    PROVE  ExecutorRequest = Seen("next", Words, asked, at, from, None, Spent, <<>>, failures,
            0, <<>>)
<1>1. ~Answered /\ ~Billed /\ (phase # "idle") = TRUE /\ phase \in {"idle", "next", "done"}
  BY DEF Answered, Billed
<1>2. [i \in DOMAIN passed |-> Target] = <<>>
  <2>1. passed = <<>>
    BY DEF IInv
  <2> QED BY <2>1, SMT
<1>3. /\ (IF phase \in {"idle", "next", "done"} THEN phase ELSE "calling") = "next"
      /\ (IF phase = "idle" THEN None ELSE Words) = Words
      /\ (IF Answered THEN [prompt |-> Words, by |-> Target] ELSE None) = None
      /\ Plus(Billed) = 0
      /\ (IF Billed THEN <<bill>> ELSE <<>>) = <<>>
  BY <1>1 DEF Plus
<1> QED BY <1>1, <1>2, <1>3, Zenon DEF ExecutorRequest, Seen, Spent

LEMMA SeenDone ==
    ASSUME phase = "done"
    PROVE  ExecutorRequest =
              Seen("done", Words, asked, at, from,
                   IF Answered THEN [prompt |-> Words, by |-> Target] ELSE None,
                   Spent, Heard, failures, Plus(Billed), IF Billed THEN <<bill>> ELSE <<>>)
<1>1. (phase # "idle") = TRUE /\ phase \in {"idle", "next", "done"}
  OBVIOUS
<1>2. /\ (IF phase \in {"idle", "next", "done"} THEN phase ELSE "calling") = "done"
      /\ (IF phase = "idle" THEN None ELSE Words) = Words
  BY <1>1
<1> QED BY <1>1, <1>2, Zenon DEF ExecutorRequest, Seen, Spent, Heard

LEMMA AcceptedSeen ==
    ASSUME NEW w, NEW m
    PROVE  [Abstract!Idle EXCEPT !.phase = "next", !.stream = TRUE, !.prompt = w, !.noCache
            = FALSE,
                                 !.allowed = {}, !.forced = None, !.model = m, !.provider = None]
              = Seen("next", w, m, 1, None, None, 0, <<>>, <<>>, 0, <<>>)
<1> DEFINE yes == TRUE
           no == FALSE
           all == {}
           idle == "idle"
           next == "next"
           zero == 0
           one == 1
           empty == <<>>
           Rec(phx, sx, wx, nx, ax, fx, mx, px) ==
              [phase |-> phx, stream |-> sx, prompt |-> wx, noCache |-> nx, allowed |-> ax,
               forced |-> fx, model |-> mx, provider |-> px, at |-> one, from |-> None,
               answer |-> None, tokens |-> zero, heard |-> empty, failures |-> empty,
               recorded |-> zero, charged |-> empty]
<1> HIDE DEF yes, no, all, idle, next, zero, one, empty
<1>1. [Rec(idle, no, None, no, all, None, None, None) EXCEPT !.phase = next]
       = Rec(next, no, None, no, all, None, None, None)
  BY SMT
<1>2. [Rec(next, no, None, no, all, None, None, None) EXCEPT !.stream = yes]
       = Rec(next, yes, None, no, all, None, None, None)
  BY SMT
<1>3. [Rec(next, yes, None, no, all, None, None, None) EXCEPT !.prompt = w]
       = Rec(next, yes, w, no, all, None, None, None)
  BY SMT
<1>4. [Rec(next, yes, w, no, all, None, None, None) EXCEPT !.noCache = no]
       = Rec(next, yes, w, no, all, None, None, None)
  BY SMT
<1>5. [Rec(next, yes, w, no, all, None, None, None) EXCEPT !.allowed = all]
       = Rec(next, yes, w, no, all, None, None, None)
  BY SMT
<1>6. [Rec(next, yes, w, no, all, None, None, None) EXCEPT !.forced = None]
       = Rec(next, yes, w, no, all, None, None, None)
  BY SMT
<1>7. [Rec(next, yes, w, no, all, None, None, None) EXCEPT !.model = m]
       = Rec(next, yes, w, no, all, None, m, None)
  BY SMT
<1>8. [Rec(next, yes, w, no, all, None, m, None) EXCEPT !.provider = None]
       = Rec(next, yes, w, no, all, None, m, None)
  BY SMT
<1>9. [Rec(idle, no, None, no, all, None, None, None) EXCEPT !.phase = next, !.stream = yes,
         !.prompt = w, !.noCache = no, !.allowed = all, !.forced = None, !.model = m,
         !.provider = None]
        = Rec(next, yes, w, no, all, None, m, None)
  <2> HIDE DEF Rec
  <2>1. [Rec(idle, no, None, no, all, None, None, None) EXCEPT !.phase = next, !.stream = yes,
           !.prompt = w, !.noCache = no]
          = Rec(next, yes, w, no, all, None, None, None)
    BY <1>1, <1>2, <1>3, <1>4
  <2>2. [Rec(next, yes, w, no, all, None, None, None) EXCEPT !.allowed = all, !.forced = None,
           !.model = m, !.provider = None]
          = Rec(next, yes, w, no, all, None, m, None)
    BY <1>5, <1>6, <1>7, <1>8
  <2> QED BY <2>1, <2>2
<1> QED BY <1>9, Zenon DEF Abstract!Idle, Seen, yes, no, all, idle, next, zero, one, empty

(* The request is the only one of the executor.                            *)
One(q) == [r \in {1} |-> q]

LEMMA OneRead ==
    ASSUME NEW q
    PROVE  One(q)[1] = q
BY DEF One

LEMMA OneSet ==
    ASSUME NEW q, NEW x
    PROVE  [One(q) EXCEPT ![1] = x] = One(x)
BY SMT DEF One

(* What the steps of the executor do to such a request.                    *)
Unserved(o, x, y) == [o EXCEPT ![1].at = x, ![1].failures = y]
Served(o, x, y) == [o EXCEPT ![1].phase = "calling", ![1].from = x, ![1].tokens = y]
GivenUp(o) == [o EXCEPT ![1].phase = "done", ![1].recorded = 0]
Passed(o, x, y) == [o EXCEPT ![1].heard = x, ![1].tokens = y]
Ended(o, x, y, z) == [o EXCEPT ![1].phase = "done", ![1].answer = x, ![1].recorded = y,
        ![1].charged = z]
Broke(o, x, y, z) == [o EXCEPT ![1].phase = "done", ![1].failures = x, ![1].recorded = y,
        ![1].charged = z]
Retried(o, x, y) == [o EXCEPT ![1].phase = "next", ![1].failures = x, ![1].at = y]
Failed(o, x) == [o EXCEPT ![1].phase = "done", ![1].failures = x, ![1].recorded = 0]

(* Records with literals in them are more than the provers update: their   *)
(* values are hidden, and the fields are set one by one.                   *)
LEMMA SeenSteps ==
    /\ \A w, m, a, f, t, h, fs, x, y :
          Unserved(One(Seen("next", w, m, a, f, None, t, h, fs, 0, <<>>)), x, y)
            = One(Seen("next", w, m, x, f, None, t, h, y, 0, <<>>))
    /\ \A w, m, a, f, t, h, fs, x, y :
          Served(One(Seen("next", w, m, a, f, None, t, h, fs, 0, <<>>)), x, y)
            = One(Seen("calling", w, m, a, x, None, y, h, fs, 0, <<>>))
    /\ \A w, m, a, f, t, h, fs :
          GivenUp(One(Seen("next", w, m, a, f, None, t, h, fs, 0, <<>>)))
            = One(Seen("done", w, m, a, f, None, t, h, fs, 0, <<>>))
    /\ \A w, m, a, f, t, h, fs, x, y :
          Passed(One(Seen("calling", w, m, a, f, None, t, h, fs, 0, <<>>)), x, y)
            = One(Seen("calling", w, m, a, f, None, y, x, fs, 0, <<>>))
    /\ \A w, m, a, f, t, h, fs, x, y, z :
          Ended(One(Seen("calling", w, m, a, f, None, t, h, fs, 0, <<>>)), x, y, z)
            = One(Seen("done", w, m, a, f, x, t, h, fs, y, z))
    /\ \A w, m, a, f, t, h, fs, x, y, z :
          Broke(One(Seen("calling", w, m, a, f, None, t, h, fs, 0, <<>>)), x, y, z)
            = One(Seen("done", w, m, a, f, None, t, h, x, y, z))
    /\ \A w, m, a, f, t, h, fs, x, y :
          Retried(One(Seen("calling", w, m, a, f, None, t, h, fs, 0, <<>>)), x, y)
            = One(Seen("next", w, m, y, f, None, t, h, x, 0, <<>>))
    /\ \A w, m, a, f, t, h, fs, x :
          Failed(One(Seen("calling", w, m, a, f, None, t, h, fs, 0, <<>>)), x)
            = One(Seen("done", w, m, a, f, None, t, h, x, 0, <<>>))
<1> DEFINE yes == TRUE
           no == FALSE
           all == {}
           next == "next"
           calling == "calling"
           done == "done"
           zero == 0
           empty == <<>>
           Rec(phx, wx, mx, ax, fx, ansx, tx, hx, fsx, nx, cx) ==
              [phase |-> phx, stream |-> yes, prompt |-> wx, noCache |-> no, allowed |-> all,
               forced |-> None, model |-> mx, provider |-> None, at |-> ax, from |-> fx,
               answer |-> ansx, tokens |-> tx, heard |-> hx, failures |-> fsx,
               recorded |-> nx, charged |-> cx]
<1> HIDE DEF yes, no, all, next, calling, done, zero, empty
<1>1. ASSUME NEW w, NEW m, NEW a, NEW f, NEW t, NEW h, NEW fs, NEW x, NEW y
      PROVE  Unserved(One(Rec(next, w, m, a, f, None, t, h, fs, zero, empty)), x, y)
                = One(Rec(next, w, m, x, f, None, t, h, y, zero, empty))
  <2>1. [Rec(next, w, m, a, f, None, t, h, fs, zero, empty) EXCEPT !.at = x]
          = Rec(next, w, m, x, f, None, t, h, fs, zero, empty)
    BY SMT
  <2>2. [Rec(next, w, m, x, f, None, t, h, fs, zero, empty) EXCEPT !.failures = y]
          = Rec(next, w, m, x, f, None, t, h, y, zero, empty)
    BY SMT
  <2> DEFINE q == Rec(next, w, m, a, f, None, t, h, fs, zero, empty)
  <2> HIDE DEF Rec, q
  <2>3. [q EXCEPT !.at = x, !.failures = y] = Rec(next, w, m, x, f, None, t, h, y, zero, empty)
    BY <2>1, <2>2 DEF q
  <2>4. Unserved(One(q), x, y) = One([q EXCEPT !.at = x, !.failures = y])
    BY SMT DEF Unserved, One
  <2> QED BY <2>3, <2>4 DEF q
<1>2. ASSUME NEW w, NEW m, NEW a, NEW f, NEW t, NEW h, NEW fs, NEW x, NEW y
      PROVE  Served(One(Rec(next, w, m, a, f, None, t, h, fs, zero, empty)), x, y)
                = One(Rec(calling, w, m, a, x, None, y, h, fs, zero, empty))
  <2>1. [Rec(next, w, m, a, f, None, t, h, fs, zero, empty) EXCEPT !.phase = calling]
          = Rec(calling, w, m, a, f, None, t, h, fs, zero, empty)
    BY SMT
  <2>2. [Rec(calling, w, m, a, f, None, t, h, fs, zero, empty) EXCEPT !.from = x]
          = Rec(calling, w, m, a, x, None, t, h, fs, zero, empty)
    BY SMT
  <2>3. [Rec(calling, w, m, a, x, None, t, h, fs, zero, empty) EXCEPT !.tokens = y]
          = Rec(calling, w, m, a, x, None, y, h, fs, zero, empty)
    BY SMT
  <2> DEFINE q == Rec(next, w, m, a, f, None, t, h, fs, zero, empty)
  <2> HIDE DEF Rec, q
  <2>4. [q EXCEPT !.phase = calling, !.from = x, !.tokens = y] = Rec(calling, w, m, a, x, None,
            y, h, fs, zero, empty)
    BY <2>1, <2>2, <2>3 DEF q
  <2>5. Served(One(q), x, y) = One([q EXCEPT !.phase = calling, !.from = x, !.tokens = y])
    BY SMT DEF Served, One, calling
  <2> QED BY <2>4, <2>5 DEF q
<1>3. ASSUME NEW w, NEW m, NEW a, NEW f, NEW t, NEW h, NEW fs
      PROVE  GivenUp(One(Rec(next, w, m, a, f, None, t, h, fs, zero, empty)))
                = One(Rec(done, w, m, a, f, None, t, h, fs, zero, empty))
  <2>1. [Rec(next, w, m, a, f, None, t, h, fs, zero, empty) EXCEPT !.phase = done]
          = Rec(done, w, m, a, f, None, t, h, fs, zero, empty)
    BY SMT
  <2>2. [Rec(done, w, m, a, f, None, t, h, fs, zero, empty) EXCEPT !.recorded = zero]
          = Rec(done, w, m, a, f, None, t, h, fs, zero, empty)
    BY SMT
  <2> DEFINE q == Rec(next, w, m, a, f, None, t, h, fs, zero, empty)
  <2> HIDE DEF Rec, q
  <2>3. [q EXCEPT !.phase = done, !.recorded = zero] = Rec(done, w, m, a, f, None, t, h, fs,
            zero, empty)
    BY <2>1, <2>2 DEF q
  <2>4. GivenUp(One(q)) = One([q EXCEPT !.phase = done, !.recorded = zero])
    BY SMT DEF GivenUp, One, done, zero
  <2> QED BY <2>3, <2>4 DEF q
<1>4. ASSUME NEW w, NEW m, NEW a, NEW f, NEW t, NEW h, NEW fs, NEW x, NEW y
      PROVE  Passed(One(Rec(calling, w, m, a, f, None, t, h, fs, zero, empty)), x, y)
                = One(Rec(calling, w, m, a, f, None, y, x, fs, zero, empty))
  <2>1. [Rec(calling, w, m, a, f, None, t, h, fs, zero, empty) EXCEPT !.heard = x]
          = Rec(calling, w, m, a, f, None, t, x, fs, zero, empty)
    BY SMT
  <2>2. [Rec(calling, w, m, a, f, None, t, x, fs, zero, empty) EXCEPT !.tokens = y]
          = Rec(calling, w, m, a, f, None, y, x, fs, zero, empty)
    BY SMT
  <2> DEFINE q == Rec(calling, w, m, a, f, None, t, h, fs, zero, empty)
  <2> HIDE DEF Rec, q
  <2>3. [q EXCEPT !.heard = x, !.tokens = y] = Rec(calling, w, m, a, f, None, y, x, fs, zero,
            empty)
    BY <2>1, <2>2 DEF q
  <2>4. Passed(One(q), x, y) = One([q EXCEPT !.heard = x, !.tokens = y])
    BY SMT DEF Passed, One
  <2> QED BY <2>3, <2>4 DEF q
<1>5. ASSUME NEW w, NEW m, NEW a, NEW f, NEW t, NEW h, NEW fs, NEW x, NEW y, NEW z
      PROVE  Ended(One(Rec(calling, w, m, a, f, None, t, h, fs, zero, empty)), x, y, z)
                = One(Rec(done, w, m, a, f, x, t, h, fs, y, z))
  <2>1. [Rec(calling, w, m, a, f, None, t, h, fs, zero, empty) EXCEPT !.phase = done]
          = Rec(done, w, m, a, f, None, t, h, fs, zero, empty)
    BY SMT
  <2>2. [Rec(done, w, m, a, f, None, t, h, fs, zero, empty) EXCEPT !.answer = x]
          = Rec(done, w, m, a, f, x, t, h, fs, zero, empty)
    BY SMT
  <2>3. [Rec(done, w, m, a, f, x, t, h, fs, zero, empty) EXCEPT !.recorded = y]
          = Rec(done, w, m, a, f, x, t, h, fs, y, empty)
    BY SMT
  <2>4. [Rec(done, w, m, a, f, x, t, h, fs, y, empty) EXCEPT !.charged = z]
          = Rec(done, w, m, a, f, x, t, h, fs, y, z)
    BY SMT
  <2> DEFINE q == Rec(calling, w, m, a, f, None, t, h, fs, zero, empty)
  <2> HIDE DEF Rec, q
  <2>5. [q EXCEPT !.phase = done, !.answer = x, !.recorded = y, !.charged = z] = Rec(done, w,
            m, a, f, x, t, h, fs, y, z)
    BY <2>1, <2>2, <2>3, <2>4 DEF q
  <2>6. Ended(One(q), x, y, z) = One([q EXCEPT !.phase = done, !.answer = x, !.recorded = y,
            !.charged = z])
    BY SMT DEF Ended, One, done
  <2> QED BY <2>5, <2>6 DEF q
<1>6. ASSUME NEW w, NEW m, NEW a, NEW f, NEW t, NEW h, NEW fs, NEW x, NEW y, NEW z
      PROVE  Broke(One(Rec(calling, w, m, a, f, None, t, h, fs, zero, empty)), x, y, z)
                = One(Rec(done, w, m, a, f, None, t, h, x, y, z))
  <2>1. [Rec(calling, w, m, a, f, None, t, h, fs, zero, empty) EXCEPT !.phase = done]
          = Rec(done, w, m, a, f, None, t, h, fs, zero, empty)
    BY SMT
  <2>2. [Rec(done, w, m, a, f, None, t, h, fs, zero, empty) EXCEPT !.failures = x]
          = Rec(done, w, m, a, f, None, t, h, x, zero, empty)
    BY SMT
  <2>3. [Rec(done, w, m, a, f, None, t, h, x, zero, empty) EXCEPT !.recorded = y]
          = Rec(done, w, m, a, f, None, t, h, x, y, empty)
    BY SMT
  <2>4. [Rec(done, w, m, a, f, None, t, h, x, y, empty) EXCEPT !.charged = z]
          = Rec(done, w, m, a, f, None, t, h, x, y, z)
    BY SMT
  <2> DEFINE q == Rec(calling, w, m, a, f, None, t, h, fs, zero, empty)
  <2> HIDE DEF Rec, q
  <2>5. [q EXCEPT !.phase = done, !.failures = x, !.recorded = y, !.charged = z] = Rec(done, w,
            m, a, f, None, t, h, x, y, z)
    BY <2>1, <2>2, <2>3, <2>4 DEF q
  <2>6. Broke(One(q), x, y, z) = One([q EXCEPT !.phase = done, !.failures = x, !.recorded = y,
            !.charged = z])
    BY SMT DEF Broke, One, done
  <2> QED BY <2>5, <2>6 DEF q
<1>7. ASSUME NEW w, NEW m, NEW a, NEW f, NEW t, NEW h, NEW fs, NEW x, NEW y
      PROVE  Retried(One(Rec(calling, w, m, a, f, None, t, h, fs, zero, empty)), x, y)
                = One(Rec(next, w, m, y, f, None, t, h, x, zero, empty))
  <2>1. [Rec(calling, w, m, a, f, None, t, h, fs, zero, empty) EXCEPT !.phase = next]
          = Rec(next, w, m, a, f, None, t, h, fs, zero, empty)
    BY SMT
  <2>2. [Rec(next, w, m, a, f, None, t, h, fs, zero, empty) EXCEPT !.failures = x]
          = Rec(next, w, m, a, f, None, t, h, x, zero, empty)
    BY SMT
  <2>3. [Rec(next, w, m, a, f, None, t, h, x, zero, empty) EXCEPT !.at = y]
          = Rec(next, w, m, y, f, None, t, h, x, zero, empty)
    BY SMT
  <2> DEFINE q == Rec(calling, w, m, a, f, None, t, h, fs, zero, empty)
  <2> HIDE DEF Rec, q
  <2>4. [q EXCEPT !.phase = next, !.failures = x, !.at = y] = Rec(next, w, m, y, f, None, t, h,
            x, zero, empty)
    BY <2>1, <2>2, <2>3 DEF q
  <2>5. Retried(One(q), x, y) = One([q EXCEPT !.phase = next, !.failures = x, !.at = y])
    BY SMT DEF Retried, One, next
  <2> QED BY <2>4, <2>5 DEF q
<1>8. ASSUME NEW w, NEW m, NEW a, NEW f, NEW t, NEW h, NEW fs, NEW x
      PROVE  Failed(One(Rec(calling, w, m, a, f, None, t, h, fs, zero, empty)), x)
                = One(Rec(done, w, m, a, f, None, t, h, x, zero, empty))
  <2>1. [Rec(calling, w, m, a, f, None, t, h, fs, zero, empty) EXCEPT !.phase = done]
          = Rec(done, w, m, a, f, None, t, h, fs, zero, empty)
    BY SMT
  <2>2. [Rec(done, w, m, a, f, None, t, h, fs, zero, empty) EXCEPT !.failures = x]
          = Rec(done, w, m, a, f, None, t, h, x, zero, empty)
    BY SMT
  <2>3. [Rec(done, w, m, a, f, None, t, h, x, zero, empty) EXCEPT !.recorded = zero]
          = Rec(done, w, m, a, f, None, t, h, x, zero, empty)
    BY SMT
  <2> DEFINE q == Rec(calling, w, m, a, f, None, t, h, fs, zero, empty)
  <2> HIDE DEF Rec, q
  <2>4. [q EXCEPT !.phase = done, !.failures = x, !.recorded = zero] = Rec(done, w, m, a, f,
            None, t, h, x, zero, empty)
    BY <2>1, <2>2, <2>3 DEF q
  <2>5. Failed(One(q), x) = One([q EXCEPT !.phase = done, !.failures = x, !.recorded = zero])
    BY SMT DEF Failed, One, done, zero
  <2> QED BY <2>4, <2>5 DEF q
<1> QED BY <1>1, <1>2, <1>3, <1>4, <1>5, <1>6, <1>7, <1>8, Zenon
        DEF Seen, yes, no, all, next, calling, done, zero, empty

(* What the request is after a step.                                       *)
LEMMA SeenAfter ==
    /\ (IInv /\ phase = "idle" => ExecutorRequest = Abstract!Idle)'
    /\ (IInv /\ phase = "next" =>
          ExecutorRequest = Seen("next", Words, asked, at, from, None, Spent, <<>>, failures,
                  0, <<>>))'
    /\ (phase \in Calling =>
          ExecutorRequest = Seen("calling", Words, asked, at, from, None, Spent, Heard,
                  failures, 0, <<>>))'
    /\ (phase = "done" =>
          ExecutorRequest =
              Seen("done", Words, asked, at, from,
                   IF Answered THEN [prompt |-> Words, by |-> Target] ELSE None,
                   Spent, Heard, failures, Plus(Billed), IF Billed THEN <<bill>> ELSE <<>>))'
<1>1. IInv /\ phase = "idle" => ExecutorRequest = Abstract!Idle
  BY SeenIdle
<1>2. IInv /\ phase = "next" =>
        ExecutorRequest = Seen("next", Words, asked, at, from, None, Spent, <<>>, failures, 0,
                <<>>)
  BY SeenNext
<1>3. phase \in Calling =>
        ExecutorRequest = Seen("calling", Words, asked, at, from, None, Spent, Heard, failures,
                0, <<>>)
  BY SeenCalling
<1>4. phase = "done" =>
        ExecutorRequest =
            Seen("done", Words, asked, at, from,
                 IF Answered THEN [prompt |-> Words, by |-> Target] ELSE None,
                 Spent, Heard, failures, Plus(Billed), IF Billed THEN <<bill>> ELSE <<>>)
  BY SeenDone
<1> QED BY <1>1, <1>2, <1>3, <1>4, PTL

LEMMA AcceptMaps ==
    ASSUME IInv, IInv', NEW m \in Models, NEW text \in BOOLEAN, Accept(m, text)
    PROVE  Abstract!Next
<1>1. /\ phase = "idle" /\ phase' = "next" /\ asked' = m
      /\ UNCHANGED <<at, from, tokens, failures>>
  BY DEF Accept
<1>2. at = 1 /\ from = None /\ tokens = Zero /\ failures = <<>>
  <2>1. Len(failures) = 0 /\ failures \in Seq(Errs)
    BY <1>1, SMT DEF IInv, Types
  <2> QED BY <1>1, <2>1, EmptySeq DEF IInv
<1>3. ExecutorRequest = Abstract!Idle
  BY <1>1, SeenIdle
<1>4. Spent' = 0
  BY <1>1, <1>2 DEF Spent, Plus
<1>5. ExecutorRequest' = Seen("next", Words', m, 1, None, None, 0, <<>>, <<>>, 0, <<>>)
  BY <1>1, <1>2, <1>4, SeenAfter, Zenon
<1>6. Words' \in {"text", "blank"}
  BY DEF Words
<1>7. Abstract!Accept(1)
  <2>1. Abstract!Permitted({}, m)
    BY DEF Abstract!Permitted
  <2>2. [model |-> m, provider |-> None] \in Abstract!Targets(m, None)
    BY SMT DEF Abstract!Targets
  <2>3. One(ExecutorRequest)[1].phase = "idle"
    <3>1. Abstract!Idle.phase = "idle"
      BY SMT DEF Abstract!Idle
    <3> QED BY <1>3, <3>1, OneRead, Zenon
  <2>4. One(ExecutorRequest') = [One(ExecutorRequest) EXCEPT ![1] =
             [Abstract!Idle EXCEPT !.phase = "next", !.stream = TRUE, !.prompt = Words',
                 !.noCache = FALSE, !.allowed = {}, !.forced = None, !.model = m,
                 !.provider = None]]
    <3> DEFINE new == [Abstract!Idle EXCEPT !.phase = "next", !.stream = TRUE, !.prompt = Words',
                           !.noCache = FALSE, !.allowed = {}, !.forced = None, !.model = m,
                           !.provider = None]
    <3>1. new = Seen("next", Words', m, 1, None, None, 0, <<>>, <<>>, 0, <<>>)
      BY AcceptedSeen
    <3> HIDE DEF new
    <3>2. [One(ExecutorRequest) EXCEPT ![1] = new] = One(new)
      BY OneSet
    <3>3. new = ExecutorRequest'
      BY <1>5, <3>1
    <3> QED BY <3>2, <3>3 DEF new
  <2>5. /\ [model |-> m, provider |-> None].model = m
        /\ [model |-> m, provider |-> None].provider = None
    OBVIOUS
  <2>6. \E t \in Abstract!Targets(m, None) :
           One(ExecutorRequest') = [One(ExecutorRequest) EXCEPT ![1] =
             [Abstract!Idle EXCEPT !.phase = IF TRUE THEN "next" ELSE "exact", !.stream = TRUE,
                 !.prompt = Words', !.noCache = FALSE, !.allowed = {}, !.forced = None,
                 !.model = t.model, !.provider = t.provider]]
    <3>1. (IF TRUE THEN "next" ELSE "exact") = "next"
      OBVIOUS
    <3> WITNESS [model |-> m, provider |-> None] \in Abstract!Targets(m, None)
    <3> QED BY <2>4, <2>5, <3>1, Zenon
  <2> DEFINE Taken(stream, noCache, p, allowed, a, forced) ==
                /\ Abstract!Permitted(allowed, a)
                /\ \E t \in Abstract!Targets(a, forced) :
                      One(ExecutorRequest') = [One(ExecutorRequest) EXCEPT ![1] =
                        [Abstract!Idle EXCEPT !.phase = IF stream THEN "next" ELSE "exact",
                            !.stream = stream, !.prompt = p, !.noCache = noCache,
                            !.allowed = allowed, !.forced = forced,
                            !.model = t.model, !.provider = t.provider]]
  <2>7. \E stream \in {TRUE}, noCache \in BOOLEAN, p \in {"text", "blank"},
           allowed \in {{}}, a \in Models, forced \in {None} :
           Taken(stream, noCache, p, allowed, a, forced)
    <3>1. Taken(TRUE, FALSE, Words', {}, m, None)
      BY <2>1, <2>6
    <3>2. FALSE \in BOOLEAN /\ TRUE \in {TRUE} /\ {} \in {{}} /\ None \in {None}
      OBVIOUS
    <3> HIDE DEF Taken
    <3> QED BY <1>6, <3>1, <3>2, Zenon
  <2> QED BY <2>3, <2>7, Zenon DEF Abstract!Accept, One
<1> QED BY <1>7, Zenon DEF Abstract!Next

(* The executor's view of the request before a step.                       *)
LEMMA NextRead ==
    ASSUME IInv, phase = "next"
    PROVE  LET q == One(ExecutorRequest)[1] IN
           /\ q.phase = "next" /\ q.stream = TRUE /\ q.prompt = Words /\ q.at = at
           /\ q.failures = failures
           /\ Abstract!Candidates(1) = Candidates
           /\ Abstract!ProviderFor(1) = Serves[Target]
<1> DEFINE q == One(ExecutorRequest)[1]
<1>1. q = Seen("next", Words, asked, at, from, None, Spent, <<>>, failures, 0, <<>>)
  BY SeenNext, OneRead
<1> HIDE DEF q
<1>2. /\ q.phase = "next" /\ q.stream = TRUE /\ q.prompt = Words /\ q.at = at
      /\ q.failures = failures /\ q.model = asked /\ q.provider = None
  BY <1>1, SMT DEF Seen
<1>3. Abstract!Candidates(1) = Candidates
  BY <1>2 DEF Abstract!Candidates, Candidates, One, q
<1>4. Abstract!ProviderFor(1) = Abstract!FindProvider(Target, None)
  BY <1>2, <1>3 DEF Abstract!ProviderFor, Target, One, q
<1> QED BY <1>2, <1>3, <1>4 DEF Abstract!FindProvider, q

LEMMA CallingRead ==
    ASSUME phase \in Calling
    PROVE  LET q == One(ExecutorRequest)[1] IN
           /\ q.phase = "calling" /\ q.stream = TRUE /\ q.prompt = Words /\ q.at = at
           /\ q.tokens = Spent /\ q.heard = Heard /\ q.failures = failures
           /\ q.recorded = 0 /\ q.charged = <<>>
           /\ Abstract!Candidates(1) = Candidates
           /\ Abstract!Target(1) = Target
<1> DEFINE q == One(ExecutorRequest)[1]
<1>1. q = Seen("calling", Words, asked, at, from, None, Spent, Heard, failures, 0, <<>>)
  BY SeenCalling, OneRead
<1> HIDE DEF q
<1>2. /\ q.phase = "calling" /\ q.stream = TRUE /\ q.prompt = Words /\ q.at = at
      /\ q.tokens = Spent /\ q.heard = Heard /\ q.failures = failures
      /\ q.recorded = 0 /\ q.charged = <<>> /\ q.model = asked
  BY <1>1, SMT DEF Seen
<1>3. Abstract!Candidates(1) = Candidates
  BY <1>2 DEF Abstract!Candidates, Candidates, One, q
<1> QED BY <1>2, <1>3 DEF Abstract!Target, Target, One, q

LEMMA FindNextMaps ==
    ASSUME IInv, IInv', FindNext
    PROVE  Abstract!GiveUp(1) \/ Abstract!FindNext(1)
<1> DEFINE o == One(ExecutorRequest)
<1>1. phase = "next" /\ UNCHANGED <<asked, prompt, passed, bill>>
  BY DEF FindNext
<1>2. Words' = Words /\ passed = <<>> /\ bill = None /\ Len(failures) = at - 1 /\ at \in Nat
      /\ Len(Candidates) \in Nat
  BY <1>1, CandidatesType DEF Words, IInv, Types
<1>3. ExecutorRequest = Seen("next", Words, asked, at, from, None, Spent, <<>>, failures, 0, <<>>)
  BY <1>1, SeenNext
<1>4. Candidates' = Candidates
  BY <1>1, SameCandidates
<1>5. CASE /\ at > Len(Candidates) /\ phase' = "done"
           /\ UNCHANGED <<at, from, lines, counted, tokens, failures>>
  <2>1. ~Answered' /\ ~Billed' /\ Spent' = Spent /\ Heard' = <<>>
    BY <1>1, <1>2, <1>4, <1>5, SMT DEF Answered, Billed, Spent, Heard
  <2>2. (IF Answered THEN [prompt |-> Words, by |-> Target] ELSE None)' = None
        /\ Plus(Billed)' = 0 /\ (IF Billed THEN <<bill>> ELSE <<>>)' = <<>>
    BY <2>1 DEF Plus
  <2>3. ExecutorRequest' =
           Seen("done", Words, asked, at, from, None, Spent, <<>>, failures, 0, <<>>)
    BY <1>1, <1>2, <1>5, <2>1, <2>2, SeenAfter, Zenon
  <2>4. One(ExecutorRequest') = GivenUp(o)
    BY <1>3, <2>3, SeenSteps
  <2>5. Abstract!GiveUp(1)
    BY <1>1, <1>5, <2>4, NextRead, Zenon DEF Abstract!GiveUp, One, GivenUp
  <2> QED BY <2>5
<1>6. CASE /\ at <= Len(Candidates) /\ Serves[Target] = None
           /\ at' = at + 1 /\ failures' = Append(failures, "unserved")
           /\ UNCHANGED <<phase, from, lines, counted, tokens, client>>
  <2>1. Spent' = Spent
    BY <1>6 DEF Spent
  <2>2. ExecutorRequest' =
           Seen("next", Words, asked, at + 1, from, None, Spent, <<>>, Append(failures,
                   "unserved"),
                0, <<>>)
    BY <1>1, <1>2, <1>6, <2>1, SeenAfter, Zenon
  <2>3. One(ExecutorRequest') = Unserved(o, at + 1, Append(failures, "unserved"))
    BY <1>3, <2>2, SeenSteps
  <2>4. Abstract!FindNext(1)
    BY <1>1, <1>6, <2>3, NextRead, Zenon DEF Abstract!FindNext, One, Unserved
  <2> QED BY <2>4
<1>7. CASE /\ at <= Len(Candidates) /\ Serves[Target] # None
           /\ phase' = "reading" /\ from' = Serves[Target]
           /\ tokens' = [Zero EXCEPT !.prompt = Plus(prompt)]
           /\ UNCHANGED <<at, failures, client>>
  <2>1. Spent' = Abstract!Tokens(Words)
    BY <1>7, SMT DEF Spent, Words, Abstract!Tokens, Plus, Zero
  <2>2. Heard' = <<>>
    BY <1>1, <1>2, SMT DEF Heard
  <2>3. ExecutorRequest' =
           Seen("calling", Words, asked, at, Serves[Target], None, Abstract!Tokens(Words), <<>>,
                failures, 0, <<>>)
    BY <1>1, <1>2, <1>7, <2>1, <2>2, SeenAfter, Zenon DEF Calling
  <2>4. One(ExecutorRequest') = Served(o, Serves[Target], Abstract!Tokens(Words))
    BY <1>3, <2>3, SeenSteps
  <2>5. Abstract!FindNext(1)
    BY <1>1, <1>7, <2>4, NextRead, Zenon DEF Abstract!FindNext, One, Served
  <2> QED BY <2>5
<1> QED BY <1>5, <1>6, <1>7 DEF FindNext

LEMMA SameRequest ==
    ASSUME UNCHANGED <<phase, asked, prompt, at, from, passed, tokens, failures, bill>>
    PROVE  ExecutorRequest' = ExecutorRequest
<1>1. Candidates' = Candidates /\ Target' = Target
  BY SameCandidates
<1> QED BY <1>1, Zenon DEF ExecutorRequest, Answered, Billed, Words

(* Between the call of a candidate and its end the executor sees chunks.   *)
LEMMA SilentCall ==
    ASSUME phase \in Calling, phase' \in Calling,
           UNCHANGED <<asked, prompt, at, from, passed, tokens, failures>>
    PROVE  ExecutorRequest' = ExecutorRequest
<1>1. Words' = Words /\ Spent' = Spent /\ Target' = Target
  BY SameCandidates DEF Words, Spent
<1>2. Heard' = Heard
  BY <1>1 DEF Heard
<1> QED BY <1>1, <1>2, SeenCalling, SeenAfter, Zenon

LEMMA ReceiveMaps ==
    ASSUME IInv, phase = "reading", NEW m \in Lines(from), Receive(m)
    PROVE  \/ \E t \in 0 .. 1 : Abstract!Chunk(1, t)
           \/ ExecutorRequest' = ExecutorRequest
<1> DEFINE o == One(ExecutorRequest)
           chunks == Chunks(from, m, Len(lines'))
<1>1. UNCHANGED <<asked, prompt, at, from, failures, bill>>
  BY DEF Receive
<1>2. from \in Protocols /\ GoodLine(m) /\ tokens \in Pair /\ counted \in Pair
      /\ passed \in Seq(Chunkset) /\ Len(passed) <= Len(lines) /\ Len(lines) \in Nat
      /\ Len(lines) < MaxLines /\ MaxLines \in Nat
  BY LinesGood, StreamsAssumption DEF IInv, Types, Calling, Receive
<1>3. Words' = Words /\ Target' = Target /\ phase \in Calling
  BY <1>1, SameCandidates DEF Words, Calling
<1>4. phase' \in Calling
  BY Zenon DEF Receive, Then, Calling
<1>5. CASE chunks = <<>> /\ UNCHANGED <<passed, tokens, client>>
  BY <1>1, <1>3, <1>4, <1>5, SilentCall
<1>6. CASE chunks # <<>> /\ passed' = passed \o chunks /\ tokens' = Tally(chunks[1])
  <2>1. Len(lines') \in Nat
    <3>1. PICK S : lines \in Seq(S)
      BY DEF IInv, Types
    <3>2. lines \in Seq(S \cup {m}) /\ lines' = Append(lines, m)
      BY <3>1, SMT DEF Receive
    <3> QED BY <3>2, SMT
  <2>2. PICK c \in Chunkset : chunks = <<c>>
    BY <1>2, <1>6, <2>1, OneChunk
  <2>3. passed' = Append(passed, c) /\ tokens' = Tally(c)
    BY <1>2, <1>6, <2>2, SMT
  <2>4. Heard' = Append(Heard, Target)
    BY <1>2, <1>3, <2>3, SMT DEF Heard
  <2>5. PICK t \in 0 .. 1 : Spent' = Spent + t
    BY <1>2, <2>3, TallyGrows, SMT DEF Spent, Plus
  <2>6. Len(Heard) < MaxLines
    BY <1>2, SMT DEF Heard
  <2>7. ExecutorRequest =
           Seen("calling", Words, asked, at, from, None, Spent, Heard, failures, 0, <<>>)
    BY <1>3, SeenCalling
  <2>8. ExecutorRequest' =
           Seen("calling", Words, asked, at, from, None, Spent + t, Append(Heard, Target),
                failures, 0, <<>>)
    BY <1>1, <1>3, <1>4, <2>4, <2>5, SeenAfter, Zenon
  <2>9. One(ExecutorRequest') = Passed(o, Append(Heard, Target), Spent + t)
    BY <2>7, <2>8, SeenSteps
  <2>10. Abstract!Chunk(1, t)
    BY <1>3, <2>6, <2>9, CallingRead, Zenon DEF Abstract!Chunk, One, Passed
  <2> QED BY <2>10
<1> QED BY <1>5, <1>6, Zenon DEF Receive

LEMMA FailMaps ==
    ASSUME IInv, IInv', NEW error \in {"retriable", "fatal"}, NEW api \in BOOLEAN, Fail(error,
            api)
    PROVE  Abstract!Fail(1, error) \/ ExecutorRequest' = ExecutorRequest
<1> DEFINE o == One(ExecutorRequest)
           fs == Append(failures, error)
<1>1. phase = "reading" /\ UNCHANGED <<asked, prompt, from, lines, passed, tokens, bill>>
  BY DEF Fail
<1>2. phase \in Calling /\ Words' = Words /\ Spent' = Spent /\ Candidates' = Candidates
  BY <1>1, SameCandidates DEF Calling, Words, Spent
<1>3. failures \in Seq(Errs) /\ Len(failures) = at - 1 /\ at \in Nat /\ bill = None
      /\ Len(Candidates) \in Nat
  BY <1>1, CandidatesType DEF IInv, Types
<1>4. Len(fs) = at
  BY <1>3, SMT DEF Errs
<1>5. ExecutorRequest =
         Seen("calling", Words, asked, at, from, None, Spent, Heard, failures, 0, <<>>)
  BY <1>2, SeenCalling
<1>6. passed = <<>> => Heard = <<>>
  BY SMT DEF Heard
<1>7. ~Broken => ~Abstract!Broken(1)
  <2>1. o[1].heard = Heard
    BY <1>2, CallingRead
  <2> QED BY <1>6, <2>1 DEF Broken, Abstract!Broken, One
<1>8. Abstract!MovesOn(1, error) <=> error = "retriable" /\ at < Len(Candidates)
  BY <1>2, CallingRead, Zenon DEF Abstract!MovesOn, One
<1>9. CASE Broken /\ phase' = "broken" /\ UNCHANGED <<at, failures, client>>
  BY <1>1, <1>2, <1>9, SilentCall DEF Calling
<1>10. CASE /\ ~Broken /\ error = "retriable" /\ at < Len(Candidates)
            /\ phase' = "next" /\ at' = at + 1 /\ failures' = fs
  <2>1. ExecutorRequest' =
           Seen("next", Words, asked, at + 1, from, None, Spent, Heard, fs, 0, <<>>)
    BY <1>1, <1>2, <1>6, <1>10, SeenAfter, Zenon DEF Broken
  <2>2. One(ExecutorRequest') = Retried(o, fs, at + 1)
    BY <1>5, <2>1, SeenSteps
  <2> QED BY <1>2, <1>7, <1>8, <1>10, <2>2, CallingRead, Zenon DEF Abstract!Fail, One, Retried
<1>11. CASE /\ ~Broken /\ (error = "fatal" \/ at = Len(Candidates))
            /\ phase' = "done" /\ failures' = fs /\ UNCHANGED at
  <2>1. ~Answered' /\ ~Billed'
    BY <1>1, <1>3, <1>4, <1>11, SMT DEF Answered, Billed
  <2>2. (IF Answered THEN [prompt |-> Words, by |-> Target] ELSE None)' = None
        /\ Plus(Billed)' = 0 /\ (IF Billed THEN <<bill>> ELSE <<>>)' = <<>>
    BY <2>1 DEF Plus
  <2>3. Heard' = Heard
    BY <1>1, <1>11, SameCandidates DEF Heard
  <2>4. ExecutorRequest' =
           Seen("done", Words, asked, at, from, None, Spent, Heard, fs, 0, <<>>)
    BY <1>1, <1>2, <1>11, <2>2, <2>3, SeenAfter, Zenon
  <2>5. One(ExecutorRequest') = Failed(o, fs)
    BY <1>5, <2>4, SeenSteps
  <2>6. ~Abstract!MovesOn(1, error)
    BY <1>3, <1>8, <1>11, SMT
  <2> QED BY <1>2, <1>7, <1>11, <2>5, <2>6, CallingRead, Zenon
          DEF Abstract!Fail, One, Failed
<1> QED BY <1>9, <1>10, <1>11 DEF Fail

LEMMA ChargeMaps ==
    ASSUME IInv, Charge
    PROVE  Abstract!EndStream(1) \/ Abstract!Fail(1, "fatal")
<1> DEFINE o == One(ExecutorRequest)
           a == [prompt |-> Words, by |-> Target]
           fs == Append(failures, "fatal")
<1>1. phase' = "done" /\ UNCHANGED <<asked, prompt, at, from, passed, tokens, bill>>
  BY DEF Charge
<1>2. phase \in {"settled", "charging", "broken"} /\ phase \in Calling
  BY DEF Charge, Calling
<1>3. Words' = Words /\ Spent' = Spent /\ Candidates' = Candidates /\ Target' = Target
  BY <1>1, SameCandidates DEF Words, Spent
<1>4. Heard' = Heard
  BY <1>1, <1>3 DEF Heard
<1>5. failures \in Seq(Errs) /\ Len(failures) = at - 1 /\ at \in Nat /\ at >= 1
      /\ at <= Len(Candidates) /\ asked \in Models /\ tokens \in Pair
  BY <1>2 DEF IInv, Types, Calling
<1>6. Target # None
  <2>1. Target \in Models
    BY <1>5, CandidatesType, SMT DEF Target
  <2> QED BY <2>1, StreamsAssumption
<1>7. ExecutorRequest =
         Seen("calling", Words, asked, at, from, None, Spent, Heard, failures, 0, <<>>)
  BY <1>2, SeenCalling
<1>8. CASE phase = "settled"
  <2>1. failures' = failures /\ bill = Target
    BY <1>8 DEF Charge, IInv
  <2>2. Answered' /\ Billed'
    BY <1>1, <1>3, <1>5, <1>6, <2>1, SMT DEF Answered, Billed
  <2>3. (IF Answered THEN [prompt |-> Words, by |-> Target] ELSE None)' = a
        /\ Plus(Billed)' = 1 /\ (IF Billed THEN <<bill>> ELSE <<>>)' = <<Target>>
    BY <1>1, <1>3, <2>1, <2>2 DEF Plus
  <2>4. ExecutorRequest' =
           Seen("done", Words, asked, at, from, a, Spent, Heard, failures, 1, <<Target>>)
    BY <1>1, <1>3, <1>4, <2>1, <2>3, SeenAfter, Zenon
  <2>5. One(ExecutorRequest') = Ended(o, a, 1, <<Target>>)
    BY <1>7, <2>4, SeenSteps
  <2>6. 0 + 1 = 1 /\ Append(<<>>, Target) = <<Target>>
    BY SMT
  <2>7. /\ [prompt |-> o[1].prompt, by |-> Abstract!Target(1)] = a
        /\ o[1].recorded + 1 = 1 /\ Append(o[1].charged, Abstract!Target(1)) = <<Target>>
    BY <1>2, <2>6, CallingRead, Zenon
  <2>8. One(ExecutorRequest') =
           Ended(o, [prompt |-> o[1].prompt, by |-> Abstract!Target(1)], o[1].recorded + 1,
                 Append(o[1].charged, Abstract!Target(1)))
    BY <2>5, <2>7, Zenon
  <2>9. o[1].phase = "calling" /\ o[1].stream
    BY <1>2, CallingRead
  <2>10. Abstract!EndStream(1)
    BY <2>8, <2>9, Zenon DEF Abstract!EndStream, Abstract!Charged, One, Ended
  <2> QED BY <2>10
<1>9. CASE phase \in {"charging", "broken"}
  <2> DEFINE n == Plus(Spent > 0)
             c == IF Spent > 0 THEN <<Target>> ELSE <<>>
  <2>1. failures' = fs /\ Len(fs) = at
    BY <1>5, <1>9, SMT DEF Charge, Errs
  <2>2. ~Answered'
    BY <1>1, <1>5, <2>1, SMT DEF Answered
  <2>3. Billed' <=> Spent > 0
    <3>1. CASE phase = "charging"
      BY <1>1, <1>6, <3>1, SMT DEF IInv, Billed, Spent, Plus
    <3>2. CASE phase = "broken"
      <4>1. ~Settles
        BY <3>2 DEF Charge
      <4>2. tokens = Zero
        BY <1>5, <3>2, <4>1, SMT DEF Settles, Pair, Zero
      <4> QED BY <1>1, <3>2, <4>2, SMT DEF IInv, Billed, Spent, Plus
    <3> QED BY <1>9, <3>1, <3>2
  <2>4. Spent > 0 => bill = Target
    BY <1>1, <1>9, <2>3 DEF Billed, IInv
  <2>5. (IF Answered THEN [prompt |-> Words, by |-> Target] ELSE None)' = None
        /\ Plus(Billed)' = n /\ (IF Billed THEN <<bill>> ELSE <<>>)' = c
    BY <1>1, <2>2, <2>3, <2>4 DEF Plus
  <2>6. ExecutorRequest' = Seen("done", Words, asked, at, from, None, Spent, Heard, fs, n, c)
    BY <1>1, <1>3, <1>4, <2>1, <2>5, SeenAfter, Zenon
  <2>7. One(ExecutorRequest') = Broke(o, fs, n, c)
    BY <1>7, <2>6, SeenSteps
  <2>8. 0 + (IF Spent > 0 THEN 1 ELSE 0) = n /\ Append(<<>>, Target) = <<Target>>
    BY SMT DEF Plus
  <2>9. Heard # <<>>
    <3>1. passed \in Seq(Chunkset) /\ passed # <<>>
      BY <1>9 DEF IInv, Types
    <3> QED BY <3>1, SMT DEF Heard
  <2>10. o[1].heard = Heard /\ o[1].tokens = Spent /\ o[1].charged = <<>>
    BY <1>2, CallingRead
  <2>11. Abstract!Broken(1)
    BY <2>9, <2>10 DEF Abstract!Broken, One
  <2>12. Abstract!ChargeBroken(1) = c
    BY <1>2, <2>8, <2>10, CallingRead, Zenon DEF Abstract!ChargeBroken,
       Abstract!Charged, One
  <2> HIDE DEF n, c
  <2>13. /\ Append(o[1].failures, "fatal") = fs
         /\ o[1].recorded + (IF o[1].tokens > 0 THEN 1 ELSE 0) = n
    BY <1>2, <2>8, CallingRead, Zenon
  <2>14. One(ExecutorRequest') =
            Broke(o, Append(o[1].failures, "fatal"),
                  o[1].recorded + (IF o[1].tokens > 0 THEN 1 ELSE 0), Abstract!ChargeBroken(1))
    BY <2>7, <2>12, <2>13, Zenon
  <2>15. o[1].phase = "calling"
    BY <1>2, CallingRead
  <2>16. Abstract!Fail(1, "fatal")
    BY <2>11, <2>14, <2>15, Zenon DEF Abstract!Fail, One, Broke
  <2> QED BY <2>16
<1> QED BY <1>2, <1>8, <1>9

LEMMA ReplyMaps ==
    ASSUME IInv', Reply
    PROVE  Abstract!Reply(1)
<1>1. phase = "done" /\ phase' = "idle"
  BY DEF Reply
<1>2. ExecutorRequest' = Abstract!Idle
  BY <1>1, SeenAfter
<1>3. ExecutorRequest.phase = "done"
  BY <1>1 DEF ExecutorRequest
<1>4. One(ExecutorRequest)[1].phase = "done"
  BY <1>3, OneRead
<1>5. One(ExecutorRequest') = [One(ExecutorRequest) EXCEPT ![1] = Abstract!Idle]
  BY <1>2, OneSet
<1> QED BY <1>4, <1>5, Zenon DEF Abstract!Reply, One

LEMMA InitMaps ==
    ASSUME Init, IInv
    PROVE  Abstract!Init
<1>1. ExecutorRequest = Abstract!Idle
  BY SeenIdle DEF Init
<1> QED BY <1>1 DEF Abstract!Init

LEMMA Stutter ==
    ASSUME ExecutorRequest' = ExecutorRequest
    PROVE  UNCHANGED Abstract!vars
BY DEF Abstract!vars

LEMMA NextMaps ==
    ASSUME IInv, IInv', [Next]_vars
    PROVE  [Abstract!Next]_(Abstract!vars)
<1> DEFINE Step == Abstract!Steps(1) \/ \E t \in 0 .. 1 : Abstract!Chunk(1, t)
<1>1. Step => Abstract!Next
  BY Zenon DEF Abstract!Next
<1>2. ASSUME NEW m \in Models, NEW text \in BOOLEAN, Accept(m, text)
      PROVE  Abstract!Next
  BY <1>2, AcceptMaps
<1>3. ASSUME FindNext PROVE Step
  BY <1>3, FindNextMaps, Zenon DEF Abstract!Steps
<1>4. ASSUME phase = "reading", NEW m \in Lines(from), Receive(m)
      PROVE  Step \/ ExecutorRequest' = ExecutorRequest
  BY <1>4, ReceiveMaps
<1>5. ASSUME EndOfBody \/ Settle PROVE ExecutorRequest' = ExecutorRequest
  <2>1. phase \in Calling /\ phase' \in Calling
    BY <1>5 DEF EndOfBody, Settle, Settles, Calling
  <2> QED BY <1>5, <2>1, SilentCall DEF EndOfBody, Settle
<1>6. ASSUME NEW error \in {"retriable", "fatal"}, NEW api \in BOOLEAN, Fail(error, api)
      PROVE  Step \/ ExecutorRequest' = ExecutorRequest
  <2>1. Abstract!Fail(1, error) => Abstract!Steps(1)
    BY Zenon DEF Abstract!Steps, Abstract!Answers, Abstract!Errors
  <2> QED BY <1>6, <2>1, FailMaps
<1>7. ASSUME Charge PROVE Step
  BY <1>7, ChargeMaps, Zenon DEF Abstract!Steps, Abstract!Answers, Abstract!Errors
<1>8. ASSUME Reply PROVE Step
  BY <1>8, ReplyMaps DEF Abstract!Steps
<1>9. ASSUME Leave \/ (\E log \in Chats : Chat(log)) \/ UNCHANGED vars
      PROVE  ExecutorRequest' = ExecutorRequest
  BY <1>9, SameRequest DEF Leave, Chat, vars, request
<1> HIDE DEF Step
<1> QED BY <1>1, <1>2, <1>3, <1>4, <1>5, <1>6, <1>7, <1>8, <1>9, Stutter DEF Next

(* However upstream speaks, breaks off or is left, and whatever the        *)
(* executor and the providers make of it, what happens is a behaviour of   *)
(* the loop over the fallback chain as Executor describes it.              *)
THEOREM Implements == Spec => RefinesExecutor
<1>1. Init => IInv /\ Abstract!Init
  BY InitIInv, InitMaps
<1>2. IInv /\ [Next]_vars => IInv'
  BY NextIInv
<1>3. IInv /\ IInv' /\ [Next]_vars => [Abstract!Next]_(Abstract!vars)
  BY NextMaps
<1> QED BY <1>1, <1>2, <1>3, PTL DEF Spec, RefinesExecutor, Abstract!Spec

-----------------------------------------------------------------------------
(* What the client reads.                                                  *)

(* The providers that translate the end of their protocol.                 *)
Closing == {"anthropic", "ollama", "mock"}

(* What the lines of each protocol may say at once.                        *)
Reads(p, m) ==
    /\ m.prompt \in {0, Count} /\ m.comp \in {0, Count}
    /\ p = "mock" => m.prompt = 0 /\ m.comp = 0 /\ (m.text <=> m.finish = None)
    /\ p \in {"openai", "ollama"} => m.prompt = m.comp /\ (m.text => m.prompt = 0)
    /\ p = "ollama" => (m.finish = None => m.prompt = 0)
    /\ p = "anthropic" => /\ m.text \/ m.finish # None => m.prompt = 0 /\ m.comp = 0
                          /\ m.text => m.finish = None
    /\ p \in Closing => m.finish \in {None, "stop"}

LEMMA LineFields ==
    /\ ~Line.text /\ Line.finish = None /\ Line.prompt = 0 /\ Line.comp = 0
    /\ ~Garbage.text /\ Garbage.finish = None /\ Garbage.prompt = 0 /\ Garbage.comp = 0
    /\ TextLine.text = TRUE /\ TextLine.finish = None /\ TextLine.prompt = 0 /\ TextLine.comp = 0
    /\ ~CallLine.text /\ CallLine.finish = None /\ CallLine.prompt = 0 /\ CallLine.comp = 0
    /\ ~Done.text /\ Done.finish = None /\ Done.prompt = 0 /\ Done.comp = 0
    /\ \A f : LET m == Finish(f) IN ~m.text /\ m.finish = f /\ m.prompt = 0 /\ m.comp = 0
    /\ \A n : LET m == Counts(n) IN ~m.text /\ m.finish = None /\ m.prompt = n /\ m.comp = n
    /\ \A n : LET m == [Counts(n) EXCEPT !.finish = "stop"] IN
              ~m.text /\ m.finish = "stop" /\ m.prompt = n /\ m.comp = n
    /\ LET m == [Counts(Count) EXCEPT !.text = TRUE, !.finish = "stop"] IN
       m.text = TRUE /\ m.finish = "stop" /\ m.prompt = Count /\ m.comp = Count
    /\ LET m == [Line EXCEPT !.kind = "message_start", !.prompt = Count] IN
       ~m.text /\ m.finish = None /\ m.prompt = Count /\ m.comp = 0
    /\ LET m == [Line EXCEPT !.kind = "message_delta", !.comp = Count] IN
       ~m.text /\ m.finish = None /\ m.prompt = 0 /\ m.comp = Count
BY SMT DEF Line, Garbage, TextLine, CallLine, Done, Finish, Counts

LEMMA LineReads ==
    ASSUME NEW p \in Protocols, NEW m \in Lines(p)
    PROVE  Reads(p, m)
<1> DEFINE start == [Line EXCEPT !.kind = "message_start", !.prompt = Count]
           delta == [Line EXCEPT !.kind = "message_delta", !.comp = Count]
           both  == [Counts(Count) EXCEPT !.text = TRUE, !.finish = "stop"]
<1>1. Count \in Nat \ {0} /\ None # "stop"
  BY StreamsAssumption
<1>2. CASE p = "anthropic"
  <2>1. m \in {Garbage, TextLine, CallLine, Finish("stop"), start, delta}
    BY <1>2, SMT DEF Lines
  <2> HIDE DEF start, delta
  <2>2. /\ ~start.text /\ start.finish = None /\ start.prompt = Count /\ start.comp = 0
        /\ ~delta.text /\ delta.finish = None /\ delta.prompt = 0 /\ delta.comp = Count
    BY LineFields DEF start, delta
  <2> QED BY <1>1, <1>2, <2>1, <2>2, LineFields DEF Reads, Closing
<1>3. CASE p = "gemini"
  <2>1. m \in {Garbage, TextLine, CallLine, Done, Finish("length"), both}
    BY <1>3, SMT DEF Lines
  <2> HIDE DEF both
  <2>2. both.text = TRUE /\ both.finish = "stop" /\ both.prompt = Count /\ both.comp = Count
    BY LineFields DEF both
  <2> QED BY <1>1, <1>3, <2>1, <2>2, LineFields DEF Reads, Closing
<1>4. CASE p = "ollama"
  <2>1. \/ m \in {Garbage, Line, TextLine}
        \/ \E n \in {0, Count} : m = [Counts(n) EXCEPT !.finish = "stop"]
    BY <1>4, SMT DEF Lines
  <2>2. CASE m \in {Garbage, Line, TextLine}
    BY <1>1, <1>4, <2>2, LineFields DEF Reads, Closing
  <2>3. ASSUME NEW n \in {0, Count}, m = [Counts(n) EXCEPT !.finish = "stop"]
        PROVE  Reads(p, m)
    <3>1. ~m.text /\ m.finish = "stop" /\ m.prompt = n /\ m.comp = n
      BY <2>3, LineFields, Zenon
    <3> QED BY <1>1, <1>4, <2>3, <3>1 DEF Reads, Closing
  <2> QED BY <2>1, <2>2, <2>3
<1>5. CASE p = "openai"
  <2>1. m \in {Garbage, Line, TextLine, CallLine, Done, Finish("stop"), Counts(Count)}
    BY <1>5, SMT DEF Lines
  <2> QED BY <1>1, <1>5, <2>1, LineFields DEF Reads, Closing
<1>6. CASE p = "mock"
  <2>1. m \in {TextLine, Finish("stop")}
    BY <1>6, SMT DEF Lines
  <2> QED BY <1>1, <1>6, <2>1, LineFields DEF Reads, Closing
<1> QED BY <1>2, <1>3, <1>4, <1>5, <1>6 DEF Protocols

(* What a provider makes of a line.                                        *)
Makes(p, m, n, c) ==
    /\ c.text = IF m.text THEN n ELSE 0
    /\ p \in Closing => c.finish = IF Ends(p, m) THEN "stop" ELSE None
    /\ p = "anthropic" => c.usage = IF m.finish = "stop" THEN Usage(counted) ELSE None
    /\ p \in {"gemini", "mock"} => c.usage = None
    /\ p \in {"openai", "ollama"} => c.usage = Usage(m)

(* And when it makes nothing of it.                                        *)
Skips(p, m) ==
    /\ ~m.text
    /\ p \in Closing => ~Ends(p, m)
    /\ p \in {"openai", "ollama"} => m.prompt = 0

LEMMA ChunkFields ==
  \A t, f, u : LET c == Chunk(t, f, u) IN c.text = t /\ c.finish = f /\ c.usage = u
BY DEF Chunk

LEMMA NoUsage ==
  ASSUME NEW m, m.prompt = 0, m.comp = 0
  PROVE  Usage(m) = None
BY DEF Usage

LEMMA ChunkFacts ==
    ASSUME NEW p \in Protocols, NEW m \in Lines(p), NEW n \in Nat, counted \in Pair
    PROVE  \/ Chunks(p, m, n) = <<>> /\ Skips(p, m)
           \/ \E c \in Chunkset : Chunks(p, m, n) = <<c>> /\ Makes(p, m, n, c)
<1> DEFINE Good(cs) == \/ cs = <<>> /\ Skips(p, m)
                       \/ \E c : cs = <<c>> /\ Makes(p, m, n, c)
           t == IF m.text THEN n ELSE 0
<1>1. GoodLine(m) /\ Reads(p, m)
  BY LinesGood, LineReads
<1>2. Count \in Nat \ {0} /\ None # "stop"
  BY StreamsAssumption
<1> SUFFICES Good(Chunks(p, m, n))
  <2>1. ASSUME Good(Chunks(p, m, n)), Chunks(p, m, n) # <<>>
        PROVE  \E c \in Chunkset : Chunks(p, m, n) = <<c>> /\ Makes(p, m, n, c)
    <3>1. PICK c \in Chunkset : Chunks(p, m, n) = <<c>>
      BY <1>1, <2>1, OneChunk
    <3>2. PICK d : Chunks(p, m, n) = <<d>> /\ Makes(p, m, n, d)
      BY <2>1
    <3>3. c = d
      BY <3>1, <3>2
    <3> QED BY <3>1, <3>2, <3>3
  <2> QED BY <2>1
<1>3. CASE p = "anthropic"
  <2>1. Ends(p, m) <=> m.finish = "stop"
    BY <1>3 DEF Ends
  <2>2. Chunks(p, m, n) = AnthropicChunks(m, n)
    BY <1>3 DEF Chunks
  <2>3. /\ m.finish \in {None, "stop"} /\ (m.text => m.finish = None)
    BY <1>1, <1>3 DEF Reads, Closing
  <2>4. CASE m.text
    <3>1. AnthropicChunks(m, n) = <<Chunk(n, None, None)>>
      BY <2>3, <2>4 DEF AnthropicChunks
    <3> QED BY <1>2, <1>3, <2>1, <2>2, <2>3, <2>4, <3>1, ChunkFields DEF Makes
  <2>5. CASE ~m.text /\ m.finish # None
    <3>1. AnthropicChunks(m, n) = <<Chunk(0, "stop", Usage(counted))>>
      BY <2>5 DEF AnthropicChunks
    <3> QED BY <1>2, <1>3, <2>1, <2>2, <2>3, <2>5, <3>1, ChunkFields DEF Makes
  <2>6. CASE ~m.text /\ m.finish = None
    <3>1. AnthropicChunks(m, n) = <<>>
      BY <2>6 DEF AnthropicChunks
    <3> QED BY <1>2, <1>3, <2>1, <2>2, <2>6, <3>1 DEF Skips
  <2> QED BY <2>4, <2>5, <2>6
<1>4. CASE p = "gemini"
  <2> DEFINE finish == CASE m.call -> "tool_calls"
                         [] ~m.call /\ m.finish \in {None, "stop"} -> None
                         [] OTHER -> m.finish
  <2>1. Chunks(p, m, n) = IF m.text \/ finish # None THEN <<Chunk(t, finish, None)>> ELSE <<>>
    BY <1>4 DEF Chunks, GeminiChunks
  <2> HIDE DEF finish
  <2> QED BY <1>4, <2>1, ChunkFields DEF Makes, Skips, Closing
<1>5. CASE p = "ollama"
  <2>1. Ends(p, m) <=> m.finish = "stop"
    BY <1>5 DEF Ends
  <2>2. Chunks(p, m, n) = OllamaChunks(m, n)
    BY <1>5 DEF Chunks
  <2>3. /\ m.finish \in {None, "stop"} /\ m.prompt = m.comp
        /\ m.finish = None => m.prompt = 0
    BY <1>1, <1>5 DEF Reads, Closing
  <2>4. CASE m = Garbage
    <3>1. OllamaChunks(m, n) = <<>>
      BY <2>4 DEF OllamaChunks
    <3>2. ~m.text /\ m.finish = None /\ m.prompt = 0
      BY <2>4, LineFields
    <3> QED BY <1>2, <2>1, <2>2, <3>1, <3>2 DEF Skips
  <2>5. CASE m # Garbage
    <3> DEFINE u == IF m.finish = None THEN None ELSE Usage(m)
    <3>1. OllamaChunks(m, n) = <<Chunk(t, m.finish, u)>>
      BY <2>5 DEF OllamaChunks
    <3>2. u = Usage(m)
      BY <2>3, NoUsage
    <3> HIDE DEF u
    <3> QED BY <1>2, <1>5, <2>1, <2>2, <2>3, <3>1, <3>2, ChunkFields DEF Makes
  <2> QED BY <2>4, <2>5
<1>6. CASE p = "openai"
  <2>1. Chunks(p, m, n) = OpenAIChunks(m, n)
    BY <1>6 DEF Chunks
  <2>2. CASE m \in {Garbage, Done}
    <3>1. OpenAIChunks(m, n) = <<>>
      BY <2>2 DEF OpenAIChunks
    <3>2. ~m.text /\ m.prompt = 0
      BY <2>2, LineFields
    <3> QED BY <1>6, <2>1, <3>1, <3>2 DEF Skips, Closing
  <2>3. CASE m \notin {Garbage, Done}
    <3>1. OpenAIChunks(m, n) = <<Chunk(t, m.finish, Usage(m))>>
      BY <2>3 DEF OpenAIChunks
    <3> QED BY <1>6, <2>1, <3>1, ChunkFields DEF Makes, Closing
  <2> QED BY <2>2, <2>3
<1>7. CASE p = "mock"
  <2>1. Chunks(p, m, n)
           = IF m.text THEN <<Chunk(n, None, None)>> ELSE <<Chunk(0, "stop", None)>>
    BY <1>7 DEF Chunks, MockChunks
  <2>2. (Ends(p, m) <=> m.finish = "stop") /\ (m.text <=> m.finish = None)
        /\ m.finish \in {None, "stop"}
    BY <1>1, <1>7 DEF Ends, Reads, Closing
  <2> QED BY <1>2, <1>7, <2>1, <2>2, ChunkFields DEF Makes
<1> QED BY <1>3, <1>4, <1>5, <1>6, <1>7 DEF Protocols

(* What the client reads besides chunks.                                   *)
Notices == {Event("[DONE]"), Event("error")}

(* The client has read the first k chunks, all of them if it is still      *)
(* there, and behind them how the request ended.                           *)
Hears(k) ==
    /\ k \in 0 .. Len(passed)
    /\ \A i \in 1 .. k : client[i] = passed[i]
    /\ ~gone => k = Len(passed)
    /\ \/ Len(client) = k
       \/ /\ Len(client) = k + 1 /\ phase = "done"
          /\ \/ client[k + 1] = Event("[DONE]")
             \/ client[k + 1] = Event("error") /\ passed = <<>>

Flow ==
    /\ \A i \in DOMAIN lines : GoodLine(lines[i]) /\ Reads(from, lines[i])
    /\ InOrder(passed) /\ TextsIn(passed) = TextLines
    /\ client \in Seq(Chunkset \cup Notices) /\ \E k \in Nat : Hears(k)

(* The chunk that ends a stream is the last one.                           *)
EndsLast ==
    from \in Closing =>
       /\ \A i \in 1 .. Len(passed) - 1 : passed[i].finish = None
       /\ phase = "reading" => /\ \A i \in DOMAIN lines : lines[i].finish # "stop"
                               /\ \A i \in DOMAIN passed : passed[i].finish = None
       /\ Whole /\ lines # <<>> /\ lines[Len(lines)].finish = "stop" =>
             passed # <<>> /\ passed[Len(passed)].finish = "stop"

LEMMA LinesDomain ==
  ASSUME IInv
  PROVE  /\ DOMAIN lines = 1 .. Len(lines) /\ Len(lines) \in Nat
         /\ DOMAIN passed = 1 .. Len(passed) /\ Len(passed) \in Nat
         /\ \A i \in 1 .. Len(passed) : passed[i] \in Chunkset
         /\ passed \in Seq(Chunkset)
<1>1. passed \in Seq(Chunkset) /\ \E S : lines \in Seq(S)
  BY DEF IInv, Types
<1> QED BY <1>1, ElementOfSeq, LenProperties

LEMMA LinesAppend ==
  ASSUME IInv, NEW m, lines' = Append(lines, m)
  PROVE  /\ Len(lines') = Len(lines) + 1 /\ DOMAIN lines' = 1 .. Len(lines) + 1
         /\ lines' # <<>> /\ lines'[Len(lines')] = m
         /\ \A i \in 1 .. Len(lines) : lines'[i] = lines[i]
<1>1. PICK S : lines \in Seq(S)
  BY DEF IInv, Types
<1>2. lines \in Seq(S \cup {m})
  BY <1>1
<1> HIDE DEF IInv
<1> QED BY <1>2, SMT

LEMMA ChunksAppend ==
  ASSUME NEW S, NEW cs \in Seq(S), NEW c \in S, NEW ds, ds = cs \o <<c>>
  PROVE  /\ ds \in Seq(S) /\ ds # <<>> /\ Len(cs) \in Nat
         /\ Len(ds) = Len(cs) + 1 /\ ds[Len(ds)] = c
         /\ DOMAIN ds = 1 .. Len(cs) + 1 /\ DOMAIN cs = 1 .. Len(cs)
         /\ \A i \in 1 .. Len(cs) : ds[i] = cs[i]
BY SMT

LEMMA FlowInit == Init => Flow /\ EndsLast
<1> SUFFICES ASSUME Init PROVE Flow /\ EndsLast
  OBVIOUS
<1>1. /\ lines = <<>> /\ passed = <<>> /\ client = <<>> /\ from = None /\ phase = "idle"
  BY DEF Init
<1>2. None \notin Closing
  BY StreamsAssumption DEF Closing, Protocols
<1>3. TextsIn(passed) = TextLines /\ InOrder(passed)
  BY <1>1 DEF TextsIn, TextLines, InOrder
<1>4. Hears(0)
  BY <1>1 DEF Hears
<1>5. client \in Seq(Chunkset \cup Notices)
  BY <1>1
<1>6. \A i \in DOMAIN lines : GoodLine(lines[i]) /\ Reads(from, lines[i])
  BY <1>1
<1> HIDE DEF Init
<1> QED BY <1>1, <1>2, <1>3, <1>4, <1>5, <1>6 DEF Flow, EndsLast

(* Steps that pass nothing on.                                             *)
LEMMA HearsStays ==
  ASSUME NEW k, Hears(k), UNCHANGED <<client, passed>>, gone => gone',
         phase = "done" => phase' = "done"
  PROVE  Hears(k)'
BY DEF Hears

LEMMA HearsNotice ==
  ASSUME IInv, Flow, NEW x \in {"[DONE]", "error"}, phase' = "done", phase # "done",
         UNCHANGED <<passed, gone>>, ~gone, client' = Append(client, Event(x)),
         x = "error" => passed = <<>>
  PROVE  client' \in Seq(Chunkset \cup Notices) /\ \E k \in Nat : Hears(k)'
<1>1. PICK k \in Nat : Hears(k)
  BY DEF Flow
<1>2. client \in Seq(Chunkset \cup Notices) /\ Event(x) \in Chunkset \cup Notices
  BY DEF Flow, Notices
<1>3. /\ client' \in Seq(Chunkset \cup Notices) /\ Len(client') = Len(client) + 1
      /\ client'[Len(client) + 1] = Event(x)
      /\ \A i \in 1 .. Len(client) : client'[i] = client[i]
  BY <1>2, SMT
<1>4. Len(client) = k
  BY <1>1 DEF Hears
<1>5. Hears(k)'
  BY <1>1, <1>3, <1>4 DEF Hears
<1> QED BY <1>3, <1>5

LEMMA FlowSame ==
  ASSUME IInv, Flow, EndsLast, UNCHANGED <<lines, from, passed>>,
         client' \in Seq(Chunkset \cup Notices), \E k \in Nat : Hears(k)',
         phase' = "reading" => phase = "reading", Whole' => Whole \/ phase = "reading"
  PROVE  Flow' /\ EndsLast'
<1>1. Flow'
  BY DEF Flow, InOrder, TextsIn, TextLines
<1>2. lines # <<>> => Len(lines) \in DOMAIN lines
  <2>1. PICK S : lines \in Seq(S)
    BY DEF IInv, Types
  <2> QED BY <2>1, SMT
<1>3. EndsLast'
  BY <1>2 DEF EndsLast
<1> QED BY <1>1, <1>3

LEMMA FlowReceive ==
  ASSUME IInv, Flow, EndsLast, phase = "reading", NEW m \in Lines(from), Receive(m)
  PROVE  Flow' /\ EndsLast'
<1> DEFINE n == Len(lines) + 1
           chunks == Chunks(from, m, Len(lines'))
<1>1. /\ from \in Protocols /\ counted \in Pair
  BY DEF IInv, Types, Calling
<1>2. GoodLine(m) /\ Reads(from, m)
  BY <1>1, LinesGood, LineReads
<1>3. /\ Len(lines') = n /\ DOMAIN lines' = 1 .. n /\ lines'[n] = m /\ lines' # <<>>
      /\ \A i \in 1 .. Len(lines) : lines'[i] = lines[i]
  BY LinesAppend DEF Receive
<1>4. n \in Nat /\ DOMAIN lines = 1 .. Len(lines) /\ Len(lines) \in Nat
  BY LinesDomain
<1>5. UNCHANGED <<from, gone>>
  BY DEF Receive
<1>6. \A i \in DOMAIN lines' : GoodLine(lines'[i]) /\ Reads(from', lines'[i])
  BY <1>2, <1>3, <1>4, <1>5 DEF Flow
<1>7. TextLines' = TextLines \cup IF m.text THEN {n} ELSE {}
  BY <1>3, <1>4 DEF TextLines
<1>8. \/ chunks = <<>> /\ Skips(from, m)
      \/ \E c \in Chunkset : chunks = <<c>> /\ Makes(from, m, n, c)
  BY <1>1, <1>3, <1>4, ChunkFacts
<1>9. \/ chunks = <<>> /\ phase' = Then(from, m) /\ UNCHANGED <<passed, client>>
      \/ /\ chunks # <<>> /\ passed' = passed \o chunks
         /\ client' = IF gone THEN client ELSE client \o chunks
         /\ phase' \in {"reading", "ended", "broken"}
         /\ phase' = "reading" => ~Ends(from, m)
  BY DEF Receive, Then
<1>10. phase' # "settled" /\ phase' # "done"
  BY <1>8, <1>9 DEF Then
<1>11. from \in Closing => (Ends(from, m) <=> m.finish = "stop")
  BY DEF Closing, Ends
<1> HIDE DEF chunks, n
<1>12. CASE chunks = <<>>
  <2>1. Skips(from, m) /\ phase' = Then(from, m) /\ UNCHANGED <<passed, client>>
    BY <1>8, <1>9, <1>12
  <2>2. PICK k \in Nat : Hears(k)
    BY DEF Flow
  <2>3. Hears(k)'
    BY <1>5, <1>10, <2>1, <2>2, HearsStays
  <2>4. Flow'
    BY <1>6, <1>7, <2>1, <2>2, <2>3 DEF Flow, Skips, InOrder, TextsIn
  <2>5. EndsLast'
    BY <1>3, <1>4, <1>5, <1>11, <2>1 DEF EndsLast, Skips, Whole, Then, n
  <2> QED BY <2>4, <2>5
<1>13. CASE chunks # <<>>
  <2>1. PICK c \in Chunkset : chunks = <<c>> /\ Makes(from, m, n, c)
    BY <1>8, <1>13
  <2>2. passed \in Seq(Chunkset) /\ passed' = passed \o <<c>>
    BY <1>9, <1>13, <2>1, LinesDomain
  <2>3. /\ Len(passed) \in Nat /\ Len(passed') = Len(passed) + 1 /\ passed' # <<>>
        /\ passed'[Len(passed')] = c
        /\ DOMAIN passed' = 1 .. Len(passed) + 1 /\ DOMAIN passed = 1 .. Len(passed)
        /\ \A i \in 1 .. Len(passed) : passed'[i] = passed[i]
    BY <2>2, ChunksAppend
  <2>4. c.text = IF m.text THEN n ELSE 0
    BY <2>1 DEF Makes
  <2>5. \A i \in DOMAIN passed : passed[i].text \in 0 .. Len(lines)
    <3>1. \A i \in DOMAIN passed : passed[i].text \in TextLines \cup {0}
      BY DEF Flow, TextsIn
    <3> QED BY <1>4, <3>1 DEF TextLines
  <2>6. InOrder(passed')
    <3>1. SUFFICES ASSUME NEW i \in DOMAIN passed', NEW j \in DOMAIN passed', i < j,
                          passed'[j].text # 0
                   PROVE  passed'[i].text < passed'[j].text
      BY DEF InOrder
    <3>2. i \in DOMAIN passed /\ passed'[i] = passed[i]
      BY <2>3, <3>1
    <3>3. CASE j \in DOMAIN passed
      <4>1. passed'[j] = passed[j]
        BY <2>3, <3>3
      <4>2. InOrder(passed)
        BY DEF Flow
      <4> QED BY <3>1, <3>2, <3>3, <4>1, <4>2 DEF InOrder
    <3>4. CASE j \notin DOMAIN passed
      <4>1. passed'[j] = c /\ c.text # 0
        BY <2>3, <3>1, <3>4
      <4>2. c.text = n
        BY <2>4, <4>1
      <4> QED BY <1>4, <2>5, <3>2, <4>1, <4>2 DEF n
    <3> QED BY <3>3, <3>4
  <2>7. TextsIn(passed') = TextsIn(passed) \cup ({c.text} \ {0})
    BY <2>3 DEF TextsIn
  <2>8. TextsIn(passed') = TextLines'
    <3>1. n # 0 /\ TextsIn(passed) = TextLines
      BY <1>4 DEF Flow, n
    <3> QED BY <1>7, <2>4, <2>7, <3>1
  <2>9. client' \in Seq(Chunkset \cup Notices) /\ \E k \in Nat : Hears(k)'
    <3>1. client \in Seq(Chunkset \cup Notices)
      BY DEF Flow
    <3>2. PICK k \in Nat : Hears(k)
      BY DEF Flow
    <3>3. Len(client) = k
      BY <3>2 DEF Hears
    <3>4. CASE gone
      <4>1. client' = client
        BY <1>9, <1>13, <3>4
      <4>2. Hears(k)'
        BY <1>5, <2>3, <3>2, <3>3, <3>4, <4>1 DEF Hears
      <4> QED BY <3>1, <4>1, <4>2
    <3>5. CASE ~gone
      <4>1. client' = client \o <<c>> /\ c \in Chunkset \cup Notices
        BY <1>9, <1>13, <2>1, <3>5
      <4>2. /\ client' \in Seq(Chunkset \cup Notices) /\ Len(client') = k + 1
            /\ client'[k + 1] = c /\ \A i \in 1 .. k : client'[i] = client[i]
        BY <3>1, <3>3, <4>1, ChunksAppend
      <4>3. k = Len(passed) /\ \A i \in 1 .. k : client[i] = passed[i]
        BY <3>2, <3>5 DEF Hears
      <4>4. Hears(k + 1)'
        BY <1>5, <2>3, <4>2, <4>3 DEF Hears
      <4> QED BY <4>2, <4>4
    <3> QED BY <3>4, <3>5
  <2>10. Flow'
    BY <1>6, <2>6, <2>8, <2>9 DEF Flow
  <2>11. EndsLast'
    <3>1. SUFFICES ASSUME from \in Closing PROVE EndsLast'
      BY <1>5 DEF EndsLast
    <3>2. /\ \A i \in DOMAIN lines : lines[i].finish # "stop"
          /\ \A i \in DOMAIN passed : passed[i].finish = None
      BY <3>1 DEF EndsLast
    <3>3. c.finish = IF m.finish = "stop" THEN "stop" ELSE None
      BY <1>11, <2>1, <3>1 DEF Makes
    <3>4. \A i \in 1 .. Len(passed') - 1 : passed'[i].finish = None
      BY <2>3, <3>2
    <3>5. phase' = "reading" => m.finish # "stop"
      BY <1>9, <1>11, <1>13, <3>1
    <3>6. phase' = "reading" => /\ \A i \in DOMAIN lines' : lines'[i].finish # "stop"
                                /\ \A i \in DOMAIN passed' : passed'[i].finish = None
      BY <1>3, <1>4, <2>3, <3>2, <3>3, <3>5 DEF n
    <3>7. lines'[Len(lines')].finish = "stop" => passed'[Len(passed')].finish = "stop"
      BY <1>3, <2>3, <3>3
    <3> QED BY <2>3, <3>4, <3>6, <3>7 DEF EndsLast
  <2> QED BY <2>10, <2>11
<1> QED BY <1>12, <1>13

LEMMA FlowQuiet ==
  ASSUME IInv, Flow, EndsLast, UNCHANGED <<lines, from, passed, client>>, gone => gone',
         phase = "done" => phase' = "done",
         phase' = "reading" => phase = "reading", Whole' => Whole \/ phase = "reading"
  PROVE  Flow' /\ EndsLast'
<1>1. PICK k \in Nat : Hears(k)
  BY DEF Flow
<1>2. Hears(k)'
  BY <1>1, HearsStays
<1>3. client' \in Seq(Chunkset \cup Notices)
  BY DEF Flow
<1> QED BY <1>2, <1>3, FlowSame

(* The request ends, and the client may hear of it.                        *)
LEMMA FlowDone ==
  ASSUME IInv, Flow, EndsLast, UNCHANGED <<lines, from, passed, gone>>, phase' = "done",
         phase # "done", NEW x \in {"[DONE]", "error"}, x = "error" => passed = <<>>,
         client' = client \/ (~gone /\ client' = Append(client, Event(x)))
  PROVE  Flow' /\ EndsLast'
<1>1. CASE client' = client
  BY <1>1, FlowQuiet DEF Whole
<1>2. CASE ~gone /\ client' = Append(client, Event(x))
  <2>1. client' \in Seq(Chunkset \cup Notices) /\ \E k \in Nat : Hears(k)'
    BY <1>2, HearsNotice
  <2> QED BY <2>1, FlowSame DEF Whole
<1> QED BY <1>1, <1>2

LEMMA FlowStep ==
  ASSUME IInv, Flow, EndsLast, [Next]_vars
  PROVE  Flow' /\ EndsLast'
<1>1. ASSUME NEW m \in Models, NEW text \in BOOLEAN, Accept(m, text) PROVE Flow' /\ EndsLast'
  BY <1>1, FlowQuiet DEF Accept, Whole
<1>2. CASE FindNext
  <2>1. phase = "next" /\ passed = <<>> /\ UNCHANGED <<passed, gone>>
    BY <1>2 DEF FindNext, IInv
  <2>2. CASE phase' = "done" /\ client' = Refused /\ UNCHANGED <<from, lines>>
    BY <2>1, <2>2, FlowDone DEF Refused
  <2>3. CASE UNCHANGED <<phase, from, lines, client>>
    BY <2>1, <2>3, FlowQuiet DEF Whole
  <2>4. CASE phase' = "reading" /\ lines' = <<>> /\ UNCHANGED client
    <3>1. PICK k \in Nat : Hears(k)
      BY DEF Flow
    <3>2. Hears(k)'
      BY <2>1, <2>4, <3>1, HearsStays
    <3>3. InOrder(passed') /\ TextsIn(passed') = {} /\ TextLines' = {}
      BY <2>1, <2>4 DEF InOrder, TextsIn, TextLines
    <3>4. client' \in Seq(Chunkset \cup Notices) /\ DOMAIN lines' = {}
      BY <2>4 DEF Flow
    <3>5. Flow'
      BY <3>2, <3>3, <3>4 DEF Flow
    <3>6. EndsLast'
      BY <2>1, <2>4 DEF EndsLast, Whole
    <3> QED BY <3>5, <3>6
  <2> QED BY <1>2, <2>2, <2>3, <2>4 DEF FindNext
<1>3. ASSUME phase = "reading", NEW m \in Lines(from), Receive(m) PROVE Flow' /\ EndsLast'
  BY <1>3, FlowReceive
<1>4. CASE EndOfBody
  BY <1>4, FlowQuiet DEF EndOfBody, Whole
<1>5. ASSUME NEW error \in {"retriable", "fatal"}, NEW api \in BOOLEAN, Fail(error, api)
      PROVE  Flow' /\ EndsLast'
  <2>1. phase = "reading" /\ UNCHANGED <<lines, from, passed, gone>> /\ (api => lines = <<>>)
    BY <1>5 DEF Fail
  <2>2. CASE phase' \in {"broken", "next"} /\ UNCHANGED client
    BY <2>1, <2>2, FlowQuiet DEF Whole
  <2>3. CASE phase' = "done" /\ ~Broken /\ client' = IF api THEN Refused ELSE client
    BY <2>1, <2>3, FlowDone DEF Refused, Broken
  <2> QED BY <1>5, <2>2, <2>3 DEF Fail
<1>6. CASE Settle
  <2>1. Whole \/ (phase = "broken" /\ phase' = "charging")
    BY <1>6 DEF Settle, Settles, Whole
  <2>2. phase # "done" /\ phase' # "reading" /\ UNCHANGED <<lines, from, passed, client, gone>>
    BY <1>6 DEF Settle, Settles
  <2> QED BY <2>1, <2>2, FlowQuiet DEF Whole
<1>7. CASE Charge
  <2>1. /\ phase # "done" /\ phase' = "done" /\ UNCHANGED <<lines, from, passed, gone>>
        /\ client' = client \/ (~gone /\ client' = Append(client, Event("[DONE]")))
    BY <1>7 DEF Charge, Farewell
  <2>2. "[DONE]" \in {"[DONE]", "error"} /\ "[DONE]" # "error"
    OBVIOUS
  <2> QED BY <2>1, <2>2, FlowDone
<1>8. CASE Reply
  <2>1. /\ phase' = "idle" /\ lines' = <<>> /\ passed' = <<>> /\ client' = <<>> /\ from' = None
    BY <1>8 DEF Reply
  <2>2. InOrder(passed') /\ TextsIn(passed') = {} /\ TextLines' = {}
    BY <2>1 DEF InOrder, TextsIn, TextLines
  <2>3. Hears(0)' /\ client' \in Seq(Chunkset \cup Notices) /\ DOMAIN lines' = {}
    BY <2>1 DEF Hears
  <2>4. Flow'
    BY <2>2, <2>3 DEF Flow
  <2>5. EndsLast'
    BY <2>1, StreamsAssumption DEF EndsLast, Closing, Protocols
  <2> QED BY <2>4, <2>5
<1>9. CASE Leave
  BY <1>9, FlowQuiet DEF Leave, Whole
<1>10. ASSUME NEW log \in Chats, Chat(log) PROVE Flow' /\ EndsLast'
  BY <1>10, FlowQuiet DEF Chat, request, Whole
<1>11. CASE UNCHANGED vars
  BY <1>11, FlowQuiet DEF vars, request, Whole
<1> QED BY <1>1, <1>2, <1>3, <1>4, <1>5, <1>6, <1>7, <1>8, <1>9, <1>10, <1>11 DEF Next

LEMMA FlowHolds == Spec => [](IInv /\ Flow /\ EndsLast)
BY InitIInv, NextIInv, FlowInit, FlowStep, PTL DEF Spec

LEMMA Positions ==
  ASSUME NEW k \in Nat, NEW n \in Nat, NEW l \in Nat, k <= n, l = k \/ l = k + 1
  PROVE  /\ \A i \in 1 .. k : i \in 1 .. l /\ i \in 1 .. n
         /\ \A i \in 1 .. l : i \in 1 .. k \/ (i = k + 1 /\ l = k + 1)
OBVIOUS

LEMMA ClientFacts ==
  ASSUME IInv, Flow, NEW k \in Nat, Hears(k)
  PROVE  /\ k <= Len(passed) /\ Len(passed) \in Nat
         /\ \A i \in 1 .. Len(passed) : passed[i] \in Chunkset
         /\ \A i \in 1 .. k : client[i] = passed[i]
         /\ \A i \in 1 .. k : i \in DOMAIN client /\ i \in DOMAIN passed
         /\ \A i \in DOMAIN client : i \in 1 .. k \/ (i = k + 1 /\ Len(client) = k + 1)
         /\ ~gone => k = Len(passed)
         /\ Len(client) = k + 1 =>
               /\ phase = "done" /\ client[k + 1].text = 0
               /\ \/ client[k + 1].finish = "[DONE]"
                  \/ client[k + 1].finish = "error" /\ passed = <<>> /\ k = 0
<1>1. Event("[DONE]").text = 0 /\ Event("[DONE]").finish = "[DONE]"
  BY DEF Event, Chunk
<1>2. Event("error").text = 0 /\ Event("error").finish = "error"
  BY DEF Event, Chunk
<1>3. passed = <<>> => Len(passed) = 0
  OBVIOUS
<1>4. /\ Len(passed) \in Nat /\ \A i \in 1 .. Len(passed) : passed[i] \in Chunkset
  BY LinesDomain
<1>5. /\ k \in 0 .. Len(passed) /\ \A i \in 1 .. k : client[i] = passed[i]
      /\ ~gone => k = Len(passed)
      /\ \/ Len(client) = k
         \/ /\ Len(client) = k + 1 /\ phase = "done"
            /\ \/ client[k + 1] = Event("[DONE]")
               \/ client[k + 1] = Event("error") /\ passed = <<>>
  BY DEF Hears
<1>6. k <= Len(passed) /\ (passed = <<>> => k = 0) /\ k # k + 1
  BY <1>3, <1>4, <1>5
<1>7. DOMAIN client = 1 .. Len(client) /\ Len(client) \in Nat
  <2>1. client \in Seq(Chunkset \cup Notices)
    BY DEF Flow
  <2> QED BY <2>1, LenProperties
<1>8. DOMAIN passed = 1 .. Len(passed)
  BY LinesDomain
<1>9. Len(client) = k \/ Len(client) = k + 1
  BY <1>5
<1>10. /\ \A i \in 1 .. k : i \in 1 .. Len(client) /\ i \in 1 .. Len(passed)
       /\ \A i \in 1 .. Len(client) : i \in 1 .. k \/ (i = k + 1 /\ Len(client) = k + 1)
  BY <1>4, <1>6, <1>7, <1>9, Positions
<1>11. /\ \A i \in 1 .. k : i \in DOMAIN client /\ i \in DOMAIN passed
       /\ \A i \in DOMAIN client : i \in 1 .. k \/ (i = k + 1 /\ Len(client) = k + 1)
  BY <1>7, <1>8, <1>10
<1>12. Len(client) = k + 1 =>
         /\ phase = "done" /\ client[k + 1].text = 0
         /\ \/ client[k + 1].finish = "[DONE]"
            \/ client[k + 1].finish = "error" /\ passed = <<>> /\ k = 0
  BY <1>1, <1>2, <1>5, <1>6
<1> QED BY <1>4, <1>5, <1>6, <1>11, <1>12

(* What the client reads of one upstream stream is in order and without a  *)
(* gap, through all providers, the callback and the fallback chain.        *)
THEOREM TextsArrive == Spec => []TextsInOrder
<1>1. IInv /\ Flow => TextsInOrder
  <2> SUFFICES ASSUME IInv, Flow PROVE TextsInOrder
    OBVIOUS
  <2>1. InOrder(passed) /\ TextsIn(passed) = TextLines
    BY DEF Flow
  <2>2. PICK k \in Nat : Hears(k)
    BY DEF Flow
  <2>3. /\ k <= Len(passed) /\ Len(passed) \in Nat
        /\ \A i \in 1 .. k : client[i] = passed[i]
        /\ \A i \in 1 .. k : i \in DOMAIN client /\ i \in DOMAIN passed
        /\ \A i \in DOMAIN client : i \in 1 .. k \/ (i = k + 1 /\ Len(client) = k + 1)
        /\ ~gone => k = Len(passed)
        /\ Len(client) = k + 1 => client[k + 1].text = 0
    BY <2>2, ClientFacts
  <2>4. DOMAIN passed = 1 .. Len(passed) /\ \A i \in 1 .. Len(passed) : passed[i].text \in Nat
    BY LinesDomain DEF Chunkset
  <2>5. ASSUME NEW i \in DOMAIN client, client[i].text # 0
        PROVE  i \in 1 .. k /\ client[i] = passed[i] /\ i \in DOMAIN passed
    BY <2>3, <2>5
  <2>6. InOrder(client)
    <3>1. SUFFICES ASSUME NEW i \in DOMAIN client, NEW j \in DOMAIN client, i < j,
                          client[j].text # 0
                   PROVE  client[i].text < client[j].text
      BY DEF InOrder
    <3>2. /\ j \in 1 .. k /\ client[j] = passed[j] /\ j \in DOMAIN passed
      BY <2>5, <3>1
    <3>3. i \in 1 .. k /\ client[i] = passed[i] /\ i \in DOMAIN passed
      <4>1. i \in 1 .. k \/ i = k + 1
        BY <2>3
      <4>2. i \in 1 .. k
        BY <2>2, <3>1, <3>2, <4>1
      <4> QED BY <2>3, <4>2
    <3> QED BY <2>1, <3>1, <3>2, <3>3 DEF InOrder
  <2>7. TextsIn(client) \subseteq TextsIn(passed)
    BY <2>5 DEF TextsIn
  <2>8. ASSUME NEW u \in TextsIn(client), NEW t \in TextsIn(passed), t < u
        PROVE  t \in TextsIn(client)
    <3>1. PICK j \in DOMAIN client : u = client[j].text /\ u # 0
      BY DEF TextsIn
    <3>2. PICK i \in DOMAIN passed : t = passed[i].text /\ t # 0
      BY DEF TextsIn
    <3>3. j \in 1 .. k /\ client[j] = passed[j] /\ j \in DOMAIN passed
      BY <2>5, <3>1
    <3>4. ~(j < i)
      <4>1. j < i => passed[j].text < passed[i].text
        BY <2>1, <3>2, <3>3 DEF InOrder
      <4>2. u \in Nat /\ t \in Nat
        BY <2>4, <3>1, <3>2, <3>3
      <4> QED BY <2>8, <3>1, <3>2, <3>3, <4>1, <4>2
    <3>5. i \in 1 .. k /\ i \in DOMAIN client
      <4>1. i \in 1 .. Len(passed)
        BY <2>4, <3>2
      <4>2. i \in 1 .. k
        BY <2>2, <3>3, <3>4, <4>1
      <4> QED BY <2>3, <4>2
    <3> QED BY <2>3, <3>2, <3>5 DEF TextsIn
  <2>9. ASSUME ~gone PROVE TextsIn(passed) \subseteq TextsIn(client)
    <3>1. \A i \in DOMAIN passed : i \in 1 .. k
      BY <2>3, <2>4, <2>9
    <3>2. \A i \in DOMAIN passed : i \in DOMAIN client /\ client[i] = passed[i]
      BY <2>3, <3>1
    <3> QED BY <3>2 DEF TextsIn
  <2> QED BY <2>1, <2>6, <2>7, <2>8, <2>9 DEF TextsInOrder
<1> QED BY <1>1, FlowHolds, PTL

(* What the client is told.                                                *)
HeardEnd(c) == c # <<>> /\ c[Len(c)].finish = "[DONE]"
EndReached  == lines # <<>> /\ Ends(from, lines[Len(lines)])
AllWell     == Answered /\ bill = Target

(* The phases from which no stream is closed as a whole one.               *)
Open == {"idle", "next", "reading", "broken", "charging"}

Told ==
    /\ phase \in Open /\ ~gone => ~EndReached
    /\ phase = "done" => /\ HeardEnd(client) => AllWell
                         /\ ~gone /\ AllWell => HeardEnd(client)
                         /\ ~gone /\ EndReached => HeardEnd(client)

(* Until it is done the client has read chunks only.                       *)
LEMMA NotYetTold ==
  ASSUME IInv, Flow, phase # "done"
  PROVE  ~HeardEnd(client)
<1>1. PICK k \in Nat : Hears(k)
  BY DEF Flow
<1>2. /\ \A i \in 1 .. Len(passed) : passed[i] \in Chunkset
      /\ k \in 0 .. Len(passed) /\ Len(client) = k
      /\ \A i \in 1 .. k : client[i] = passed[i]
  BY <1>1, ClientFacts DEF Hears
<1>3. client # <<>> => Len(client) \in 1 .. k
  <2>1. client \in Seq(Chunkset \cup Notices)
    BY DEF Flow
  <2>2. client # <<>> => Len(client) \in Nat /\ Len(client) > 0
    BY <2>1, EmptySeq, LenProperties
  <2> QED BY <1>2, <2>2
<1>4. client # <<>> => client[Len(client)].finish \in Finishes
  BY <1>2, <1>3 DEF Chunkset
<1>5. "[DONE]" \notin Finishes
  BY StreamsAssumption DEF Finishes
<1> QED BY <1>4, <1>5 DEF HeardEnd

(* A request ends, but not well.                                           *)
LEMMA ToldFailed ==
  ASSUME IInv, Flow, Told, phase \in Open, phase' = "done", UNCHANGED <<lines, from, gone>>,
         ~Answered', client' = client \/ client' = Append(client, Event("error"))
  PROVE  Told'
<1>1. ~HeardEnd(client)
  BY NotYetTold DEF Open
<1>2. ~HeardEnd(client')
  <2>1. CASE client' = client
    BY <1>1, <2>1
  <2>2. CASE client' = Append(client, Event("error"))
    <3>1. client \in Seq(Chunkset \cup Notices) /\ Event("error") \in Chunkset \cup Notices
      BY DEF Flow, Notices
    <3>2. client'[Len(client')] = Event("error")
      BY <2>2, <3>1, SMT
    <3>3. Event("error").finish = "error"
      BY DEF Event, Chunk
    <3> QED BY <3>2, <3>3 DEF HeardEnd
  <2> QED BY <2>1, <2>2
<1>3. ~gone => ~EndReached'
  BY DEF Told, EndReached
<1> QED BY <1>2, <1>3 DEF Told, AllWell, Open

(* Nothing is said or sent.                                                *)
LEMMA ToldSame ==
  ASSUME Told, UNCHANGED <<lines, from>>, gone => gone', phase' # "done",
         phase' \in Open => phase \in Open
  PROVE  Told'
BY DEF Told, EndReached

LEMMA ToldStep ==
  ASSUME IInv, Flow, Told, [Next]_vars
  PROVE  Told'
<1>1. ASSUME NEW m \in Models, NEW text \in BOOLEAN, Accept(m, text) PROVE Told'
  BY <1>1, ToldSame DEF Accept, Open
<1>2. CASE FindNext
  <2>1. phase = "next" /\ UNCHANGED <<asked, gone>>
    BY <1>2 DEF FindNext
  <2>2. CASE /\ at > Len(Candidates) /\ phase' = "done" /\ client' = Refused
             /\ UNCHANGED <<at, from, lines>>
    <3>1. ~Answered'
      <4>1. asked \in Models /\ at \in Nat
        BY <2>1 DEF IInv, Types
      <4>2. Len(Candidates) \in Nat /\ Candidates' = Candidates
        BY <2>1, <4>1, CandidatesType DEF Candidates
      <4> QED BY <2>2, <4>1, <4>2 DEF Answered
    <3> QED BY <2>1, <2>2, <3>1, ToldFailed DEF Refused, Open
  <2>3. CASE UNCHANGED <<phase, from, lines>>
    BY <2>1, <2>3, ToldSame
  <2>4. CASE phase' = "reading" /\ lines' = <<>>
    BY <2>4 DEF Told, EndReached
  <2> QED BY <1>2, <2>2, <2>3, <2>4 DEF FindNext
<1>3. ASSUME phase = "reading", NEW m \in Lines(from), Receive(m) PROVE Told'
  <2>1. lines' = Append(lines, m) /\ UNCHANGED <<from, gone>>
    BY <1>3 DEF Receive
  <2>2. lines'[Len(lines')] = m
    BY <2>1, LinesAppend
  <2>3. phase' \in {"reading", "ended", "broken"} /\ (~gone => phase' = Then(from, m))
    BY <1>3 DEF Receive, Then
  <2>4. ~gone /\ phase' \in Open => ~Ends(from, m)
    BY <2>3 DEF Then, Open
  <2> QED BY <2>1, <2>2, <2>3, <2>4 DEF Told, EndReached
<1>4. CASE EndOfBody
  BY <1>4, ToldSame DEF EndOfBody, Open
<1>5. ASSUME NEW error \in {"retriable", "fatal"}, NEW api \in BOOLEAN, Fail(error, api)
      PROVE  Told'
  <2>1. phase = "reading" /\ UNCHANGED <<lines, from, gone>>
    BY <1>5 DEF Fail
  <2>2. CASE phase' \in {"broken", "next"}
    BY <2>1, <2>2, ToldSame DEF Open
  <2>3. CASE /\ phase' = "done" /\ failures' = Append(failures, error) /\ at' = at
             /\ client' = IF api THEN Refused ELSE client
    <3>1. failures \in Seq(Errs) /\ error \in Errs /\ at \in Nat /\ Len(failures) = at - 1
      BY <2>1 DEF IInv, Types, Errs
    <3>2. Len(failures') = at'
      BY <2>3, <3>1, SMT
    <3>3. ~Answered'
      BY <2>3, <3>1, <3>2 DEF Answered
    <3> QED BY <2>1, <2>3, <3>3, ToldFailed DEF Refused, Open
  <2> QED BY <1>5, <2>2, <2>3 DEF Fail
<1>6. CASE Settle
  <2>1. \/ phase = "ended" /\ phase' = "settled"
        \/ phase = "broken" /\ phase' = "charging"
    BY <1>6 DEF Settle, Settles
  <2>2. UNCHANGED <<lines, from, gone>>
    BY <1>6 DEF Settle
  <2> QED BY <2>1, <2>2, ToldSame DEF Open
<1>7. CASE Charge
  <2>1. /\ phase' = "done" /\ client' = Farewell
        /\ UNCHANGED <<lines, from, gone, at, asked, bill>>
        /\ failures' = IF phase = "settled" THEN failures ELSE Append(failures, "fatal")
    BY <1>7 DEF Charge
  <2>2. /\ failures \in Seq(Errs) /\ "fatal" \in Errs /\ at \in Nat /\ Len(failures) = at - 1
        /\ phase \in {"settled", "charging", "broken"} /\ at <= Len(Candidates)
    BY <1>7 DEF Charge, IInv, Types, Errs, Calling
  <2>3. CASE phase = "settled"
    <3>1. AllWell'
      <4>1. Len(failures') < at' /\ at' <= Len(Candidates)'
        BY <2>1, <2>2, <2>3 DEF Candidates
      <4>2. bill = Target /\ bill' = bill /\ Target' = Target
        BY <2>1, <2>3 DEF IInv, Target, Candidates
      <4> QED BY <2>1, <4>1, <4>2 DEF AllWell, Answered
    <3>2. ~gone => HeardEnd(client')
      <4>1. client \in Seq(Chunkset \cup Notices) /\ Event("[DONE]") \in Chunkset \cup Notices
        BY DEF Flow, Notices
      <4>2. SUFFICES ASSUME client' = Append(client, Event("[DONE]")) PROVE HeardEnd(client')
        BY <2>1, <2>3 DEF Farewell
      <4>3. client'[Len(client')] = Event("[DONE]") /\ client' # <<>>
        BY <4>1, <4>2, SMT
      <4>4. Event("[DONE]").finish = "[DONE]"
        BY DEF Event, Chunk
      <4> QED BY <4>3, <4>4 DEF HeardEnd
    <3> QED BY <2>1, <3>1, <3>2 DEF Told, Open
  <2>4. CASE phase # "settled"
    <3>1. Len(failures') = at'
      BY <2>1, <2>2, <2>4, SMT
    <3>2. ~Answered'
      BY <2>1, <2>2, <3>1 DEF Answered
    <3>3. client' = client /\ phase \in Open
      BY <2>1, <2>2, <2>4 DEF Farewell, Open
    <3> QED BY <2>1, <3>2, <3>3, ToldFailed
  <2> QED BY <2>3, <2>4
<1>8. CASE Reply
  BY <1>8 DEF Reply, Told, EndReached
<1>9. CASE Leave
  <2>1. phase # "done" /\ gone' = TRUE /\ UNCHANGED <<phase, lines, from>>
    BY <1>9 DEF Leave
  <2> QED BY <2>1, ToldSame
<1>10. CASE UNCHANGED vars \/ \E log \in Chats : Chat(log)
  <2>1. UNCHANGED request
    BY <1>10 DEF vars, Chat
  <2> QED BY <2>1 DEF request, Told, HeardEnd, EndReached, AllWell, Answered, Target, Candidates
<1> QED BY <1>1, <1>2, <1>3, <1>4, <1>5, <1>6, <1>7, <1>8, <1>9, <1>10 DEF Next

LEMMA ToldHolds == Spec => [](IInv /\ Flow /\ EndsLast /\ Told)
<1>1. Init => Told
  BY DEF Init, Told, EndReached
<1> QED BY <1>1, InitIInv, NextIInv, FlowInit, FlowStep, ToldStep, PTL DEF Spec

(* A client that stays is told that a stream is whole if and only if it    *)
(* was recorded and charged as one, which a stream that ends as its        *)
(* protocol says is; it reads no error behind a chunk and nothing behind   *)
(* [DONE], and sees the finish of every stream that ended with one, as the *)
(* last chunk.                                                             *)
THEOREM ClientIsTold == Spec => []Closed
<1>1. IInv /\ Flow /\ EndsLast /\ Told => Closed
  <2> SUFFICES ASSUME IInv, Flow, EndsLast, Told PROVE Closed
    OBVIOUS
  <2>1. PICK k \in Nat : Hears(k)
    BY DEF Flow
  <2>2. /\ k <= Len(passed) /\ Len(passed) \in Nat
        /\ \A i \in 1 .. Len(passed) : passed[i] \in Chunkset
        /\ \A i \in 1 .. k : client[i] = passed[i]
        /\ \A i \in 1 .. k : i \in DOMAIN client /\ i \in DOMAIN passed
        /\ \A i \in DOMAIN client : i \in 1 .. k \/ (i = k + 1 /\ Len(client) = k + 1)
        /\ Len(client) = k + 1 =>
              /\ phase = "done"
              /\ \/ client[k + 1].finish = "[DONE]"
                 \/ client[k + 1].finish = "error" /\ k = 0
    BY <2>1, ClientFacts
  <2>4. \A i \in 1 .. k : client[i].finish \in Finishes
    BY <2>2 DEF Chunkset
  <2>5. "[DONE]" \notin Finishes /\ "error" \notin Finishes
    BY StreamsAssumption DEF Finishes
  <2>6. \A i \in DOMAIN client :
          /\ client[i].finish = "[DONE]" => phase = "done" /\ i = Len(client)
          /\ client[i].finish = "error" => phase = "done" /\ i = 1 /\ Len(client) = 1
    <3> TAKE i \in DOMAIN client
    <3>1. i \in 1 .. k \/ (i = k + 1 /\ Len(client) = k + 1)
      BY <2>2
    <3>2. CASE i \in 1 .. k
      BY <2>4, <2>5, <3>2
    <3>3. CASE i = k + 1 /\ Len(client) = k + 1
      BY <2>2, <3>3
    <3> QED BY <3>1, <3>2, <3>3
  <2>7. /\ Last(lines) = lines[Len(lines)] /\ Last(passed) = passed[Len(passed)]
        /\ Last(client) = client[Len(client)]
    BY DEF Last
  <2>8. phase = "done" =>
          LET told  == client # <<>> /\ Last(client).finish = "[DONE]"
              whole == Answered /\ bill = Target
          IN  /\ told => whole
              /\ ~gone => (told <=> whole)
              /\ ~gone /\ lines # <<>> /\ Ends(from, Last(lines)) => told
    BY <2>7, Zenon DEF Told, HeardEnd, EndReached, AllWell
  <2>9. from \in {"anthropic", "ollama", "mock"} =>
          /\ \A i \in 1 .. Len(passed) - 1 : passed[i].finish = None
          /\ Whole /\ lines # <<>> /\ Last(lines).finish = "stop" =>
                passed # <<>> /\ Last(passed).finish = "stop"
    BY <2>7 DEF EndsLast, Closing
  <2> QED BY <2>6, <2>8, <2>9, Zenon DEF Closed
<1> QED BY <1>1, ToldHolds, PTL

-----------------------------------------------------------------------------
(* What is recorded.                                                       *)

LEMMA CostsNat ==
  ASSUME NEW m \in PricedModels, NEW p \in Nat, NEW c \in Nat
  PROVE  Costs(m, p, c) \subseteq Nat
<1>1. Prices[m] \in SUBSET [input : Nat, output : Nat]
  BY PricesAssumption
<1>2. ASSUME NEW q \in Prices[m] PROVE p * q.input + c * q.output \in Nat
  <2>1. q.input \in Nat /\ q.output \in Nat
    BY <1>1
  <2>2. \A a, b \in Nat : a * b \in Nat
    OBVIOUS
  <2>3. p * q.input \in Nat /\ c * q.output \in Nat
    BY <2>1, <2>2
  <2> QED BY <2>3
<1> QED BY <1>2 DEF Costs

LEMMA BillFields ==
  ASSUME NEW x
  PROVE  LET log == Bill(x) IN
         /\ log.model = Target /\ log.success = TRUE /\ log.cache = "none"
         /\ log.prompt = tokens.prompt /\ log.comp = tokens.comp
         /\ log.saved = 0 /\ log.incurred = x
BY DEF Bill

LEMMA TargetPriced ==
  ASSUME IInv, phase \in Calling
  PROVE  Target \in PricedModels /\ tokens.prompt \in Nat /\ tokens.comp \in Nat
<1>1. asked \in Models /\ at \in Nat /\ at >= 1 /\ at <= Len(Candidates) /\ tokens \in Pair
  BY DEF IInv, Types, Calling
<1>2. Len(Candidates) \in Nat /\ \A i \in 1 .. Len(Candidates) : Candidates[i] \in Models
  BY <1>1, CandidatesType
<1>3. at \in 1 .. Len(Candidates)
  BY <1>1, <1>2
<1> QED BY <1>1, <1>2, <1>3, StreamsAssumption DEF Target, Pair

LEMMA BillGood ==
  ASSUME IInv, phase \in Calling, NEW x \in Nat
  PROVE  Bill(x) \in Log
<1>1. Target \in PricedModels /\ tokens.prompt \in Nat /\ tokens.comp \in Nat
  BY TargetPriced
<1> QED BY <1>1 DEF Bill, Log, Caches

Hit(m, cache) == [model |-> m, success |-> TRUE, cache |-> cache, prompt |-> Count,
                  comp |-> Count, saved |-> Count, incurred |-> 0]
Miss(m) == [model |-> m, success |-> FALSE, cache |-> "none", prompt |-> 0, comp |-> 0,
            saved |-> 0, incurred |-> 0]

(* What the chats between the streams are recorded as.                     *)
LEMMA ChatsGood ==
  ASSUME NEW log \in Chats
  PROVE  /\ log \in Log /\ log.incurred = 0
         /\ ~log.success => log.cache = "none" /\ log.prompt = 0 /\ log.comp = 0
         /\ log.success => log.cache # "none"
<1>1. Count \in Nat /\ Models \subseteq PricedModels
  BY StreamsAssumption
<1>2. ASSUME NEW m \in Models, NEW cache \in {"exact", "semantic"}, log = Hit(m, cache)
      PROVE  log \in Log /\ log.incurred = 0 /\ log.success = TRUE /\ log.cache # "none"
  BY <1>1, <1>2 DEF Log, Caches, Hit
<1>3. ASSUME NEW m \in Models, log = Miss(m)
      PROVE  /\ log \in Log /\ log.incurred = 0 /\ log.success = FALSE
             /\ log.cache = "none" /\ log.prompt = 0 /\ log.comp = 0
  BY <1>1, <1>3 DEF Log, Caches, Miss
<1>4. Chats = {Hit(m, cache) : m \in Models, cache \in {"exact", "semantic"}}
                 \cup {Miss(m) : m \in Models}
  BY DEF Chats, Hit, Miss
<1>5. \/ \E m \in Models, cache \in {"exact", "semantic"} : log = Hit(m, cache)
      \/ \E m \in Models : log = Miss(m)
  BY <1>4
<1> QED BY <1>2, <1>3, <1>5

(* The last record is that of the request which is settled.                *)
Filed ==
    /\ logs \in Seq(Log)
    /\ phase \in {"settled", "charging"} =>
          /\ logs # <<>>
          /\ logs[Len(logs)].prompt = tokens.prompt /\ logs[Len(logs)].comp = tokens.comp

LEMMA LogsAppend ==
  ASSUME logs \in Seq(Log), NEW log \in Log, logs' = Append(logs, log)
  PROVE  /\ logs' \in Seq(Log) /\ logs' # <<>> /\ Len(logs) \in Nat
         /\ Len(logs') = Len(logs) + 1 /\ logs'[Len(logs')] = log
         /\ \A i \in 1 .. Len(logs) : logs'[i] = logs[i]
BY SMT

LEMMA Settled ==
  ASSUME IInv, Settle
  PROVE  \E x \in Nat, y \in Nat :
            /\ x \in Costs(Target, tokens.prompt, tokens.comp)
            /\ y \in Costs(Target, tokens.prompt, tokens.comp)
            /\ Bill(x) \in Log /\ logs' = Append(logs, Bill(x))
            /\ collector' = Recorded(collector, Bill(x), y)
<1>1. phase \in Calling
  BY DEF Settle, Settles, Calling
<1>2. Costs(Target, tokens.prompt, tokens.comp) \subseteq Nat
  BY <1>1, TargetPriced, CostsNat
<1>3. PICK x \in Costs(Target, tokens.prompt, tokens.comp) : RecordRequest(Bill(x))
  BY DEF Settle
<1>4. PICK y \in Costs(Bill(x).model, Bill(x).prompt, Bill(x).comp) :
        collector' = Recorded(collector, Bill(x), y)
  BY <1>3 DEF RecordRequest
<1>5. y \in Costs(Target, tokens.prompt, tokens.comp)
  BY <1>4, BillFields
<1>6. Bill(x) \in Log
  BY <1>1, <1>2, BillGood
<1> QED BY <1>2, <1>3, <1>4, <1>5, <1>6 DEF RecordRequest

LEMMA FiledStep ==
  ASSUME IInv, Filed, [Next]_vars
  PROVE  Filed'
<1>1. CASE Settle
  <2>1. PICK x \in Nat : Bill(x) \in Log /\ logs' = Append(logs, Bill(x))
    BY <1>1, Settled
  <2>2. UNCHANGED tokens
    BY <1>1 DEF Settle
  <2>3. logs' \in Seq(Log) /\ logs' # <<>> /\ logs'[Len(logs')] = Bill(x)
    BY <2>1, LogsAppend DEF Filed
  <2>4. Bill(x).prompt = tokens.prompt /\ Bill(x).comp = tokens.comp
    BY BillFields
  <2> QED BY <2>2, <2>3, <2>4 DEF Filed
<1>2. ASSUME NEW log \in Chats, Chat(log) PROVE Filed'
  <2>1. logs' = Append(logs, log) /\ phase' = "idle"
    BY <1>2 DEF Chat, RecordRequest, request
  <2>2. logs' \in Seq(Log)
    BY <2>1, ChatsGood, LogsAppend DEF Filed
  <2> QED BY <2>1, <2>2 DEF Filed
<1>3. CASE Charge \/ Reply \/ FindNext \/ EndOfBody
  <2>1. phase' \notin {"settled", "charging"} /\ UNCHANGED logs
    BY <1>3, Zenon DEF Charge, Reply, FindNext, EndOfBody
  <2> QED BY <2>1 DEF Filed
<1>4. CASE Leave \/ UNCHANGED vars
  BY <1>4 DEF Leave, vars, request, Filed
<1>5. ASSUME NEW m \in Models, NEW text \in BOOLEAN, Accept(m, text) PROVE Filed'
  BY <1>5 DEF Accept, Filed
<1>6. ASSUME NEW m, Receive(m) PROVE Filed'
  BY <1>6 DEF Receive, Then, Filed
<1>7. ASSUME NEW error, NEW api, Fail(error, api) PROVE Filed'
  BY <1>7 DEF Fail, Filed
<1> QED BY <1>1, <1>2, <1>3, <1>4, <1>5, <1>6, <1>7 DEF Next

-----------------------------------------------------------------------------
(* What is counted.                                                        *)

SawPrompt == \E i \in DOMAIN lines : lines[i].prompt # 0
SawComp   == \E i \in DOMAIN lines : lines[i].comp # 0
NoTextAfter == \A i \in Counting : \A j \in i + 1 .. Len(lines) : ~lines[j].text

Estimate == Cardinality(TextLines)
ByPrompt == IF SawPrompt THEN Count ELSE Plus(prompt)
ByComp   == IF SawComp THEN Count ELSE Estimate

(* The counts while a stream is read and settled. Anthropic's are kept by  *)
(* the provider until the end; a text behind a count is lost with it.      *)
Metering ==
    phase \in {"reading", "ended", "settled"} =>
       /\ from = "anthropic" =>
             /\ counted.prompt = IF SawPrompt THEN Count ELSE 0
             /\ counted.comp = IF SawComp THEN Count ELSE 0
             /\ phase = "reading" => tokens.prompt = Plus(prompt) /\ tokens.comp = Estimate
             /\ phase # "reading" /\ lines # <<>> /\ lines[Len(lines)].finish = "stop" =>
                   tokens.prompt = ByPrompt /\ tokens.comp = ByComp
       /\ from \in {"gemini", "mock"} => tokens.prompt = Plus(prompt) /\ tokens.comp = Estimate
       /\ from \in {"openai", "ollama"} =>
             /\ tokens.prompt = ByPrompt
             /\ SawPrompt <=> SawComp
             /\ ~SawComp => tokens.comp = Estimate
             /\ SawComp /\ (from = "openai" => NoTextAfter) => tokens.comp = Count

LEMMA EstimateGrows ==
  ASSUME IInv, NEW m, m.text \in BOOLEAN, lines' = Append(lines, m)
  PROVE  Estimate \in Nat /\ Estimate' = Estimate + Plus(m.text)
<1> DEFINE n == Len(lines) + 1
<1>1. /\ DOMAIN lines = 1 .. Len(lines) /\ Len(lines) \in Nat /\ DOMAIN lines' = 1 .. n
      /\ lines'[n] = m /\ \A i \in 1 .. Len(lines) : lines'[i] = lines[i]
  BY LinesDomain, LinesAppend
<1>2. TextLines \subseteq 1 .. Len(lines) /\ n \notin TextLines
  BY <1>1 DEF TextLines
<1>3. IsFiniteSet(TextLines)
  <2>1. IsFiniteSet(1 .. Len(lines))
    BY <1>1, FS_Interval
  <2> QED BY <1>2, <2>1, FS_Subset
<1>4. Cardinality(TextLines) \in Nat
  BY <1>3, FS_CardinalityType
<1>5. TextLines' = IF m.text THEN TextLines \cup {n} ELSE TextLines
  BY <1>1 DEF TextLines
<1> HIDE DEF n
<1>6. Cardinality(TextLines \cup {n}) = Cardinality(TextLines) + 1
  BY <1>2, <1>3, FS_AddElement
<1> QED BY <1>4, <1>5, <1>6 DEF Estimate, Plus

LEMMA SawGrows ==
  ASSUME IInv, Flow, NEW m, GoodLine(m), lines' = Append(lines, m)
  PROVE  /\ SawPrompt' <=> SawPrompt \/ m.prompt # 0
         /\ SawComp' <=> SawComp \/ m.comp # 0
         /\ NoTextAfter' => NoTextAfter
         /\ NoTextAfter' /\ (SawPrompt \/ SawComp) => ~m.text
<1> DEFINE n == Len(lines) + 1
<1>1. /\ DOMAIN lines = 1 .. Len(lines) /\ Len(lines) \in Nat /\ DOMAIN lines' = 1 .. n
      /\ Len(lines') = n /\ lines'[n] = m /\ \A i \in 1 .. Len(lines) : lines'[i] = lines[i]
  BY LinesDomain, LinesAppend
<1>2. SawPrompt' <=> SawPrompt \/ m.prompt # 0
  BY <1>1 DEF SawPrompt
<1>3. SawComp' <=> SawComp \/ m.comp # 0
  BY <1>1 DEF SawComp
<1>4. \A i \in DOMAIN lines : lines[i].prompt \in Nat /\ lines[i].comp \in Nat
  BY DEF Flow, GoodLine
<1>5. Counting \subseteq Counting' /\ \A i \in Counting : i \in 1 .. Len(lines)
  BY <1>1 DEF Counting
<1>6. ASSUME NoTextAfter', NEW i \in Counting
      PROVE  ~m.text /\ \A j \in i + 1 .. Len(lines) : ~lines[j].text
  <2>1. \A j \in i + 1 .. n : ~lines'[j].text
    BY <1>1, <1>5, <1>6 DEF NoTextAfter
  <2>2. n \in i + 1 .. n /\ \A j \in i + 1 .. Len(lines) : j \in i + 1 .. n /\ j \in 1 .. Len(lines)
    BY <1>1, <1>5, <1>6
  <2> QED BY <1>1, <2>1, <2>2
<1>7. SawPrompt \/ SawComp => \E i \in DOMAIN lines : i \in Counting
  BY <1>4 DEF SawPrompt, SawComp, Counting
<1> QED BY <1>2, <1>3, <1>6, <1>7 DEF NoTextAfter

LEMMA TallyFacts ==
  ASSUME tokens \in Pair, NEW c \in Chunkset
  PROVE  /\ c.usage = None => /\ Tally(c).prompt = tokens.prompt
                              /\ Tally(c).comp = tokens.comp + Plus(c.text > 0)
         /\ c.usage # None =>
               /\ Tally(c).prompt = IF c.usage.prompt > 0 THEN c.usage.prompt ELSE tokens.prompt
               /\ Tally(c).comp = IF c.usage.comp > 0 THEN c.usage.comp ELSE tokens.comp
BY SMT DEF Tally, Pair, Chunkset

LEMMA UsageFacts ==
  ASSUME NEW m, m.prompt \in Nat, m.comp \in Nat
  PROVE  /\ m.prompt = 0 /\ m.comp = 0 => Usage(m) = None
         /\ m.prompt > 0 \/ m.comp > 0 =>
               Usage(m) # None /\ Usage(m).prompt = m.prompt /\ Usage(m).comp = m.comp
<1>1. None \notin [prompt : Nat, comp : Nat]
  BY StreamsAssumption
<1> QED BY <1>1, SMT DEF Usage

LEMMA CountedFields ==
  ASSUME NEW m
  PROVE  /\ Counted("anthropic", m).prompt = IF m.prompt > 0 THEN m.prompt ELSE counted.prompt
         /\ Counted("anthropic", m).comp = IF m.comp > 0 THEN m.comp ELSE counted.comp
BY DEF Counted

LEMMA ReceiveMeters ==
  ASSUME IInv, Flow, EndsLast, Metering, phase = "reading", NEW m \in Lines(from), Receive(m)
  PROVE  Metering'
<1> DEFINE n == Len(lines) + 1
           chunks == Chunks(from, m, Len(lines'))
<1>1. from \in Protocols /\ counted \in Pair /\ tokens \in Pair
  BY DEF IInv, Types, Calling
<1>2. /\ GoodLine(m) /\ Reads(from, m) /\ m.text \in BOOLEAN /\ m.prompt \in Nat /\ m.comp \in Nat
  BY <1>1, LinesGood, LineReads DEF GoodLine
<1>3. lines' = Append(lines, m) /\ UNCHANGED <<from, prompt>> /\ counted' = Counted(from, m)
  BY DEF Receive
<1>4. /\ Len(lines') = n /\ n \in Nat /\ n > 0 /\ lines'[Len(lines')] = m
  BY <1>3, LinesAppend, LinesDomain
<1>5. Estimate \in Nat /\ Estimate' = Estimate + Plus(m.text)
  BY <1>2, <1>3, EstimateGrows
<1>6. /\ SawPrompt' <=> SawPrompt \/ m.prompt # 0
      /\ SawComp' <=> SawComp \/ m.comp # 0
      /\ NoTextAfter' => NoTextAfter
      /\ NoTextAfter' /\ (SawPrompt \/ SawComp) => ~m.text
  BY <1>2, <1>3, SawGrows
<1>7. \/ chunks = <<>> /\ Skips(from, m)
      \/ \E c \in Chunkset : chunks = <<c>> /\ Makes(from, m, n, c)
  BY <1>1, <1>4, ChunkFacts
<1>8. /\ chunks = <<>> => phase' = Then(from, m) /\ UNCHANGED tokens
      /\ chunks # <<>> => /\ tokens' = Tally(chunks[1])
                          /\ phase' = Then(from, m) \/ phase' = "broken"
  BY DEF Receive
<1>9. phase' # "settled" /\ phase' \in {"reading", "ended", "broken"}
  BY <1>7, <1>8 DEF Then
<1>10. Count \in Nat /\ Count > 0
  BY StreamsAssumption
<1> HIDE DEF chunks, n
(* What the executor counts of the line.                                   *)
<1>11. /\ chunks = <<>> => ~m.text /\ UNCHANGED tokens
       /\ chunks # <<>> =>
             \E c \in Chunkset :
                /\ Makes(from, m, n, c) /\ Plus(c.text > 0) = Plus(m.text)
                /\ tokens' = Tally(c)
  <2>1. CASE chunks = <<>>
    BY <1>7, <1>8, <2>1 DEF Skips
  <2>2. CASE chunks # <<>>
    <3>1. PICK c \in Chunkset : chunks = <<c>> /\ Makes(from, m, n, c)
      BY <1>7, <2>2
    <3>2. tokens' = Tally(c)
      BY <1>8, <2>2, <3>1
    <3>3. c.text > 0 <=> m.text
      BY <1>2, <1>4, <3>1 DEF Makes
    <3> QED BY <2>2, <3>1, <3>2, <3>3 DEF Plus
  <2> QED BY <2>1, <2>2
<1>12. CASE from = "anthropic"
  <2>1. /\ counted.prompt = IF SawPrompt THEN Count ELSE 0
        /\ counted.comp = IF SawComp THEN Count ELSE 0
        /\ tokens.prompt = Plus(prompt) /\ tokens.comp = Estimate
    BY <1>12 DEF Metering
  <2>2. /\ m.prompt \in {0, Count} /\ m.comp \in {0, Count}
        /\ m.text \/ m.finish # None => m.prompt = 0 /\ m.comp = 0
        /\ m.text => m.finish = None
    BY <1>2, <1>12 DEF Reads
  <2>3. /\ counted'.prompt = IF SawPrompt' THEN Count ELSE 0
        /\ counted'.comp = IF SawComp' THEN Count ELSE 0
    <3>1. /\ counted'.prompt = IF m.prompt > 0 THEN m.prompt ELSE counted.prompt
          /\ counted'.comp = IF m.comp > 0 THEN m.comp ELSE counted.comp
      BY <1>3, <1>12, CountedFields
    <3> QED BY <1>6, <1>10, <2>1, <2>2, <3>1
  <2>4. CASE m.finish # "stop"
    <3>1. tokens'.prompt = Plus(prompt') /\ tokens'.comp = Estimate'
      <4>1. CASE chunks = <<>>
        BY <1>3, <1>5, <1>11, <2>1, <4>1 DEF Plus
      <4>2. CASE chunks # <<>>
        <5>1. PICK c \in Chunkset : /\ Makes(from, m, n, c) /\ Plus(c.text > 0) = Plus(m.text)
                                    /\ tokens' = Tally(c)
          BY <1>11, <4>2
        <5>2. c.usage = None
          BY <1>12, <2>4, <5>1 DEF Makes
        <5>3. Tally(c).prompt = tokens.prompt /\ Tally(c).comp = tokens.comp + Plus(c.text > 0)
          BY <1>1, <5>2, TallyFacts
        <5> QED BY <1>3, <1>5, <2>1, <5>1, <5>3
      <4> QED BY <4>1, <4>2
    <3> QED BY <1>3, <1>4, <1>9, <1>12, <2>3, <2>4, <3>1 DEF Metering
  <2>5. CASE m.finish = "stop"
    <3>1. phase' # "reading"
      BY <1>8, <1>9, <1>12, <2>5 DEF Then, Ends
    <3>2. m.prompt = 0 /\ m.comp = 0 /\ ~m.text
      BY <2>2, <2>5, StreamsAssumption
    <3>3. chunks # <<>>
      BY <1>7, <1>12, <2>5 DEF Skips, Closing, Ends
    <3>4. PICK c \in Chunkset : /\ Makes(from, m, n, c) /\ Plus(c.text > 0) = Plus(m.text)
                                /\ tokens' = Tally(c)
      BY <1>11, <3>3
    <3>5. c.usage = Usage(counted)
      BY <1>12, <2>5, <3>4 DEF Makes
    <3>6. counted.prompt \in Nat /\ counted.comp \in Nat
      BY <1>1 DEF Pair
    <3>7. /\ counted.prompt = 0 /\ counted.comp = 0 => Usage(counted) = None
          /\ counted.prompt > 0 \/ counted.comp > 0 =>
                /\ Usage(counted) # None
                /\ Usage(counted).prompt = counted.prompt /\ Usage(counted).comp = counted.comp
      BY <3>6, UsageFacts
    <3>8. /\ tokens'.prompt = IF SawPrompt THEN Count ELSE Plus(prompt)
          /\ tokens'.comp = IF SawComp THEN Count ELSE Estimate
      <4>1. /\ c.usage = None => /\ tokens'.prompt = tokens.prompt
                                 /\ tokens'.comp = tokens.comp + Plus(c.text > 0)
            /\ c.usage # None =>
                  /\ tokens'.prompt = IF c.usage.prompt > 0 THEN c.usage.prompt ELSE tokens.prompt
                  /\ tokens'.comp = IF c.usage.comp > 0 THEN c.usage.comp ELSE tokens.comp
        BY <1>1, <3>4, TallyFacts
      <4>2. Plus(c.text > 0) = 0
        BY <3>2, <3>4 DEF Plus
      <4> QED BY <1>5, <1>10, <2>1, <3>5, <3>6, <3>7, <4>1, <4>2
    <3>9. tokens'.prompt = ByPrompt' /\ tokens'.comp = ByComp'
      BY <1>3, <1>5, <1>6, <3>2, <3>8 DEF ByPrompt, ByComp, Plus
    <3> QED BY <1>3, <1>9, <1>12, <2>3, <3>1, <3>9 DEF Metering
  <2> QED BY <2>4, <2>5
<1>13. CASE from \in {"gemini", "mock"}
  <2>1. tokens.prompt = Plus(prompt) /\ tokens.comp = Estimate
    BY <1>13 DEF Metering
  <2>2. tokens'.prompt = Plus(prompt') /\ tokens'.comp = Estimate'
    <3>1. CASE chunks = <<>>
      BY <1>3, <1>5, <1>11, <2>1, <3>1 DEF Plus
    <3>2. CASE chunks # <<>>
      <4>1. PICK c \in Chunkset : /\ Makes(from, m, n, c) /\ Plus(c.text > 0) = Plus(m.text)
                                  /\ tokens' = Tally(c)
        BY <1>11, <3>2
      <4>2. c.usage = None
        BY <1>13, <4>1 DEF Makes
      <4>3. Tally(c).prompt = tokens.prompt /\ Tally(c).comp = tokens.comp + Plus(c.text > 0)
        BY <1>1, <4>2, TallyFacts
      <4> QED BY <1>3, <1>5, <2>1, <4>1, <4>3
    <3> QED BY <3>1, <3>2
  <2> QED BY <1>3, <1>9, <1>13, <2>2 DEF Metering
<1>14. CASE from \in {"openai", "ollama"}
  <2>1. /\ tokens.prompt = ByPrompt /\ (SawPrompt <=> SawComp)
        /\ ~SawComp => tokens.comp = Estimate
        /\ SawComp /\ (from = "openai" => NoTextAfter) => tokens.comp = Count
    BY <1>14 DEF Metering
  <2>2. m.prompt \in {0, Count} /\ m.prompt = m.comp /\ (m.text => m.prompt = 0)
    BY <1>2, <1>14 DEF Reads
  <2>3. /\ tokens'.prompt = ByPrompt' /\ (SawPrompt' <=> SawComp')
        /\ ~SawComp' => tokens'.comp = Estimate'
        /\ SawComp' /\ (from = "openai" => NoTextAfter') => tokens'.comp = Count
    <3>1. CASE m.prompt = 0
      <4>1. tokens'.prompt = tokens.prompt /\ tokens'.comp = tokens.comp + Plus(m.text)
        <5>1. CASE chunks = <<>>
          <6>1. tokens.comp \in Nat
            BY <1>1 DEF Pair
          <6> QED BY <1>11, <5>1, <6>1 DEF Plus
        <5>2. CASE chunks # <<>>
          <6>1. PICK c \in Chunkset : /\ Makes(from, m, n, c) /\ Plus(c.text > 0) = Plus(m.text)
                                      /\ tokens' = Tally(c)
            BY <1>11, <5>2
          <6>2. c.usage = None
            BY <1>2, <1>14, <2>2, <3>1, <6>1, UsageFacts DEF Makes
          <6>3. Tally(c).prompt = tokens.prompt /\ Tally(c).comp = tokens.comp + Plus(c.text > 0)
            BY <1>1, <6>2, TallyFacts
          <6> QED BY <6>1, <6>3
        <5> QED BY <5>1, <5>2
      <4>2. (SawPrompt' <=> SawPrompt) /\ (SawComp' <=> SawComp)
        BY <1>6, <2>2, <3>1
      <4>3. tokens'.prompt = ByPrompt'
        BY <1>3, <2>1, <4>1, <4>2 DEF ByPrompt
      <4>4. ~SawComp' => tokens'.comp = Estimate'
        BY <1>5, <2>1, <4>1, <4>2
      <4>5. SawComp' /\ (from = "openai" => NoTextAfter') => tokens'.comp = Count
        <5>1. SUFFICES ASSUME SawComp', from = "openai" => NoTextAfter' PROVE tokens'.comp = Count
          OBVIOUS
        <5>3. from # "ollama"
          <6>1. SawComp
            BY <4>2, <5>1
          <6>2. PICK i \in DOMAIN lines : lines[i].comp # 0
            BY <6>1 DEF SawComp
          <6>3. Reads(from, lines[i])
            BY DEF Flow
          <6>4. from = "ollama" => lines[i].finish # "stop"
            BY DEF EndsLast, Closing
          <6> QED BY <6>2, <6>3, <6>4 DEF Reads, Closing
        <5>2. ~m.text /\ tokens.comp = Count
          BY <1>6, <1>14, <2>1, <4>2, <5>1, <5>3
        <5> QED BY <1>10, <4>1, <5>2 DEF Plus
      <4> QED BY <2>1, <4>2, <4>3, <4>4, <4>5
    <3>2. CASE m.prompt = Count
      <4>1. chunks # <<>>
        <5>1. ~Skips(from, m)
          BY <1>10, <1>14, <3>2 DEF Skips
        <5> QED BY <1>7, <5>1
      <4>2. PICK c \in Chunkset : Makes(from, m, n, c) /\ tokens' = Tally(c)
        BY <1>11, <4>1
      <4>3. c.usage # None /\ c.usage.prompt = Count /\ c.usage.comp = Count
        BY <1>2, <1>10, <1>14, <2>2, <3>2, <4>2, UsageFacts DEF Makes
      <4>4. tokens'.prompt = Count /\ tokens'.comp = Count
        BY <1>1, <1>10, <4>2, <4>3, TallyFacts
      <4>5. SawPrompt' /\ SawComp'
        BY <1>6, <1>10, <2>2, <3>2
      <4> QED BY <4>4, <4>5 DEF ByPrompt
    <3> QED BY <2>2, <3>1, <3>2
  <2> QED BY <1>3, <1>9, <1>14, <2>3 DEF Metering
<1> QED BY <1>1, <1>12, <1>13, <1>14 DEF Protocols

LEMMA MeteringSame ==
  ASSUME Metering, UNCHANGED <<lines, from, prompt, counted, tokens>>,
         phase' \in {"reading", "ended", "settled"} => phase \in {"reading", "ended", "settled"},
         phase' = "reading" => phase = "reading",
         from = "anthropic" /\ phase = "reading" /\ phase' # "reading" =>
            lines = <<>> \/ lines[Len(lines)].finish # "stop"
  PROVE  Metering'
<1>1. /\ SawPrompt' = SawPrompt /\ SawComp' = SawComp /\ NoTextAfter' = NoTextAfter
      /\ Estimate' = Estimate /\ ByPrompt' = ByPrompt /\ ByComp' = ByComp
  BY DEF SawPrompt, SawComp, NoTextAfter, Counting, Estimate, TextLines, ByPrompt, ByComp
<1> QED BY <1>1 DEF Metering

LEMMA MeteringStep ==
  ASSUME IInv, Flow, EndsLast, Metering, [Next]_vars
  PROVE  Metering'
<1>1. CASE FindNext
  <2>1. CASE phase' \in {"done", "next"}
    BY <2>1 DEF Metering
  <2>2. CASE /\ lines' = <<>> /\ counted' = Zero
             /\ tokens' = [Zero EXCEPT !.prompt = Plus(prompt)] /\ phase' = "reading"
    <3>1. /\ counted'.prompt = 0 /\ counted'.comp = 0
          /\ tokens'.prompt = Plus(prompt) /\ tokens'.comp = 0
      BY <2>2 DEF Zero
    <3>2. ~SawPrompt' /\ ~SawComp' /\ TextLines' = {}
      BY <2>2 DEF SawPrompt, SawComp, TextLines
    <3>3. Estimate' = 0
      BY <3>2, FS_EmptySet DEF Estimate
    <3>4. prompt' = prompt
      BY <1>1 DEF FindNext
    <3> QED BY <2>2, <3>1, <3>2, <3>3, <3>4 DEF Metering, ByPrompt
  <2>3. phase' \in {"done", "next"} \/ phase' = "reading"
    BY <1>1 DEF FindNext
  <2> QED BY <1>1, <2>1, <2>2 DEF FindNext
<1>2. ASSUME phase = "reading", NEW m \in Lines(from), Receive(m) PROVE Metering'
  BY <1>2, ReceiveMeters
<1>3. CASE EndOfBody
  <2>1. /\ phase = "reading" /\ phase' = "ended"
        /\ UNCHANGED <<lines, from, prompt, counted, tokens>>
    BY <1>3 DEF EndOfBody
  <2>2. from = "anthropic" => lines = <<>> \/ lines[Len(lines)].finish # "stop"
    <3>1. PICK S : lines \in Seq(S)
      BY DEF IInv, Types
    <3>2. lines # <<>> => Len(lines) \in DOMAIN lines
      BY <3>1
    <3> QED BY <2>1, <3>2 DEF EndsLast, Closing
  <2> QED BY <2>1, <2>2, MeteringSame
<1>4. CASE Settle
  <2>1. phase' = "settled" => phase = "ended"
    BY <1>4 DEF Settle, Settles
  <2>2. UNCHANGED <<lines, from, prompt, counted, tokens>> /\ phase' \in {"settled", "charging"}
    BY <1>4 DEF Settle
  <2>3. CASE phase = "ended"
    BY <2>2, <2>3, MeteringSame
  <2>4. CASE phase # "ended"
    BY <2>1, <2>2, <2>4 DEF Metering
  <2> QED BY <2>3, <2>4
<1>5. CASE Charge \/ Reply
  <2>1. phase' \in {"done", "idle"}
    BY <1>5 DEF Charge, Reply
  <2> QED BY <2>1 DEF Metering
<1>6. CASE Leave \/ UNCHANGED vars \/ \E log \in Chats : Chat(log)
  <2>1. UNCHANGED <<phase, lines, from, prompt, counted, tokens>>
    BY <1>6 DEF Leave, vars, request, Chat
  <2> QED BY <2>1, MeteringSame
<1>7. ASSUME NEW m \in Models, NEW text \in BOOLEAN, Accept(m, text) PROVE Metering'
  BY <1>7 DEF Accept, Metering
<1>8. ASSUME NEW error, NEW api, Fail(error, api) PROVE Metering'
  BY <1>8 DEF Fail, Metering
<1> QED BY <1>1, <1>2, <1>3, <1>4, <1>5, <1>6, <1>7, <1>8 DEF Next

LEMMA MeteringHolds == Spec => [](IInv /\ Flow /\ EndsLast /\ Filed /\ Metering)
<1>1. Init => Filed /\ Metering
  <2>1. Init => logs = <<>> /\ phase = "idle"
    BY DEF Init, InitMetrics
  <2>2. <<>> \in Seq(Log)
    OBVIOUS
  <2> QED BY <2>1, <2>2 DEF Filed, Metering
<1> QED BY <1>1, InitIInv, NextIInv, FlowInit, FlowStep, FiledStep, MeteringStep, PTL DEF Spec

(* A stream that ends as its protocol says is recorded by the counts of    *)
(* upstream wherever it sent them, unless OpenAI's is followed by texts,   *)
(* and by the estimate when it sent none, whatever the lines were and in   *)
(* whatever order.                                                         *)
THEOREM StreamsAreMetered == Spec => []Metered
<1>1. IInv /\ Flow /\ EndsLast /\ Filed /\ Metering => Metered
  <2> SUFFICES ASSUME IInv, Flow, Filed, Metering, phase = "settled", lines # <<>>,
                      Ends(from, Last(lines)),
                      NEW est, est = [prompt |-> Plus(prompt), comp |-> Estimate]
               PROVE  /\ Last(logs).prompt
                            = IF {lines[i].prompt : i \in Counting} \ {0} = {} \/ from = "gemini"
                              THEN est.prompt
                              ELSE CHOOSE n \in {lines[i].prompt : i \in Counting} \ {0} : TRUE
                      /\ (from = "openai" => NoTextAfter) =>
                         Last(logs).comp
                            = IF {lines[i].comp : i \in Counting} \ {0} = {} \/ from = "gemini"
                              THEN est.comp
                              ELSE CHOOSE n \in {lines[i].comp : i \in Counting} \ {0} : TRUE
    BY DEF Metered, NoTextAfter, Estimate
  <2>1. /\ Last(logs).prompt = tokens.prompt /\ Last(logs).comp = tokens.comp
        /\ Last(lines) = lines[Len(lines)]
    BY DEF Filed, Last
  <2>2. from \in Protocols /\ Count \in Nat /\ Count > 0
    BY StreamsAssumption DEF IInv, Calling
  <2>3. \A i \in DOMAIN lines : /\ lines[i].prompt \in {0, Count} /\ lines[i].comp \in {0, Count}
                                /\ from = "mock" => lines[i].prompt = 0 /\ lines[i].comp = 0
    BY DEF Flow, Reads
  <2>4. {lines[i].prompt : i \in Counting} \ {0} = IF SawPrompt THEN {Count} ELSE {}
    BY <2>2, <2>3 DEF Counting, SawPrompt
  <2>5. {lines[i].comp : i \in Counting} \ {0} = IF SawComp THEN {Count} ELSE {}
    BY <2>2, <2>3 DEF Counting, SawComp
  <2>6. (CHOOSE n \in {Count} : TRUE) = Count
    OBVIOUS
  <2>7. est.prompt = Plus(prompt) /\ est.comp = Estimate
    OBVIOUS
  <2>8. /\ from # "gemini" => /\ tokens.prompt = ByPrompt
                              /\ (from = "openai" => NoTextAfter) => tokens.comp = ByComp
        /\ from = "gemini" => tokens.prompt = Plus(prompt) /\ tokens.comp = Estimate
    <3>1. CASE from = "anthropic"
      BY <2>1, <3>1 DEF Metering, Ends
    <3>2. CASE from = "gemini"
      BY <3>2 DEF Metering
    <3>3. CASE from = "mock"
      <4>1. ~SawPrompt /\ ~SawComp
        BY <2>3, <3>3 DEF SawPrompt, SawComp
      <4> QED BY <3>3, <4>1 DEF Metering, ByPrompt, ByComp
    <3>4. CASE from \in {"openai", "ollama"}
      BY <3>4 DEF Metering, ByComp
    <3> QED BY <2>2, <3>1, <3>2, <3>3, <3>4 DEF Protocols
  <2> QED BY <2>1, <2>4, <2>5, <2>6, <2>7, <2>8 DEF ByPrompt, ByComp
<1> QED BY <1>1, MeteringHolds, PTL

-----------------------------------------------------------------------------
(***************************************************************************)
(* Sums of records. Total is a fold, which the community modules define by *)
(* a recursive function on the sets of positions; that the function exists *)
(* is proved by induction, and induction from the order of the numbers     *)
(* being well-founded.                                                     *)
(***************************************************************************)

Less == {r \in Nat \X Nat : r[1] < r[2]}

LEMMA Induction ==
  ASSUME NEW T, 0 \in T, \A n \in Nat : n \in T => n + 1 \in T
  PROVE  \A n \in Nat : n \in T
<1> SUFFICES ASSUME NEW k \in Nat, k \notin T PROVE FALSE
  OBVIOUS
<1> DEFINE U == {n \in Nat : n \notin T}
<1>1. IsWellFoundedOn(Less, Nat)
  BY NatLessThanWellFounded DEF Less, OpToRel
<1>2. U \subseteq Nat /\ U # {}
  OBVIOUS
<1>3. PICK x \in U : \A y \in U : ~(<<y, x>> \in Less)
  BY <1>1, <1>2, WFMin
<1>4. x \in Nat /\ x # 0 /\ x - 1 \in Nat
  OBVIOUS
<1>5. x - 1 \in U
  <2>1. (x - 1) + 1 = x
    BY <1>4
  <2> QED BY <1>4, <2>1
<1>6. <<x - 1, x>> \in Less
  BY <1>4 DEF Less
<1> QED BY <1>3, <1>5, <1>6

LEMMA MaxOf ==
  ASSUME NEW I \in SUBSET Nat, NEW n \in I, \A i \in I : i <= n
  PROVE  Max(I) = n
<1>1. \A x \in I : (\A y \in I : x >= y) <=> x = n
  OBVIOUS
<1> QED BY <1>1 DEF Max

SumOf(field, s) == FoldLeft(LAMBDA sum, log : sum + log[field], 0, s)

(* The fold behind a sum, over the positions in D.                         *)
Adds(it, s, D, field) ==
   it = [I \in SUBSET D |-> IF I = {} THEN 0 ELSE it[I \ {Max(I)}] + s[Max(I)][field]]

LEMMA SumFold ==
  ASSUME NEW field, NEW s
  PROVE  SumOf(field, s) = (CHOOSE it : Adds(it, s, DOMAIN s, field))[DOMAIN s]
BY DEF SumOf, FoldLeft, MapThenFoldSet, Adds

LEMMA AddsExists ==
  ASSUME NEW s, NEW field
  PROVE  \A n \in Nat : \E it : Adds(it, s, 1 .. n, field)
<1> DEFINE T == {n \in Nat : \E it : Adds(it, s, 1 .. n, field)}
<1>1. 0 \in T
  <2> DEFINE it == [I \in {{}} |-> 0]
  <2>1. SUBSET (1 .. 0) = {{}}
    OBVIOUS
  <2>2. it = [I \in {{}} |-> IF I = {} THEN 0 ELSE it[I \ {Max(I)}] + s[Max(I)][field]]
    OBVIOUS
  <2>3. Adds(it, s, 1 .. 0, field)
    BY <2>1, <2>2 DEF Adds
  <2> QED BY <2>3
<1>2. ASSUME NEW n \in Nat, n \in T PROVE n + 1 \in T
  <2>1. PICK it : Adds(it, s, 1 .. n, field)
    BY <1>2
  <2> DEFINE D == SUBSET (1 .. n + 1)
             new == [I \in D |-> IF n + 1 \in I
                        THEN it[I \ {n + 1}] + s[n + 1][field] ELSE it[I]]
  <2>2. ASSUME NEW I \in D, I # {}
        PROVE  new[I] = new[I \ {Max(I)}] + s[Max(I)][field]
    <3>1. CASE n + 1 \in I
      <4>1. Max(I) = n + 1
        BY <1>2, <3>1, MaxOf
      <4>2. I \ {n + 1} \in D /\ n + 1 \notin I \ {n + 1}
        OBVIOUS
      <4> QED BY <3>1, <4>1, <4>2
    <3>2. CASE n + 1 \notin I
      <4>1. I \in SUBSET (1 .. n)
        BY <1>2, <3>2
      <4>2. it[I] = it[I \ {Max(I)}] + s[Max(I)][field]
        BY <2>1, <2>2, <4>1 DEF Adds
      <4>3. I \ {Max(I)} \in D /\ n + 1 \notin I \ {Max(I)}
        BY <3>2
      <4> QED BY <3>2, <4>2, <4>3
    <3> QED BY <3>1, <3>2
  <2>3. new[{}] = 0
    <3>1. {} \in D /\ {} \in SUBSET (1 .. n)
      OBVIOUS
    <3>2. it[{}] = 0
      BY <2>1, <3>1 DEF Adds
    <3> QED BY <3>1, <3>2
  <2>4. new = [I \in D |-> new[I]]
    OBVIOUS
  <2> HIDE DEF new
  <2>5. Adds(new, s, 1 .. n + 1, field)
    BY <2>2, <2>3, <2>4 DEF Adds
  <2> QED BY <1>2, <2>5
<1> HIDE DEF T
<1>3. \A n \in Nat : n \in T
  BY <1>1, <1>2, Induction
<1> QED BY <1>3 DEF T

(* A sum adds the records one by one.                                      *)
LEMMA PartialSums ==
  ASSUME NEW field, NEW S, NEW s \in Seq(S)
  PROVE  \E B : /\ B[0] = 0
                /\ \A k \in 1 .. Len(s) : B[k] = B[k - 1] + s[k][field]
                /\ SumOf(field, s) = B[Len(s)]
<1> DEFINE n == Len(s)
<1>1. n \in Nat /\ DOMAIN s = 1 .. n
  BY LenProperties
<1>2. \E it : Adds(it, s, 1 .. n, field)
  BY <1>1, AddsExists
<1> DEFINE it == CHOOSE it : Adds(it, s, 1 .. n, field)
<1>3. Adds(it, s, 1 .. n, field)
  BY <1>2
<1> HIDE DEF it
<1> DEFINE B == [k \in 0 .. n |-> it[1 .. k]]
<1>4. B[0] = 0
  <2>1. 1 .. 0 = {} /\ {} \in SUBSET (1 .. n) /\ 0 \in 0 .. n
    BY <1>1
  <2> QED BY <1>3, <2>1 DEF Adds
<1>5. ASSUME NEW k \in 1 .. n
      PROVE  B[k] = B[k - 1] + s[k][field]
  <2>1. (1 .. k) \in SUBSET (1 .. n) /\ (1 .. k) # {} /\ k \in 0 .. n /\ k - 1 \in 0 .. n
    <3>1. k \in Nat /\ k \in 1 .. k /\ k \in 0 .. n /\ k - 1 \in 0 .. n
      BY <1>1
    <3>2. \A i \in 1 .. k : i \in 1 .. n
      BY <1>1
    <3> QED BY <3>1, <3>2
  <2>2. Max(1 .. k) = k
    <3>1. (1 .. k) \in SUBSET Nat /\ k \in 1 .. k /\ \A i \in 1 .. k : i <= k
      BY <1>1
    <3> QED BY <3>1, MaxOf
  <2>3. (1 .. k) \ {k} = 1 .. k - 1
    BY <1>1
  <2>4. it[1 .. k] = it[(1 .. k) \ {Max(1 .. k)}] + s[Max(1 .. k)][field]
    BY <1>3, <2>1 DEF Adds
  <2> QED BY <2>1, <2>2, <2>3, <2>4
<1>6. SumOf(field, s) = B[n]
  <2>1. n \in 0 .. n
    BY <1>1
  <2>2. B[n] = it[DOMAIN s]
    BY <1>1, <2>1
  <2> QED BY <1>1, <2>2, SumFold DEF it
<1> QED BY <1>4, <1>5, <1>6

LEMMA SumEmpty ==
  ASSUME NEW field
  PROVE  SumOf(field, <<>>) = 0
<1>1. <<>> \in Seq({}) /\ Len(<<>>) = 0
  OBVIOUS
<1> QED BY <1>1, PartialSums

(* Another record adds its field to the sum.                               *)
LEMMA SumAppend ==
  ASSUME NEW field, NEW S, NEW s \in Seq(S), NEW r \in S
  PROVE  SumOf(field, Append(s, r)) = SumOf(field, s) + r[field]
<1> DEFINE t == Append(s, r)
           n == Len(s)
<1>1. /\ t \in Seq(S) /\ Len(t) = n + 1 /\ n \in Nat /\ t[n + 1] = r
      /\ \A k \in 1 .. n : t[k] = s[k]
  BY AppendProperties, LenProperties
<1> HIDE DEF t, n
<1>2. PICK B : /\ B[0] = 0 /\ SumOf(field, s) = B[n]
               /\ \A k \in 1 .. n : B[k] = B[k - 1] + s[k][field]
  BY PartialSums DEF n
<1>3. PICK C : /\ C[0] = 0 /\ SumOf(field, t) = C[n + 1]
               /\ \A k \in 1 .. n + 1 : C[k] = C[k - 1] + t[k][field]
  BY <1>1, PartialSums
<1> DEFINE T == {k \in Nat : k <= n => B[k] = C[k]}
<1>4. 0 \in T
  BY <1>2, <1>3
<1>5. ASSUME NEW k \in Nat, k \in T PROVE k + 1 \in T
  <2>1. SUFFICES ASSUME k + 1 <= n PROVE B[k + 1] = C[k + 1]
    OBVIOUS
  <2>2. B[k] = C[k] /\ k + 1 \in 1 .. n /\ k + 1 \in 1 .. n + 1 /\ (k + 1) - 1 = k
    BY <1>1, <1>5, <2>1
  <2> QED BY <1>1, <1>2, <1>3, <2>2
<1> HIDE DEF T
<1>6. \A k \in Nat : k \in T
  BY <1>4, <1>5, Induction
<1>7. B[n] = C[n]
  BY <1>1, <1>6 DEF T
<1>8. C[n + 1] = C[n] + r[field]
  <2>1. n + 1 \in 1 .. n + 1 /\ (n + 1) - 1 = n
    BY <1>1
  <2> QED BY <1>1, <1>3, <2>1
<1> QED BY <1>2, <1>3, <1>7, <1>8 DEF t

-----------------------------------------------------------------------------
(* The books.                                                              *)

LEMMA Percent ==
  ASSUME NEW a \in Nat, NEW t \in Nat, t > 0, a <= t
  PROVE  (a * 100) \div t \in 0 .. 100
<1> DEFINE q == (a * 100) \div t
<1>1. q \in Int /\ t * q <= a * 100 /\ a * 100 < t * q + t
  BY Z3
<1> HIDE DEF q
<1>2. q >= 0
  <2>1. SUFFICES ASSUME q <= -1 PROVE FALSE
    BY <1>1
  <2>2. t * q <= t * (-1)
    BY <1>1, <2>1
  <2> QED BY <1>1, <2>2
<1>3. q <= 100
  <2>1. SUFFICES ASSUME q >= 101 PROVE FALSE
    BY <1>1
  <2>2. t * q >= t * 101
    BY <1>1, <2>1
  <2> QED BY <1>1, <2>2
<1> QED BY <1>1, <1>2, <1>3 DEF q

(* The ring holds the latest records.                                      *)
Low(n) == Max({1, n - RingSize + 1})
Latest(s) == SubSeq(s, Low(Len(s)), Len(s))

LEMMA LowEnd ==
  ASSUME NEW n \in Nat
  PROVE  Low(n) = IF n >= RingSize THEN n - RingSize + 1 ELSE 1
<1> DEFINE I == {1, n - RingSize + 1}
           low == IF n >= RingSize THEN n - RingSize + 1 ELSE 1
<1>1. RingSize \in Nat /\ RingSize > 0
  BY RingAssumption
<1>2. I \subseteq Int /\ low \in I /\ \A i \in I : i <= low
  BY <1>1
<1> HIDE DEF I, low
<1>3. \A x \in I : (\A y \in I : x >= y) <=> x = low
  BY <1>2
<1>4. Max(I) = low
  BY <1>2, <1>3 DEF Max
<1> QED BY <1>4 DEF I, low, Low

LEMMA RingKeeps ==
  ASSUME NEW S, NEW s \in Seq(S), NEW r \in S
  PROVE  Ring(Latest(s), r) = Latest(Append(s, r))
<1> DEFINE n == Len(s)
           t == Append(s, r)
           R == RingSize
<1>1. /\ t \in Seq(S) /\ Len(t) = n + 1 /\ n \in Nat /\ t[n + 1] = r
      /\ \A k \in 1 .. n : t[k] = s[k]
  BY AppendProperties, LenProperties
<1>2. \A k \in 1 .. n + 1 : t[k] \in S
  BY <1>1, ElementOfSeq
<1>3. \A k \in 1 .. n : s[k] \in S
  BY ElementOfSeq
<1>4. R \in Nat /\ R > 0
  BY RingAssumption
<1>5. /\ n >= R => Latest(s) = SubSeq(s, n - R + 1, n)
      /\ n < R => Latest(s) = SubSeq(s, 1, n)
  <2>1. Latest(s) = SubSeq(s, Low(n), n)
    BY DEF Latest
  <2>2. Low(n) = IF n >= R THEN n - R + 1 ELSE 1
    BY <1>1, LowEnd
  <2> HIDE DEF t, n, R
  <2> QED BY <1>1, <1>4, <2>1, <2>2
<1>6. /\ n + 1 >= R => Latest(t) = SubSeq(t, (n + 1) - R + 1, n + 1)
      /\ n + 1 < R => Latest(t) = SubSeq(t, 1, n + 1)
  <2>1. Latest(t) = SubSeq(t, Low(Len(t)), Len(t))
    BY DEF Latest
  <2> HIDE DEF t, n, R
  <2>2. Latest(t) = SubSeq(t, Low(n + 1), n + 1)
    BY <1>1, <2>1
  <2>3. Low(n + 1) = IF n + 1 >= R THEN (n + 1) - R + 1 ELSE 1
    BY <1>1, LowEnd DEF R
  <2> QED BY <1>1, <1>4, <2>2, <2>3
<1>7. t = Append(s, r)
  OBVIOUS
<1>8. SubSeq(s, 1, n) = s /\ SubSeq(t, 1, n + 1) = t
  BY <1>1, SubSeqFull
<1> HIDE DEF n, t, R
<1>9. CASE n < R
  <2>1. Latest(s) = s
    BY <1>1, <1>4, <1>5, <1>6, <1>8, <1>9
  <2>2. Latest(t) = t
    <3>1. CASE n + 1 < R
      BY <1>1, <1>4, <1>5, <1>6, <1>8, <3>1
    <3>2. CASE n + 1 = R
      <4>1. n + 1 >= R /\ (n + 1) - R + 1 = 1
        BY <1>1, <1>4, <3>2
      <4> QED BY <1>5, <1>6, <1>8, <4>1
    <3> QED BY <1>1, <1>4, <1>9, <3>1, <3>2
  <2>3. ~(Len(Latest(s)) >= RingSize)
    BY <1>1, <1>4, <1>9, <2>1 DEF n, R
  <2> QED BY <1>7, <2>1, <2>2, <2>3 DEF Ring
<1>10. CASE n >= R
  <2> DEFINE m == n - R + 1
             old == SubSeq(s, m, n)
             kept == SubSeq(s, m + 1, n)
             new == SubSeq(t, m + 1, n + 1)
  <2>1. /\ m \in 1 .. n /\ n \in m .. n /\ m \in Int /\ n \in Int /\ m + 1 \in Int
        /\ n - m + 1 = R /\ m <= n /\ n - (m + 1) + 1 = R - 1 /\ (n + 1) - R + 1 = m + 1
        /\ (n + 1) - (m + 1) + 1 = R /\ m + 1 <= n + 1 /\ n + 1 >= R /\ n + 1 \in Int
    BY <1>1, <1>4, <1>10
  <2>2. Latest(s) = old /\ Latest(t) = new
    BY <1>5, <1>6, <1>10, <2>1
  <2>3. Len(old) = R
    <3>1. \A k \in m .. n : s[k] \in S
      BY <1>1, <1>3, <2>1
    <3> HIDE DEF m
    <3> QED BY <2>1, <3>1, SubSeqProperties
  <2>4. Tail(old) = kept
    <3> HIDE DEF m
    <3> QED BY <2>1, HeadTailOfSubSeq DEF n
  <2>5. /\ kept \in Seq(S) /\ Len(kept) = R - 1
        /\ \A i \in 1 .. R - 1 : kept[i] = s[m + i]
    <3>1. \A k \in m + 1 .. n : s[k] \in S
      BY <1>1, <1>3, <2>1
    <3>2. /\ kept \in Seq(S) /\ Len(kept) = IF m + 1 <= n THEN n - (m + 1) + 1 ELSE 0
          /\ \A i \in 1 .. n - (m + 1) + 1 : kept[i] = s[(m + 1) + i - 1]
      <4> HIDE DEF m
      <4> QED BY <2>1, <3>1, SubSeqProperties
    <3>3. ~(m + 1 <= n) => R - 1 = 0
      BY <1>1, <1>4
    <3>4. \A i \in 1 .. R - 1 : (m + 1) + i - 1 = m + i
      BY <1>1, <1>4
    <3> HIDE DEF m, kept
    <3> QED BY <2>1, <3>2, <3>3, <3>4
  <2>6. /\ new \in Seq(S) /\ Len(new) = R
        /\ \A i \in 1 .. R : new[i] = t[m + i]
    <3>1. \A k \in m + 1 .. n + 1 : t[k] \in S
      BY <1>1, <1>2, <2>1
    <3>2. /\ new \in Seq(S) /\ Len(new) = IF m + 1 <= n + 1 THEN (n + 1) - (m + 1) + 1 ELSE 0
          /\ \A i \in 1 .. (n + 1) - (m + 1) + 1 : new[i] = t[(m + 1) + i - 1]
      <4> HIDE DEF m
      <4> QED BY <2>1, <3>1, SubSeqProperties
    <3>3. \A i \in 1 .. R : (m + 1) + i - 1 = m + i
      BY <1>1, <1>4
    <3> HIDE DEF m, new
    <3> QED BY <2>1, <3>2, <3>3
  <2> HIDE DEF old, kept, new
  <2> DEFINE u == Append(kept, r)
  <2>7. /\ u \in Seq(S) /\ Len(u) = R /\ u[R] = r
        /\ \A i \in 1 .. R - 1 : u[i] = kept[i]
    <3>1. /\ u \in Seq(S) /\ Len(u) = Len(kept) + 1 /\ u[Len(kept) + 1] = r
          /\ \A i \in 1 .. Len(kept) : u[i] = kept[i]
      BY <2>5, AppendProperties
    <3>2. (R - 1) + 1 = R
      BY <1>4
    <3> HIDE DEF u
    <3> QED BY <2>5, <3>1, <3>2
  <2> HIDE DEF u
  <2>8. \A i \in 1 .. R : u[i] = new[i]
    <3> TAKE i \in 1 .. R
    <3>1. CASE i = R
      <4>1. m + R = n + 1
        BY <1>1, <1>4
      <4> QED BY <1>1, <2>6, <2>7, <3>1, <4>1
    <3>2. CASE i # R
      <4>1. i \in 1 .. R - 1 /\ m + i \in 1 .. n
        BY <1>1, <1>4, <1>10, <3>2
      <4> QED BY <1>1, <2>5, <2>6, <2>7, <4>1
    <3> QED BY <3>1, <3>2
  <2>9. u = new
    BY <2>6, <2>7, <2>8, SeqEqual
  <2>10. Len(Latest(s)) >= RingSize
    BY <1>4, <2>2, <2>3 DEF R
  <2> QED BY <1>7, <2>2, <2>4, <2>9, <2>10 DEF Ring, u
<1> QED BY <1>1, <1>4, <1>9, <1>10

RecordedFields(c, d, log, cost) ==
    /\ d.total = c.total + 1
    /\ d.success = c.success + Plus(log.success) /\ d.failed = c.failed + Plus(~log.success)
    /\ d.exact = c.exact + Plus(log.cache = "exact")
    /\ d.semantic = c.semantic + Plus(log.cache = "semantic")
    /\ d.prompt = c.prompt + log.prompt /\ d.comp = c.comp + log.comp
    /\ d.incurred = c.incurred + IF log.cache = "none" THEN cost ELSE 0
    /\ d.recent = Ring(c.recent, log)

LEMMA RecordedIs ==
  ASSUME NEW c, NEW log, NEW cost
  PROVE  RecordedFields(c, Recorded(c, log, cost), log, cost)
BY DEF RecordedFields, Recorded

(* The collector's figures are those of the records.                       *)
Summed ==
    LET c == collector IN
    /\ logs \in Seq(Log)
    /\ c.total = Len(logs) /\ c.success + c.failed = c.total
    /\ c.success \in Nat /\ c.failed \in Nat /\ c.exact \in Nat /\ c.semantic \in Nat
    /\ c.exact + c.semantic <= c.total
    /\ c.recent = Latest(logs)
    /\ c.prompt = SumOf("prompt", logs) /\ c.comp = SumOf("comp", logs)
    /\ OnePrice => c.incurred = SumOf("incurred", logs)

(* The key has paid for all but the request that is settled and not yet    *)
(* charged.                                                                *)
Paid ==
    /\ spent \in Nat
    /\ SumOf("incurred", logs)
          = spent + IF phase \in {"settled", "charging"} THEN logs[Len(logs)].incurred ELSE 0

LEMMA RecordSums ==
  ASSUME Summed, NEW log \in Log, NEW cost, logs' = Append(logs, log),
         collector' = Recorded(collector, log, cost),
         OnePrice => (IF log.cache = "none" THEN cost ELSE 0) = log.incurred
  PROVE  Summed'
<1>1. RecordedFields(collector, collector', log, cost)
  BY RecordedIs
<1>2. /\ logs \in Seq(Log) /\ logs' \in Seq(Log) /\ Len(logs) \in Nat
      /\ Len(logs') = Len(logs) + 1
  BY LogsAppend DEF Summed
<1>3. \A field : SumOf(field, logs') = SumOf(field, logs) + log[field]
  BY <1>2, SumAppend
<1>4. Latest(logs') = Ring(Latest(logs), log)
  BY <1>2, RingKeeps
<1>5. PICK a, b, x, y \in Nat :
         /\ a + b = 1 /\ x + y <= 1
         /\ collector'.success = collector.success + a /\ collector'.failed = collector.failed + b
         /\ collector'.exact = collector.exact + x /\ collector'.semantic = collector.semantic + y
  <2>1. log.success \in BOOLEAN
    BY Zenon DEF Log
  <2>2. \E a, b \in Nat : a + b = 1 /\ collector'.success = collector.success + a
                                    /\ collector'.failed = collector.failed + b
    <3>1. CASE log.success
      <4>1. collector'.success = collector.success + 1 /\ collector'.failed = collector.failed + 0
        BY <1>1, <3>1, Zenon DEF RecordedFields, Plus
      <4> QED BY <4>1
    <3>2. CASE ~log.success
      <4>1. collector'.success = collector.success + 0 /\ collector'.failed = collector.failed + 1
        BY <1>1, <3>2, Zenon DEF RecordedFields, Plus
      <4> QED BY <4>1
    <3> QED BY <3>1, <3>2
  <2>3. \E x, y \in Nat : x + y <= 1 /\ collector'.exact = collector.exact + x
                                     /\ collector'.semantic = collector.semantic + y
    <3> DEFINE x == IF log.cache = "exact" THEN 1 ELSE 0
               y == IF log.cache = "semantic" THEN 1 ELSE 0
    <3>1. x \in Nat /\ y \in Nat /\ x + y <= 1
      OBVIOUS
    <3>2. collector'.exact = collector.exact + x /\ collector'.semantic = collector.semantic + y
      BY <1>1 DEF RecordedFields, Plus
    <3> QED BY <3>1, <3>2
  <2> QED BY <2>2, <2>3
<1>8. /\ collector'.total = Len(logs') /\ collector'.success + collector'.failed = collector'.total
      /\ collector'.success \in Nat /\ collector'.failed \in Nat
      /\ collector'.exact \in Nat /\ collector'.semantic \in Nat
      /\ collector'.exact + collector'.semantic <= collector'.total
  <2>1. collector'.total = collector.total + 1
    BY <1>1 DEF RecordedFields
  <2>2. collector.total = Len(logs) /\ collector.success + collector.failed = collector.total
        /\ collector.exact + collector.semantic <= collector.total
    BY DEF Summed
  <2>3. /\ collector.success \in Nat /\ collector.failed \in Nat
        /\ collector.exact \in Nat /\ collector.semantic \in Nat
    BY DEF Summed
  <2>4. a \in Nat /\ b \in Nat /\ x \in Nat /\ y \in Nat
    BY <1>5
  <2>5. /\ collector'.success = collector.success + a /\ collector'.failed = collector.failed + b
        /\ a + b = 1
    BY <1>5
  <2>6. /\ collector'.exact = collector.exact + x /\ collector'.semantic = collector.semantic + y
        /\ x + y <= 1
    BY <1>5
  <2>7. collector'.success \in Nat /\ collector'.failed \in Nat
    BY <2>3, <2>4, <2>5
  <2>8. collector'.exact \in Nat /\ collector'.semantic \in Nat
    BY <2>3, <2>4, <2>6
  <2>9. collector'.success + collector'.failed = (collector.success + collector.failed) + 1
    BY <2>3, <2>4, <2>5
  <2>10. collector'.exact + collector'.semantic <= (collector.exact + collector.semantic) + 1
    BY <2>3, <2>4, <2>6
  <2> QED BY <1>2, <2>1, <2>2, <2>3, <2>7, <2>8, <2>9, <2>10
<1>9. collector'.recent = Latest(logs')
  BY <1>1, <1>4 DEF RecordedFields, Summed
<1>10. /\ collector'.prompt = SumOf("prompt", logs') /\ collector'.comp = SumOf("comp", logs')
       /\ OnePrice => collector'.incurred = SumOf("incurred", logs')
  <2>1. /\ SumOf("prompt", logs') = SumOf("prompt", logs) + log.prompt
        /\ SumOf("comp", logs') = SumOf("comp", logs) + log.comp
        /\ SumOf("incurred", logs') = SumOf("incurred", logs) + log.incurred
    BY <1>3
  <2> QED BY <1>1, <2>1 DEF RecordedFields, Summed
<1> QED BY <1>2, <1>8, <1>9, <1>10 DEF Summed

LEMMA CostsOne ==
  ASSUME OnePrice, NEW m \in PricedModels, NEW p, NEW c, NEW x \in Costs(m, p, c),
         NEW y \in Costs(m, p, c)
  PROVE  x = y
<1>1. CASE Prices[m] = {}
  BY <1>1 DEF Costs
<1>2. CASE Prices[m] # {}
  <2>1. PICK q \in Prices[m] : x = p * q.input + c * q.output
    BY <1>2 DEF Costs
  <2>2. PICK r \in Prices[m] : y = p * r.input + c * r.output
    BY <1>2 DEF Costs
  <2>3. q = r
    BY DEF OnePrice
  <2> QED BY <2>1, <2>2, <2>3
<1> QED BY <1>1, <1>2

LEMMA NoCost ==
  ASSUME NEW m \in PricedModels, NEW x \in Costs(m, 0, 0)
  PROVE  x = 0
<1>1. Prices[m] \in SUBSET [input : Nat, output : Nat]
  BY PricesAssumption
<1>2. CASE Prices[m] # {}
  <2>1. PICK q \in Prices[m] : x = 0 * q.input + 0 * q.output
    BY <1>2 DEF Costs
  <2>2. q.input \in Nat /\ q.output \in Nat
    BY <1>1
  <2> QED BY <2>1, <2>2
<1> QED BY <1>2 DEF Costs

LEMMA BooksStep ==
  ASSUME IInv, Filed, Summed, Paid, [Next]_vars
  PROVE  Summed' /\ Paid'
<1>1. CASE Settle
  <2>1. PICK x \in Nat, y \in Nat :
           /\ x \in Costs(Target, tokens.prompt, tokens.comp)
           /\ y \in Costs(Target, tokens.prompt, tokens.comp)
           /\ Bill(x) \in Log /\ logs' = Append(logs, Bill(x))
           /\ collector' = Recorded(collector, Bill(x), y)
    BY <1>1, Settled
  <2>2. phase \in Calling /\ phase' \in {"settled", "charging"} /\ UNCHANGED spent
        /\ phase \notin {"settled", "charging"}
    BY <1>1 DEF Settle, Settles, Calling
  <2>3. OnePrice => y = x
    BY <2>1, <2>2, CostsOne, TargetPriced
  <2>4. Bill(x).cache = "none" /\ Bill(x).incurred = x
    BY BillFields
  <2>5. Summed'
    BY <2>1, <2>3, <2>4, RecordSums
  <2>6. logs'[Len(logs')] = Bill(x) /\ SumOf("incurred", logs') = SumOf("incurred", logs) + x
    <3>1. SumOf("incurred", logs') = SumOf("incurred", logs) + Bill(x)["incurred"]
      BY <2>1, SumAppend DEF Summed
    <3>2. logs'[Len(logs')] = Bill(x)
      BY <2>1, LogsAppend DEF Summed
    <3> QED BY <2>4, <3>1, <3>2
  <2>7. Paid'
    BY <2>1, <2>2, <2>4, <2>6 DEF Paid
  <2> QED BY <2>5, <2>7
<1>2. ASSUME NEW log \in Chats, Chat(log) PROVE Summed' /\ Paid'
  <2>1. /\ log \in Log /\ log.incurred = 0
        /\ ~log.success => log.cache = "none" /\ log.prompt = 0 /\ log.comp = 0
        /\ log.success => log.cache # "none"
    BY ChatsGood
  <2>2. PICK cost \in Costs(log.model, log.prompt, log.comp) :
           logs' = Append(logs, log) /\ collector' = Recorded(collector, log, cost)
    BY <1>2 DEF Chat, RecordRequest
  <2>3. phase = "idle" /\ phase' = "idle" /\ UNCHANGED spent
    BY <1>2 DEF Chat, request
  <2>4. (IF log.cache = "none" THEN cost ELSE 0) = log.incurred
    <3>1. log.model \in PricedModels
      BY <2>1 DEF Log
    <3>2. log.cache = "none" => cost = 0
      BY <2>1, <2>2, <3>1, NoCost
    <3> QED BY <2>1, <3>2
  <2>5. Summed'
    BY <2>1, <2>2, <2>4, RecordSums
  <2>6. SumOf("incurred", logs') = SumOf("incurred", logs)
    <3>1. SumOf("incurred", logs') = SumOf("incurred", logs) + log["incurred"]
      BY <2>1, <2>2, SumAppend DEF Summed
    <3>2. SumOf("incurred", logs) = spent + 0 /\ spent \in Nat
      BY <2>3 DEF Paid
    <3> QED BY <2>1, <3>1, <3>2
  <2> QED BY <2>3, <2>5, <2>6 DEF Paid
<1>3. CASE Charge
  <2>1. UNCHANGED <<logs, collector>> /\ phase' = "done"
    BY <1>3 DEF Charge
  <2>2. CASE phase \in {"settled", "charging"} /\ spent' = spent + Last(logs).incurred
    <3>1. logs \in Seq(Log) /\ logs # <<>>
      BY <2>2 DEF Filed
    <3>2. Last(logs) = logs[Len(logs)] /\ logs[Len(logs)].incurred \in Nat
      <4>1. logs[Len(logs)] \in Log
        BY <3>1, LenProperties, ElementOfSeq
      <4> QED BY <4>1 DEF Last, Log
    <3> QED BY <2>1, <2>2, <3>2 DEF Summed, Paid
  <2>3. CASE phase = "broken" /\ UNCHANGED spent
    BY <2>1, <2>3 DEF Summed, Paid
  <2> QED BY <1>3, <2>2, <2>3 DEF Charge
<1>4. ASSUME UNCHANGED <<logs, collector, spent>>,
             phase' \in {"settled", "charging"} <=> phase \in {"settled", "charging"}
      PROVE  Summed' /\ Paid'
  BY <1>4 DEF Summed, Paid
<1>5. CASE Reply \/ FindNext \/ EndOfBody
  <2>1. UNCHANGED <<logs, collector, spent>> /\ phase \notin {"settled", "charging"}
        /\ phase' \notin {"settled", "charging"}
    BY <1>5, Zenon DEF Reply, FindNext, EndOfBody
  <2> QED BY <1>4, <2>1
<1>6. CASE Leave \/ UNCHANGED vars
  BY <1>4, <1>6 DEF Leave, vars, request
<1>7. ASSUME NEW m \in Models, NEW text \in BOOLEAN, Accept(m, text) PROVE Summed' /\ Paid'
  BY <1>4, <1>7 DEF Accept
<1>8. ASSUME NEW m, Receive(m) PROVE Summed' /\ Paid'
  BY <1>4, <1>8 DEF Receive, Then
<1>9. ASSUME NEW error, NEW api, Fail(error, api) PROVE Summed' /\ Paid'
  BY <1>4, <1>9 DEF Fail
<1> QED BY <1>1, <1>2, <1>3, <1>5, <1>6, <1>7, <1>8, <1>9 DEF Next

LEMMA BooksHold == Spec => [](IInv /\ Filed /\ Summed /\ Paid)
<1>1. Init => Filed /\ Summed /\ Paid
  <2> SUFFICES ASSUME Init PROVE Filed /\ Summed /\ Paid
    OBVIOUS
  <2>1. logs = <<>> /\ phase = "idle" /\ collector = NewCollector /\ spent = 0
    BY DEF Init, InitMetrics
  <2>2. <<>> \in Seq(Log) /\ Len(<<>>) = 0
    OBVIOUS
  <2>3. Latest(<<>>) = <<>>
    <3>1. RingSize \in Nat /\ RingSize > 0 /\ 0 \in Nat
      BY RingAssumption
    <3>2. Low(0) = 1
      BY <3>1, LowEnd
    <3> QED BY <2>2, <3>2, SubSeqEmpty DEF Latest
  <2>4. /\ collector.total = 0 /\ collector.success = 0 /\ collector.failed = 0
        /\ collector.exact = 0 /\ collector.semantic = 0 /\ collector.prompt = 0
        /\ collector.comp = 0 /\ collector.incurred = 0 /\ collector.recent = <<>>
    BY <2>1 DEF NewCollector
  <2>5. \A field : SumOf(field, logs) = 0
    BY <2>1, SumEmpty
  <2> QED BY <2>1, <2>2, <2>3, <2>4, <2>5 DEF Filed, Summed, Paid
<1> QED BY <1>1, InitIInv, NextIInv, FiledStep, BooksStep, PTL DEF Spec

(* The collector's totals are the sums of all records, whatever is         *)
(* streamed, broken off, failed or answered by a cache, and the keys are   *)
(* charged exactly what the records say.                                   *)
THEOREM BooksBalance == Spec => []Books
<1>1. Filed /\ Summed /\ Paid => Books
  <2> SUFFICES ASSUME Filed, Summed, Paid PROVE Books
    OBVIOUS
  <2>1. \A field : Total(field) = SumOf(field, logs)
    BY DEF Total, SumOf
  <2>2. Last(logs) = logs[Len(logs)]
    BY DEF Last
  <2>3. HitRatio(collector) \in 0 .. 100
    <3>1. collector.total \in Nat /\ collector.exact + collector.semantic \in Nat
          /\ collector.exact + collector.semantic <= collector.total
      BY LenProperties DEF Summed
    <3>2. CASE collector.total = 0
      BY <3>2 DEF HitRatio
    <3>3. CASE collector.total # 0
      <4>1. ((collector.exact + collector.semantic) * 100) \div collector.total \in 0 .. 100
        <5>1. PICK a \in Nat, t \in Nat :
                 a = collector.exact + collector.semantic /\ t = collector.total
          BY <3>1
        <5>2. t > 0 /\ a <= t
          BY <3>1, <3>3, <5>1
        <5>3. (a * 100) \div t \in 0 .. 100
          BY <5>2, Percent
        <5> QED BY <5>1, <5>3
      <4> QED BY <3>3, <4>1 DEF HitRatio
    <3> QED BY <3>2, <3>3
  <2>4. collector.recent = SubSeq(logs, Max({1, Len(logs) - RingSize + 1}), Len(logs))
    BY DEF Summed, Latest, Low
  <2> QED BY <2>1, <2>2, <2>3, <2>4 DEF Books, Summed, Paid
<1> QED BY <1>1, BooksHold, PTL
=============================================================================
