---------------------------- MODULE Conversation ----------------------------
(***************************************************************************)
(* What the gateway makes of a conversation on its way to a provider and   *)
(* of the reply on its way back: the sliding window of engine/compress.go  *)
(* and the transformations of the Anthropic, Gemini and Ollama providers.  *)
(* A client keeps the conversation and sends all of it with every request; *)
(* it may say anything in any order. A text is named by the position of    *)
(* its message, and 0 is no text; a call of a tool has an id and a name,   *)
(* the function's. Sampling settings, declarations of tools, finish        *)
(* reasons and token counts are left out, and so is what only a client     *)
(* that breaks the protocol of OpenAI sends: a result without an id, for   *)
(* which the code puts "call_default" or "function", a call without one,   *)
(* which is given one at random, and the older function_call.              *)
(***************************************************************************)
EXTENDS Integers, SequencesExt, Lists

CONSTANTS
    Calls,       \* the ids of tool calls
    NameOf,      \* the function that each calls
    NoCall,      \* a message that answers no call, a block that is no call
    MaxMessages  \* bound on the length of a conversation

ASSUME ConversationAssumption == MaxMessages \in Nat /\ NoCall \notin Calls
                                 /\ DOMAIN NameOf = Calls

VARIABLE messages

Providers == {"anthropic", "gemini", "ollama"}

(* A message has a role, a text, the ids of the tools it calls, if it is   *)
(* an assistant's, and the call it answers, if it is a tool's, which may   *)
(* be named: it then says the name of the function too.                    *)
Roles == {"system", "user", "assistant", "tool", "developer"}

Part(kind, text, call) == [kind |-> kind, text |-> text, call |-> call]
Text(n)      == Part("text", n, NoCall)
BlankText    == Part("blank", 0, NoCall)
Call(c)      == Part("call", 0, c)
Result(c, n) == Part("result", n, c)

Turn(role, parts) == [role |-> role, parts |-> parts]

TextOf(m)  == IF m.text = 0 THEN <<>> ELSE <<Text(m.text)>>
IdsOf(m)   == [i \in DOMAIN m.calls |-> Call(m.calls[i])]
NamesOf(m) == [i \in DOMAIN m.calls |-> Call(NameOf[m.calls[i]])]

-----------------------------------------------------------------------------
(* The window, for a bound that is configured (FitContextWindow).          *)

(* Mutant: the system message does not count.                              *)
Window_Longer(ms, n) ==
    IF n <= 0 \/ Len(ms) <= n THEN ms
    ELSE IF ms[1].role = "system"
         THEN LET rest == Tail(ms) IN
              <<ms[1]>> \o SubSeq(rest, Max({1, Len(rest) - n + 1}), Len(rest))
         ELSE SubSeq(ms, Len(ms) - n + 1, Len(ms))

Window(ms, n) ==
    IF n <= 0 \/ Len(ms) <= n THEN ms
    ELSE IF ms[1].role = "system"
         THEN LET rest == Tail(ms) IN
              <<ms[1]>> \o SubSeq(rest, Len(rest) - (n - 1) + 1, Len(rest))
         ELSE SubSeq(ms, Len(ms) - n + 1, Len(ms))

-----------------------------------------------------------------------------
(* Anthropic and Gemini: system messages apart, and one turn for the       *)
(* messages of a role that follow each other.                              *)

System(ms) == LET s == Kept(ms, LAMBDA m : m.role = "system")
              IN  [i \in DOMAIN s |-> s[i].text]

Others(ms) == Kept(ms, LAMBDA m : m.role # "system")

(* A turn must not be empty: it is given a blank.                          *)
OrBlank(parts) == IF parts = <<>> THEN <<BlankText>> ELSE parts

AnthropicTurn(m) ==
    CASE m.role = "tool" -> Turn("user", <<Result(m.answers, m.text)>>)
      [] m.role = "assistant" /\ m.calls # <<>> ->
            Turn("assistant", TextOf(m) \o IdsOf(m))
      [] m.role = "assistant" /\ m.calls = <<>> -> Turn("assistant", OrBlank(TextOf(m)))
      [] m.role \in {"user", "developer"} -> Turn("user", OrBlank(TextOf(m)))

(* Gemini knows calls by name: a result that has none goes by its id.      *)
ResultName(m) == IF m.named THEN NameOf[m.answers] ELSE m.answers

(* Mutant: the calls replace the text.                                     *)
GeminiTurn_CallsOnly(m) ==
    CASE m.role = "tool" -> Turn("function", <<Result(ResultName(m), m.text)>>)
      [] m.role = "assistant" ->
            Turn("model", IF m.calls = <<>> THEN OrBlank(TextOf(m)) ELSE NamesOf(m))
      [] m.role \in {"user", "developer"} -> Turn("user", OrBlank(TextOf(m)))

GeminiTurn(m) ==
    CASE m.role = "tool" -> Turn("function", <<Result(ResultName(m), m.text)>>)
      [] m.role = "assistant" -> Turn("model", OrBlank(TextOf(m) \o NamesOf(m)))
      [] m.role \in {"user", "developer"} -> Turn("user", OrBlank(TextOf(m)))

AddTurn(turns, t) ==
    IF turns # <<>> /\ Last(turns).role = t.role
    THEN [turns EXCEPT ![Len(turns)].parts = Last(turns).parts \o t.parts]
    ELSE Append(turns, t)

(* Mutants: of two turns the later one stays; only pairs are merged.       *)
Merge_Later(turns) ==
    FoldLeft(LAMBDA ts, t : IF ts # <<>> /\ Last(ts).role = t.role
                            THEN Append(Front(ts), t) ELSE Append(ts, t),
             <<>>, turns)
Merge_Not(turns) == turns

Merge(turns) == FoldLeft(AddTurn, <<>>, turns)

(* The first turn, once they are merged, is made the user's.               *)
Relabelled(turns, allowed) ==
    IF turns # <<>> /\ turns[1].role \notin allowed
    THEN [turns EXCEPT ![1].role = "user"] ELSE turns

(* Mutant: the first turn is made the user's before they are merged.       *)
AnthropicTurns_RelabelFirst(ms) ==
    LET raw == Others(ms)
    IN  Merge(Relabelled([i \in DOMAIN raw |-> AnthropicTurn(raw[i])], {"user"}))

AnthropicTurns(ms) ==
    LET raw == Others(ms)
    IN  Relabelled(Merge([i \in DOMAIN raw |-> AnthropicTurn(raw[i])]), {"user"})

GeminiTurns(ms) ==
    LET raw == Others(ms)
    IN  Relabelled(Merge([i \in DOMAIN raw |-> GeminiTurn(raw[i])]), {"user", "function"})

(* Ollama is sent every message, but only its role and its text.           *)
OllamaTurns(ms) == [i \in DOMAIN ms |-> Turn(ms[i].role, TextOf(ms[i]))]

Turns(p, ms) == CASE p = "anthropic" -> AnthropicTurns(ms)
                  [] p = "gemini" -> GeminiTurns(ms)
                  [] p = "ollama" -> OllamaTurns(ms)

-----------------------------------------------------------------------------
(* The reply.                                                              *)

(* What a model replies: blocks in any order, here up to two.              *)
Blocks == UNION {[1 .. n -> {Text(MaxMessages)} \cup {Call(c) : c \in Calls}] : n \in 1 .. 2}

CallsIn(blocks) == Kept(blocks, LAMBDA b : b.kind = "call")
HasText(blocks) == \E i \in DOMAIN blocks : blocks[i].kind = "text"

Assistant(text, calls) == [role |-> "assistant", text |-> text, calls |-> calls,
                           answers |-> NoCall, named |-> FALSE]

IdsIn(blocks) == LET calls == CallsIn(blocks) IN [i \in DOMAIN calls |-> calls[i].call]

(* Mutant: a reply that calls tools has no content.                        *)
AnthropicResponse_CallsOnly(blocks, n) ==
    Assistant(IF CallsIn(blocks) = <<>> THEN n ELSE 0, IdsIn(blocks))

(* Texts are joined into the content, and calls keep their order and ids.  *)
AnthropicResponse(blocks, n) ==
    Assistant(IF HasText(blocks) THEN n ELSE 0, IdsIn(blocks))

(* Gemini's calls have a name and no id, and are given one: here one of    *)
(* the calls of that name.                                                 *)
GeminiResponse(blocks, n) ==
    LET names == IdsIn(blocks)
    IN  Assistant(IF HasText(blocks) THEN n ELSE 0,
                  [i \in DOMAIN names |-> CHOOSE c \in Calls : NameOf[c] = names[i]])

ConvInit == messages = <<>>

Number == Len(messages) + 1

(* The client puts a message in, of its own or of another conversation.    *)
(* Only messages of users and assistants may have no text here, and calls  *)
(* and results always have an id.                                          *)
Say(role, text, calls, answers, named) ==
    /\ Len(messages) < MaxMessages
    /\ calls # <<>> => role = "assistant"
    /\ role = "tool" <=> answers # NoCall
    /\ named => role = "tool"
    /\ text \/ role \in {"user", "assistant"}
    /\ messages' = Append(messages, [role |-> role, text |-> IF text THEN Number ELSE 0,
                                     calls |-> calls, answers |-> answers,
                                     named |-> named])

ByName(blocks) == [i \in DOMAIN blocks |->
    IF blocks[i].kind = "call" THEN Call(NameOf[blocks[i].call]) ELSE blocks[i]]

(* It asks, and puts in what it is answered.                               *)
Reply(p, blocks) ==
    /\ messages # <<>>
    /\ Len(messages) < MaxMessages
    /\ messages' = Append(messages, IF p = "gemini" THEN GeminiResponse(ByName(blocks), Number)
                                    ELSE AnthropicResponse(blocks, Number))

ConvNext ==
    \/ \E role \in Roles, text \in BOOLEAN, calls \in {<<>>} \cup {<<c>> : c \in Calls},
          answers \in Calls \cup {NoCall}, named \in BOOLEAN :
             Say(role, text, calls, answers, named)
    \/ \E p \in {"anthropic", "gemini"}, blocks \in Blocks : Reply(p, blocks)

ConvSpec == ConvInit /\ [][ConvNext]_messages

-----------------------------------------------------------------------------
(* Properties.                                                             *)

Windows == {Window(messages, n) : n \in 0 .. MaxMessages}

Said(p, m) == CASE p = "ollama" -> TextOf(m)
                [] p # "ollama" /\ m.role = "system" -> <<>>
                [] p = "anthropic" /\ m.role = "tool" -> <<Result(m.answers, m.text)>>
                [] p = "gemini" /\ m.role = "tool" -> <<Result(ResultName(m), m.text)>>
                [] p = "anthropic" /\ m.role \notin {"system", "tool"} ->
                      TextOf(m) \o IdsOf(m)
                [] p = "gemini" /\ m.role \notin {"system", "tool"} ->
                      TextOf(m) \o NamesOf(m)

Parts(turns)  == FlattenSeq([i \in DOMAIN turns |-> turns[i].parts])
Spoken(parts) == Kept(parts, LAMBDA part : part # BlankText)

(* Whatever is merged, relabelled or set apart, each provider is told all  *)
(* of the messages in the window, each text, call and result once and in   *)
(* order, and the system's texts apart; Ollama only the texts.             *)
NothingLost ==
    \A p \in Providers, ms \in Windows :
        /\ Spoken(Parts(Turns(p, ms))) = FlattenSeq([i \in DOMAIN ms |-> Said(p, ms[i])])
        /\ \A i \in DOMAIN ms : ms[i].role = "system"
              => \E j \in DOMAIN System(ms) : System(ms)[j] = ms[i].text

(* Behind the first turn no two turns of the same role follow each other,  *)
(* none is empty, and the first one is one the provider may begin with.    *)
RolesAlternate ==
    \A p \in {"anthropic", "gemini"}, ms \in Windows :
        LET turns == Turns(p, ms) IN
        /\ \A i \in 2 .. Len(turns) - 1 : turns[i].role # turns[i + 1].role
        /\ \A i \in DOMAIN turns : turns[i].parts # <<>>
        /\ turns # <<>> => turns[1].role \in {"user", "function"}

(* The window keeps the bound, the system message in front and the latest  *)
(* messages, with no gap between them.                                     *)
WindowKeeps ==
    \A n \in 1 .. MaxMessages :
        LET ms   == Window(messages, n)
            kept == IF messages # <<>> /\ messages[1].role = "system" THEN 1 ELSE 0
        IN  /\ Len(ms) = Min({n, Len(messages)})
            /\ SubSeq(ms, 1, kept) = SubSeq(messages, 1, kept)
            /\ IsSuffix(SubSeq(ms, kept + 1, Len(ms)), messages)

(* A client that answers every call right away.                            *)
Orderly(ms) ==
    \A i \in DOMAIN ms : ms[i].role = "tool" =>
        \E j \in 1 .. i - 1 :
            /\ Contains(ms[j].calls, ms[i].answers)
            /\ \A k \in j + 1 .. i - 1 : ms[k].role \in {"tool", "system"}

(* A turn asks for a result that is said to be of x. Anthropic knows calls *)
(* by their ids and Gemini by their functions; to Gemini a result that the *)
(* client does not name goes by its id.                                    *)
Asks(p, turn, x) ==
    \E part \in ToSet(turn.parts) :
       /\ part.kind = "call"
       /\ \/ part.call = x
          \/ p = "gemini" /\ x \in Calls /\ part.call = NameOf[x]

(* The results of such a client come where a provider looks for them: in   *)
(* the turn right behind the model's turn with the call, however many      *)
(* results and system messages come between and whatever the window cuts.  *)
(* Two things may be lost, both in front only: the window (compress.go:28) *)
(* may cut a call and keep its results, which then are in the first turn,  *)
(* with no call before them; and a call in the first turn is no longer the *)
(* model's, since that turn is made the user's.                            *)
ResultsFollowCalls ==
    Orderly(messages) =>
        \A p \in {"anthropic", "gemini"}, ms \in Windows :
            LET turns == Turns(p, ms) IN
            \A k \in DOMAIN turns : \A part \in ToSet(turns[k].parts) :
                part.kind = "result" =>
                    \/ k = 1 /\ ms # messages
                    \/ /\ k > 1 /\ Asks(p, turns[k - 1], part.call)
                       /\ k > 2 => turns[k - 1].role \in {"assistant", "model"}

(* A model reads in the next request what it replied: its text, then its   *)
(* calls in order, at the end of the last turn.                            *)
EchoesReply ==
    [][\A blocks \in Blocks, ms \in {messages'} :
         LET text == IF HasText(blocks) THEN <<Text(Len(ms))>> ELSE <<>> IN
         /\ Reply("anthropic", blocks) =>
               IsSuffix(text \o CallsIn(blocks), Last(AnthropicTurns(ms)).parts)
         /\ Reply("gemini", blocks) =>
               IsSuffix(text \o CallsIn(ByName(blocks)), Last(GeminiTurns(ms)).parts)
      ]_messages
=============================================================================
