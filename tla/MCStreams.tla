----------------------------- MODULE MCStreams -----------------------------
(***************************************************************************)
(* Streams for TLC: a model at every kind of provider and one that nobody  *)
(* serves; each provider is also one to fall back to. A prompt token costs *)
(* one unit and one of the completion ten; the mock's model has no price.  *)
(***************************************************************************)
EXTENDS Streams

MCServes == [m \in Models |-> IF m \in Protocols THEN m ELSE None]

MCChain == [m \in Models |-> CASE m = "anthropic" -> <<"gemini">>
                               [] m = "gemini" -> <<"openai", "lost">>
                               [] m = "openai" -> <<"lost", "ollama">>
                               [] m = "ollama" -> <<"mock">>
                               [] m = "mock" -> <<"anthropic">>
                               [] m = "lost" -> <<"anthropic">>]

MCPrices == [m \in Models |->
    IF m = "mock" THEN {} ELSE {[input |-> 1, output |-> 10]}]
=============================================================================
