---------------------------- MODULE LLMProviders ----------------------------
(***************************************************************************)
(* The LLM providers (llm/providers.py): what one call of extract can come  *)
(* to.  A response with status 429 or 5xx raises a retryable LLMError, one  *)
(* with another 4xx, and a call without a key, a final one.  Whatever else  *)
(* raises, a connection error, a timeout or a reply without valid JSON in   *)
(* the expected place, is no LLMError, and without the attribute retryable  *)
(* it is final.  The mock provider makes up a payload and never raises.     *)
(***************************************************************************)
EXTENDS Integers, Sequences

\* What json.loads makes of the model's text: a dictionary, which may be empty,
\* or an array.  The OpenAI-style interfaces are asked for a json_object.
Payload == {"payload", "empty", "array"}
JsonObject == Payload \ {"array"}

Error == {"retryable", "final"}
Answered == 200
RateLimited == 429

\* What a response with this status comes to, its body being one of bodies.
OfStatus(status, bodies) ==
  IF status = RateLimited \/ status >= 500 THEN {"retryable"}
  ELSE IF status >= 400 THEN {"final"}
  ELSE bodies \cup {"final"}
Status == {Answered, 400, 401, RateLimited, 500, 503}

Call(key, bodies) ==
  IF key THEN UNION {OfStatus(status, bodies) : status \in Status} ELSE {"final"}

\* key says whether an API key is configured.
GeminiFlashProvider(key) ==
  [name |-> "gemini", tier |-> 1, replies |-> Call(key, Payload)]
GroqLlamaProvider(key) ==
  [name |-> "groq", tier |-> 2, replies |-> Call(key, JsonObject)]
GroqFallbackProvider(key) ==
  [name |-> "groq_fallback", tier |-> 3, replies |-> Call(key, JsonObject)]
DeepSeekProvider(key) ==
  [name |-> "deepseek", tier |-> 3, replies |-> Call(key, JsonObject)]
MockLLMProvider ==
  [name |-> "mock", tier |-> 4, replies |-> {"payload"}]

LLMProvider == [name : {"gemini", "groq", "groq_fallback", "deepseek", "mock"},
                tier : 1..4, replies : SUBSET (Payload \cup Error)]
Answers(provider) == provider.replies \cap Payload
Errors(provider) == provider.replies \cap Error

\* The chain that the command line builds: the providers that have a key, in
\* order, and the mock.
CliChain(gemini, groq, groq2) ==
  (IF gemini THEN <<GeminiFlashProvider(TRUE)>> ELSE <<>>)
  \o (IF groq THEN <<GroqLlamaProvider(TRUE)>> ELSE <<>>)
  \o (IF groq2 THEN <<GroqFallbackProvider(TRUE)>> ELSE <<>>)
  \o <<MockLLMProvider>>
=============================================================================
