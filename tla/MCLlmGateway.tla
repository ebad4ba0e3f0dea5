------------------------------ MODULE MCLlmGateway ------------------------------
(* Small instances of LlmGateway for TLC. *)
EXTENDS LlmGateway

CONSTANTS p1, p2, c1, c2, c3, groq, ollama, openai

\* Two calls share a process, a third runs in the other one.
TwoAndOne == [c \in Calls |-> IF c = c3 THEN p2 ELSE p1]

\* The default chain starts on the free tier, the production chain falls back to it.
FreeFirst == <<groq, ollama>>
FreeBetween == <<ollama, groq, openai>>
=============================================================================
