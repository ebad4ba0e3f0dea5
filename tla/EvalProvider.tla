---------------------------- MODULE EvalProvider ----------------------------
(***************************************************************************)
(* The embedding provider of a live evaluation: which candidate may be built   *)
(* and what becomes of one call (embeddings/config.py, embeddings/provider.py,  *)
(* embeddings/validation.py and the adapters of embeddings/providers).         *)
(*                                                                           *)
(* A text is known by its id.  A vector is the text it was made from, a point   *)
(* that stands for its direction, and what is wrong with it.                   *)
(***************************************************************************)
EXTENDS Integers, Sequences, FiniteSets, SequencesExt

CONSTANTS
    Points,         \* directions of a vector
    MaxRetries,     \* bounds.max_transport_retries
    MaxProviderFaults   \* bound: answers that are wrong and requests that fail

ASSUME ProviderAssumption ==
    /\ Points # {}
    /\ MaxRetries \in {0, 1}        \* what EmbeddingLimits admits
    /\ MaxProviderFaults \in Nat

VARIABLES
    call,           \* the call of embed in progress
    stuck,          \* the local model has exceeded its timeout
    posts,          \* history: requests sent to the provider's service
    faults          \* history: answers that were wrong and requests that failed

providerVars == <<call, stuck, posts, faults>>

NoCall == [phase |-> "idle", texts |-> <<>>, attempts |-> 0, vectors |-> <<>>, code |-> "none"]

ProviderInit == call = NoCall /\ stuck = FALSE /\ posts = 0 /\ faults = 0

-----------------------------------------------------------------------------
(* Which candidate is built.  A local model has no allowlist and no           *)
(* credential; its name, its dimension and the digest of its files are fixed.  *)

\* parse_allowlist: one entry that is malformed, unknown or repeated rejects them all.
AllowlistIsValid(allowlist) ==
    /\ allowlist # <<>> /\ IsInjective(allowlist)
    /\ \A i \in DOMAIN allowlist : allowlist[i][1] \in {"gemini", "groq"}

MayUse(allowlist, keys, candidate) ==
    /\ AllowlistIsValid(allowlist)
    /\ \E i \in DOMAIN allowlist : allowlist[i] = candidate
    /\ candidate[1] \in keys

LocalModelIsPinned(local) == local.model = "e5" /\ local.dimension = "e5" /\ local.digest = "matches"

-----------------------------------------------------------------------------
(* One call.                                                                *)

Fail(code) == call' = [call EXCEPT !.phase = "failed", !.code = code]

InputsAreValid(texts, lengths, limits) ==
    /\ Len(texts) \in 1 .. limits.batch
    /\ \A i \in DOMAIN texts : lengths[texts[i]] \in 1 .. limits.chars

\* How the call of an adapter begins: validate_inputs, and a stuck model refuses; the
\* runner stops at its first failed call and never comes to that.
Embed(adapter, texts, lengths, limits) ==
    /\ call.phase = "idle"
    /\ call' = IF ~InputsAreValid(texts, lengths, limits)
               THEN [NoCall EXCEPT !.phase = "failed", !.code = "invalid_input"]
               ELSE IF adapter = "local_e5" /\ stuck
               THEN [NoCall EXCEPT !.phase = "failed", !.code = "provider_request_failed"]
               ELSE [NoCall EXCEPT !.texts = texts,
                        !.phase = IF adapter = "local_e5" THEN "encoding" ELSE "posting"]
    /\ UNCHANGED <<stuck, posts, faults>>

VectorsAreValid(vectors, count) ==
    /\ Len(vectors) = count
    /\ \A i \in DOMAIN vectors : vectors[i].kind \notin {"short", "notFinite"}

\* The runner catches a malformed answer; a zero vector is not malformed.
Received(vectors) ==
    IF VectorsAreValid(vectors, Len(call.texts))
    THEN call' = [call EXCEPT !.phase = "answered", !.attempts = @ + 1, !.vectors = vectors]
    ELSE Fail("malformed_response")

Vector(text, point) == [of |-> text, point |-> point, kind |-> "ok"]

\* What a service or a model makes of the texts, in their order.
Answers(texts) ==
    {[i \in DOMAIN texts |-> Vector(texts[i], points[i])] : points \in [DOMAIN texts -> Points]}

WrongAnswers(texts) ==
    LET right == [i \in DOMAIN texts |-> Vector(texts[i], CHOOSE p \in Points : TRUE)]
    IN {Front(right), Append(right, Last(right))}
         \union {[right EXCEPT ![1].kind = k] : k \in {"short", "notFinite", "zero"}}

Answer ==
    /\ call.phase \in {"posting", "encoding"}
    /\ posts' = posts + IF call.phase = "posting" THEN 1 ELSE 0
    /\ \/ /\ \E vectors \in Answers(call.texts) : Received(vectors)
          /\ UNCHANGED faults
       \/ /\ faults < MaxProviderFaults /\ faults' = faults + 1
          /\ \E vectors \in WrongAnswers(call.texts) : Received(vectors)
    /\ UNCHANGED stuck

\* An error status or a transport failure, a timeout included.
RetryPost(retryable) ==
    IF ~retryable \/ call.attempts + 1 > MaxRetries
    THEN Fail("provider_request_failed")
    ELSE call' = [call EXCEPT !.attempts = @ + 1]

PostFails(retryable) ==
    /\ call.phase = "posting"
    /\ faults < MaxProviderFaults /\ faults' = faults + 1
    /\ posts' = posts + 1
    /\ RetryPost(retryable)
    /\ UNCHANGED stuck

\* A local inference that fails, or that its caller stops waiting for.
EncodeFails(timeout) ==
    /\ call.phase = "encoding"
    /\ faults < MaxProviderFaults /\ faults' = faults + 1
    /\ stuck' = timeout
    /\ Fail("provider_request_failed")
    /\ UNCHANGED posts

ProviderStep ==
    \/ Answer
    \/ \E retryable \in BOOLEAN : PostFails(retryable)
    \/ \E timeout \in BOOLEAN : EncodeFails(timeout)
=============================================================================
