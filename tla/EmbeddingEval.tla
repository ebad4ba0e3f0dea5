---------------------------- MODULE EmbeddingEval ----------------------------
(***************************************************************************)
(* One run of the embedding evaluation gate (evals/run_embedding_eval.py): the  *)
(* refusals, the checks of the locked fixture, the budget, the repeated         *)
(* embedding of every record and query in batches, the ranking and the gates,   *)
(* and the exit code a release decision reads.                                 *)
(*                                                                           *)
(* A record or a query has an id, which stands for its text, and a length.      *)
(* Means are compared as sums of fractions of Scale; nDCG, whose terms are      *)
(* logarithms, is left out of the gates, and so are latencies.                 *)
(***************************************************************************)
EXTENDS EvalProvider, Sorting

CONSTANTS
    Requests,       \* command lines and environments
    Fixtures,       \* what the fixture file may hold
    Thresholds,     \* embedding_thresholds.yaml
    TopK,           \* K
    FakePoint       \* the point the hash of a text stands for

ASSUME EvalAssumption ==
    /\ TopK \in Nat \ {0}
    /\ Thresholds.batch \in Nat \ {0} /\ Thresholds.requests \in Nat /\ Thresholds.cost \in Nat
    /\ Thresholds.agreement \in Int /\ Thresholds.cohortRecall \in Int
    /\ \A cohort \in {"en", "ur"} : Thresholds.queriesPerCohort[cohort] > 0
    /\ \A r \in Requests : r.batch \in Int /\ r.repeats \in Int /\ r.requests \in Int
                            /\ r.cost \in Int /\ r.price \in Int
    /\ \A f \in Fixtures :
            /\ f.records \in Seq(Range(f.records)) /\ f.queries \in Seq(Range(f.queries))
            /\ \A text \in Range(f.records) \union Range(f.queries) :
                    text.length \in Nat /\ FakePoint[text.id] \in Points

VARIABLES
    stage,          \* "ready", "embedding", "judging" or "over"
    request, fixture,
    pending,        \* chunks of this repeat that are still to be embedded
    got,            \* vectors of this repeat, in the order of the texts
    kept,           \* the vectors of the repeats that were valid: [records, queries]
    meter,          \* [requests, chars, retries, countOk]
    rates,          \* [finite, dimension], FALSE once a vector was not
    verdict         \* [outcome, code, failed, exit]

runnerVars == <<stage, request, fixture, pending, got, kept, meter, rates, verdict>>
evalVars == <<providerVars, runnerVars>>

Cohorts == {"en", "ur"}
Scale == 2520       \* every number up to 10 divides it

NoFixture == [found |-> FALSE, locked |-> FALSE, records |-> <<>>, queries |-> <<>>]
NoVerdict == [outcome |-> "none", code |-> "none", failed |-> {}, exit |-> 99]
NewMeter == [requests |-> 0, chars |-> 0, retries |-> 0, countOk |-> TRUE]

EvalInit ==
    /\ ProviderInit
    /\ stage = "ready" /\ request \in Requests /\ fixture \in Fixtures
    /\ pending = <<>> /\ got = <<>> /\ kept = <<>>
    /\ meter = NewMeter /\ rates = [finite |-> TRUE, dimension |-> TRUE]
    /\ verdict = NoVerdict

Live == request.mode = "live"
Local == Live /\ request.candidate[1] = "local_e5"

\* The sums of the first of some numbers, and of all of them.
SumsOf(numbers) ==
    LET upTo[n \in 0 .. Len(numbers)] == IF n = 0 THEN 0 ELSE upTo[n - 1] + numbers[n]
    IN upTo

Total(numbers) == SumsOf(numbers)[Len(numbers)]

\* What a list holds at some of its places, in the order of the list.
Entries(list, places) ==
    [n \in 1 .. Cardinality(places) |-> list[Sorted(places, <)[n]]]

-----------------------------------------------------------------------------
(* The command line.                                                        *)

LiveFlags == {"provider", "dimension", "batch", "repeats", "requests", "cost", "price"}

\* A local model is free and of a fixed dimension: those flags have defaults.
Given == request.given \union IF Local THEN {"dimension", "cost", "price"} ELSE {}

InBounds ==
    /\ request.batch \in 1 .. Thresholds.batch
    /\ request.repeats \in 2 .. Thresholds.repeats
    /\ request.requests \in 1 .. Thresholds.requests
    /\ request.cost \in 1 .. Thresholds.cost
    /\ request.price >= 0
    /\ request.chars \in 1 .. Thresholds.chars

IsRefused ==
    IF Live
    THEN \/ ~request.liveEnv \/ ~LiveFlags \subseteq Given \/ ~request.noFallback
         \/ request.appEnv
         \/ Local /\ request.keys # {}
         \/ request.localOptions /\ ~Local
         \/ ~InBounds
    ELSE request.given # {} \/ request.localOptions

\* What a run works with: recorded runs have limits of their own.
Repeats == IF Live THEN request.repeats ELSE 2
Batch == IF Live THEN request.batch ELSE Thresholds.batch
Caps ==
    IF Live THEN [requests |-> request.requests, cost |-> request.cost, price |-> request.price]
    ELSE [requests |-> Thresholds.requests, cost |-> Thresholds.cost, price |-> 0]

-----------------------------------------------------------------------------
(* The fixture.                                                             *)

\* Every hard constraint on one record.
Satisfies(record, constraints) ==
    /\ record.price \in constraints.least .. constraints.most
    /\ constraints.inStock => record.stock > 0
    /\ constraints.attrs \subseteq record.attrs

Unconstrained == [least |-> 0, most |-> 9, inStock |-> FALSE, attrs |-> {}]

Current(records) == {r \in Range(records) : r.state = "ok"}

\* The records a query is about, as its attributes and constraints say.
Derived(records, query) ==
    {r.id : r \in {s \in Current(records) : Satisfies(s, query.constraints) /\ query.wants \subseteq s.attrs}}

InState(records, state) == {i \in DOMAIN records : records[i].state = state}
OfCohort(queries, cohort) == {i \in DOMAIN queries : queries[i].cohort = cohort}

Sizes(f) ==
    <<Len(f.records), Len(f.queries), Cardinality(InState(f.records, "missing")),
      Cardinality(InState(f.records, "stale"))>>

QueryIsSound(f, query) ==
    /\ query.cohort \in Cohorts /\ query.length <= Thresholds.chars
    /\ Cardinality(query.gold) \in 1 .. TopK
    /\ query.gold = Derived(f.records, query)
    /\ \A bound \in {query.constraints.least, query.constraints.most} :
            \A r \in Range(f.records) : r.price # bound

\* check_fixture; gold that is missing, stale or breaks a constraint is not derived.
FixtureIsSound(f) ==
    /\ Sizes(f) = Thresholds.sizes
    /\ \A cohort \in Cohorts :
            Cardinality(OfCohort(f.queries, cohort)) = Thresholds.queriesPerCohort[cohort]
    /\ Cardinality({i \in DOMAIN f.queries : f.queries[i].constraints # Unconstrained})
            >= Thresholds.hardQueries
    /\ IsInjective([i \in DOMAIN f.records |-> f.records[i].id])
    /\ IsInjective([i \in DOMAIN f.queries |-> f.queries[i].id])
    /\ \A r \in Range(f.records) : r.length <= Thresholds.chars
    /\ \A query \in Range(f.queries) : QueryIsSound(f, query)

TooLong == \E text \in Range(fixture.records) \union Range(fixture.queries) : text.length > request.chars

-----------------------------------------------------------------------------
(* Texts, batches and the budget.                                           *)

\* Recorded runs embed stale records too, to show that they are never ranked.
Embedded ==
    Entries(fixture.records,
            InState(fixture.records, "ok") \union IF Live THEN {} ELSE InState(fixture.records, "stale"))

Ids(seq) == [i \in DOMAIN seq |-> seq[i].id]

Texts == Ids(Embedded) \o Ids(fixture.queries)
Lengths == [id \in Range(Texts) |->
    (CHOOSE t \in Range(fixture.records) \union Range(fixture.queries) : t.id = id).length]

BatchesOf(texts) == (Len(texts) + Batch - 1) \div Batch

Cut(texts) ==
    [i \in 1 .. BatchesOf(texts) |->
        SubSeq(texts, (i - 1) * Batch + 1,
               IF i * Batch < Len(texts) THEN i * Batch ELSE Len(texts))]

\* A local model is asked for passages and for queries apart from each other.
Chunks == IF Local THEN Cut(Ids(Embedded)) \o Cut(Ids(fixture.queries)) ELSE Cut(Texts)

EstimatedCost(chars) == ((chars + 3) \div 4) * Caps.price

CharsOf(texts) == Total([i \in DOMAIN texts |-> Lengths[texts[i]]])

RequestsTogether == BatchesOf(Texts)

RequestsPerRepeat ==
    IF Local THEN BatchesOf(Ids(Embedded)) + BatchesOf(Ids(fixture.queries)) ELSE RequestsTogether

PreflightFails ==
    \/ RequestsPerRepeat * Repeats > Caps.requests
    \/ EstimatedCost(CharsOf(Texts) * Repeats) > Caps.cost

-----------------------------------------------------------------------------
(* The beginning of main, up to the first call.                             *)

Conclude(outcome, code, failed, exit) ==
    /\ stage' = "over"
    /\ verdict' = [outcome |-> outcome, code |-> code, failed |-> failed, exit |-> exit]

\* A candidate outcome that is reached without metrics.
GiveUp(outcome, code) ==
    Conclude(outcome, code, {}, IF outcome \in {"unsupported", "blocked_by_policy"} THEN 2 ELSE 1)

\* The refusals and failures in the order main meets them.
Obstacles == <<
    [met |-> IsRefused, outcome |-> "refused", exit |-> 2],
    [met |-> ~fixture.found, outcome |-> "NOT_EVALUATED", exit |-> 2],
    [met |-> ~fixture.locked, outcome |-> "refused", exit |-> 2],
    [met |-> ~FixtureIsSound(fixture), outcome |-> "fixture_invalid", exit |-> 1],
    [met |-> Live /\ TooLong, outcome |-> "refused", exit |-> 2] >>

Unsupported == ~Local /\ request.candidate[1] = "groq"

Blocked ==
    IF Local THEN ~LocalModelIsPinned(request.local)
    ELSE ~MayUse(request.allowlist, request.keys, request.candidate)

Main ==
    /\ stage = "ready"
    /\ LET met == {i \in DOMAIN Obstacles : Obstacles[i].met}
           first == Obstacles[Min(met)]
       IN IF met # {} THEN Conclude(first.outcome, "none", {}, first.exit)
          ELSE IF Live /\ Blocked THEN GiveUp("blocked_by_policy", "config_error")
          ELSE IF Live /\ Unsupported THEN GiveUp("unsupported", "unsupported_provider")
          ELSE IF PreflightFails THEN GiveUp("failed_budget_or_timeout", "preflight_cap")
          ELSE stage' = "embedding" /\ UNCHANGED verdict
    /\ pending' = IF stage' = "embedding" THEN Chunks ELSE <<>>
    /\ UNCHANGED <<providerVars, request, fixture, got, kept, meter, rates>>

-----------------------------------------------------------------------------
(* embed_all: one repeat, chunk by chunk.                                   *)

Embedding == stage = "embedding"

\* The deterministic hash of recorded runs, which is not a provider.
FakeEmbed(texts) ==
    /\ call' = [NoCall EXCEPT !.phase = "answered", !.texts = texts, !.attempts = 1,
                   !.vectors = [i \in DOMAIN texts |-> Vector(texts[i], FakePoint[texts[i]])]]
    /\ UNCHANGED <<stuck, posts, faults>>

EmbedChunk(texts) ==
    IF Live THEN Embed(request.candidate[1], texts, Lengths, [batch |-> Batch, chars |-> request.chars])
    ELSE FakeEmbed(texts)

BeginCall ==
    /\ Embedding /\ call.phase = "idle" /\ pending # <<>>
    /\ IF meter.requests >= Caps.requests
       THEN GiveUp("failed_budget_or_timeout", "request_cap") /\ UNCHANGED providerVars
       ELSE EmbedChunk(Head(pending)) /\ UNCHANGED <<stage, verdict>>
    /\ UNCHANGED <<request, fixture, pending, got, kept, meter, rates>>

TakeVectors ==
    /\ Embedding /\ call.phase = "answered"
    /\ meter' = [requests |-> meter.requests + 1, chars |-> meter.chars + CharsOf(call.texts),
                 retries |-> meter.retries + call.attempts - 1,
                 countOk |-> meter.countOk /\ Len(call.vectors) = Len(call.texts)]
    /\ IF EstimatedCost(meter'.chars) > Caps.cost
       THEN GiveUp("failed_budget_or_timeout", "cost_cap") /\ UNCHANGED <<pending, got>>
       ELSE pending' = Tail(pending) /\ got' = got \o call.vectors /\ UNCHANGED <<stage, verdict>>
    /\ call' = NoCall
    /\ UNCHANGED <<stuck, posts, faults, request, fixture, kept, rates>>

\* A transport failure after its retry, or an answer or an input that is not valid.
CallFails ==
    /\ Embedding /\ call.phase = "failed"
    /\ GiveUp(IF call.code = "provider_request_failed" THEN "failed_budget_or_timeout"
              ELSE "failed_validation", call.code)
    /\ call' = NoCall
    /\ UNCHANGED <<stuck, posts, faults, request, fixture, pending, got, kept, meter, rates>>

-----------------------------------------------------------------------------
(* run and evaluate: the vectors of a repeat, the ranking and the gates.     *)

AllFinite(vectors) == \A v \in Range(vectors) : v.kind \notin {"notFinite", "zero"}
AllOfDimension(vectors) == \A v \in Range(vectors) : v.kind # "short"

AssignToCurrent(vectors) ==
    LET records == Entries(fixture.records, InState(fixture.records, "ok")) IN
    [records |-> [id \in Range(Ids(records)) |->
        vectors[CHOOSE i \in DOMAIN records : records[i].id = id]],
     queries |-> [id \in Range(Ids(fixture.queries)) |->
        vectors[Len(Embedded) + CHOOSE i \in DOMAIN fixture.queries : fixture.queries[i].id = id]]]

\* The vectors are given to the embedded records and to the queries by position.
Assign(vectors) ==
    [records |-> [id \in Range(Ids(Embedded)) |->
        vectors[CHOOSE i \in DOMAIN Embedded : Embedded[i].id = id]],
     queries |-> [id \in Range(Ids(fixture.queries)) |->
        vectors[Len(Embedded) + CHOOSE i \in DOMAIN fixture.queries : fixture.queries[i].id = id]]]

Distance(v, w) == IF v.point < w.point THEN w.point - v.point ELSE v.point - w.point

\* rank: the best records that may be ranked at all; equal ones by id.
Ranking(query, vectors) ==
    LET candidates == {r.id : r \in {s \in Current(fixture.records) :
                            s.id \in DOMAIN vectors.records /\ Satisfies(s, query.constraints)}}
        far(id) == Distance(vectors.queries[query.id], vectors.records[id])
        ranked == Sorted(candidates,
                    LAMBDA a, b : far(a) < far(b) \/ (far(a) = far(b) /\ a < b))
    IN SubSeq(ranked, 1, IF Len(ranked) < TopK THEN Len(ranked) ELSE TopK)

Recall(query) ==
    (Scale * Cardinality(query.gold \cap Range(Ranking(query, kept[1])))) \div Cardinality(query.gold)

ReciprocalRank(query) ==
    LET ranked == Ranking(query, kept[1])
        hits == {i \in DOMAIN ranked : ranked[i] \in query.gold}
    IN IF hits = {} THEN 0 ELSE Scale \div Min(hits)

Jaccard(query, vectors) ==
    LET a == Range(Ranking(query, kept[1]))
        b == Range(Ranking(query, vectors))
    IN IF a \union b = {} THEN Scale ELSE (Scale * Cardinality(a \cap b)) \div Cardinality(a \union b)

\* A mean is at least its gate.
MeanClears(values, gate) == Total(values) >= gate * Len(values)

Recalls(queries) == [i \in DOMAIN queries |-> Recall(queries[i])]
ReciprocalRanks(queries) == [i \in DOMAIN queries |-> ReciprocalRank(queries[i])]

\* How far the rankings of a repeat agree with those of the first.
Agreement(vectors) ==
    Total([i \in DOMAIN fixture.queries |-> Jaccard(fixture.queries[i], vectors)])

Later == Tail(kept)

RepeatsAgree ==
    Total([i \in DOMAIN Later |-> Agreement(Later[i])])
        >= Thresholds.agreement * Len(Later) * Len(fixture.queries)

RecordOf(id) == CHOOSE r \in Range(fixture.records) : r.id = id

ViolatingQueries ==
    {q \in Range(fixture.queries) : \E vectors \in Range(kept) :
        \E id \in Range(Ranking(q, vectors)) : ~Satisfies(RecordOf(id), q.constraints)}

OutdatedRanked ==
    {id \in Range(Ids(fixture.records)) : RecordOf(id).state # "ok" /\
        \E q \in Range(fixture.queries), vectors \in Range(kept) : id \in Range(Ranking(q, vectors))}

RetrievalOverall ==
    {metric \in {"recall", "mrr"} :
        ~ IF metric = "recall" THEN MeanClears(Recalls(fixture.queries), Thresholds.recall)
          ELSE MeanClears(ReciprocalRanks(fixture.queries), Thresholds.mrr)}

\* The semantic gates, overall and in every cohort.
RetrievalFailures ==
    RetrievalOverall \union
    {cohort \in Cohorts :
        LET own == Entries(fixture.queries, OfCohort(fixture.queries, cohort))
        IN ~ /\ MeanClears(Recalls(own), Thresholds.cohortRecall)
             /\ MeanClears(ReciprocalRanks(own), Thresholds.cohortMrr)}

\* check_gates; without an evaluation everything that depends on it is unmet.
Evaluated == Len(kept) = Repeats /\ meter.countOk

Failed ==
    {name \in {"vector_count", "vector_finite", "vector_dimension", "hard_constraints",
               "missing_stale_exclusion", "reproducibility"} :
        CASE name = "vector_count" -> ~meter.countOk
          [] name = "vector_finite" -> ~rates.finite
          [] name = "vector_dimension" -> ~rates.dimension
          [] name = "hard_constraints" -> ~(Evaluated /\ ViolatingQueries = {})
          [] name = "missing_stale_exclusion" -> ~(Evaluated /\ OutdatedRanked = {})
          [] name = "reproducibility" -> ~(Evaluated /\ RepeatsAgree)}
    \union IF Evaluated /\ Live THEN RetrievalFailures ELSE {}

Validity == {"vector_count", "vector_finite", "vector_dimension", "missing_stale_exclusion"}

Judge ==
    IF Live
    THEN IF Failed \cap Validity # {} THEN Conclude("failed_validation", "none", Failed, 1)
         ELSE IF Failed # {} THEN Conclude("failed_quality", "none", Failed, 1)
         ELSE Conclude("passed", "none", {}, 0)
    ELSE Conclude("NOT_EVALUATED", "none", Failed, IF Failed # {} THEN 1 ELSE 3)

\* A repeat with a vector that is not valid is the last one.
EndRepeat ==
    /\ Embedding /\ call.phase = "idle" /\ pending = <<>>
    /\ rates' = [finite |-> AllFinite(got), dimension |-> AllOfDimension(got)]
    /\ LET valid == Len(got) = Len(Texts) /\ AllFinite(got) /\ AllOfDimension(got)
       IN /\ kept' = IF valid THEN Append(kept, Assign(got)) ELSE kept
          /\ IF valid /\ Len(kept') < Repeats
             THEN pending' = Chunks /\ UNCHANGED stage
             ELSE stage' = "judging" /\ UNCHANGED pending
    /\ got' = <<>>
    /\ UNCHANGED <<providerVars, request, fixture, meter, verdict>>

Evaluate ==
    /\ stage = "judging"
    /\ Judge
    /\ UNCHANGED <<providerVars, request, fixture, pending, got, kept, meter, rates>>

-----------------------------------------------------------------------------

Provide == ProviderStep /\ UNCHANGED runnerVars

EvalNext == Main \/ BeginCall \/ TakeVectors \/ CallFails \/ EndRepeat \/ Evaluate \/ Provide

EvalSpec == EvalInit /\ [][EvalNext]_evalVars

-----------------------------------------------------------------------------

\* The vectors a ranking uses are those of the very texts they stand for, in every
\* repeat and with stale records embedded beside the current ones; a repeat with an
\* answer that is short, long or not a direction is not ranked.
OnlyOwnVectorsAreRanked ==
    \A vectors \in Range(kept) :
        /\ \A r \in Current(fixture.records) :
                vectors.records[r.id] \in {Vector(r.id, p) : p \in Points}
        /\ \A id \in DOMAIN vectors.queries :
                vectors.queries[id] \in {Vector(id, p) : p \in Points}

\* The queries for which a repeat ranks other records than the first does.
Differing(vectors) ==
    {i \in DOMAIN fixture.queries :
        LET query == fixture.queries[i]
        IN Range(Ranking(query, vectors)) # Range(Ranking(query, kept[1]))}

\* Exit code 0 means that an allowed candidate was evaluated live on the locked
\* fixture, that every repeat was ranked, that the rankings in which a repeat found
\* other records are no more than the gate leaves room for (each costs its mean at
\* least one part in TopK), and that each cohort, not only all of them together,
\* found enough of what it was asked for.
PassedIsProven ==
    verdict.exit = 0 =>
        /\ Live /\ fixture.locked /\ ~Blocked /\ ~Unsupported
        /\ Len(kept) = Repeats
        /\ Scale * Total([i \in DOMAIN Later |-> Cardinality(Differing(Later[i]))])
              <= (Scale - Thresholds.agreement) * TopK * Len(Later) * Len(fixture.queries)
        /\ \A cohort \in Cohorts : \E query \in Range(fixture.queries) :
                query.cohort = cohort /\ Recall(query) >= Thresholds.cohortRecall

\* The budget is settled before the first call: no run is stopped by a cap halfway,
\* and a run sends at most its cap of requests and their retries.
BudgetIsSettledFirst ==
    /\ verdict.code \notin {"request_cap", "cost_cap"}
    /\ posts > 0 => posts <= (1 + MaxRetries) * Caps.requests
    /\ verdict.exit = 2 \/ verdict.code = "preflight_cap" => posts = 0
=============================================================================
