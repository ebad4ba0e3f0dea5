-------------------------- MODULE MCEmbeddingEval --------------------------
(* A fixture of five records and two queries, five that must be refused, and *)
(* the command lines of each mode with one thing wrong at a time.            *)
EXTENDS EmbeddingEval

CONSTANTS wool, silk, red

EvalThresholds ==
    [batch |-> 5, chars |-> 4, repeats |-> 2, requests |-> 4, cost |-> 8,
     sizes |-> <<5, 2, 1, 1>>, queriesPerCohort |-> [cohort \in Cohorts |-> 1], hardQueries |-> 1,
     recall |-> 1764, mrr |-> 1764, cohortRecall |-> 1512, cohortMrr |-> 1260, agreement |-> 2495]

Record(id, state, price, attrs) ==
    [id |-> id, state |-> state, price |-> price, stock |-> 1, attrs |-> attrs, length |-> 3]

Query(id, cohort, constraints, gold) ==
    [id |-> id, cohort |-> cohort, constraints |-> constraints, wants |-> {wool}, gold |-> gold, length |-> 2]

Whole ==
    [found |-> TRUE, locked |-> TRUE,
     records |-> <<Record(1, "ok", 3, {wool, red}), Record(4, "stale", 3, {wool, red}),
                   Record(2, "ok", 5, {wool, red}), Record(3, "ok", 3, {silk, red}),
                   Record(5, "missing", 3, {wool, red})>>,
     queries |-> <<Query(11, "en", Unconstrained, {1, 2}),
                   Query(12, "ur", [least |-> 0, most |-> 4, inStock |-> TRUE, attrs |-> {red}], {1})>>]

EvalFixtures ==
    {Whole, NoFixture, [Whole EXCEPT !.locked = FALSE],
     [Whole EXCEPT !.queries[2].gold = {1, 4}], [Whole EXCEPT !.queries[2].constraints.most = 3],
     [Whole EXCEPT !.records[2].state = "ok"]}

Gemini == <<"gemini", "large">>

Recorded ==
    [mode |-> "recorded", candidate |-> <<"none", "none">>, given |-> {}, localOptions |-> FALSE,
     liveEnv |-> FALSE, noFallback |-> FALSE, appEnv |-> FALSE, keys |-> {}, allowlist |-> <<>>,
     local |-> [model |-> "none", dimension |-> "none", digest |-> "none"],
     batch |-> 1, repeats |-> 1, requests |-> 1, cost |-> 0, price |-> 0, chars |-> 1]

Hosted ==
    [Recorded EXCEPT !.mode = "live", !.candidate = Gemini, !.given = LiveFlags, !.liveEnv = TRUE,
        !.noFallback = TRUE, !.keys = {"gemini", "groq"}, !.allowlist = <<Gemini, <<"groq", "large">> >>,
        !.batch = 3, !.repeats = 2, !.requests = 4, !.cost = 8, !.price = 1, !.chars = 3]

OnDisk ==
    [Hosted EXCEPT !.candidate = <<"local_e5", "e5">>, !.given = {"provider", "batch", "repeats", "requests"},
        !.keys = {}, !.localOptions = TRUE, !.local = [model |-> "e5", dimension |-> "e5", digest |-> "matches"],
        !.batch = 5, !.price = 0]

EvalRequests ==
    {Recorded, Hosted, OnDisk,
     [Recorded EXCEPT !.given = {"provider"}], [Hosted EXCEPT !.liveEnv = FALSE],
     [Hosted EXCEPT !.given = @ \ {"price"}], [Hosted EXCEPT !.appEnv = TRUE],
     [Hosted EXCEPT !.repeats = 1], [Hosted EXCEPT !.chars = 2], [Hosted EXCEPT !.keys = {"groq"}],
     [Hosted EXCEPT !.allowlist = <<Gemini, Gemini>>], [Hosted EXCEPT !.candidate = <<"groq", "large">>],
     [Hosted EXCEPT !.requests = 3], [Hosted EXCEPT !.cost = 5], [OnDisk EXCEPT !.keys = {"gemini"}],
     [OnDisk EXCEPT !.local.digest = "differs"], [OnDisk EXCEPT !.requests = 3]}

EvalFakePoint == [id \in {1, 2, 3, 4, 5, 11, 12} |-> id % 2]
=============================================================================
