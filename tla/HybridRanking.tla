---------------------------- MODULE HybridRanking ----------------------------
(***************************************************************************)
(* Fusion of the lexical and the vector ranking (search/hybrid.py).  A hit    *)
(* has the place of its product in the catalogue, the words it shares with   *)
(* the query, the variants that satisfy it and what the index holds of it.    *)
(* An index row is of the product (of = {}) or of one variant (of = {v}); it  *)
(* is live unless its representation was left behind at the same revision.    *)
(*                                                                           *)
(* Places are numbers: the order of (created_at, id).  Scores are fractions   *)
(* <<numerator, denominator>>.                                                *)
(***************************************************************************)
EXTENDS Sorting, Sequences, SequencesExt

CONSTANTS
    KLexical,       \* settings.hybrid_lexical_k
    KSemantic       \* settings.hybrid_semantic_k

ASSUME RankingAssumption == KLexical \in Nat /\ KSemantic \in Nat

RRF_K == 60

AtMost(n, s) == SubSeq(s, 1, IF Len(s) < n THEN Len(s) ELSE n)

\* Catalogue order is newest first.
LexicalRanking(hits, words) ==
    LET held(h) == h.shared
        better(g, h) == held(g) > held(h) \/ (held(g) = held(h) /\ g.place > h.place)
    IN AtMost(KLexical, Sorted({h \in hits : words # {} => held(h) > 0}, better))

NearerRow(a, b) == a.distance < b.distance \/ (a.distance = b.distance /\ a.id < b.id)

\* Of the hits' own rows and of those of their satisfying variants the K nearest
\* each, less those the source has left behind.
NearestLive(hits) ==
    LET eligible == UNION {{r \in h.rows : r.of \subseteq h.variants} : h \in hits}
        nearest(rows) == Range(AtMost(KSemantic, Sorted(rows, NearerRow)))
    IN {r \in nearest({r \in eligible : r.of = {}}) \cup nearest({r \in eligible : r.of # {}}) : r.live}

\* semantic_from_database: the distances of the hits that have such rows.
SemanticFromDatabase(hits) ==
    LET live == NearestLive(hits)
        found(h) == {r.distance : r \in h.rows \cap live}
    IN [h \in {g \in hits : found(g) # {}} |-> CHOOSE d \in found(h) : \A e \in found(h) : d <= e]

SemanticRanking(hits, distances) ==
    LET nearer(g, h) ==
            \/ distances[g] < distances[h]
            \/ distances[g] = distances[h] /\ g.place > h.place
    IN AtMost(KSemantic, Sorted(hits \cap DOMAIN distances, nearer))

RankIn(ranking, h) ==
    IF h \in Range(ranking) THEN CHOOSE i \in DOMAIN ranking : ranking[i] = h ELSE 0

\* rrf_score, 0 for the rank in a branch that did not return the product.
RrfScore(l, s) ==
    CASE l = 0 -> <<1, RRF_K + s>>
      [] s = 0 -> <<1, RRF_K + l>>
      [] OTHER -> <<2 * RRF_K + l + s, (RRF_K + l) * (RRF_K + s)>>

Below(a, b) == a[1] * b[2] < b[1] * a[2]

\* The order (score, created_at, id): position a comes after position b.
Follows(a, b) ==
    \/ Below(a.score, b.score)
    \/ ~Below(b.score, a.score) /\ a.place < b.place

\* The hits of both branches with their scores.
Scored(lexical, semantic) ==
    {[place |-> h.place, score |-> RrfScore(RankIn(lexical, h), RankIn(semantic, h))] :
        h \in Range(lexical) \cup Range(semantic)}

BestFirst(scored) == Sorted(scored, LAMBDA a, b : Follows(b, a))

\* fuse: the union of the branches, best first.
Fuse(lexical, semantic) == BestFirst(Scored(lexical, semantic))
=============================================================================
