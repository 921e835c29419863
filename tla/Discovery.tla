----------------------------- MODULE Discovery -----------------------------
(***************************************************************************)
(* What is read off the contents: the week's themes, the flat list of      *)
(* rated signals, and hybrid search.  All of it is computed per request    *)
(* from the tables of ContentStage, and changes nothing.                   *)
(*                                                                         *)
(* The rated signals are all in the window.  A rating has the relevance    *)
(* that a model gave to the content at the end of its chain of copies.     *)
(***************************************************************************)
EXTENDS ContentStage, Sequences, SequencesExt

CONSTANTS
    Verdict,        \* the relevance a model finds in a content
    MinRelevance,
    Copies,         \* the rows of a content in raw_signals (several creators may post it)
    Threshold,      \* CLUSTER_THRESHOLD
    MaxThemes,
    FlatLimit,      \* the LIMIT of get_rated_signals
    Queries,        \* searches; for each
    Matches,        \* the contents full-text search finds, best first, and
    Nearness,       \* all contents, the nearest to the query's embedding first
    RRF_K,
    Pool,           \* candidate_pool
    Unit,           \* a common multiple of all RRF_K + rank, so that scores are integers
    Limit

\* Each content has a row, a verdict and a place of its own in each ranking.
ASSUME DiscoveryAssumption ==
    /\ IsFiniteSet(Hashes)
    /\ Verdict \in [Hashes -> Int] /\ MinRelevance \in Int
    /\ Copies \in [Hashes -> Nat \ {0}]
    /\ Threshold \in Int
    /\ {MaxThemes, Limit} \subseteq Nat /\ FlatLimit \in Nat \ {0}
    /\ \A q \in Queries : \A ids \in {Matches[q], Nearness[q]} :
          /\ ids \in Seq(Hashes)
          /\ \A m, n \in DOMAIN ids : ids[m] = ids[n] => m = n

\* Fewer candidates than the fusion's constant leaves room for (50 and 60 in the code).
ASSUME FusionAssumption ==
    /\ RRF_K \in Nat /\ Pool \in 1 .. RRF_K + 1
    /\ Unit \in Nat \ {0} /\ \A rank \in 1 .. Pool : Unit % (RRF_K + rank) = 0

-----------------------------------------------------------------------------
(* Orders *)

\* A finite set in the order that is given by what comes before each of its elements.
Listing(before) ==
    [n \in 1 .. Cardinality(DOMAIN before) |->
        CHOOSE x \in DOMAIN before : Cardinality(before[x]) = n - 1]

InOrder(S, Before(_, _)) == Listing([x \in S |-> {y \in S : Before(y, x)}])

\* The ids that are in S, in their order.
Those(ids, S) ==
    LET Earlier(g, h) == \E m, n \in DOMAIN ids : m < n /\ ids[m] = g /\ ids[n] = h
    IN  InOrder(ToSet(ids) \cap S, Earlier)

Top(rows, n) == SubSeq(rows, 1, IF Len(rows) < n THEN Len(rows) ELSE n)

-----------------------------------------------------------------------------
(* Ratings *)

\* Where the values of each rating come from.
Origin ==
    LET Next(h) == IF signal_ratings[h] = NoRating THEN h ELSE signal_ratings[h]
        origin[n \in 0 .. Cardinality(Hashes)] ==
            IF n = 0 THEN [h \in Hashes |-> h] ELSE [h \in Hashes |-> Next(origin[n - 1][h])]
    IN  origin[Cardinality(Hashes)]

Relevance(h) == Verdict[Origin[h]]

Relevant == {h \in Rated : Relevance(h) >= MinRelevance}

\* The join with raw_signals: a row per copy.
RowsFor(S) == UNION {{[content_hash |-> h, copy |-> n] : n \in 1 .. Copies[h]} : h \in S \cap signals}

Stronger(a, b) ==
    \/ Relevance(a.content_hash) > Relevance(b.content_hash)
    \/ /\ Relevance(a.content_hash) = Relevance(b.content_hash)
       /\ a.content_hash < b.content_hash \/ (a.content_hash = b.content_hash /\ a.copy < b.copy)

\* get_rated_signals: the flat list (among equals the latest rating first; any order does here).
RatedSignals == Top(InOrder(RowsFor(Relevant), Stronger), FlatLimit)

-----------------------------------------------------------------------------
(* Themes *)

ContentsOf(rows) == {rows[n].content_hash : n \in DOMAIN rows}
Assigned(clusters) == UNION {ContentsOf(clusters[n]) : n \in DOMAIN clusters}

\* Mutated Absorb: near some member, rather than near the seed.
AbsorbByAny(cluster, row, taken) ==
    IF \/ row.content_hash \in taken \cup ContentsOf(cluster)
       \/ \A n \in DOMAIN cluster : Dist[cluster[n].content_hash, row.content_hash] > Threshold
    THEN cluster ELSE Append(cluster, row)

\* One row of the inner loop: taken unless its content is assigned or too far from the seed.
Absorb(cluster, row, taken) ==
    IF \/ row.content_hash \in taken \cup ContentsOf(cluster)
       \/ Dist[cluster[1].content_hash, row.content_hash] > Threshold
    THEN cluster ELSE Append(cluster, row)

Gather(seed, items, taken) ==
    LET cluster[n \in 0 .. Len(items)] ==
            IF n = 0 THEN <<seed>> ELSE Absorb(cluster[n - 1], items[n], taken)
    IN  cluster[Len(items)]

\* One row of the outer loop: it starts a cluster unless its content is assigned.
Start(clusters, seed, items) ==
    IF seed.content_hash \in Assigned(clusters) THEN clusters
    ELSE Append(clusters, Gather(seed, items, Assigned(clusters)))

GreedyCluster(items) ==
    LET clusters[n \in 0 .. Len(items)] ==
            IF n = 0 THEN <<>> ELSE Start(clusters[n - 1], items[n], items)
    IN  clusters[Len(items)]

TotalRelevance(cluster) ==
    LET total[n \in 0 .. Len(cluster)] ==
            IF n = 0 THEN 0 ELSE total[n - 1] + Relevance(cluster[n].content_hash)
    IN  total[Len(cluster)]

\* Bigger first, then stronger on average, then the representative's hash.
MoreProminent(c, d) ==
    LET left == TotalRelevance(c) * Len(d)
        right == TotalRelevance(d) * Len(c)
    IN  \/ Len(c) > Len(d)
        \/ Len(c) = Len(d) /\ left > right
        \/ Len(c) = Len(d) /\ left = right /\ c[1].content_hash < d[1].content_hash

Theme(cluster) ==
    [theme_size |-> Len(cluster), representative |-> cluster[1].content_hash,
     members |-> [n \in DOMAIN cluster |-> cluster[n].content_hash]]

SignalClusters ==
    LET rows == InOrder(RowsFor(Relevant \cap signal_embeddings), Stronger)
        clusters == InOrder(ToSet(GreedyCluster(rows)), MoreProminent)
        shown == Top(clusters, MaxThemes)
    IN  [rated_in_window |-> Cardinality(Relevant),
         embedded |-> Len(rows),
         clustered |-> rows # <<>>,
         themes |-> [n \in DOMAIN shown |-> Theme(shown[n])]]

-----------------------------------------------------------------------------
(* Search *)

FtsCandidates(q) == Top(Those(Matches[q], signals), Pool)
VectorCandidates(q) == Top(Those(Nearness[q], signal_embeddings), Pool)

\* What one list gives to a document: Unit / (k + rank), nothing if it is not in it.
Share(ids, h) ==
    IF \E n \in DOMAIN ids : ids[n] = h
    THEN Unit \div (RRF_K + (CHOOSE n \in DOMAIN ids : ids[n] = h))
    ELSE 0

\* Mutated FusedScore: the better of two ranks.
BestShare(fts, vec, h) == IF Share(fts, h) > Share(vec, h) THEN Share(fts, h) ELSE Share(vec, h)

FusedScore(fts, vec, h) == Share(fts, h) + Share(vec, h)

ReciprocalRankFusion(fts, vec) ==
    LET Better(g, h) == \/ FusedScore(fts, vec, g) > FusedScore(fts, vec, h)
                        \/ FusedScore(fts, vec, g) = FusedScore(fts, vec, h) /\ g < h
    IN  InOrder(ToSet(fts) \cup ToSet(vec), Better)

\* The best Limit, with the lists that found each; one whose row is gone is left out.
HybridSearch(fts, vec) ==
    LET hydrated == Those(Top(ReciprocalRankFusion(fts, vec), Limit), signals)
    IN  [n \in DOMAIN hydrated |->
            [content_hash |-> hydrated[n],
             sources |-> {s \in {"lexical", "semantic"} :
                             hydrated[n] \in ToSet(IF s = "lexical" THEN fts ELSE vec)}]]

\* embed_query may fail, and the search is lexical only.
SearchSignals(q, embeds) ==
    [semantic |-> embeds,
     hits |-> HybridSearch(FtsCandidates(q), IF embeds THEN VectorCandidates(q) ELSE <<>>)]

-----------------------------------------------------------------------------
(* Properties *)

\* Greedy clustering, by what it promises: a partition, each member within Threshold of its
\* theme's representative and of none stronger that leads a theme, the representative being the
\* strongest, and bigger themes first.  When nothing is clustered, the flat list that the agent
\* falls back to is not empty either, unless nothing is rated.
ThemesAreRight ==
    LET report == SignalClusters
        themes == report.themes
        members(n) == ToSet(themes[n].members)
        all == Relevant \cap signal_embeddings
        stronger(g, h) == Stronger([content_hash |-> g, copy |-> 1], [content_hash |-> h, copy |-> 1])
    IN  /\ ~report.clustered /\ report.rated_in_window > 0 => RatedSignals # <<>>
        /\ UNION {members(n) : n \in DOMAIN themes} \subseteq all
        /\ Len(themes) < MaxThemes => UNION {members(n) : n \in DOMAIN themes} = all
        /\ \A n \in DOMAIN themes :
            /\ themes[n].theme_size = Cardinality(members(n))
            /\ \A h \in members(n) \ {themes[n].representative} :
                  /\ Dist[themes[n].representative, h] <= Threshold
                  /\ stronger(themes[n].representative, h)
        /\ \A m, n \in DOMAIN themes : m < n =>
            /\ members(m) \cap members(n) = {}
            /\ themes[m].theme_size >= themes[n].theme_size
        /\ \A m, n \in DOMAIN themes, h \in Hashes :
            /\ m # n /\ h \in members(n)
            /\ stronger(themes[m].representative, themes[n].representative)
            => Dist[themes[m].representative, h] > Threshold

\* What both lists found comes before what one of them found; with the lexical half alone, its
\* own order stays.
FusionIsFaithful ==
    \A q \in Queries :
        /\ LET hits == SearchSignals(q, TRUE).hits IN
           \A m, n \in DOMAIN hits :
             m < n /\ Cardinality(hits[n].sources) = 2 => Cardinality(hits[m].sources) = 2
        /\ LET hits == SearchSignals(q, FALSE).hits IN
           [n \in DOMAIN hits |-> hits[n].content_hash] = Top(FtsCandidates(q), Limit)
=============================================================================
