-------------------------- MODULE RetrievalSearch --------------------------
(***************************************************************************)
(* A search of an active retrieval snapshot.  Two rankings are cut at the  *)
(* recall limit, fused by reciprocal ranks, cut again and, if a reranker   *)
(* is available, put in its order.  The semantic ranking is one of chunks: *)
(* more chunks than items are fetched, and of each item the best is kept.  *)
(*                                                                         *)
(* How the two backends order what matches the query and the filters is    *)
(* theirs; both cut at the position of the snapshot.  Scores are compared  *)
(* exactly, where the code has floating point.                             *)
(***************************************************************************)
EXTENDS Integers, SequencesExt

CONSTANTS
    Items,       \* numbers, in the order of the item ids
    Chunks,      \* chunks of the items: pairs of an item and a number
    Weights,     \* pairs of a lexical and a semantic weight
    Limits,      \* recall limits; top_k and rerank_top_n are some of them
    Oversample,  \* chunks that are fetched for one wanted item (4)
    ChunkCap,    \* chunks that are fetched at most (2000)
    Ranks,       \* RankConstant (60)
    Scores       \* scores of the reranker

SearchAssumption ==
    /\ Items \subseteq Nat /\ IsFiniteSet(Items)
    /\ \A c \in Chunks : c[1] \in Items
    /\ Weights \subseteq Nat \X Nat /\ <<0, 0>> \notin Weights
    /\ Limits \subseteq Nat \ {0} /\ Scores \subseteq Nat
    /\ Oversample \in Nat /\ ChunkCap \in Nat /\ Ranks \in Nat

VARIABLES
    query,     \* the backends' orders and the strategy
    candidate, \* the fused candidates, best first
    answer,    \* the hits
    pc         \* "asked", "fused" or "answered"

vars == <<query, candidate, answer, pc>>

\* normalizeSearchStrategy: the limits fit each other, and a mode is a
\* choice of weights.  top is rerank_top_n with a reranker and top_k without;
\* a threshold has effect only with one.
Strategy == {s \in [weights : Weights, recall : Limits, top : Limits, rerank : BOOLEAN,
                    threshold : {0} \cup Scores] :
               s.top <= s.recall /\ (s.rerank \/ s.threshold = 0)}

\* Every chunk has a distance to the query; not every item matches its words.
Init ==
    /\ query \in [lexical : SetToAllKPermutations(Items), chunks : SetToSeqs(Chunks),
                  strategy : Strategy]
    /\ candidate = <<>>
    /\ answer = <<>>
    /\ pc = "asked"

Cut(seq, n) == SubSeq(seq, 1, IF Len(seq) < n THEN Len(seq) ELSE n)
Recall == query.strategy.recall
Weight(list) == query.strategy.weights[IF list = "lexical" THEN 1 ELSE 2]

-----------------------------------------------------------------------------
(* The rankings *)

\* SearchRetrievalChunks: the nearest chunks, ...
ChunkLimit == IF Oversample * Recall > ChunkCap THEN ChunkCap ELSE Oversample * Recall
NearestChunks == Cut(query.chunks, ChunkLimit)

\* Mutant: the item of every chunk.
ItemsOfChunks == Cut([i \in DOMAIN NearestChunks |-> NearestChunks[i][1]], Recall)

\* ... and the items they belong to, each at its first chunk.
ItemsByChunk ==
    LET First(i) == \A j \in 1..(i - 1) : NearestChunks[j][1] # NearestChunks[i][1]
        firsts == SelectSeq([i \in DOMAIN NearestChunks |-> i], LAMBDA i : First(i))
    IN  Cut([n \in DOMAIN firsts |-> NearestChunks[firsts[n]][1]], Recall)

\* A list without weight is not asked for.
Hits(list) ==
    IF Weight(list) = 0 THEN <<>>
    ELSE IF list = "lexical" THEN Cut(query.lexical, Recall) ELSE ItemsByChunk

Lists == {"lexical", "semantic"}
RanksIn(list, item) == {i \in DOMAIN Hits(list) : Hits(list)[i] = item}

-----------------------------------------------------------------------------
(* Search *)

\* fuseRRF: the sum of weight / (Ranks + rank) over the entries of an item,
\* as a fraction.
Fraction(n, d) == [n |-> n, d |-> d]
Plus(p, q) == Fraction(p.n * q.d + q.n * p.d, p.d * q.d)
Less(p, q) == p.n * q.d < q.n * p.d

Share(list, item) ==
    LET AddRank(rank, sum) == Plus(sum, Fraction(Weight(list), Ranks + rank))
    IN  FoldSet(AddRank, Fraction(0, 1), RanksIn(list, item))
FusionScore(item) == Plus(Share("lexical", item), Share("semantic", item))

Found == {item \in Items : \E list \in Lists : RanksIn(list, item) # {}}

\* Better scores first, equal ones in the order of their ids.
Fuse ==
    /\ pc = "asked"
    /\ LET score == [item \in Found |-> FusionScore(item)]
           Before(a, b) == \/ Less(score[b], score[a])
                           \/ ~ Less(score[a], score[b]) /\ a < b
       IN  candidate' = Cut(SetToSortSeq(Found, Before), Recall)
    /\ pc' = "fused"
    /\ UNCHANGED <<query, answer>>

Answer(seq) ==
    /\ answer' = seq
    /\ pc' = "answered"
    /\ UNCHANGED <<query, candidate>>

\* Without a reranker the first of the candidates are the answer.
AnswerFused ==
    /\ pc = "fused"
    /\ ~ query.strategy.rerank \/ candidate = <<>>
    /\ Answer([i \in DOMAIN Cut(candidate, query.strategy.top) |-> [item |-> candidate[i], score |-> 0]])

\* The reranker scores some candidates in some order; they are sorted by
\* score, stably, and those below the threshold left out.
AnswerReranked ==
    /\ pc = "fused"
    /\ query.strategy.rerank /\ candidate # <<>>
    /\ \E order \in SetToAllKPermutations(DOMAIN candidate) : \E score \in [DOMAIN order -> Scores] :
         LET Before(i, j) == score[i] > score[j] \/ (score[i] = score[j] /\ i < j)
             sorted == SetToSortSeq(DOMAIN order, Before)
             kept == SelectSeq(sorted, LAMBDA i : score[i] >= query.strategy.threshold)
             Hit(i) == [item |-> candidate[order[i]], score |-> score[i]]
         IN  Answer(Cut([n \in DOMAIN kept |-> Hit(kept[n])], query.strategy.top))

Next == Fuse \/ AnswerFused \/ AnswerReranked

Spec == Init /\ [][Next]_vars

-----------------------------------------------------------------------------
(* Properties *)

\* In the lists that are asked, a is nowhere behind b and somewhere before.
Above(list, a, b) ==
    \E i \in RanksIn(list, a) : \A j \in RanksIn(list, b) : i < j
Dominates(a, b) ==
    /\ \E list \in Lists : Above(list, a, b)
    /\ \A list \in Lists : Above(list, a, b) \/ RanksIn(list, b) = {}

\* However the two rankings disagree, an item that each of them ranks before
\* another is not answered behind it or left out for it, no item is answered
\* twice, and what the reranker answers is in the order of its scores.
AnswersAreRanked ==
    pc = "answered" =>
        /\ \A i, j \in DOMAIN answer : answer[i].item = answer[j].item => i = j
        /\ \A i \in DOMAIN answer : answer[i].item \in Found
        /\ Len(answer) <= query.strategy.top
        /\ IF query.strategy.rerank
           THEN \A i, j \in DOMAIN answer : i < j => answer[i].score >= answer[j].score
           ELSE \A a \in Items : \A j \in DOMAIN answer :
                    Dominates(a, answer[j].item) => \E i \in 1..(j - 1) : answer[i].item = a
=============================================================================
