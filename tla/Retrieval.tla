------------------------------ MODULE Retrieval -----------------------------
(***************************************************************************)
(* One student question against the textbook of its scope: the active      *)
(* version through its Redis cache, the three search channels, their       *)
(* fusion and the strength of the evidence                                 *)
(* (app/services/retrieval, the searches of app/repositories/              *)
(* rag_repository.py), while versions are activated or rolled back         *)
(* (LocalAdminService.activate).                                           *)
(*                                                                         *)
(* Each channel is a statement of its own.  Distances and text ranks only  *)
(* order the rows of a channel, so any order of any rows is possible.      *)
(***************************************************************************)
EXTENDS Integers, FiniteSets, FiniteSetsExt, SequencesExt

CONSTANTS
  CorpusVersions,
  Citations,      \* chunks of one version, in the order of their ids
  NoVersion,
  MaxActivations  \* bound: activations and rollbacks

ASSUME RetrievalAssumption ==
  /\ Citations \subseteq Nat /\ IsFiniteSet(Citations)
  /\ NoVersion \notin CorpusVersions
  /\ MaxActivations \in Nat

VARIABLES
  servedVersion,  \* the active version of the scope, or NoVersion
  cachedVersion,  \* the Redis entry of the scope, or NoVersion
  activations,    \* activations so far
  unpublished,    \* of which the cache entry has not been deleted yet
  query           \* the request

retrievalVars == <<servedVersion, cachedVersion, activations, unpublished, query>>

Channels == {"dense", "expected_question", "lexical"}

\* The candidate count is at least the number of chunks here.
Rankings == UNION {SetToSeqs(S) : S \in SUBSET Citations}

IdleQuery == [pc |-> "idle", version |-> NoVersion, hits |-> [k \in Channels |-> <<>>],
              from |-> {}, evidence |-> <<>>, strength |-> "none", seen |-> {}]

RetrievalInit ==
  /\ servedVersion = NoVersion
  /\ cachedVersion = NoVersion
  /\ activations = 0
  /\ unpublished = 0
  /\ query = IdleQuery

-----------------------------------------------------------------------------
(* activate *)

\* What CorpusLifecycle implements.
Textbook == INSTANCE ServedTextbook WITH Versions <- CorpusVersions, served <- servedVersion

\* The transaction; the entry is deleted after it.
ActivateVersion(v) ==
  /\ activations < MaxActivations
  /\ Textbook!Activate(v)
  /\ activations' = activations + 1
  /\ unpublished' = unpublished + 1
  /\ query' = [query EXCEPT !.seen = @ \cup {v}]
  /\ UNCHANGED cachedVersion

\* ActiveCorpusVersionCache.invalidate, which may find no Redis.
InvalidateVersion ==
  /\ unpublished > 0
  /\ unpublished' = unpublished - 1
  /\ cachedVersion' \in {cachedVersion, NoVersion}
  /\ UNCHANGED <<servedVersion, activations, query>>

-----------------------------------------------------------------------------
(* RetrievalService.retrieve *)

\* The cached version; an entry may have expired, and Redis may not answer.
ReadCachedVersion ==
  /\ query.pc = "idle"
  /\ \E v \in {cachedVersion, NoVersion} :
       query' = [IdleQuery EXCEPT !.pc = IF v = NoVersion THEN "resolve" ELSE "dense",
                                  !.version = v, !.seen = {servedVersion}]
  /\ UNCHANGED <<servedVersion, cachedVersion, activations, unpublished>>

\* get_active_corpus_version; without an active version there is no evidence.
ResolveVersion ==
  /\ query.pc = "resolve"
  /\ query' = [query EXCEPT !.pc = IF servedVersion = NoVersion THEN "answered" ELSE "cache",
                            !.version = servedVersion]
  /\ UNCHANGED <<servedVersion, cachedVersion, activations, unpublished>>

CacheVersion ==
  /\ query.pc = "cache"
  /\ cachedVersion' \in {query.version, cachedVersion}
  /\ query' = [query EXCEPT !.pc = "dense"]
  /\ UNCHANGED <<servedVersion, activations, unpublished>>

\* active_chapter_exists: a chapter outside the version, or a version that is no
\* longer active, ends a request for one chapter with RetrievalScopeError.
RejectChapter ==
  /\ query.pc = "dense"
  /\ query' = IdleQuery
  /\ UNCHANGED <<servedVersion, cachedVersion, activations, unpublished>>

\* Mutant: the searches trust the version that was resolved.
SearchableUnchecked(v) == TRUE

\* cv.status = 'active' in each of the searches.
Searchable(v) == v = servedVersion

Following(k) ==
  CASE k = "dense" -> "expected_question" [] k = "expected_question" -> "lexical"
    [] k = "lexical" -> "fuse"

\* One of the three searches, on the state of the moment.
SearchChannel(k) ==
  /\ query.pc = k
  /\ \E ranking \in IF Searchable(query.version) THEN Rankings ELSE {<<>>} :
       query' = [query EXCEPT !.pc = Following(k), !.hits[k] = ranking,
                              !.from = IF ranking = <<>> THEN @ ELSE @ \cup {query.version}]
  /\ UNCHANGED <<servedVersion, cachedVersion, activations, unpublished>>

-----------------------------------------------------------------------------
(* fuse_ranked_hits and classify_evidence *)

RRF_K == 60

\* The rank of a citation in a channel, 0 where the channel does not have it.
Rank(hits, k, c) == IF c \in ToSet(hits[k]) THEN CHOOSE i \in DOMAIN hits[k] : hits[k][i] = c ELSE 0

\* A common multiple of RRF_K + rank over all ranks keeps the weights exact.
Scale == FoldSet(LAMBDA i, product : (RRF_K + i) * product, 1, 1..Cardinality(Citations))

\* Mutant: every rank adds to the weight.
ShareByRank(hits, k, c) == Rank(hits, k, c)

\* What a channel adds to the weight: 1 / (RRF_K + rank), if it has the citation.
Share(hits, k, c) ==
  IF Rank(hits, k, c) = 0 THEN 0 ELSE Scale \div (RRF_K + Rank(hits, k, c))

Weight(hits, c) ==
  Share(hits, "dense", c) + Share(hits, "expected_question", c) + Share(hits, "lexical", c)

\* Heaviest first, equal weights by id.
Before(hits, b, c) ==
  \/ Weight(hits, b) > Weight(hits, c)
  \/ Weight(hits, b) = Weight(hits, c) /\ b < c

Found(hits) == UNION {ToSet(hits[k]) : k \in Channels}

\* candidates.sort.
FusedRanking(hits) ==
  CHOOSE ranking \in SetToSeqs(Found(hits)) :
    \A i, j \in DOMAIN ranking : i < j => Before(hits, ranking[i], ranking[j])

\* Two channels that have the top citation among their first three.
Strength(hits, fused) ==
  IF fused = <<>> THEN "none"
  ELSE IF Cardinality({k \in Channels : Rank(hits, k, Head(fused)) \in 1..3}) >= 2 THEN "strong"
  ELSE "weak"

Fuse ==
  /\ query.pc = "fuse"
  /\ query' = [query EXCEPT !.pc = "answered", !.evidence = FusedRanking(query.hits),
                            !.strength = Strength(query.hits, FusedRanking(query.hits))]
  /\ UNCHANGED <<servedVersion, cachedVersion, activations, unpublished>>

NextQuery ==
  /\ query.pc = "answered"
  /\ query' = IdleQuery
  /\ UNCHANGED <<servedVersion, cachedVersion, activations, unpublished>>

-----------------------------------------------------------------------------
RetrievalNext ==
  \/ \E v \in CorpusVersions : ActivateVersion(v)
  \/ InvalidateVersion \/ ReadCachedVersion \/ ResolveVersion \/ CacheVersion
  \/ RejectChapter \/ (\E k \in Channels : SearchChannel(k)) \/ Fuse \/ NextQuery

RetrievalSpec == RetrievalInit /\ [][RetrievalNext]_retrievalVars

-----------------------------------------------------------------------------
(* Properties *)

\* Evidence is quoted from a version that was active at some moment since the
\* request began, although a request that resolved a version may cache it after the
\* activation that replaced it deleted the entry (ActiveCorpusVersionCache, the
\* searches).
EvidenceWasServed == query.from \subseteq query.seen

\* The order of the evidence respects the channels: a citation that no channel ranks
\* below another one, and some channel ranks above it, comes before it.  Being
\* found by one channel more never costs a place (fuse_ranked_hits).
AtLeast(b, c, k) ==
  LET rb == Rank(query.hits, k, b)
      rc == Rank(query.hits, k, c)
  IN  rc = 0 \/ (rb # 0 /\ rb <= rc)

FusionRespectsChannels ==
  query.pc = "answered" =>
    \A i, j \in DOMAIN query.evidence :
      LET b == query.evidence[i]
          c == query.evidence[j]
      IN  (\A k \in Channels : AtLeast(b, c, k)) /\ (\E k \in Channels : ~AtLeast(c, b, k)) => i < j
=============================================================================
