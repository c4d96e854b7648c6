---------------------------- MODULE Marketplace -----------------------------
(***************************************************************************)
(* Finding a skill (kernel.findSkill) and the search of the marketplaces   *)
(* behind it (pkg/skills/marketplace): a cache of earlier searches, which  *)
(* also answers for queries similar to the one it was filled for, and the  *)
(* marketplaces asked in parallel when it has no answer.                   *)
(*                                                                         *)
(* The cache is locked for a look-up and for an entry, not in between, so  *)
(* two searches for one query may both ask the marketplaces. A result is   *)
(* known by its query and its marketplace; how similar two queries are is  *)
(* a number, and Similar is the least that counts.                         *)
(***************************************************************************)
EXTENDS Naturals, FiniteSetsExt, SequencesExt

CONSTANTS
    Searcher,     \* the calls of find_skill
    Query,        \* the skills asked for
    Local,        \* those the kernel has a configuration of
    Shop,         \* the marketplaces registered at boot
    Similarity,   \* [Query \X Query -> Nat]
    Similar,      \* similarityThreshold
    MaxEntries,   \* capacity of the cache
    TTL           \* the age at which an entry expires

\* NewSearchCache puts its defaults for what is not positive.
ASSUME MarketAssumption == MaxEntries \in Nat \ {0} /\ TTL \in Nat \ {0}

VARIABLES
    cached,      \* SearchCache.entries: query -> results and age
    order,       \* SearchCache.order
    search,      \* the state of each call
    agentTools,  \* the skills whose tools the agent has been given
    lastUsed     \* the queries by their last use, which no code keeps

marketVars == <<cached, order, search, agentTools, lastUsed>>

NotSearching == [at |-> "idle"]

MarketplaceInit ==
    /\ cached = <<>>
    /\ order = <<>>
    /\ search = [s \in Searcher |-> NotSearching]
    /\ agentTools = {}
    /\ lastUsed = <<>>

(* ------------------------------- the cache ----------------------------- *)

FreshEntry(q) == q \in DOMAIN cached /\ cached[q].age < TTL

\* What of seq is in S, in its order.
Among(seq, S) ==
    LET Kept[n \in 0 .. Len(seq)] ==
            IF n = 0 THEN <<>>
            ELSE IF seq[n] \in S THEN Append(Kept[n - 1], seq[n]) ELSE Kept[n - 1]
    IN  Kept[Len(seq)]

moveToEnd(seq, q) == Append(Among(seq, ToSet(seq) \ {q}), q)

Near(q, k) == Similarity[<<q, k>>] >= Similar

\* The cached that may answer for a query: its own, or else the one most
\* similar to it, whichever of equals the map gives first.
Hits(q) ==
    LET fresh == {k \in DOMAIN cached : FreshEntry(k)}
        near == {k \in fresh :
                     /\ Near(q, k)
                     /\ \A j \in fresh :
                            Similarity[<<q, j>>] <= Similarity[<<q, k>>]}
    IN  IF q \in fresh THEN {q} ELSE near

\* Bug: the use of an entry leaves its place in the order as it is.
UsedInPlace(k) == order' = order

Used(k) == order' = moveToEnd(order, k)

\* Room for one more entry, taken from the least recently used.
Evicted(seq, keys) ==
    LET left(n) == keys \ ToSet(SubSeq(seq, 1, n))
        n == Min({m \in 0 .. Len(seq) : Cardinality(left(m)) < MaxEntries \/ m = Len(seq)})
    IN  [order |-> SubSeq(seq, n + 1, Len(seq)), keys |-> left(n)]

evictExpired == Among(order, {k \in DOMAIN cached : FreshEntry(k)})

Put(q, results) ==
    LET live == {k \in DOMAIN cached : FreshEntry(k)}
        kept == evictExpired
        room == IF q \in live THEN [order |-> kept, keys |-> live]
                ELSE Evicted(kept, live)
    IN  /\ cached' = [k \in room.keys \cup {q} |->
                         IF k = q THEN [results |-> results, age |-> 0] ELSE cached[k]]
        /\ order' = moveToEnd(room.order, q)
        /\ lastUsed' = moveToEnd(lastUsed, q)

(* ------------------------------ the searches --------------------------- *)

Become(s, state) == search' = [search EXCEPT ![s] = state]

\* A skill that is known: it is instantiated, without a connector, which it
\* may refuse, and its tools are handed to the agent, the skill is not.
FindLocally(s, q) ==
    /\ search[s] = NotSearching
    /\ q \in Local
    /\ agentTools' \in {agentTools, agentTools \cup {q}}
    /\ UNCHANGED <<cached, order, search, lastUsed>>

SearchHits(s, q) ==
    /\ search[s] = NotSearching
    /\ q \notin Local
    /\ \E k \in Hits(q) :
           /\ Used(k)
           /\ lastUsed' = moveToEnd(lastUsed, k)
           /\ Become(s, [at |-> "install", query |-> q,
                         results |-> cached[k].results])
    /\ UNCHANGED <<cached, agentTools>>

SearchMisses(s, q) ==
    /\ search[s] = NotSearching
    /\ q \notin Local
    /\ Hits(q) = {}
    /\ Become(s, [at |-> "asking", query |-> q, asked |-> Shop, results |-> {}])
    /\ UNCHANGED <<cached, order, agentTools, lastUsed>>

\* A marketplace answers: what it has found, nothing, or an error.
ShopAnswers(s, shop) ==
    /\ search[s].at = "asking" /\ shop \in search[s].asked
    /\ \E found \in {{}, {<<search[s].query, shop>>}} :
           Become(s, [search[s] EXCEPT !.asked = @ \ {shop},
                                       !.results = @ \cup found])
    /\ UNCHANGED <<cached, order, agentTools, lastUsed>>

SearchEnds(s) ==
    /\ search[s].at = "asking" /\ search[s].asked = {}
    /\ IF search[s].results = {}
       THEN Become(s, NotSearching) /\ UNCHANGED <<cached, order, lastUsed>>
       ELSE /\ Put(search[s].query, search[s].results)
            /\ Become(s, [at |-> "install", query |-> search[s].query,
                          results |-> search[s].results])
    /\ UNCHANGED agentTools

\* The best result is downloaded into the cache directory.
downloadRaw(s) ==
    /\ search[s].at = "install"
    /\ Become(s, NotSearching) \/ Become(s, [at |-> "convert", query |-> search[s].query])
    /\ UNCHANGED <<cached, order, agentTools, lastUsed>>

\* It is converted and written as a .skill file, which skills.LoadConfig
\* cannot read: the call ends with an error, whatever came before.
DownloadAndInstall(s) ==
    /\ search[s].at = "convert"
    /\ Become(s, NotSearching)
    /\ UNCHANGED <<cached, order, agentTools, lastUsed>>

Tick ==
    /\ \E q \in DOMAIN cached : FreshEntry(q)
    /\ cached' = [q \in DOMAIN cached |->
                       [cached[q] EXCEPT !.age = Min({@ + 1, TTL})]]
    /\ UNCHANGED <<order, search, agentTools, lastUsed>>

MarketplaceNext ==
    \/ \E s \in Searcher :
           \/ \E q \in Query : FindLocally(s, q) \/ SearchHits(s, q)
                                   \/ SearchMisses(s, q)
           \/ \E shop \in Shop : ShopAnswers(s, shop)
           \/ SearchEnds(s) \/ downloadRaw(s) \/ DownloadAndInstall(s)
    \/ Tick

MarketplaceSpec == MarketplaceInit /\ [][MarketplaceNext]_marketVars

(* ------------------------------ properties ----------------------------- *)

\* "LRU order: oldest first" (cache.go): whatever searches run side by side,
\* hit similar queries, expire and refill, the order lists the cached queries
\* by their last use, each once, and there are never more than the capacity.
OldestGoesFirst ==
    /\ order = Among(lastUsed, DOMAIN cached)
    /\ Len(order) = Cardinality(DOMAIN cached)
    /\ Cardinality(DOMAIN cached) <= MaxEntries
=============================================================================
