----------------------------- MODULE GeminiCache ----------------------------
(***************************************************************************)
(* The cached content of a Gemini client (pkg/llm/providers/gemini).  One  *)
(* client serves all turns of an agent, and every request may replace the  *)
(* cache: the old one is deleted at the provider, a new one created, and   *)
(* the request refers to whatever name the client then holds.              *)
(*                                                                         *)
(* A request is of a conversation and has a number of contents; its first  *)
(* message is the system prompt, which is cached as well.  Tools do not    *)
(* change here.  A cache is a number.                                      *)
(***************************************************************************)
EXTENDS Naturals, FiniteSets

CONSTANTS Caller,       \* turns that use the client
          Conversation,
          MaxContents,  \* bound: contents of a request
          MaxCaches     \* bound: caches ever created

ASSUME CacheAssumption ==
  Conversation # {} /\ MaxContents \in Nat /\ MaxCaches \in Nat

VARIABLES
  name,      \* c.cachedContentName; 0 is none
  last,      \* c.lastCacheContents: whose they are and how many
  live,      \* the caches that exist at the provider
  caller,    \* the turns: what they ask and how far they are
  held,      \* history: what each cache was made of
  created,   \* history: caches ever created
  trouble    \* history: a call of the cache API failed, a cache expired, or two
             \* requests overlapped

cacheVars == <<name, last, live, caller, held, created, trouble>>

Contents == [of : Conversation, n : 0 .. MaxContents + 1]
CallerStep == {"idle", "deleting", "creating", "naming", "sending", "sent"}

CacheTypeOK ==
  /\ name \in 0 .. MaxCaches
  /\ last \in Contents
  /\ live \in SUBSET (1 .. MaxCaches)
  /\ caller \in [Caller -> [step : CallerStep, asks : Contents, ref : 0 .. MaxCaches]]
  /\ held \in [1 .. MaxCaches -> Contents]
  /\ created \in 0 .. MaxCaches
  /\ trouble \in BOOLEAN

Nothing == [of |-> CHOOSE s \in Conversation : TRUE, n |-> 0]

CacheInit ==
  /\ name = 0
  /\ last = Nothing
  /\ live = {}
  /\ caller = [c \in Caller |-> [step |-> "idle", asks |-> Nothing, ref |-> 0]]
  /\ held = [k \in 1 .. MaxCaches |-> Nothing]
  /\ created = 0
  /\ trouble = FALSE
-----------------------------------------------------------------------------
MidCall(c) == caller[c].step \notin {"idle", "sent"}

AtStep(c, here) == caller[c].step = here
GoesTo(c, there) == caller' = [caller EXCEPT ![c].step = there]

\* Only the number of contents is compared, with one for the last message; the
\* system prompt, which the cache has and the request's contents do not, counts.
contentChanged(asks) == last.n # asks.n - 1

MustCreate(asks) == name = 0 \/ contentChanged(asks)

\* A request starts: does it need a new cache?
applyCaching(c) ==
  /\ ~MidCall(c)
  /\ \E asks \in {a \in Contents : a.n \in 1 .. MaxContents} :
       caller' = [caller EXCEPT ![c] =
         [step |-> IF ~MustCreate(asks) THEN "naming"
                   ELSE IF name # 0 THEN "deleting" ELSE "creating",
          asks |-> asks, ref |-> 0]]
  /\ trouble' = (trouble \/ \E d \in Caller \ {c} : MidCall(d))
  /\ UNCHANGED <<name, last, live, held, created>>

\* The old cache goes; an error is printed and that is all.
DeleteOld(c) ==
  /\ AtStep(c, "deleting")
  /\ GoesTo(c, "creating")
  /\ \/ name \in live /\ live' = live \ {name} /\ UNCHANGED trouble
     \/ live' = live /\ trouble' = TRUE
  /\ UNCHANGED <<name, last, held, created>>

\* Bug: the name is kept before the cache is there.
CreateUnchecked(c) ==
  /\ AtStep(c, "creating")
  /\ GoesTo(c, "naming")
  /\ created < MaxCaches
  /\ created' = created + 1
  /\ name' = created + 1
  /\ last' = [of |-> caller[c].asks.of, n |-> caller[c].asks.n]
  /\ held' = [held EXCEPT ![created + 1] = last']
  /\ UNCHANGED <<live, trouble>>

\* The system prompt and all contents but the last one.
createCachedContent(c) ==
  /\ AtStep(c, "creating")
  /\ GoesTo(c, "naming")
  /\ created < MaxCaches
  /\ created' = created + 1
  /\ name' = created + 1
  /\ live' = live \cup {created + 1}
  /\ last' = [of |-> caller[c].asks.of, n |-> caller[c].asks.n]
  /\ held' = [held EXCEPT ![created + 1] = last']
  /\ UNCHANGED trouble

\* An error is logged; the client keeps the name of the cache it has deleted.
CreateFails(c) ==
  /\ AtStep(c, "creating")
  /\ GoesTo(c, "naming")
  /\ trouble' = TRUE
  /\ UNCHANGED <<name, last, live, held, created>>

\* The request refers to the cache the client knows now.
Refer(c) ==
  /\ AtStep(c, "naming")
  /\ caller' = [caller EXCEPT ![c].step = "sending", ![c].ref = name]
  /\ UNCHANGED <<name, last, live, held, created, trouble>>

SendRequest(c) ==
  /\ AtStep(c, "sending")
  /\ GoesTo(c, "sent")
  /\ UNCHANGED <<name, last, live, held, created, trouble>>

\* The hour of a cache is over.
Expire ==
  /\ \E k \in live : live' = live \ {k}
  /\ trouble' = TRUE
  /\ UNCHANGED <<name, last, caller, held, created>>

CacheNext ==
  \/ \E c \in Caller : \/ applyCaching(c) \/ DeleteOld(c) \/ createCachedContent(c)
                       \/ CreateFails(c) \/ Refer(c) \/ SendRequest(c)
  \/ Expire

CacheSpec == CacheInit /\ [][CacheNext]_cacheVars
-----------------------------------------------------------------------------
\* Without trouble a request refers to a cache that is there when it is sent,
\* and no cache is left behind at the provider, where it costs.  A deletion or
\* creation that fails, the expiry of a cache, or another turn of the same
\* agent breaks either.
CachesAreLive ==
  ~trouble =>
    /\ \A c \in Caller : AtStep(c, "sending") /\ caller[c].ref # 0 => caller[c].ref \in live
    /\ Cardinality(live) <= 1
==============================================================================
