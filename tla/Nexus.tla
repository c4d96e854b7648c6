------------------------------- MODULE Nexus -------------------------------
(***************************************************************************)
(* The graph of entities and relations (pkg/memory/nexus.go, remember.go,  *)
(* sqlite/nexus.go).  An ingest, of a session's episode or of what an      *)
(* agent was told to remember, looks up the entities it names, has the     *)
(* model tell which are known, and writes them and their relations.        *)
(* Ingests run at the same time, and their statements interleave.          *)
(***************************************************************************)
EXTENDS Naturals, FiniteSets

CONSTANTS
  Ingest,    \* ingests, each of which runs once
  Name,      \* names of entities; the type is taken to be part of the name
  Pronoun,   \* names that stand for the user
  User,      \* the user's name
  Literal,   \* an object that is no entity
  Remembered \* ingests of the remember tool, which have no episode

ASSUME NexusAssumption == Pronoun \subseteq Name /\ User \in Name \ Pronoun /\ Literal \notin Name

VARIABLES
  entities,  \* rows <<id, name>>; the id is the ingest and the name that made it
  aliases,   \* rows <<id, name>>
  relations, \* rows [subject, object]: ids, or a name as a literal object
  linked,    \* entities of an episode
  ingest     \* what an ingest is about

nexusVars == <<entities, aliases, relations, linked, ingest>>

EntityId == Ingest \X Name
Nothing == [at |-> "new", names |-> {}, facts |-> {}, candidates |-> <<>>, ids |-> <<>>]

NexusTypeOK ==
  /\ entities \subseteq EntityId \X Name /\ aliases \subseteq EntityId \X Name
  /\ relations \subseteq [subject : EntityId, object : EntityId \union Name \union {Literal}]
  /\ linked \in [Ingest -> SUBSET EntityId]
  /\ \A i \in Ingest :
       /\ ingest[i].at \in {"new", "look up", "confirm", "write", "link", "relate", "done"}
       /\ ingest[i].names \subseteq Name
       /\ DOMAIN ingest[i].candidates \subseteq Name /\ DOMAIN ingest[i].ids \subseteq Name

NexusInit ==
  /\ entities = {} /\ aliases = {} /\ relations = {}
  /\ linked = [i \in Ingest |-> {}]
  /\ ingest = [i \in Ingest |-> Nothing]

normalizeEntityName(n) == IF n \in Pronoun THEN User ELSE n
Goes(i, to) == ingest' = [ingest EXCEPT ![i] = to]
With(f, n, x) == [m \in DOMAIN f \union {n} |-> IF m = n THEN x ELSE f[m]]

\* A session's extraction; decisions and preferences are relations too.
fromSessionExtraction(i) ==
  /\ ingest[i].at = "new" /\ i \notin Remembered
  /\ \E names \in SUBSET Name, s \in Name, o \in Name \union {Literal} :
       Goes(i, [Nothing EXCEPT !.at = "look up", !.names = {normalizeEntityName(n) : n \in names},
                               !.facts = {[subject |-> s, object |-> o]}])
  /\ UNCHANGED <<entities, aliases, relations, linked>>

\* One fact about one entity.
fromRememberInput(i) ==
  /\ ingest[i].at = "new" /\ i \in Remembered
  /\ \E s \in Name, o \in Name \union {Literal} :
       Goes(i, [Nothing EXCEPT !.at = "look up", !.names = {normalizeEntityName(s)},
                               !.facts = {[subject |-> s, object |-> o]}])
  /\ UNCHANGED <<entities, aliases, relations, linked>>

\* The entities whose name contains the name, or whose alias matches; a lookup
\* that fails finds none.
FindSimilarEntities(n) == {e[1] : e \in {x \in entities : x[2] = n}}
Resembling == SUBSET {e[1] : e \in entities}

LookUpEntity(i) ==
  /\ ingest[i].at = "look up"
  /\ IF DOMAIN ingest[i].candidates = ingest[i].names
       THEN Goes(i, [ingest[i] EXCEPT !.at = "confirm"])
       ELSE \E n \in ingest[i].names \ DOMAIN ingest[i].candidates, found \in Resembling :
              /\ found = {} \/ FindSimilarEntities(n) \subseteq found
              /\ Goes(i, [ingest[i] EXCEPT !.candidates = With(@, n, found)])
  /\ UNCHANGED <<entities, aliases, relations, linked>>

\* The model picks one of a name's candidates or none; an answer that cannot be
\* read, or names what it was not asked about, picks none.
parseBatchDedupResponse(i) ==
  {picked \in [ingest[i].names -> SUBSET EntityId] :
     \A n \in ingest[i].names : picked[n] \subseteq ingest[i].candidates[n] /\ Cardinality(picked[n]) <= 1}

batchConfirmMatches(i) ==
  /\ ingest[i].at = "confirm"
  /\ \E picked \in parseBatchDedupResponse(i) :
       Goes(i, [ingest[i] EXCEPT !.at = "write", !.candidates = picked])
  /\ UNCHANGED <<entities, aliases, relations, linked>>

ToWrite(i) == IF ingest[i].at = "write" THEN DOMAIN ingest[i].candidates ELSE {}
Resolved(i, n, id) ==
  Goes(i, [ingest[i] EXCEPT !.candidates = [m \in DOMAIN @ \ {n} |-> @[m]], !.ids = With(@, n, id)])

\* A name of a known entity becomes its alias.  Without an episode the row breaks
\* a foreign key: that is logged, and the name is resolved all the same.
writeAlias(i) ==
  /\ \E n \in ToWrite(i) : \E id \in ingest[i].candidates[n] :
       /\ aliases' = IF i \in Remembered THEN aliases ELSE aliases \union {<<id, n>>}
       /\ Resolved(i, n, id)
  /\ UNCHANGED <<entities, relations, linked>>

\* Bug: insert without the conflict clause.
InsertEntity(i, n) == /\ entities' = entities \union {<<<<i, n>>, n>>}
                      /\ aliases' = aliases \union {<<<<i, n>>, n>>}
                      /\ Resolved(i, n, <<i, n>>)

\* The entity with the name, made when there is none; its name is an alias.
UpsertEntity(i, n) ==
  LET known == FindSimilarEntities(n)
      id == IF known = {} THEN <<i, n>> ELSE CHOOSE k \in known : TRUE
  IN /\ entities' = entities \union {<<id, n>>}
     /\ aliases' = aliases \union {<<id, n>>}
     /\ Resolved(i, n, id)

WriteEntity(i) ==
  /\ \E n \in ToWrite(i) : ingest[i].candidates[n] = {} /\ UpsertEntity(i, n)
  /\ UNCHANGED <<relations, linked>>

\* A write that fails, of the row or of its alias, leaves its name without an entity.
WriteFails(i) ==
  /\ \E n \in ToWrite(i) :
       /\ ingest[i].candidates[n] = {}
       /\ \/ UNCHANGED entities
          \/ FindSimilarEntities(n) = {} /\ entities' = entities \union {<<<<i, n>>, n>>}
       /\ Goes(i, [ingest[i] EXCEPT !.candidates = [m \in DOMAIN @ \ {n} |-> @[m]]])
  /\ UNCHANGED <<aliases, relations, linked>>

LinkEpisodeEntities(i) ==
  /\ ingest[i].at = "write" /\ ToWrite(i) = {}
  /\ linked' = [linked EXCEPT ![i] = IF i \in Remembered THEN {} ELSE {ingest[i].ids[n] : n \in DOMAIN ingest[i].ids}]
  /\ Goes(i, [ingest[i] EXCEPT !.at = "relate"])
  /\ UNCHANGED <<entities, aliases, relations>>

\* Subject and object are looked up by the names as they were extracted: the
\* fact is dropped when its subject was not resolved under that name.
ingestRelation(i) ==
  /\ ingest[i].at = "relate"
  /\ LET ids == ingest[i].ids
         kept == {f \in ingest[i].facts : f.subject \in DOMAIN ids}
     IN relations' = relations \union
          {[subject |-> ids[f.subject], object |-> IF f.object \in DOMAIN ids THEN ids[f.object] ELSE f.object] : f \in kept}
  /\ Goes(i, [ingest[i] EXCEPT !.at = "done"])
  /\ UNCHANGED <<entities, aliases, linked>>

NexusNext ==
  \E i \in Ingest :
    \/ fromSessionExtraction(i) \/ fromRememberInput(i)
    \/ LookUpEntity(i) \/ batchConfirmMatches(i)
    \/ writeAlias(i) \/ WriteEntity(i) \/ WriteFails(i)
    \/ LinkEpisodeEntities(i) \/ ingestRelation(i)

NexusSpec == NexusInit /\ [][NexusNext]_nexusVars

\* A name has one entity, though two ingests may both find it unknown and both
\* write it, with errors in between; and what is linked, related or has an alias
\* is an entity.
OneEntityPerName ==
  /\ \A e, f \in entities : e[2] = f[2] => e = f
  /\ {r.subject : r \in relations} \union {a[1] : a \in aliases} \union UNION {linked[i] : i \in Ingest}
       \subseteq {e[1] : e \in entities}
=============================================================================
