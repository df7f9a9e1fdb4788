------------------------------ MODULE Registry ------------------------------
(* The offline registry: a SQLite file that build_registry.py replaces, in one*)
(* transaction after it has asked all its sources, and that lookup and        *)
(* get_meta read at any time. A build may fail or be killed at every step.    *)
EXTENDS RegistryQuery, FiniteSetsExt

CONSTANTS Companies, Funds, Insurers,   \* what the sources list
          LookupLimit,                  \* limit of lookup
          MaxBuilds                     \* bound on the builds

VARIABLES file,        \* what is committed: whether there are tables, entities, meta
          pending,     \* what the build's transaction has so far
          step,        \* the build's next step
          builds,
          looked       \* the last lookup: the entity it was about, and its answer

registryVars == <<file, pending, step, builds, looked>>

ASSUME RegistryAssumption ==
  /\ LookupLimit \in Nat \ {0} /\ MaxBuilds \in Nat
  /\ IsFiniteSet(Companies) /\ IsFiniteSet(Funds) /\ IsFiniteSet(Insurers)

Nothing == [tables |-> FALSE, entities |-> {}, meta |-> FALSE]
NotLooked == [kind |-> "none", typed |-> {}, found |-> {}]

\* Without B3 a company has no tickers; the indexes are asked one by one.
WithTickers(some) == {[c EXCEPT !.codes = IF c \in some THEN @ ELSE @ \ c.tickers] : c \in Companies}
Wholes == {WithTickers(some) \cup Funds \cup Insurers : some \in SUBSET Companies}
Entities == UNION Wholes
Typed == [e \in Entities |-> TypedAs(e)]
Hits == [q \in UNION {Typed[e] : e \in Entities} |-> {e \in Entities : Match(q, e)}]

\* What is typed of an entity, in each of the ways of TypedAs, matches it: what the
\* words of a query and of an entity are made for.
TypedMatches == \A e \in Entities : \A q \in Typed[e] : _normalize_query(q) # {} => Match(q, e)

\* The wheel ships a whole registry.
RegistryInit ==
  /\ file = [tables |-> TRUE, entities |-> WithTickers(Companies) \cup Funds \cup Insurers, meta |-> TRUE]
  /\ pending = Nothing /\ step = "idle" /\ builds = 0 /\ looked = NotLooked

\* open_fresh_db removes the file, makes another and commits its empty tables.
Unlink ==
  /\ step = "idle" /\ builds < MaxBuilds
  /\ file' = Nothing /\ step' = "create" /\ builds' = builds + 1
  /\ UNCHANGED <<pending, looked>>

Create ==
  /\ step = "create" /\ step' = "companies"
  /\ file' = [file EXCEPT !.tables = TRUE] /\ pending' = file'
  /\ UNCHANGED <<builds, looked>>

\* The names of B3's indexes give some companies their tickers: an index that
\* fails is left out.
BuildCompanies ==
  /\ step = "companies" /\ step' = "funds"
  /\ \E some \in SUBSET Companies : pending' = [pending EXCEPT !.entities = @ \cup WithTickers(some)]
  /\ UNCHANGED <<file, builds, looked>>

BuildFunds ==
  /\ step = "funds" /\ step' = "insurers"
  /\ pending' = [pending EXCEPT !.entities = @ \cup Funds]
  /\ UNCHANGED <<file, builds, looked>>

BuildSusep ==
  /\ step = "insurers" /\ step' = "meta"
  /\ pending' = [pending EXCEPT !.entities = @ \cup Insurers]
  /\ UNCHANGED <<file, builds, looked>>

WriteMeta ==
  /\ step = "meta" /\ step' = "finalize"
  /\ pending' = [pending EXCEPT !.meta = TRUE]
  /\ UNCHANGED <<file, builds, looked>>

\* The commit, and the file made small.
Finalize ==
  /\ step = "finalize" /\ step' = "idle"
  /\ file' = pending /\ pending' = Nothing
  /\ UNCHANGED <<builds, looked>>

Abort_Commits ==                         \* (mutant) what was inserted is kept
  /\ step # "idle" /\ step' = "idle"
  /\ file' = (IF step = "create" THEN file ELSE pending) /\ pending' = Nothing
  /\ UNCHANGED <<builds, looked>>

\* A source that fails, or a build that is killed: the transaction is lost.
Abort ==
  /\ step # "idle" /\ step' = "idle"
  /\ pending' = Nothing
  /\ UNCHANGED <<file, builds, looked>>

-----------------------------------------------------------------------------
\* The entities that match, or LookupLimit of them in an order that FTS5 gives.
\* Without tables the query raises; connecting makes a file that is not there.
Lookup ==
  /\ \E e \in Entities : \E q \in Typed[e] :
       LET hits == Hits[q] \cap file.entities IN
       IF _normalize_query(q) = {} THEN looked' = [NotLooked EXCEPT !.kind = "too_short"]
       ELSE IF ~file.tables THEN looked' = [NotLooked EXCEPT !.kind = "raised"]
       ELSE \E found \in SUBSET hits :
              /\ Cardinality(found) = Min({LookupLimit, Cardinality(hits)})
              /\ looked' = [kind |-> "entities", typed |-> {e} \cap file.entities, found |-> found]
  /\ UNCHANGED <<file, pending, step, builds>>

\* A build that writes a lot locks its readers out for a moment.
LookupLocked ==
  /\ pending.entities # {} /\ looked' = [NotLooked EXCEPT !.kind = "raised"]
  /\ UNCHANGED <<file, pending, step, builds>>

RegistryNext ==
  \/ Unlink \/ Create \/ BuildCompanies \/ BuildFunds \/ BuildSusep \/ WriteMeta \/ Finalize \/ Abort
  \/ Lookup \/ LookupLocked

RegistrySpec == RegistryInit /\ [][RegistryNext]_registryVars

-----------------------------------------------------------------------------
RegistryTypeOK ==
  /\ file.tables \in BOOLEAN /\ file.meta \in BOOLEAN /\ file.entities \subseteq Entities
  /\ step \in {"idle", "create", "companies", "funds", "insurers", "meta", "finalize"}
  /\ looked.kind \in {"none", "raised", "too_short", "entities"}

\* A lookup finds what was typed, by code or by name, however it was punctuated
\* or labelled, unless the limit is full, also while a build is under way or
\* after one that failed: only then may the registry be empty, and a registry
\* that has meta data, or any entity at all, has those of all its sources.
LookupFinds ==
  /\ looked.kind = "entities" => looked.typed \subseteq looked.found \/ Cardinality(looked.found) = LookupLimit
  /\ file.meta \/ file.entities # {} => file.meta /\ file.entities \in Wholes
=============================================================================
