------------------------------ MODULE PageWalk ------------------------------
(* Lists that an upstream gives page by page, and the four walks over them:   *)
(* the SICONFI reports in Python, the portfolio of a B3 index, and the        *)
(* Worker's SICONFI entities and reports. The upstream may change its list    *)
(* between two pages; in Python each page is a cache entry of its own. A page *)
(* is known by the version of the list it was cut from.                       *)
EXTENDS Integers, SequencesExt

CONSTANTS PageSize,       \* rows of a page
          SiconfiPages,   \* _MAX_PAGES of siconfi.py
          PortfolioPages, \* _MAX_PAGES of indices.py
          EntesPages,     \* MAX_PAGES_ENTES of the Worker
          PageTtl,        \* cache_ttl of a page
          Sizes,          \* numbers of rows the list may start with
          Wanted,         \* the rows a filter of the Worker keeps
          MaxChanges, MaxClock   \* bounds

ASSUME PageAssumption ==
  /\ {PageSize, SiconfiPages, PortfolioPages, EntesPages, PageTtl} \subseteq Nat \ {0}
  /\ Sizes \subseteq Nat /\ Wanted \subseteq Nat /\ MaxChanges \in Nat /\ MaxClock \in Nat

VARIABLES walk,           \* which of the walks this is
          clock,
          versions,       \* every version of the list, the last one is current
          replaced,       \* the time at which each older version was replaced
          pages,          \* the cached pages: version and time
          read,           \* the versions of the pages read so far
          gathered,       \* the rows of those pages
          began,          \* when the walk began
          limit,          \* the Worker's limit
          state           \* "idle", "walking", "done", "failed"

pageVars == <<walk, clock, versions, replaced, pages, read, gathered, began, limit, state>>

Walks == {"siconfi", "portfolio", "entes", "report"}
InWorker == walk \in {"entes", "report"}
LastPage == CASE walk = "siconfi" -> SiconfiPages [] walk = "portfolio" -> PortfolioPages
         [] walk = "entes" -> EntesPages [] walk = "report" -> 1

PageOf(list, i) == SubSeq(list, (i - 1) * PageSize + 1, Min({i * PageSize, Len(list)}))
HasMore(list, i) == Len(list) > i * PageSize
TotalPages(list) == Max({1, (Len(list) + PageSize - 1) \div PageSize})

PageInit ==
  /\ walk \in Walks /\ clock = 0 /\ state = "idle"
  /\ \E size \in Sizes : versions = << [i \in 1 .. size |-> i] >>
  /\ replaced = << >> /\ pages = << >> /\ read = << >> /\ gathered = << >> /\ began = 0 /\ limit = 0

\* A row is added at either end, or the first one goes.
ListChanges ==
  LET list == Last(versions)
      new == 10 + Len(versions)
  IN
  /\ Len(versions) <= MaxChanges
  /\ \E next \in {<<new>> \o list, Append(list, new)} \cup (IF list = << >> THEN {} ELSE {Tail(list)}) :
       versions' = Append(versions, next)
  /\ replaced' = Append(replaced, clock)
  /\ UNCHANGED <<walk, clock, pages, read, gathered, began, limit, state>>

PageTick ==
  /\ clock < MaxClock /\ clock' = clock + 1
  /\ UNCHANGED <<walk, versions, replaced, pages, read, gathered, began, limit, state>>

Begin ==
  /\ state # "walking"
  /\ state' = "walking" /\ read' = << >> /\ gathered' = << >> /\ began' = clock
  /\ limit' \in (IF InWorker THEN {1, PageSize + 1} ELSE {0})
  /\ UNCHANGED <<walk, clock, versions, replaced, pages>>

FreshPage_Forever(i) == i \in DOMAIN pages   \* (mutant) a page never expires
FreshPage(i) == i \in DOMAIN pages /\ clock - pages[i].at < PageTtl

\* The walk goes on while the page says that there are more, for the portfolio
\* up to the number of pages the first page told; at most LastPage pages.
EndsAfter(seen) ==
  \/ Len(seen) = LastPage
  \/ IF walk = "portfolio" THEN Len(seen) >= TotalPages(versions[seen[1]])
     ELSE ~HasMore(versions[Last(seen)], Len(seen))

Took(v) ==
  /\ read' = Append(read, v) /\ gathered' = gathered \o PageOf(versions[v], Len(read) + 1)
  /\ state' = IF EndsAfter(read') THEN "done" ELSE "walking"
  /\ UNCHANGED <<walk, clock, versions, replaced, began, limit>>

ReadHit ==
  /\ state = "walking" /\ ~InWorker /\ FreshPage(Len(read) + 1)
  /\ Took(pages[Len(read) + 1].version)
  /\ UNCHANGED pages

ReadMiss ==
  /\ state = "walking" /\ (InWorker \/ ~FreshPage(Len(read) + 1))
  /\ Took(Len(versions))
  /\ LET i == Len(read) + 1
         entry == [version |-> Len(versions), at |-> clock]
     IN pages' = IF InWorker THEN pages
                 ELSE [j \in 1 .. Max({i, Len(pages)}) |-> IF j = i THEN entry ELSE pages[j]]

\* A page that fails fails the whole walk; the pages before it stay cached.
ReadFails ==
  /\ state = "walking" /\ (InWorker \/ ~FreshPage(Len(read) + 1))
  /\ state' = "failed"
  /\ UNCHANGED <<walk, clock, versions, replaced, pages, read, gathered, began, limit>>

PageNext == ListChanges \/ PageTick \/ Begin \/ ReadHit \/ ReadMiss \/ ReadFails

PageSpec == PageInit /\ [][PageNext]_pageVars

-----------------------------------------------------------------------------
(* The Worker's answer                                                        *)
Complete_Always(seen) == TRUE           \* (mutant) the page cap is not told
\* complete: the last page said that there are no more.
Complete(seen) == ~HasMore(versions[Last(seen)], Len(seen))
Keeps(row) == walk # "entes" \/ row \in Wanted
\* The places of the rows that match, and the first ones of them.
Matched(rows) == {i \in DOMAIN rows : Keeps(rows[i])}
Returned ==
  {i \in Matched(gathered) : Cardinality({j \in Matched(gathered) : j <= i}) <= limit}
CutToLimit == Cardinality(Matched(gathered)) > Cardinality(Returned)
Truncated == CutToLimit \/ ~Complete(read)

-----------------------------------------------------------------------------
PageTypeOK ==
  /\ walk \in Walks /\ state \in {"idle", "walking", "done", "failed"}
  /\ clock \in 0 .. MaxClock /\ Len(versions) <= MaxChanges + 1 /\ Len(replaced) = Len(versions) - 1
  /\ \A i \in DOMAIN pages : pages[i].version \in DOMAIN versions /\ pages[i].at <= clock
  /\ Len(read) <= LastPage /\ \A i \in DOMAIN read : read[i] \in DOMAIN versions

\* The list did not change between the pages of the walk.
OneVersion == \A i \in DOMAIN read : read[i] = read[1]

\* docs/MCP_SURFACE.md, "Completeness is never assumed": of a walk during which
\* the list did not change, truncated is said exactly if a row that matches may be
\* missing, and upstream_complete exactly if total_matched counts the whole list.
\* Of a walk whose pages are of several versions nothing is said.
EnvelopeIsHonest ==
  state = "done" /\ InWorker /\ OneVersion =>
    LET list == versions[read[1]] IN
    /\ Complete(read) <=> gathered = list
    /\ ~Truncated => Returned = Matched(list)
    /\ Truncated => Cardinality(Returned) < Cardinality(Matched(gathered)) \/ Len(gathered) < Len(list)

\* The walks in Python give the whole list, or silently its first LastPage pages,
\* when all pages are of one version; a page read from the cache is of a
\* version that was current less than one ttl before the walk began, and pages of
\* different versions are joined into one list, which may then lack a row or have
\* it twice, only if the list changed within that ttl or during the walk.
WalkIsWhole ==
  state = "done" /\ ~InWorker =>
    /\ OneVersion =>
         LET list == versions[read[1]] IN
         gathered = SubSeq(list, 1, Min({LastPage * PageSize, Len(list)}))
    /\ \A i \in DOMAIN read :
         read[i] \in DOMAIN replaced => replaced[read[i]] > began - PageTtl
    /\ ~OneVersion => \E v \in DOMAIN replaced : replaced[v] > began - PageTtl
=============================================================================
