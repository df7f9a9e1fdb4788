# OpenFinData in TLA+

OpenFinData serves Brazilian public financial data (CVM, B3, BCB, ANBIMA, IBGE, Tesouro and
others) as a Python library, a REST API, an MCP server, a command line, and a small Cloudflare
Worker.  Almost every operation is *one read of an upstream through a shared cache, then a pure
projection of what came back*.  What is hard about the program is therefore not in the thirty
projections but in the places where something is kept, shared, guessed, started or cut: the HTTP
cache and its lock, the shared client over several event loops, the OAuth2 token, the parsed-data
caches, the CVM listings, the day cache of the IMA history, walks over pages, the sandbox that runs a
caller's snippet, the resolver that classifies an asset from weak evidence, the fund quotes that join
files of several months and CNPJs, the searches of the fund register, the offline registry and its
build, and four surfaces that each bound their parameters, cut their rows and name their failures by
hand.  Those are what the modules here model; each definition is translated from the source, and
`map` in `PROJECT.json` names its lines.

Paths below are relative to `src/src/findata/` unless they start with `src/`.

## 1. Inventory

| Part | Code | State it keeps | Operations | What is hard |
|---|---|---|---|---|
| Shared HTTP read path | `http_client.py` | `_cache` (OrderedDict), `_locks`, `_client` | `get_json`, `get_bytes`, `clear_cache`, `_get_client`, `close_client` | tasks queue on one lock per key, retries and sleeps under the lock, LRU eviction, expiry, cancellation, clearing in between |
| OAuth2 token cache | `auth/oauth2.py` | `_token`, `_lock` | `get_token`, `reset` | refresh by many callers, client and endpoint count the token's life from different moments, `reset` without the lock |
| Parsed-data caches | `_cache.py`, five users under `sources/` | `_data`, `_loaded_at` | `get_or_load`, `invalidate` | no lock: loads overlap; two ttls on top of each other |
| CVM listings | `sources/cvm/_directory.py` | a `TTLCache` with one dictionary of all listings | `list_files` | dictionary read before an await, changed and stored after it |
| Code mode | `api/mcp_app.py:1104-1150` | a child process, its process group, its pipe | `_execute_code` | timeout against exit, kill of a process tree, cancellation |
| Asset resolver | `resolver/*.py`, `sources/b3/listed_funds.py` | the result and its cascade during one call | `resolve_asset`, `classify`, `b3_listed_provider`, `lookup_listed_fund` | order of the rules, thresholds of the early return, providers that answer, pass or fail at each step |
| MCP fund quotes | `api/mcp_app.py:87-276`, `sources/cvm/{funds,cadastro}.py`, `src/workers/mcp/src/tools/cvm.ts` | the series during one call | `_cvm_fund_quotes`, `cvmFund` | month window, missing and failing months, truncation before removal of duplicates, rows of several CNPJs |
| Paginated sources | `sources/tesouro/siconfi.py`, `sources/b3/indices.py`, `src/workers/mcp/src/tools/tesouro.ts` | the pages in the read path's cache | `_paginate`, `get_index_portfolio`, `paginate`, `envelopeBody` | page caps, pages of different ages, a list that changes during the walk |
| IMA history | `sources/anbima/indices.py` | `_ima_history_cache` | `get_ima_history`, `_fetch_ima_for_date` | a gather under a semaphore made per call, failed, unpublished and unreadable days, a cache that keeps empty days |
| CVM register and readers | `sources/cvm/*.py`, `src/workers/mcp/src/tools/cvm.ts` | the parsed register (in a `TTLCache`) | `get_fund_cadastro`, `get_fund_holdings`, `catalogByCnpj`, `catalogByName`, `holdingsFromZip` | joins over three files, limits, the Worker's caps, lines that only mention a CNPJ |
| Offline registry | `registry/*.py`, `src/scripts/build_registry.py` | a SQLite file | `lookup`, `get_meta`, the build | a build that deletes first and commits last; codes indexed without punctuation, queries cut into tokens |
| Open Finance directory | `sources/openfinance/*.py` | none | filters and counts | nested records |
| Client life cycle | `http_client.py:157-182`, `api/app.py`, `cli.py` | `_client`, `_client_loop_id` | `_get_client`, `close_client` | loops known by `id()`, a close during requests, a client made during a close |
| REST, MCP, CLI | `api/`, `cli.py` | `_CURRENT_YEAR` at import | the routes, the tools with their modes, the commands with theirs | limits declared once and applied by hand, bounds fixed at import, exceptions turned into statuses, silent cuts |
| Other sources | `sources/{bcb,ibge,ipea,susep,receita,aneel,yahoo,basedosdados}` | none | one read and a projection each | formats |
| Worker | `src/workers/mcp/src/` | two platform rate limiters | tools, a scan of zipped CSV files, page walks | chunks that end anywhere, caps of its own, its own copy of the fund quotes |
| Landing page, tooling | `web/`, `src/scripts/` | none | | |

### How they interact

    REST / MCP / CLI --> sources (project rows)  --> TTLCache --> get_json/get_bytes --> upstream
                    \--> resolver --> providers --> lookup_listed_fund --^
    ANBIMA sources --> get_token ------------------------------------------> token endpoint
    MCP execute_code --> child interpreter (a group of processes) --> findata as a library

Everything on the Python side runs in one event loop: a task is interrupted only at an `await`, so
a *step* of a model is what a task does between two awaits.  The only real parallelism is between
the loop and the processes of a snippet, and between the loop and the upstreams.

### What makes each part correct

* **Read path**: one request at a time per key and lock; no request for what is cached; an LRU
  dictionary that never exceeds its cap; a reader never gets something older than the ttl allows,
  and never something older than it or anybody else was given before; every call ends.
* **Token**: one refresh at a time, only when needed; a token handed out is not rejected, unless it is so
  short-lived that it is handed out unchecked or its life was not told; `reset` forces a refresh (it does
  not, see Divergences).
* **Parsed caches**: the whole stack of caches is one bounded-stale, monotonic read.
* **Listings**: no listing is served beyond its six hours (it may be).
* **Code mode**: a timeout leaves nothing of the snippet running (it may), no zombie is left, every
  run ends.
* **Resolver**: name traps are final; guesses and inferred exemptions are challenged; failing
  providers lose nothing; the catalogue's pages of hits are quoted correctly; the audit trail is complete.
* **Fund quotes**: an answer that is not truncated has every published day of the window and nothing
  else, whatever failed; a fund and its only class are one series; classes are apart (they may not be).
* **Register and holdings**: a search serves every fund it is about, with its classes and subclasses, up
  to the limit; holdings that are not truncated are all of the fund's rows (in the Worker they may not be).
* **IMA history**: a day with data is hidden for at most one ttl, by a call that asked before it was published
  or by a page that could not be read, and a failed day is never kept.
* **Pages**: a walk gives the whole list or its first pages when the list stood still; pages are not older
  than the ttl, and a list is mixed of several versions only if it changed that recently; the Worker's
  envelope, when the list stood still, says truncated exactly when something may be missing.
* **Client**: no request over another loop's connection; only `close_client` loses a client.
* **Surfaces**: a limit that is accepted is kept, the current year is accepted, a failure is blamed on who
  caused it, and a table of the command line that leaves rows out says so (with the exceptions that the
  properties name, operation by operation).
* **Registry**: what is listed is found however it was typed, and the registry is whole or empty.
* **CSV scan**: the rows found do not depend on how the file was stored or where its chunks end.

## 2. Modules

| Module | Models | Kind |
|---|---|---|
| `CachedRead` | what callers may rely on when they read through a cache | abstract specification |
| `HttpCache` | `http_client.py` read path | detailed specification, implements `CachedRead` |
| `ParsedCache` | `_cache.py` over the read path | composes `CachedRead` below and implements `CachedRead` above |
| `OAuthToken` | `auth/oauth2.py` with the token endpoint | specification |
| `CvmListing` | `list_files` | specification, with objects that alias |
| `CodeMode` | `_execute_code` with the snippet's processes | specification |
| `Resolver` | `resolve_asset` with its rules and providers | specification over pure operators |
| `FundQuotes` | `_cvm_fund_quotes` and the Worker's `cvmFund` | specification over pure operators |
| `FundLookup` | `get_fund_cadastro`, `get_fund_holdings` and the Worker's catalogue and holdings | specification over pure operators |
| `ImaHistory` | `get_ima_history` with its day cache, calls overlapping | specification |
| `PageWalk` | the page walks of SICONFI, B3 and the Worker over a list that changes | specification |
| `ClientLife` | `_get_client`, `close_client` and the requests of several loops | specification |
| `Operations`, `RestRoutes`, `McpTools`, `WorkerTools` | what each operation of the HTTP surfaces declares, asks, cuts and answers | tables, one record per operation |
| `Surfaces` | one request at a time to any of those operations, over New Years and restarts | specification over the tables |
| `CliCommands`, `Cli` | what each command asks and shows, and the machine that runs one | table and specification |
| `RegistryQuery`, `Registry` | the words of an entity and of a query; the build and the lookups | operators and specification |
| `CsvScan` | `eachCsvLineFrom` and `scanZipCsvForNeedles` of the Worker | specification |
| `SideBySide`, `McpCalls` | the machines that keep to themselves; the MCP tools that keep everything in one call | compositions |
| `HttpCacheProofs`, `OAuthTokenProofs`, `ResolverProofs` | theorems about the module they are named after | proofs |
| `ProcessProofs` | theorems about `ParsedCache` and `ClientLife` | proofs |
| `SourceProofs` | theorems about `ImaHistory`, `PageWalk`, `Registry` and `CsvScan` | proofs |
| `SurfaceProofs` | theorems about `Surfaces` and `Cli` with their tables | proofs |
| `McpCallsProofs` | theorems about `CodeMode`, `FundQuotes`, `FundLookup` and `McpCalls` | proofs |
| `OperationsProofs` | the theorem about `SideBySide` | proofs |
| `MC*` | the small instances TLC checks | model checking |

`SideBySide` puts the machines that keep to themselves side by side (`ParsedCache`, `Surfaces`, `Cli`,
`PageWalk`, `ImaHistory`, `ClientLife`, `Registry`, `CsvScan`; TLC's instance is `MCOperations`), and
`McpCalls` (`MCMcpCalls`) the MCP tools that keep everything in one call (`FundQuotes`, `FundLookup`, `CodeMode`): a behaviour is one of a single
machine while the others stand still, which is what they do to each other in the code.  The compositions that
matter are made inside modules: `ParsedCache` over `CachedRead`, `PageWalk` over the page entries of the read
path, `Surfaces` over the sources' outcomes, `FundLookup`'s register under `FundQuotes` (`Needles`).

**CachedRead.** State: what each task is asking, and the last answer it got (`asOf`, when the
upstream produced it; `at`, when it was received).  An answer is at most `MaxTtl` older than its
receipt and never older than what any task was given for that key before.

**HttpCache.** `cache` is `_cache` as a sequence, least recently used first, each entry with the
ttl it was stored under.  `ahead[c]` is the queue of the asyncio lock as seen from `c`: the tasks
that hold it or wait before `c` (asyncio serves waiters in FIFO order).  `clear_cache` drops
`_locks` too, so a lock is identified by the key and the number of clears before the call.
`CallHit`/`CallMiss` are the code before the first await, `AdmitHit`/`AdmitMiss` the second lookup
under the lock, `Respond`/`Receive`/`Fail`/`Wake` the retry loop, `Cancel` a cancellation at any
await.  A cached JSON `null` is a miss for `_cache_get`, which the model has (`NullKeys`).

**ParsedCache.** `data`, `loadedAt` are `_data`, `_loaded_at`; the loader's read is a step of the
abstract `CachedRead` below, so that the result holds for whatever implements it, which `HttpCache`
is shown to do.  There is no lock, so loads overlap.

**OAuthToken.** A cached token carries when the client believes it expires and when the endpoint
stops accepting it; `Latency` is how long an answer travels and `Grace` how long a caller takes to
present the token.  `era` counts the resets before a token was issued.  The endpoint may give any life
(`life`), zero or less too, and need not say which: `ttl`, what the client takes it for, is then `Default`
(3600 in the code).  `fresh` says that the call which asked for a token is the one that gets it, which
happens without a look at `is_expired`.

**CvmListing.** Dictionaries are objects with an identity (`Dicts`), because two tasks that saw the
same one share it, and `seen[c]` is the one a task captured before its fetch.

**CodeMode.** Processes are in a group or have left it, and run, are dead and unreaped, or are
gone; the pipe is at its end when nobody holds it.  The timeout, the child watcher and the
processes interleave freely.

The variable that the code has no name for is `progress`, how far the call is.

**Resolver.** A name is the set of words and phrases in it that the rules look for; `TokensOf` and
`PartsOf` say what a whole-word and a substring test find in each (a substring test finds ACOES in
PARTICIPACOES).  `Rules` is the rule sequence in the order of the code and `RulePayload` the first that
fires.  Confidence is kept in per cent because properties depend on the threshold of 90; subclass,
notes and evidence strings are left out.  `walk` is the type whose catalogue page is read next:
each page is a separate request and may fail.  It is the first page of 20 hits of B3's own search: `listed`
is the types that list the ticker, and `shown` those of them whose page has it.

**FundQuotes.** One call: `request`, `register` and `archive` are what it meets, `stamps`, `funds`, `series`,
`missing`, `truncated` its own variables.  A row is a line of a month's file with its place; `series` is a set
of rows whose order is that of months and places (`Before`), so that a cut is `First(R, n)`.  The window is
chosen in `Open` or refused in `Refuse`; the register is read, or fails, in `Look`, `LookFails` or `LookRaises`;
each month is one of `ReadMonth`, `MissMonth` (404), `MonthFails`.  `request.surface` tells the Python tool from
the Worker, which differ in the scan cap, in what a broken register does and in a rule for a register whose
fund has its own CNPJ among its classes (`Target`).

**FundLookup.** A request meets the register's three files as sequences of rows that are hits or not, joined by
their places, or an archive of blocks whose lines are the fund's own, another fund's that names the CNPJ
(a holder of its quotas), or neither.  `_select_fundos` is the cascade of the Python search; `CatalogByCnpj`
and `CatalogByName` are the Worker's, whose every scan (`Scan`) stops at `CatalogCap`.  The archive is read entry
by entry (`ReadEntry`), with the list `holdings` growing as in both loops, until no entry or no limit is left.

**ImaHistory.** Each call has, for each weekday of its range, a state: waiting for the semaphore, posting since
an hour, or what it has of the day.  ANBIMA publishes a day at some hour or never, and what a POST brings was
true at some moment since it was sent; or it brings, with status 200, something without the header row
(`HeaderMissing`), which the code keeps as an empty day (`"unread"`).  `unreadAt` is history: when that last
happened to each day.

**PageWalk.** A page is known by the version of the list it was cut from; the list changes at either end between
any two steps.  `versions` and `replaced` are history, which the properties compare the walk with.  `read` is the
pages of the walk with the version each was cut from, `gathered` the rows it has put together from them.

**ClientLife.** A loop is its number and its `id()`, which another loop may get once no idle connection keeps the
first alive.  A task takes its client once for all attempts; `CloseStarts` and `CloseEnds` are the two
sides of the `await` in `close_client`.

**Surfaces and its tables.** An operation is a record: the parameters that must be there or are bounded
(422), those the handler checks itself (400), the sources it asks in order, how it cuts their rows, and the
status of *nothing found* and of an exception.  A request is right but for at most one parameter.  A
source answers a number of rows, finds nothing, refuses an argument, sends garbage or is out; an operation of kind
`isolated` (the resolver) catches whatever its source raises.  `boot` is the year the routers were imported in.
Any caller may have made too many requests, and is then answered 429; the counters behind it are not modelled.

**Cli.** A command asks its sources one after the other and shows each one's rows before the next is
asked.  The cut and the note that rows are missing are written in each command; the table has them one by one.

**Registry.** The build's steps with its transaction (`pending`) beside what is committed (`file`); it may
fail or be killed at every one.  Texts are short sequences of characters, because punctuation is what the
words of entities and queries differ in.  FTS5 enters by what it matches.

**CsvScan.** A file is a sequence of line feeds, carriage returns and one more byte; a chunk may end after
any of them.  The scan is a fold of `TakeByte` over a chunk; what it must bring is said by places only: a line
is what stands between two ends of lines (`Ends`, `LineAt`), and `Due` is the lines that a complete scan owes.

## 3. Runs

| Run | Bounds | Checks | Result |
|---|---|---|---|
| `http_cache` | 2 tasks, 2 keys, 1 cache slot, ttl 0 and 1, 2 attempts, clock to 2 | `TypeOK`, `CacheIsLru`, `NoNeedlessRequest`, `ReadsAreMonotonic` | hold |
| `http_cache_live` | 3 tasks, 1 key, 1 clear, 2 attempts | `SingleFlight`, `EveryCallEnds` | hold |
| `oauth_token` | 3 tasks, lifetimes 0 and 5, 4 assumed if none is told, margin 2, 1 reset, clock to 4 | `TypeOK`, `OneRefreshAtATime`, `RefreshOnlyWhenNeeded`, `NeverPresentsExpired`, `EveryGetEnds` | hold |
| `oauth_reset` | 2 tasks, 1 reset | `ResetForcesRefresh` | violated |
| `operations` | 2 tasks, loops' ids, calls and days; 3 loops and clients; 2 New Years; lists of up to 5 rows in pages of 2 that change twice; 5 entities and 2 builds; files of up to 7 bytes; every operation and command | `OperationsTypeOK`, `StackedReadsAreMonotonic`, `LimitKept`, `YearIsCurrent`, `BlameIsJust`, `TablesAreHonest`, `HiddenAtMostADay`, `EnvelopeIsHonest`, `WalkIsWhole`, `NoForeignConnection`, `OnlyClosingLosesClients`, `LookupFinds`, `ScanIsWhole` | hold |
| `cvm_listing` | 1 task, 2 directories, ttl 2, clock to 4 | `ListingsExpire` | violated |
| `mcp_calls` | 2 surfaces; quotes: 3 months over a year's end, 5 contents of a file, 6 registers, windows of up to 2 months, limit 4, scan cap 2; searches: 3 funds, up to 3 classes and a subclass, 2 blocks of up to 3 lines, limits 1 and 2, cap 2; snippets: 3 processes in any tree | `CallsTypeOK`, `AnswerIsExact`, `ContinuationIsStitched`, `LookupIsWhole`, `KilledGroupStaysDead`, `AnsweredRunIsReaped`, `EveryRunEnds` | hold |
| `code_mode_timeout` | 1 process | `TimeoutKillsTree` | violated |
| `resolver` | every pair of 12 words that different rules claim and 15 further names, 8 tickers, 4 provider chains, 2 catalogue types, each of which lists the ticker on its page of hits, beyond it or not | `TypeOK`, `TrapsAreFinal`, `GuessesAreChallenged`, `InferredExemptionIsAsked`, `FailuresLoseNothing`, `CatalogueSpeaksTrue`, `AuditTrailGrows`, `EveryResolveEnds` | hold |
| `resolver_seeds` | the same | `SeededTickersHit` | violated |
| `fund_quotes_classes` | the quotes of `mcp_calls`, one file with a line of each of two classes | `ClassesAreApart` | violated |
| `holdings_scan` | the searches of `mcp_calls` | `HoldingsAreWhole` | violated |

### Why the bounds are enough

* *Tasks.* The read path and the token need three tasks for a queue with somebody in the middle
  (one fetching, one that may be cancelled, one behind it); the data of the cache needs two, one that
  changes what the other sees.  What holds for any number of tasks is proved (section 5).
* *Keys and slots.* Two keys and one slot make every store an eviction; a hit between two stores
  makes the order matter.
* *Time.* The clock passes the end of every ttl once and goes on for a second life: an entry is seen
  fresh, in its last instant, at its end, and replaced.  ttl 0 is the value that stores nothing.
* *Tokens.* With margin 2 a lifetime of 0 is over at once, an assumed one of 4 is good for two instants and
  one of 5 for three, so that hits, boundary and expiry all occur within the clock's bound, and a token of no
  life that was not told is believed in.
* *Processes.* Three allow a child of a child, and one that leaves the group while another stays.
* *Names.* A rule is decided by one or two words, and an overlap of rules by a pair; the three-word
  names are those where a third word matters (issuer and index of a debenture; a fund type, a fund
  context and a geographic word).

* *Quotes.* Two months of three are a window with a month before it; files have the two CNPJs of a
  continuation in both orders and on different days, two classes on one day, and a subclass; the limit is
  reached within the second month, the cap within one.

* *Register.* Three funds with limits of one and two leave a fund out; three classes exceed the cap of two;
  a class found by its subclass, a subclass without its class and a fund found twice all occur.  One block of
  two lines with a holder before an own line is the smallest case of the divergence.
* *Days and slots.* Two days and one slot make a day wait while another is posted; two calls overlap on one
  cache; the hour that passes is the whole ttl, so that an entry is seen fresh and at its end.
* *Catalogue.* Two types are a first one and a later one, each of which may list the ticker, show it or fail.
* *Loops.* Three loops with two ids: the third gets an id that was used before.  Three clients: one of
  an earlier loop, one being closed and one made meanwhile.
* *Pages.* Lists of none, one, several and more pages than each cap, with a row added or taken between
  any two pages, twice.
* *Operations.* Every operation with each of its parameters missing, at a bound, or just outside it, and with its
  limit absent, at its ends and inside; sources that answer none, few, exactly the limit and one more row.
* *Registry.* A company with a punctuated code and a reserved word in its name, one with a code that is a prefix
  of another's, a fund and an insurer whose codes overlap; five entities, of which a query may match more
  than the limit.  The second build starts from what the first left, committed or not.
* *Bytes.* Seven bytes are a header, two rows with CR LF and a needle of two bytes across any chunk end.

`CHECK_DEADLOCK FALSE` is set for `MCMcpCalls`, `MCResolver`, `MCCodeMode`, `MCFundQuotes` and `MCFundLookup`,
where one call is modelled and its end is the end of the system, and for `MCOperations`, where no loop starts
after `MaxLoops` and a file is scanned once.  `MaxTime`, `MaxClears`, `MaxResets`, `MaxYears`,
`MaxChanges`, `MaxClock`, `MaxHours`, `MaxLoops`, `MaxClients`, `MaxBuilds`, `MaxFile` and `MaxRows` bound
counters and inputs in guards; after them
the other actions go on.  `SYMMETRY` is used only in runs without liveness properties.

### Fairness

* `HttpCache`, `OAuthToken`: weak fairness of each task's own progress (`Progress(c)`).  The event loop
  runs every task that can run, asyncio's lock serves waiters in order, and the client's timeouts end
  every request, in failure if need be.  No fairness is assumed for calls, cancellations, clears, resets
  or the clock.
* `CodeMode` (`RunFairSpec`, and in `mcp_calls` `CallsSpec`): the event loop's steps (collecting output, the timeout, the answer) and the child watcher's
  are fair; nothing obliges the snippet's processes to do anything, not even to exit.
* `Resolver`: weak fairness of `Next`: one task runs, and every provider answers, passes or raises (the
  read path below always ends, which is `EveryCallEnds`).

## 4. Divergences between code and documentation

Six runs show that the code does something else than its own words say; the findings in
`PROJECT.json` quote the lines.

1. `oauth_reset`: `reset()` does not force the next call to refresh when a request is under way.
2. `cvm_listing`: fetching one directory renews the six hours of all other listings in the dictionary.
3. `code_mode_timeout`: a process that outlives the snippet's interpreter escapes the timeout's kill.
4. `resolver_seeds`: B5P211, IB5M11 and B5MB11 are curated but fail the ticker pattern.
5. `fund_quotes_classes`: rows of two classes on one day are taken for duplicates, and one class is lost.

6. `holdings_scan`: the Worker counts lines of other funds toward the limit of a fund's holdings, loses own
   rows and says that nothing was truncated.

Further observations that no run is spent on:

* `_select_fundos` (`sources/cvm/cadastro.py:239-246`) appends a fund found by its class or subclass before it
  looks at the limit: when names alone filled it, `limit + 1` funds are answered.  `LookupIsWhole` and
  `LimitKept` name this as the code's exception.
* The modes listed in `LimitIsIgnoredBy` (`Surfaces`) declare a limit that they do not apply, the commands in
  `QuietCuts` (`Cli`) leave rows out without a word, and a zero or negative `-n` of three commands is a
  Python slice of another meaning.
* A process that runs through New Year refuses the current year on `/cvm/financials/dfp` and `/itr`, and after a
  second one on every route that bounds the year (`YearIsCurrent`).
* `/b3/quote` and `/b3/history` answer 404 for any failure, `/b3/quotes` 500 for a bad argument.  An upstream
  body that cannot be decoded raises a `ValueError`, which both applications answer with 400, as if the
  caller were to blame (`api/app.py:142-144`); the resolver answers 200 when its provider failed
  (`resolver/engine.py:734-738`), which its cascade notes.  `BlameIsJust` names these exceptions.
* `get_token` promises to "Return a non-expired token" (`auth/oauth2.py:63`), but what it has just fetched is
  handed out unchecked (`:65-67`): with an `expires_in` of 0 it is expired already, which
  `src/tests/test_auth.py:54-65` takes for granted.  An answer without `expires_in` is taken to live for an
  hour (`:101`).  `NeverPresentsExpired` names both.
* `lookup_listed_fund` reads the first page of 20 hits of B3's search for each type
  (`sources/b3/listed_funds.py:98, 229-235`): an acronym that more than 20 funds of a type match may be
  missed, so that the resolver says "not listed" of a ticker that is, or takes it from a later type.
* A page of the IMA history with status 200 but without the header row is parsed to no rows and kept for 24
  hours as a day without data (`sources/anbima/indices.py:342-354, 413-418`), however long the day has been
  published.
* `findata b3 cotahist --day` without `--month` gives the whole year (`cli.py:245`), and
  `docs/SOURCES_AND_ENDPOINTS.md:40` gives `/b3/cotahist` a limit that the route does not declare.
* `get_ima_history` says its requests are "capped at 8" (`sources/anbima/indices.py:451`): the semaphore is
  made in each call, so that calls together exceed the cap.  One row with a date that cannot be read (`:147`) ends the whole history.
* The Worker keeps a carriage return at the very end of a deflated CSV file that it drops from a stored one.
* A build of the registry that fails leaves an empty registry: the old one is deleted first.  A reserved word
  is searched as a whole word, not as a prefix; `LookupResult.total` counts the rows returned.
* `resolver/engine.py:31` says geography is "never a macro class", but rule 6 (`engine.py:531`) comes before the
  fund types and chooses the class itself, so that FIC FIDC is Renda Fixa and FIC FIDC GLOBAL Multimercado; and
  `resolver/taxonomy.py` says it is consulted by the cascade, but nothing calls it.
* Shutdown cancels the futures of a running `/b3/quotes` (`sources/b3/quotes.py:35`), and a month whose scan in
  the Worker reaches its cap is cut without `truncated`.

## 5. Proofs

TLAPS checks every theorem for all values of the constants under the named assumptions.

| Module | Theorems | Inductive invariant and argument |
|---|---|---|
| `HttpCacheProofs` | `TypeCorrect`, `CacheIsAlwaysLru`, `SingleFlightAlways`, `NoNeedlessRequestAlways`, `ReadsAreMonotonicAlways` | `WellFormed` (types, one entry per key, the cap) is inductive by itself.  `LockOrder` says the lock is a total order on the tasks in it with the fetching one first, which gives `SingleFlight`.  With `TimesAreOrdered` and `NewestLast` (while a key is fetched the cache has nothing usable for it, and no answer given is newer than what is cached or received) every step maps to a step of `CachedRead` or to a stutter.  The last two theorems assume that `clear_cache` is not called: after it, two locks of one key coexist. |
| `OAuthTokenProofs` | `TokenTypeCorrect`, `OneRefreshAtATimeAlways`, `RefreshOnlyWhenNeededAlways`, `NeverPresentsExpiredAlways` | `LockOrder` as above; `ExpiryIsLate`: the client believes in a token whose life it was told for at most `Latency` too long.  `MarginAssumption` (latency and grace fit in the margin) makes the rest arithmetic.  Lifetimes are any integers: what a short one does is in the theorem's named exceptions, not in an assumption. |
| `ProcessProofs` | `ParsedTypeCorrect`, `StackedReadsAreMonotonicAlways` | `LoadedFresh` bounds the age at load time; `NewestLast`: nothing served is newer than what is held.  Every step maps to a step of `CachedRead` with the sum of both ttls. |
| | `ClientTypeCorrect`, `NoForeignConnectionAlways`, `OnlyClosingLosesClientsAlways` | `ClientSound`: `_client_loop_id` is the id of the loop its client was made in, the loops that the client's connections keep alive all have that id, and no two loops alive share one (`OneLoop`); hence what `_get_client` takes again has connections of the running loop only (`OwnConnections`).  `OneClient` carries what a close may lose. |
| `ResolverProofs` | `ResolverTypeCorrect`, `TrapsAreFinalAlways`, `GuessesAreChallengedAlways`, `InferredExemptionIsAskedAlways`, `FailuresLoseNothingAlways`, `CatalogueSpeaksTrueAlways`, `AuditTrailGrowsAlways` | first, operator lemmas: every classification the core can say is sound (for instance, a candidate exemption has confidence 70), and the first rule that fires exists.  Then the invariant: as long as no provider answered the result is the core's (`CoreStays`), a strong result stops the chain (`StrongIsFinal`), a suffix-11 guess has been asked of no more catalogues than there were failures (`GuessStays`), and the walk has passed only types whose page does not have the ticker (`WalkIsTrue`). |
| `McpCallsProofs` | `CodeModeTypeCorrect`, `KilledGroupStaysDeadAlways`, `AnsweredRunIsReapedAlways` | `ProcessesAreSound` strengthens both: only running processes hold the pipe, one that was never started is in no group, and the interpreter never leaves its group. |
| | `QuotesTypeCorrect`, `AnswerIsExactAlways`, `ContinuationIsStitchedAlways` | `WindowInv`: what is read is the window, whose months are consecutive (`AddMonthsIsExact`, `WindowIsComplete`).  `SeriesInv`: while nothing was cut the series is exactly what was wanted of the months passed; that a cut at n leaves at most n rows, and all of them if there are no more, is `FirstIsCut`, an injection into 0..n-1.  The row kept for a day exists because rows of one file have a first and a last one (`Ends`). |
| | `LookupIsTyped`, `LookupIsAlwaysWhole` | `LookupSound`.  The joins are stated by places: that the k-th wanted place is the one with k places not after it (`Places`) lists each of them once and in order is `Ranks`, an injection of a finite set into as many numbers; a cut keeps different values different and is whole below the limit (`PlacesArePicked`, `CutsKeep`).  From these, one lemma for each search (`PythonServes`, `CnpjServes`, `NameServes`) and `UncappedIsSmall` for the Worker's scans.  Of the holdings, after every entry what is kept is own lines in order, all of those so far unless the Worker is full or a holder's line is in the archive (`HoldsUpto`, kept by `EntryRead`). |
| | `CallsAreTyped` | a behaviour of `McpCalls` is one of a single tool while the others stand still, so each tool's own theorem applies. |
| `SourceProofs` | `ImaTypeCorrect`, `HiddenAtMostADayAlways` | `ImaSound`: an entry of the day cache was true at some moment at most an hour before it was stored (`CacheSound`), and of each call, that a POST was sent after the call began and at most an hour ago, and that a day it has as empty was not published one ttl before it began (`CallSound`).  `UnreadSound` says of every unread page, cached or in a call, how long ago it may have come.  A step of one call is one lemma (`OneCallMoves`), and one of its days another (`DayMoves`). |
| | `WalksAreTyped`, `EnvelopeIsAlwaysHonest`, `WalkIsAlwaysWhole` | `PageSound`: every cached page is of a version the list has had, replaced, if at all, not before the page was taken (`PagesSound`); what a walk read was current less than one ttl before the walk began, and what it gathered is, when no page is of another version, the list up to its page (`WalkSound`).  Of two pages of different versions one is of a replaced version, which dates the change behind a mixed list.  How many pages a list has is `DivisionLeaves`. |
| | `RegistryIsTyped`, `RegistryIsNeverHalf`, `LookupsAlwaysFind` | `RegistrySound`: the committed file is whole or empty, and the transaction holds the sources gathered so far and no others.  `LookupsAlwaysFind` says on top of it that a lookup finds what a reader would expect, under the hypothesis `TypedMatches`. |
| | `ScansAreTyped`, `ScanIsAlwaysWhole` | `CsvSound`: after every chunk, header, rows and the line under way are those of the bytes read so far (`CsvFollows`).  That a fold over a chunk is its steps one after the other is `BytesOneByOne`, by the least byte where it would not be; `ByteFollows` is one byte, by whether it ends a line, and `AllCome` what remains when the file ends. |
| `SurfaceProofs` | `ServerIsTyped`, `LimitsAreKept`, `YearsAreCurrent`, `BlameIsAlwaysJust` | `SurfaceIInv`: what was asked, what each source answered and where the handler stands fit the operation (`Fit...`), the boot year is at most the current one, and an answer is what the operation's row of the table makes of the last source.  The theorems are for any limit asked, number of rows and year. |
| | `CommandLineIsTyped`, `TablesAreAlwaysHonest` | `CliIInv`: the command under way fits the table of commands (`CommandFits`), what was given is accepted unless the exit is a usage error, and the tables shown are at most those asked for, each cut as the command says (`IsShown`). |
| `OperationsProofs` | `OperationsAreTyped` | a behaviour of all machines is one of each (`OneMachineMoves`, `MachinesStandApart`), so that each machine's theorem applies. |

### Assumptions

`TtlsAssumption`, `RetriesAssumption`, `BoundsAssumption`, `CallersAssumption` give the constants their
types (`LifetimesAssumption`: lifetimes are integers with a largest one); `MarginAssumption` says what the
safety margin must cover;
`LimitsAssumption`, `RequestsAssumption` and `ArchivesAssumption` say that limits are positive, that the
months asked for and published are months, and that a file is a sequence of lines; `ImaAssumption` and `ClientAssumption` say that
the days are finitely many numbers, that slots, ttls and attempts are positive, and that there is more than one
id; `OthersAssumption` says other providers answer full classifications of their own; `YearsAssumption` that the first
year is 2025 or later and that no year reaches the bound that stands for an open range; `RegistryAssumption` that lookups
have a positive limit and sources list finitely many entities; `CsvAssumption` that needles are sequences of
bytes without a carriage return and that the row limit is positive; `LookupAssumption` gives the searches' inputs their shapes.  TLC evaluates them in
every run.  `TypedMatches`, the hypothesis of `LookupsAlwaysFind`, is a fact about words: the query that a reader types for
an entity matches the words the entity is indexed by.  TLC evaluates it for the entities of `MCOperations`.

### Only model-checked

Liveness (`EveryCallEnds`, `EveryGetEnds`, `EveryRunEnds`, `EveryResolveEnds`): the prover does not do
liveness under fairness.  `TypedMatches` for a given set of entities, which selects from sequences
(`SelectSeq`), whose definition is recursive and hidden from the prover.  The six violated statements are false,
and there is nothing to prove.  Every other property that a run checks is stated by a theorem.

## 6. Abstractions a reader should know of

* Answers are named by the moment the upstream produced them; contents are not modelled.  An upstream
  is assumed to serve its current data, so that later means newer.
* A cache key stands for kind, URL and parameters; hash collisions are left out.
* The upstream may fail at any attempt, in a way that is retried or not; status codes are not listed.
* In `Resolver` the catalogue does not change during one call, and a fund's official name either has a
  foreign marker or not, whatever it is.  Promotion of a bare name to a ticker, ISIN or CNPJ is left out.
* In `FundQuotes` the register and the files do not change during one call, a row is its CNPJ, day, subclass
  and place, and the Worker's scan cap counts the lines of the related CNPJs only; `AnswerIsExact` leaves out the months that this cap cuts (`Uncapped`).
* In `FundLookup` a row of the register is a hit or not, the digits asked for stand in no other column of its
  files, and the register does not change during one call; a request of the surface's limit is taken as accepted.
* In `Surfaces` a request has at most one wrong parameter, rows are counted and not looked at, and the rows of an
  operation that asks several sources are those of the last.
* In `ImaHistory` a day has data or none, a page that is read is the day's own, and a POST ends within an hour;
  `asyncio.Semaphore` serves in order.
* In `Resolver` any type that lists the ticker may have it beyond its first page of hits.
* In `Registry` the upstreams list the same entities at every build; FTS5's ranking is any choice of rows.
* In `CodeMode` a snippet's output is not modelled, only whether somebody can still write it.  `killpg` is one
  atomic step: that it also takes a process started while the signals are being sent is assumed of the
  operating system, not checked.

## 7. Plan

Done: the read path, the tokens, the parsed caches, the listings, code mode, the resolver, the fund quotes;
then, in this order, the surfaces, the command line, the IMA history, the pages, the client's life, the
registry, the CSV scan, and the register's searches.

Left, in the order of what it would show:

1. `open-finance directory`: the participants' filters and counts as operators against a reference definition.
2. The Worker's reason for a day without a PTAX rate (`src/workers/mcp/src/tools/bcb.ts`), a cascade of reads.
3. The readers of `sources/cvm` beyond holdings: which row of several versions of one document wins.
4. Proofs: `TypedMatches` for any company, fund and insurer, with the words of a query stated by places as the
   lines of a CSV file are.

## 8. Not modelled, and why

* The readers and projections that keep no state and take one path from a file to its rows: formats, which unit
  tests with sample files cover better.  Their operations are in the tables with their bounds, cuts and failures.
* The projections of the Open Finance directory and portal, as in section 7.
* The counters of the rate limiters.  The origin's is slowapi in the process (`_limits.py:50-54`,
  `api/app.py:125-127`), by default 60 requests a minute and 1000 a day for each address or
  `X-Forwarded-For`; the Worker's two are the platform's.  Any of them may answer 429 to any request but
  `/health`, which is how they enter `Surfaces`.
* B3 quotes' thread pool: yfinance's calls share nothing; what a shutdown does to them is in section 4.
* The SQL engine, FTS5's ranking, the HTTP library, asyncio, zlib and the operating system, which enter by how the
  code uses them.
* The landing page, styling, packaging, and the repository's release and hook scripts.
