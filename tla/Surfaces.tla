------------------------------ MODULE Surfaces ------------------------------
(* One request at a time on one of the three HTTP surfaces: the REST          *)
(* application, the internal MCP catalogue and the Worker. The tables of the  *)
(* operations are RestRoutes, McpTools and WorkerTools; this machine is what  *)
(* all of them share: the origin token, the declared bounds, the handler's    *)
(* own checks, the sources it asks, the cut of their rows and the status that *)
(* each failure becomes. The civil year goes on while the process runs.       *)
EXTENDS RestRoutes, McpTools, WorkerTools, SequencesExt

CONSTANTS FirstYear,      \* the year in which the process is first started
          MaxYears        \* bound: New Years that pass

\* The newest datasets begin in 2025, and no year reaches a bound left open.
ASSUME YearsAssumption == FirstYear \in 2025 .. Open /\ MaxYears \in Nat /\ FirstYear + MaxYears < Open

VARIABLES boot,           \* the year the routers keep in _CURRENT_YEAR
          year,           \* the civil year
          guarded,        \* code mode is on: requests need the origin token
          req,            \* the request, or NoRequest
          stage,          \* "idle", "received", "asking", "answered"
          calls,          \* how many sources have been called
          answer          \* status, rows answered, and what failed

surfaceVars == <<boot, year, guarded, req, stage, calls, answer>>

Absent == -2
IsError == 0              \* a tool result with isError, which has no status
Operations(surface) ==
  CASE surface = "rest" -> RestRoutes(boot)
    [] surface = "mcp" -> McpTools
    [] surface = "worker" -> WorkerTools

NoRequest == [surface |-> "none"]
NoAnswer == [status |-> Absent, from |-> 1, to |-> 0, fault |-> "nothing"]
Status(s) == [NoAnswer EXCEPT !.status = s]
Failed(s, fault) == [NoAnswer EXCEPT !.status = s, !.fault = fault]

-----------------------------------------------------------------------------
(* Requests: every parameter in its bounds but at most one, which is missing, *)
(* at a bound or just outside it.                                             *)
Ranged(op) == op.bounds \cup op.checks
Values(p) ==
  {p[2] - 1, p[2], p[3], p[3] + 1} \cup (IF p[1] = "year" THEN {year, year + 1} ELSE {})
OddOnes(op) ==
  {<<"nothing", 0>>} \cup {<<p, Absent>> : p \in op.must \cup op.needs}
  \cup UNION {{<<p[1], v>> : v \in Values(p)} : p \in Ranged(op)}
Limits(op) == {Absent, 0, 2, op.cut.max, op.cut.max + 1}

Requests(surface) ==
  UNION {[surface : {surface}, op : {op}, odd : OddOnes(op), limit : {Absent}, skip : {0},
          token : BOOLEAN]
         \cup [surface : {surface}, op : {op}, odd : {<<"nothing", 0>>}, limit : Limits(op), skip : {-1, 0, 1},
               token : {TRUE}] : op \in Operations(surface)}

Missing(r, params) == r.odd[1] \in params /\ r.odd[2] = Absent
Outside(r, ranges) ==
  \E p \in ranges : r.odd[1] = p[1] /\ r.odd[2] # Absent /\ r.odd[2] \notin p[2] .. p[3]

Declares(r, cuts) == r.op.cut.kind \in cuts
BadLimit(r) ==
  /\ r.limit # Absent /\ Declares(r, {"page", "first", "top", "one_over", "if_given", "ignored"})
  /\ r.limit \notin 1 .. r.op.cut.max
BadSkip(r) == r.skip < 0 /\ Declares(r, {"page"})
\* Only the Worker's strict schemas refuse a parameter they do not declare.
Unknown(r) == r.surface = "worker" /\ (r.skip # 0 \/ (r.limit # Absent /\ Declares(r, {"all"})))

Limit(r) == IF r.limit = Absent THEN r.op.cut.std ELSE r.limit
\* The rows are cut at the limit, or the source is told it.
IsCutAtLimit(r) ==
  Declares(r, {"page", "first", "top"}) \/ (Declares(r, {"if_given"}) /\ r.limit # Absent)

-----------------------------------------------------------------------------
(* The server's life                                                          *)
SurfaceInit ==
  /\ boot = FirstYear /\ year = FirstYear /\ guarded \in BOOLEAN
  /\ req = NoRequest /\ stage = "idle" /\ calls = 0 /\ answer = NoAnswer

NewYear ==
  /\ stage = "idle" /\ year < FirstYear + MaxYears
  /\ year' = year + 1
  /\ UNCHANGED <<boot, guarded, req, stage, calls, answer>>

Restart ==
  /\ stage = "idle" /\ boot # year
  /\ boot' = year
  /\ UNCHANGED <<year, guarded, req, stage, calls, answer>>

Receive ==
  /\ stage = "idle"
  /\ \E surface \in {"rest", "mcp", "worker"} : req' \in Requests(surface)
  /\ stage' = "received"
  /\ UNCHANGED <<boot, year, guarded, calls, answer>>

Reply(a) == answer' = a /\ stage' = "answered" /\ UNCHANGED <<boot, year, guarded, req>>

\* The origin token is asked of everything but /health; the MCP catalogue is
\* served by the same application. The Worker runs elsewhere.
Unauthorized(r) == guarded /\ r.surface # "worker" /\ ~r.token /\ r.op.name # "/health"

\* Each surface limits its callers, whose counters are not modelled: "over" says
\* that this one has made too many requests. /health is exempt.
Limited(r) == r.op.name # "/health"

\* What is wrong with the request itself, in the order of the checks.
Refusal(r, extra, over) ==
  IF Unauthorized(r) THEN 401
  ELSE IF over /\ Limited(r) THEN 429
  ELSE IF Missing(r, r.op.must) \/ Outside(r, r.op.bounds) \/ BadLimit(r) \/ BadSkip(r) \/ Unknown(r) THEN 422
  ELSE IF r.op.how = "extra_first" /\ ~extra THEN 503
  ELSE IF Missing(r, r.op.needs) \/ Outside(r, r.op.checks)
       THEN (IF r.surface = "worker" THEN IsError ELSE 400)
  ELSE 200

\* extra: the optional package of the operation is installed.
Validate ==
  /\ stage = "received"
  /\ \E extra, over \in BOOLEAN :
       IF Refusal(req, extra, over) # 200
       THEN Reply(Status(Refusal(req, extra, over))) /\ UNCHANGED calls
       ELSE /\ stage' = "asking"
            /\ UNCHANGED <<boot, year, guarded, req, calls, answer>>

\* A handler without a source answers a table of the code.
AnswerTable ==
  /\ stage = "asking" /\ req.op.asks = << >>
  /\ Reply([Status(200) EXCEPT !.to = 1]) /\ UNCHANGED calls

-----------------------------------------------------------------------------
(* What the source says, and what the surface makes of it                     *)

\* (mutant) The slice is taken one row too long.
Rows_OneMore(r, n) ==
  [Status(200) EXCEPT !.to = IF IsCutAtLimit(r) THEN Min({n, Limit(r) + 1}) ELSE n]

\* The rows that leave, of n the source has; Python's slices never fail.
Rows(r, n) ==
  LET from == IF Declares(r, {"page"}) THEN 1 + r.skip ELSE 1
      to == CASE IsCutAtLimit(r) -> Min({n, from + Limit(r) - 1})
              [] Declares(r, {"one_over"}) -> Min({n, Limit(r) + 1})
              [] OTHER -> n
  IN [Status(200) EXCEPT !.from = from, !.to = to]

Ask ==
  /\ stage = "asking" /\ calls + 1 < Len(req.op.asks)
  /\ calls' = calls + 1
  /\ UNCHANGED <<boot, year, guarded, req, stage, answer>>

SourceCounts(r) == {0, 1, 3, Limit(r), Limit(r) + 1}

SourceAnswers ==
  /\ stage = "asking" /\ calls + 1 = Len(req.op.asks)
  /\ calls' = calls + 1
  /\ \E n \in SourceCounts(req) : Reply(Rows(req, n))

\* A source that found nothing: only the operations that look one thing up.
SourceHasNone ==
  /\ stage = "asking" /\ req.op.none # 200 /\ calls < Len(req.op.asks)
  /\ calls' = calls + 1
  /\ Reply(Failed(req.op.none, "none"))

FaultStatus_NoHandler(r, fault) ==      \* (mutant) no handler for ValueError
  IF r.surface = "worker" THEN IsError
  ELSE IF r.op.any # 0 THEN r.op.any
  ELSE 500

\* "refused": the source raised ValueError for an argument; "garbage": it raised
\* ValueError because the upstream body could not be decoded; "outage": any
\* other exception. Both applications turn every ValueError into 400, the
\* Worker's wrap() every exception into an error result. The resolver goes on
\* without a provider that fails.
FaultStatus(r, fault) ==
  IF r.surface = "worker" THEN IsError
  ELSE IF r.op.how = "isolated" THEN 200
  ELSE IF r.op.how = "stream" THEN (IF fault = "refused" THEN 400 ELSE 200)
  ELSE IF r.op.any # 0 THEN r.op.any
  ELSE IF fault \in {"refused", "garbage"} THEN 400
  ELSE 500

SourceFails ==
  /\ stage = "asking" /\ calls < Len(req.op.asks)
  /\ calls' = calls + 1
  /\ \E fault \in {"refused", "garbage", "outage"} :
       Reply(Failed(FaultStatus(req, fault), fault))

\* The optional package is imported by the call.
ExtraMissing ==
  /\ stage = "asking" /\ req.op.how = "extra_in_call"
  /\ calls' = calls + 1
  /\ Reply(Failed(503, "extra"))

Finish_KeepsCount ==                    \* (mutant) the next request starts where this one ended
  /\ stage = "answered"
  /\ stage' = "idle" /\ req' = NoRequest /\ answer' = NoAnswer
  /\ UNCHANGED <<boot, year, guarded, calls>>

Finish ==
  /\ stage = "answered"
  /\ stage' = "idle" /\ req' = NoRequest /\ calls' = 0 /\ answer' = NoAnswer
  /\ UNCHANGED <<boot, year, guarded>>

SurfaceNext ==
  \/ NewYear \/ Restart \/ Receive \/ Validate \/ AnswerTable \/ Ask \/ SourceAnswers
  \/ SourceHasNone \/ SourceFails \/ ExtraMissing \/ Finish

SurfaceSpec == SurfaceInit /\ [][SurfaceNext]_surfaceVars

-----------------------------------------------------------------------------
SurfaceTypeOK ==
  /\ FirstYear <= boot /\ boot <= year /\ year <= FirstYear + MaxYears
  /\ guarded \in BOOLEAN
  /\ stage \in {"idle", "received", "asking", "answered"}
  /\ stage = "idle" <=> req = NoRequest
  /\ calls <= (IF stage = "idle" THEN 0 ELSE Len(req.op.asks))
  /\ answer.status \in {Absent, IsError, 200, 400, 401, 404, 422, 429, 500, 503}

Count(a) == a.to - a.from + 1

\* The operations that declare a limit and answer every row all the same.
LimitIsIgnoredBy ==
  {"cvm_company/fca_general", "cvm_company/fca_securities", "cvm_company/fca_dri",
   "cvm_fund/periods", "cvm_fund/holdings", "cvm_fund/holdings/year/month",
   "fii/geral", "fii/complemento", "fidc/geral", "fidc/pl", "fidc/direitos",
   "tesouro_bonds/search", "tesouro_bonds/history", "anbima/ettj", "susep_empresas/q",
   "openfinance_directory/resources", "ipea_series/metadata"}
\* The tables of the code are answered whole, too.
Tables(r) == r.op.asks = << >>

\* An answer has no more rows than the limit the request was accepted with, or
\* than the default of its operation if it named none, on whichever surface; but
\* for the operations above, whose modes share a limit with others and leave it
\* out, those that declare none, and the Worker's series between two dates, which
\* is whole unless a limit is named. The search of the fund register may answer
\* one row more.
LimitKept ==
  stage = "answered" /\ answer.status = 200 =>
    \/ Count(answer) <= Limit(req) + (IF req.op.cut.kind = "one_over" THEN 1 ELSE 0)
    \/ req.op.cut.kind = "all" \/ (req.op.cut.kind = "if_given" /\ req.limit = Absent)
    \/ req.op.name \in LimitIsIgnoredBy \/ Tables(req)

\* A request that is right but for its year is not refused for asking for the
\* current one, unless the process has run through New Year: the REST routes
\* keep the year of their import, two of them without the margin of one year.
YearIsCurrent ==
  stage = "answered" /\ req.odd = <<"year", year>> /\ answer.status = 422 =>
    /\ req.surface = "rest"
    /\ year - boot > (IF req.op.name \in {"/cvm/financials/dfp", "/cvm/financials/itr"} THEN 0 ELSE 1)

\* The answers that hide a failure: the stream that had begun when it failed, and
\* the classification that was made without its provider.
FailsQuietly == {"/openfinance/portal/download", "/resolver/resolve", "resolve_asset"}
\* The two quote routes that take any failure for an unknown ticker.
TakesAnyForUnknown == {"/b3/quote", "/b3/history"}

\* Who is blamed for a failure. None looks like a success, on any of the surfaces,
\* but for those of FailsQuietly. On the two applications an upstream that is
\* down is never the caller's fault, but for TakesAnyForUnknown, and an argument
\* that a source refuses is never the server's, but for the list of quotes and
\* the registry's metadata. A body that cannot be decoded is the upstream's
\* fault, too, and yet the caller is told 400 for it: the exception of every
\* operation that does not catch its failures itself.
BlameIsJust ==
  stage = "answered" =>
    /\ answer.fault # "nothing" => answer.status # 200 \/ req.op.name \in FailsQuietly
    /\ req.surface # "worker" /\ req.op.name \notin FailsQuietly =>
         /\ answer.fault \in {"outage", "garbage"} =>
              \/ answer.status >= 500 \/ req.op.name \in TakesAnyForUnknown
              \/ answer.fault = "garbage" /\ answer.status = 400
         /\ answer.fault \in {"refused", "none"} =>
              answer.status \in 400 .. 499 \/ req.op.name \in {"/b3/quotes", "/registry/meta"}
=============================================================================
