----------------------------- MODULE Operations -----------------------------
(* What one operation of a surface is: a REST route, a mode of an MCP tool or *)
(* a mode of a Worker tool. RestRoutes, McpTools and WorkerTools are sets of  *)
(* such records, and Surfaces is the machine that serves any of them.         *)
EXTENDS Integers, Sequences

\* How many of the rows a source gave are answered. A cut has the value taken
\* when the request names no limit, and the largest limit that is accepted.
All == [kind |-> "all", std |-> 0, max |-> 0]                     \* every row, no limit declared
Page(std, max) == [kind |-> "page", std |-> std, max |-> max]     \* rows[skip : skip + limit]
First(std, max) == [kind |-> "first", std |-> std, max |-> max]   \* rows[:limit]
Top(std, max) == [kind |-> "top", std |-> std, max |-> max]       \* the source is told the limit
\* The search of the fund register: the source is told the limit, and may answer
\* one row more (_select_fundos in FundLookup).
OneOver(std, max) == [kind |-> "one_over", std |-> std, max |-> max]
\* A limit that is told to the source when it is given; without one, every row.
IfGiven(max) == [kind |-> "if_given", std |-> 0, max |-> max]
Ignored(std, max) == [kind |-> "ignored", std |-> std, max |-> max] \* a limit declared, not applied

\* The request is refused with 422 when a parameter of "must" is missing or one
\* of "bounds" is outside <<parameter, low, high>>; the handler itself answers
\* 400 for a missing one of "needs" or one outside "checks". It then asks the
\* sources of "asks" in that order. "none" is the status for a source that
\* returns None, "any" the one for an exception of any class (0: the default of
\* the application). "how" is "plain"; or "extra_first" and "extra_in_call"
\* for a source that needs an optional package, which is imported before the
\* handler's own checks or by the call; or "stream"; or "isolated" for a source
\* whose every exception is caught, and answered without.
Operation(name, asks, must, bounds, cut) ==
  [name |-> name, asks |-> asks, must |-> must, bounds |-> bounds, cut |-> cut,
   needs |-> {}, checks |-> {}, none |-> 200, any |-> 0, how |-> "plain"]

Needing(operation, needs) == [operation EXCEPT !.needs = needs]
Checking(operation, checks) == [operation EXCEPT !.checks = checks]
NoneIs(operation, status) == [operation EXCEPT !.none = status]
AnyIs(operation, status) == [operation EXCEPT !.any = status]
How(operation, how) == [operation EXCEPT !.how = how]

Months == <<"month", 1, 12>>
\* A bound the declaration leaves open.
Open == 1000000
=============================================================================
