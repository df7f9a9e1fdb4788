----------------------------- MODULE McpCalls -------------------------------
(* Three tools of the MCP server that keep everything in one call: the daily  *)
(* quotes of cvm_fund, its searches of the register and of the holdings, and  *)
(* the snippet of execute_code. A behaviour is one call of one of them.       *)
EXTENDS FundQuotes, FundLookup, CodeMode

VARIABLE tool             \* the one that is called

callVars == <<tool, vars, lookupVars, runVars>>

CallsInit ==
  /\ tool \in {"quotes", "lookup", "execute_code"}
  /\ tool # "quotes" =>
       /\ request = CHOOSE q \in Requests : TRUE
       /\ register = << >>
       /\ archive = CHOOSE a \in Archives : TRUE
  /\ tool # "lookup" => asked = CHOOSE q \in Requested : q.by = "neither"
  /\ Init /\ LookupInit /\ RunInit

QuotesMove == tool = "quotes" /\ Next /\ UNCHANGED <<tool, lookupVars, runVars>>
LookupMove == tool = "lookup" /\ LookupNext /\ UNCHANGED <<tool, vars, runVars>>
OfSnippet(Step) == tool = "execute_code" /\ Step /\ UNCHANGED <<tool, vars, lookupVars>>
SnippetMove == tool = "execute_code" /\ RunNext /\ UNCHANGED <<tool, vars, lookupVars>>

CallsNext == QuotesMove \/ LookupMove \/ SnippetMove

\* As in RunFairSpec, for the calls of execute_code.
CallsSpec ==
  /\ CallsInit /\ [][CallsNext]_callVars
  /\ WF_callVars(OfSnippet(Reap)) /\ WF_callVars(OfSnippet(Timeout))
  /\ WF_callVars(OfSnippet(Collect)) /\ WF_callVars(OfSnippet(AnswerTimeout))
-----------------------------------------------------------------------------
\* The variables of the three calls have their types.
CallsTypeOK == TypeOK /\ LookupTypeOK /\ RunTypeOK
=============================================================================
