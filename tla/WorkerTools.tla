----------------------------- MODULE WorkerTools ----------------------------
(* The tools of the Cloudflare Worker, one operation for each mode, which     *)
(* follows the tool's name. A "must" or a bound is checked by the schema, a   *)
(* "need" by the tool (errorResult).                                          *)
(* cvm_fund is the module FundQuotes; the report of tesouro_siconfi is walked *)
(* page by page in PageWalk.                                                  *)
EXTENDS Operations

WorkerTool(name, asks, bounds, cut) == Operation(name, asks, {}, bounds, cut)

WorkerBcb ==
  {WorkerTool("bcb_series", << >>, {}, Ignored(10, 200)),
   Checking(WorkerTool("bcb_series/name", <<"sgs/ultimos">>, {}, Top(10, 200)), {<<"known", 1, 1>>}),
   WorkerTool("bcb_series/code", <<"sgs/ultimos">>, {}, Top(10, 200)),
   WorkerTool("bcb_series/code/start/end", <<"sgs">>, {}, IfGiven(200)),
   Checking(WorkerTool("bcb_ptax/start/end", <<"CotacaoDolarPeriodo">>, {}, All), {<<"usd", 1, 1>>}),
   WorkerTool("bcb_ptax", <<"CotacaoDolarDia">>, {}, All),
   WorkerTool("bcb_ptax/currency", <<"CotacaoMoedaDia">>, {}, All),
   WorkerTool("bcb_focus/list", << >>, {}, Ignored(20, 100)),
   WorkerTool("bcb_focus/selic", <<"ExpectativasMercadoSelic">>, {}, Top(20, 100)),
   Checking(WorkerTool("bcb_focus/top5", <<"ExpectativasMercadoTop5Anuais">>, {}, Top(20, 100)),
            {<<"known", 1, 1>>, <<"annual", 1, 1>>}),
   Checking(WorkerTool("bcb_focus/monthly", <<"ExpectativaMercadoMensais">>, {}, Top(20, 100)),
            {<<"known", 1, 1>>}),
   Checking(WorkerTool("bcb_focus/annual", <<"ExpectativasMercadoAnuais">>, {}, Top(20, 100)),
            {<<"known", 1, 1>>})}

WorkerIbge ==
  {WorkerTool("ibge_indicator", << >>, {}, All),
   Checking(WorkerTool("ibge_indicator/name", <<"agregados">>, {<<"periods", 1, 120>>}, All),
            {<<"known", 1, 1>>}),
   WorkerTool("ibge_ipca_breakdown", <<"agregados">>, {<<"periods", 1, 60>>}, All)}

WorkerIpea ==
  {WorkerTool("ipea_series", << >>, {}, Ignored(500, 500)),
   NoneIs(Checking(WorkerTool("ipea_series/metadata", <<"Metadados">>, {}, Ignored(500, 500)),
                   {<<"sercodigo", 1, 1>>}), 0),
   Checking(WorkerTool("ipea_series/values", <<"ValoresSerie">>, {}, First(500, 500)), {<<"sercodigo", 1, 1>>}),
   Operation("ipea_search", <<"Metadados">>, {"q"}, {}, First(25, 200))}

WorkerTesouro ==
  LET Report(name, checks) ==
        Checking(Needing(WorkerTool(name, <<"siconfi">>, {<<"year", 2013, Open>>, <<"period", 1, 6>>},
                              First(2000, 2000)), {"year", "period", "cod_ibge"}), checks)
  IN
  {WorkerTool("tesouro_siconfi/entes", <<"siconfi">>, {}, First(100, 2000)),
   Report("tesouro_siconfi/rgf", {<<"period", 1, 3>>}), Report("tesouro_siconfi/rreo", {})}

WorkerOpenFinance ==
  {WorkerTool("openfinance_directory/resources", << >>, {}, Ignored(100, 1000)),
   WorkerTool("openfinance_directory/roles", <<"roles">>, {}, First(100, 1000)),
   WorkerTool("openfinance_directory/endpoints", <<"participants">>, {}, First(100, 1000)),
   WorkerTool("openfinance_directory/participants", <<"participants">>, {}, First(100, 1000))}

WorkerTools == UNION {WorkerBcb, WorkerIbge, WorkerIpea, WorkerTesouro, WorkerOpenFinance}
=============================================================================
