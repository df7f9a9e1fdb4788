------------------------------ MODULE McpTools ------------------------------
(* The tools of the internal MCP catalogue (mcp_app), one operation for each  *)
(* mode a selector chooses, which follows the tool's name. They ask the       *)
(* sources the REST routes ask, but the bounds and the limits are written a   *)
(* second time and are not the same. cvm_fund's daily mode is the module      *)
(* FundQuotes, code mode CodeMode.                                            *)
EXTENDS Operations

Tool(name, source, cut) == Operation(name, <<source>>, {}, {}, cut)
Catalog(name) == Operation(name, << >>, {}, {}, All)

EntryTools ==
  {Operation("registry_lookup", <<"lookup">>, {"q"}, {}, Top(20, 100)),
   How(Tool("resolve_asset", "b3_listed_provider", All), "isolated")}

BcbTools ==
  {Operation("bcb_series", << >>, {}, {<<"n", 1, 1000>>}, All), Tool("bcb_series/code", "get_series", All),
   Operation("bcb_series/code/last_n", <<"get_series_last">>, {}, {<<"n", 1, 1000>>}, All),
   Operation("bcb_series/name", <<"get_series_by_name">>, {}, {<<"n", 1, 1000>>}, All),
   Tool("bcb_ptax/start/end", "get_ptax_usd_period", All), Tool("bcb_ptax", "get_ptax_usd", All),
   Tool("bcb_ptax/currency", "get_ptax_currency", All),
   Checking(Tool("bcb_ptax/start/end/currency", "get_ptax_usd_period", All), {<<"usd", 1, 1>>}),
   Operation("bcb_focus/list", << >>, {}, {}, Ignored(20, 100)),
   Tool("bcb_focus/selic", "get_focus_selic", Top(20, 100)),
   Checking(Tool("bcb_focus/top5", "get_focus_top5_annual", Top(20, 100)), {<<"annual", 1, 1>>}),
   Tool("bcb_focus/monthly", "get_focus_monthly", Top(20, 100)),
   Tool("bcb_focus/annual", "get_focus_annual", Top(20, 100))}

CvmCompanyTools ==
  LET Yearly(name, source, cut) ==
        Needing(Operation(name, <<source>>, {}, {<<"year", 2003, Open>>}, cut), {"year"})
      Statements(name, source) ==
        Operation(name, <<source>>, {"year"}, {<<"year", 2010, Open>>}, First(500, 5000))
  IN
  {Needing(Tool("cvm_company/search", "search_company", First(100, 2000)), {"query"}),
   Tool("cvm_company/list", "get_companies", First(100, 2000)),
   Yearly("cvm_company/filings", "get_ipe", First(100, 2000)),
   Yearly("cvm_company/fca_general", "get_fca_geral", Ignored(100, 2000)),
   Yearly("cvm_company/fca_securities", "get_fca_valores_mobiliarios", Ignored(100, 2000)),
   Yearly("cvm_company/fca_dri", "get_fca_dri", Ignored(100, 2000)),
   Statements("cvm_financials/annual", "get_dfp"), Statements("cvm_financials/quarterly", "get_itr")}

\* Without year and month, holdings first asks for the latest month published.
CvmFundTools ==
  LET Monthly(name, source) ==
        Needing(Operation(name, <<source>>, {}, {Months}, First(500, 5000)), {"year", "month"})
      Holdings(name, asks, needs) ==
        Needing(Operation(name, asks, {}, {Months}, Ignored(500, 5000)), needs)
  IN
  {Tool("cvm_fund/catalog", "get_fund_catalog", First(500, 5000)),
   Tool("cvm_fund/catalog/search", "get_fund_cadastro", OneOver(500, 5000)),
   Tool("cvm_fund/periods", "list_periods", Ignored(500, 5000)),
   NoneIs(Holdings("cvm_fund/holdings", <<"latest_period", "get_fund_holdings">>, {"cnpj"}), 404),
   Holdings("cvm_fund/holdings/year/month", <<"get_fund_holdings">>, {"cnpj", "year", "month"}),
   Monthly("cvm_fund/lamina", "get_fund_lamina"), Monthly("cvm_fund/profile", "get_fund_profile"),
   Monthly("cvm_fund/returns/monthly", "get_fund_monthly_returns"),
   Monthly("cvm_fund/returns/yearly", "get_fund_yearly_returns")}

\* A dataset the kind does not have is refused, for FIDC after the month.
CvmStructuredTools ==
  LET Facet(name, source, cut) ==
        Checking(Operation(name, <<source>>, {"kind", "year"}, {Months, <<"quarter", 1, 4>>}, cut),
                 {<<"dataset", 1, 1>>})
      Fii(name, source) == Facet(name, source, Ignored(500, 5000))
      Fidc(name, source) == Needing(Facet(name, source, Ignored(500, 5000)), {"month"})
  IN
  {Fii("fii/geral", "get_fii_geral"), Fii("fii/complemento", "get_fii_complemento"),
   Fidc("fidc/geral", "get_fidc_geral"), Fidc("fidc/pl", "get_fidc_pl"),
   Fidc("fidc/direitos", "get_fidc_direitos_creditorios"), Facet("fip", "get_fip", First(500, 5000))}

B3Tools ==
  LET Quote(name, source, low, high) ==
        How(Checking(Operation(name, <<source>>, {"tickers"}, {}, All), {<<"tickers", low, high>>}),
            "extra_first")
      Daily(name, source, needs) ==
        Needing(Operation(name, <<source>>, {"year"}, {<<"year", 1986, Open>>, Months, <<"day", 1, 31>>},
                          All), needs)
  IN
  {Quote("b3_quote", "get_quote", 1, 1), Quote("b3_quote/several", "get_multiple_quotes", 2, 20),
   Daily("b3_cotahist/day", "get_cotahist_day", {"month"}),
   Daily("b3_cotahist/month", "get_cotahist_month", {}), Daily("b3_cotahist", "get_cotahist_year", {}),
   Catalog("b3_index"), Tool("b3_index/portfolio", "get_index_portfolio", All),
   Operation("b3_index/monthly", <<"get_index_monthly_evolution">>, {}, {<<"months", 1, 360>>}, All)}

TesouroTools ==
  LET Report(name, source, checks) ==
        Checking(Needing(Operation(name, <<source>>, {}, {<<"year", 2013, Open>>, <<"period", 1, 6>>}, All),
                         {"year", "period", "cod_ibge"}), checks)
  IN
  {Needing(Tool("tesouro_bonds/search", "search_bonds", Ignored(500, 5000)), {"q"}),
   Needing(Tool("tesouro_bonds/history", "get_bond_history", Ignored(500, 5000)), {"titulo"}),
   Tool("tesouro_bonds/list", "get_treasury_bonds", Top(500, 5000)),
   Tool("tesouro_siconfi/entes", "get_entes", All),
   Report("tesouro_siconfi/rgf", "get_rgf", {<<"period", 1, 3>>}),
   Report("tesouro_siconfi/rreo", "get_rreo", {})}

IbgeIpeaTools ==
  {Catalog("ibge_indicator"),
   Operation("ibge_indicator/name", <<"get_indicator">>, {}, {<<"periods", 1, 120>>}, All),
   Operation("ibge_ipca_breakdown", <<"get_ipca_breakdown">>, {}, {<<"periods", 1, 60>>}, All),
   Catalog("ipea_series"), NoneIs(Tool("ipea_series/metadata", "get_metadata", All), 404),
   Operation("ipea_series/values", <<"get_series_values">>, {}, {<<"top", 1, 5000>>}, All),
   Operation("ipea_search", <<"search_series">>, {"q"}, {<<"top", 1, 200>>}, All)}

AnbimaOpenFinanceTools ==
  {Tool("anbima/ettj", "get_ettj", Ignored(1000, 5000)),
   Tool("anbima/debentures", "get_debentures", First(1000, 5000)),
   Tool("anbima/tpf", "get_tpf", First(1000, 5000)),
   Checking(Tool("anbima/ima", "get_ima", First(1000, 5000)), {<<"family", 1, 1>>}),
   Operation("openfinance_directory/resources", << >>, {}, {}, Ignored(100, 1000)),
   Tool("openfinance_directory/roles", "get_roles", First(100, 1000)),
   Tool("openfinance_directory/endpoints", "get_participants", First(100, 1000)),
   Tool("openfinance_directory/participants", "get_participants", First(100, 1000))}

SmallSourceTools ==
  {Operation("basedosdados_search/free", <<"search_direct_download_free">>, {}, {<<"page", 1, Open>>}, All),
   Operation("basedosdados_search", <<"search_datasets">>, {}, {<<"page", 1, Open>>}, All),
   Operation("basedosdados_sql", <<"table_ref">>, {"dataset_id", "table_id"}, {}, Top(100, 10000)),
   Operation("receita_arrecadacao", <<"get_arrecadacao">>, {}, {<<"year", 2000, Open>>, Months},
             First(500, 5000)),
   Tool("aneel_leiloes/transmissao", "get_aneel_leiloes_transmissao", First(500, 5000)),
   Tool("aneel_leiloes/geracao", "get_aneel_leiloes_geracao", First(500, 5000)),
   Tool("susep_empresas/q", "search_susep_empresa", Ignored(500, 5000)),
   Tool("susep_empresas", "get_susep_empresas", First(500, 5000))}

McpTools ==
  UNION {EntryTools, BcbTools, CvmCompanyTools, CvmFundTools, CvmStructuredTools, B3Tools, TesouroTools,
         IbgeIpeaTools, AnbimaOpenFinanceTools, SmallSourceTools}
=============================================================================
