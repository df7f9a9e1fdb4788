----------------------------- MODULE RestRoutes -----------------------------
(* The routes of the public REST application, router by router. "boot" is the *)
(* civil year in which the process imported the routers: five of them keep    *)
(* date.today().year in a module constant and bound the years with it. A      *)
(* parameter in a path stands by its name.                                    *)
EXTENDS Operations

BcbRoutes ==
  LET Focus(name, source) == Operation(name, <<source>>, {}, {}, Top(20, 100)) IN
  {Operation("/bcb/series", << >>, {}, {}, All),
   Operation("/bcb/series/code?n", <<"get_series_last">>, {"code"}, {<<"n", 1, 1000>>}, All),
   Operation("/bcb/series/code", <<"get_series">>, {"code"}, {}, All),
   Operation("/bcb/series/name", <<"get_series_by_name">>, {"name"}, {<<"n", 1, 1000>>}, All),
   Operation("/bcb/ptax/usd", <<"get_ptax_usd">>, {}, {}, All),
   Operation("/bcb/ptax/usd/period", <<"get_ptax_usd_period">>, {"start", "end"}, {}, All),
   Operation("/bcb/ptax/currency", <<"get_ptax_currency">>, {"currency"}, {}, All),
   Operation("/bcb/currencies", <<"get_currencies">>, {}, {}, All),
   Operation("/bcb/focus/indicators", << >>, {}, {}, All),
   Focus("/bcb/focus/annual", "get_focus_annual"), Focus("/bcb/focus/monthly", "get_focus_monthly"),
   Focus("/bcb/focus/selic", "get_focus_selic"), Focus("/bcb/focus/top5", "get_focus_top5_annual")}

CvmCompanyRoutes(boot) ==
  LET Years(low, last) == {<<"year", low, boot + last>>} IN
  {Operation("/cvm/companies", <<"get_companies">>, {}, {}, Page(100, 1000)),
   Operation("/cvm/companies/search", <<"search_company">>, {"q"}, {}, All),
   Operation("/cvm/financials/dfp", <<"get_dfp">>, {"year"}, Years(2010, 0), Page(500, 5000)),
   Operation("/cvm/financials/itr", <<"get_itr">>, {"year"}, Years(2011, 0), Page(500, 5000)),
   Operation("/cvm/companies/ipe", <<"get_ipe">>, {"year"}, Years(2003, 1), Page(500, 5000)),
   Operation("/cvm/companies/fca/geral", <<"get_fca_geral">>, {"year"}, Years(2010, 1), All),
   Operation("/cvm/companies/fca/securities", <<"get_fca_valores_mobiliarios">>, {"year"},
             Years(2010, 1), All),
   Operation("/cvm/companies/fca/dri", <<"get_fca_dri">>, {"year"}, Years(2010, 1), All)}

CvmFundRoutes(boot) ==
  LET Monthly(name, source, low, cut) ==
        Operation(name, <<source>>, {"year", "month"}, {<<"year", low, boot + 1>>, Months}, cut)
  IN
  {Operation("/cvm/funds", <<"get_fund_catalog">>, {}, {}, Page(100, 1000)),
   Operation("/cvm/funds/cadastro", <<"get_fund_cadastro">>, {}, {}, OneOver(20, 100)),
   Monthly("/cvm/funds/daily", "get_fund_daily", 2021, Page(500, 5000)),
   Operation("/cvm/funds/holdings", <<"get_fund_holdings">>, {"cnpj", "year", "month"},
             {<<"year", 2018, boot + 1>>, Months}, All),
   Monthly("/cvm/funds/lamina", "get_fund_lamina", 2018, Page(100, 5000)),
   Monthly("/cvm/funds/lamina/returns/monthly", "get_fund_monthly_returns", 2018, All),
   Monthly("/cvm/funds/lamina/returns/yearly", "get_fund_yearly_returns", 2018, All),
   Monthly("/cvm/funds/profile", "get_fund_profile", 2018, Page(500, 5000))}

CvmStructuredRoutes(boot) ==
  LET Years(low) == {<<"year", low, boot + 1>>}
      Fii(name, source) == Operation(name, <<source>>, {"year"}, Years(2016) \cup {Months}, All)
      Fidc(name, source) ==
        Operation(name, <<source>>, {"year", "month"}, Years(2025) \cup {Months}, All)
  IN
  {Fii("/cvm/funds/fii/geral", "get_fii_geral"),
   Fii("/cvm/funds/fii/complemento", "get_fii_complemento"),
   Fidc("/cvm/funds/fidc/geral", "get_fidc_geral"), Fidc("/cvm/funds/fidc/pl", "get_fidc_pl"),
   Fidc("/cvm/funds/fidc/direitos-creditorios", "get_fidc_direitos_creditorios"),
   Operation("/cvm/funds/fip", <<"get_fip">>, {"year"}, Years(2010) \cup {<<"quarter", 1, 4>>},
             Page(500, 5000)),
   Operation("/cvm/funds/periods", <<"list_periods">>, {}, {}, All)}

\* yfinance may fail in any way: the handlers answer 404 or 500 for all of them.
B3Routes ==
  LET Quotes(operation, status) == AnyIs(How(operation, "extra_first"), status) IN
  {Quotes(Operation("/b3/quote", <<"get_quote">>, {"ticker"}, {}, All), 404),
   Quotes(Operation("/b3/history", <<"get_history">>, {"ticker"}, {}, All), 404),
   Quotes(Checking(Operation("/b3/quotes", <<"get_multiple_quotes">>, {"tickers"}, {}, All),
                   {<<"tickers", 1, 20>>}), 500),
   Operation("/b3/cotahist/year", <<"get_cotahist_year">>, {"year"}, {}, All),
   Operation("/b3/cotahist/month", <<"get_cotahist_month">>, {"year", "month"}, {Months}, All),
   Operation("/b3/cotahist/day", <<"get_cotahist_day">>, {"year", "month", "day"},
             {Months, <<"day", 1, 31>>}, All),
   Operation("/b3/indices", << >>, {}, {}, All),
   Operation("/b3/indices/symbol", <<"get_index_portfolio">>, {"symbol"}, {}, All),
   Operation("/b3/indices/symbol/monthly", <<"get_index_monthly_evolution">>, {"symbol"},
             {<<"months", 1, 360>>}, All),
   NoneIs(Operation("/b3/listed-funds?ticker", <<"lookup_listed_fund">>, {}, {}, All), 404),
   Operation("/b3/listed-funds?type", <<"get_listed_funds">>, {}, {}, All),
   Operation("/b3/listed-funds", << >>, {}, {}, All)}

TesouroRoutes(boot) ==
  LET Report(name, source, part, last) ==
        Operation(name, <<source>>, {"year", part, "cod_ibge"},
                  {<<"year", 2013, boot + 1>>, <<part, 1, last>>}, All)
  IN
  {Operation("/tesouro/bonds", <<"get_treasury_bonds">>, {}, {}, Top(500, 5000)),
   Operation("/tesouro/bonds/search", <<"search_bonds">>, {"q"}, {}, All),
   Operation("/tesouro/bonds/history", <<"get_bond_history">>, {"titulo"}, {}, All),
   Report("/tesouro/siconfi/rreo", "get_rreo", "bimestre", 6),
   Report("/tesouro/siconfi/rgf", "get_rgf", "quadrimestre", 3),
   Operation("/tesouro/siconfi/entes", <<"get_entes">>, {}, {}, All)}

IbgeRoutes ==
  {Operation("/ibge/indicators", << >>, {}, {}, All),
   Operation("/ibge/indicators/name", <<"get_indicator">>, {"name"}, {<<"periods", 1, 120>>}, All),
   Operation("/ibge/ipca/breakdown", <<"get_ipca_breakdown">>, {}, {<<"periods", 1, 60>>}, All),
   Operation("/ibge/ipca/groups", << >>, {}, {}, All)}

IpeaRoutes ==
  {Operation("/ipea/catalog", << >>, {}, {}, All),
   Operation("/ipea/series", <<"get_series_values">>, {"sercodigo"}, {<<"top", 1, 5000>>}, All),
   NoneIs(Operation("/ipea/metadata", <<"get_metadata">>, {"sercodigo"}, {}, All), 404),
   Operation("/ipea/search", <<"search_series">>, {"q"}, {<<"top", 1, 200>>}, All)}

OpenFinanceRoutes ==
  {Operation("/openfinance/resources", << >>, {}, {}, All),
   Operation("/openfinance/participants", <<"get_participants">>, {}, {}, First(100, 1000)),
   Operation("/openfinance/participants/raw", <<"get_participants">>, {}, {}, First(25, 250)),
   NoneIs(Operation("/openfinance/participants/id", <<"find_participant">>, {"organisation_id"}, {},
                    All), 404),
   Operation("/openfinance/endpoints", <<"get_participants">>, {}, {}, First(200, 5000)),
   Operation("/openfinance/directory/roles", <<"get_roles">>, {}, {}, First(1000, 5000))}

\* The portal download opens its stream while the answer is already on its way.
OpenFinanceKeyRoutes ==
  LET Key(name, source, must) == Operation(name, <<source>>, must, {}, All) IN
  {Key("/openfinance/directory/api-resources", "get_api_resources", {}),
   Key("/openfinance/directory/well-known", "get_well_known", {}),
   Key("/openfinance/directory/keystore", "get_directory_keystore", {}),
   Key("/openfinance/organisation/jwks", "get_organisation_application_jwks", {"organisation_id"}),
   Key("/openfinance/software/transport-jwks", "get_software_transport_jwks",
       {"organisation_id", "software_statement_id"}),
   Key("/openfinance/software/application-jwks", "get_software_application_jwks",
       {"organisation_id", "software_statement_id"}),
   Operation("/openfinance/portal/datasets", << >>, {}, {}, All),
   Operation("/openfinance/portal/files", <<"get_dataset_files">>, {"slug"}, {<<"page", 1, 20>>}, All),
   How(Operation("/openfinance/portal/download", <<"stream_download_file">>, {"download_id"}, {}, All),
       "stream")}

AnbimaRoutes ==
  {Operation("/anbima/ima", <<"get_ima">>, {}, {}, All),
   Operation("/anbima/ettj", <<"get_ettj">>, {}, {}, All),
   Operation("/anbima/debentures", <<"get_debentures">>, {}, {}, First(500, 5000)),
   Operation("/anbima/tpf", <<"get_tpf">>, {}, {}, First(1000, 5000))}

ReceitaRoutes(boot) ==
  {Operation("/receita/arrecadacao", <<"get_arrecadacao">>, {}, {<<"year", 2000, boot + 1>>, Months},
             Page(500, 5000)),
   Operation("/receita/tributos", <<"list_tributos">>, {}, {}, All)}

\* (mutant) The years end with the year of the import.
AneelRoutes_NoMargin(boot) ==
  {Operation("/aneel/leiloes/geracao", <<"get_aneel_leiloes_geracao">>, {},
             {<<"year", 2005, boot>>}, Page(500, 5000))}

AneelRoutes(boot) ==
  {Operation("/aneel/leiloes/geracao", <<"get_aneel_leiloes_geracao">>, {},
             {<<"year", 2005, boot + 1>>}, Page(500, 5000)),
   Operation("/aneel/leiloes/transmissao", <<"get_aneel_leiloes_transmissao">>, {},
             {<<"year", 1999, boot + 1>>}, Page(500, 5000))}

SusepRoutes ==
  {Operation("/susep/empresas", <<"get_susep_empresas">>, {}, {}, Page(500, 5000)),
   Operation("/susep/empresas/search", <<"search_susep_empresa">>, {"q"}, {}, All)}

RegistryRoutes ==
  {Operation("/registry/lookup", <<"lookup">>, {"q"}, {}, Top(20, 100)),
   AnyIs(Operation("/registry/meta", <<"get_meta">>, {}, {}, All), 503)}

\* A provider that fails leaves the offline classification, whatever it raised.
ResolverRoutes == {How(Operation("/resolver/resolve", <<"b3_listed_provider">>, {}, {}, All), "isolated")}

YahooRoutes == {Operation("/yahoo/chart", <<"get_chart">>, {"symbol"}, {}, All)}

BaseDosDadosRoutes ==
  LET Sdk(name, source) ==
        How(Operation(name, <<source>>, {}, {<<"page", 1, Open>>, <<"page_size", 1, 100>>}, All),
            "extra_in_call")
  IN
  {Operation("/basedosdados/info", << >>, {}, {}, All),
   Operation("/basedosdados/sql-template", <<"table_ref">>, {"dataset_id", "table_id"}, {},
             Top(100, 10000)),
   Operation("/basedosdados/search", <<"search_datasets">>, {}, {<<"page", 1, Open>>}, All),
   Operation("/basedosdados/direct-download/free", <<"search_direct_download_free">>, {},
             {<<"page", 1, Open>>}, All),
   Sdk("/basedosdados/datasets", "get_datasets"), Sdk("/basedosdados/tables", "get_tables"),
   Sdk("/basedosdados/columns", "get_columns")}

\* The routes the application declares itself; /health is the one the origin
\* token and the rate limit leave alone.
AppRoutes ==
  {Operation(name, << >>, {}, {}, All) : name \in {"/", "/docs", "/charts", "/meta", "/health", "/stats"}}

RestRoutes(boot) ==
  UNION {BcbRoutes, CvmCompanyRoutes(boot), CvmFundRoutes(boot), CvmStructuredRoutes(boot), B3Routes,
         TesouroRoutes(boot), IbgeRoutes, IpeaRoutes, OpenFinanceRoutes, OpenFinanceKeyRoutes,
         AnbimaRoutes, ReceitaRoutes(boot), AneelRoutes(boot), SusepRoutes, RegistryRoutes,
         ResolverRoutes, YahooRoutes, BaseDosDadosRoutes, AppRoutes}
=============================================================================
