---------------------------- MODULE CliCommands -----------------------------
(* The command line: what each command asks, in which order, what it shows of *)
(* the rows, and whether it says that it left some out. A mode that options   *)
(* choose is a command of its own. cli.py writes the cut of its rows and the  *)
(* note about it by hand in every command; Cli is the machine that runs them. *)
EXTENDS Integers, Sequences

\* What is shown of the rows a source gave. "cap" is the number in the code, or
\* ByOption: the value of the command's option. "noted": a last line tells that
\* rows were left out.
ByOption == 0
Every == [side |-> "all", cap |-> 0, noted |-> FALSE]
FirstRows(cap) == [side |-> "first", cap |-> cap, noted |-> FALSE]     \* rows[:cap]
LastRows(cap) == [side |-> "last", cap |-> cap, noted |-> FALSE]      \* rows[-cap:]
Told == [side |-> "told", cap |-> ByOption, noted |-> FALSE]      \* the source cuts
Noted(cut) == [cut EXCEPT !.noted = TRUE]

\* One question: empty rows end the command ("stops"), are passed over in
\* silence ("skips"), or make an empty table ("shows").
Asks(source, cut, empty) == [source |-> source, cut |-> cut, empty |-> empty]
\* Without a source the command prints a table of the code.
Prints(name) == [name |-> name, asks |-> << >>, std |-> 0, min |-> 0, max |-> 0, catches |-> {}]
Command(name, asks) == [Prints(name) EXCEPT !.asks = asks]
Stopping(name, source, cut) == Command(name, <<Asks(source, cut, "stops")>>)
Showing(name, source, cut) == Command(name, <<Asks(source, cut, "shows")>>)

\* The option -n of a command: its default and the values typer accepts.
AnyInt == 1000000
Option(command, std, min, max) ==
  [command EXCEPT !.std = std, !.min = min, !.max = max]
FreeOption(command, std) == Option(command, std, 0 - AnyInt, AnyInt)
Catching(command, faults) == [command EXCEPT !.catches = faults]

-----------------------------------------------------------------------------
BcbCommands ==
  {Prints("banner"), Prints("bcb/series"), Stopping("bcb/ptax", "get_ptax_usd", Every),
   Catching(FreeOption(Showing("bcb/get", "get_series_by_name", Told), 10), {"value"}),
   Catching(FreeOption(Showing("bcb/focus", "get_focus_annual", Told), 10), {"value"})}

B3Commands ==
  LET Cotahist(name, source) == Stopping(name, source, Noted(LastRows(60))) IN
  {Showing("b3/quote", "get_quote", Every), Showing("b3/history", "get_history", Every),
   Cotahist("b3/cotahist/m/d", "get_cotahist_day"), Cotahist("b3/cotahist/m", "get_cotahist_month"),
   Cotahist("b3/cotahist", "get_cotahist_year"), Cotahist("b3/cotahist/d", "get_cotahist_year")}

B3IndexCommands ==
  {Stopping("b3/index", "get_index_portfolio", Every),
   Option(Stopping("b3/index-monthly", "get_index_monthly_evolution", Noted(LastRows(60))), 120, 1, 360),
   Stopping("b3/listed/ticker", "lookup_listed_fund", Every), Prints("b3/listed"),
   Stopping("b3/listed/type", "get_listed_funds", Noted(FirstRows(80)))}

ResolveCommand == {Showing("resolve", "resolve_asset", Every)}

TesouroCommands ==
  {Stopping("tesouro/search", "search_bonds", Every),
   FreeOption(Stopping("tesouro/history", "get_bond_history", LastRows(ByOption)), 20),
   Stopping("tesouro/rreo", "get_rreo", Noted(FirstRows(80))),
   Showing("tesouro/entes", "get_entes", Noted(FirstRows(60)))}

ReceitaAneelSusepCommands ==
  {Stopping("receita/arrecadacao", "get_arrecadacao", Noted(FirstRows(40))),
   Stopping("aneel/leiloes/transmissao", "get_aneel_leiloes_transmissao", LastRows(40)),
   Stopping("aneel/leiloes/geracao", "get_aneel_leiloes_geracao", LastRows(40)),
   Stopping("susep/search", "search_susep_empresa", Noted(FirstRows(50)))}

RegistryIbgeCommands ==
  {Option(Stopping("registry/lookup", "lookup", Told), 20, 1, 100),
   Showing("registry/meta", "get_meta", Every),
   FreeOption(Showing("ibge/ipca", "get_ipca_breakdown", Told), 6)}

\* -n of the two quote lists is spelled --last and takes the first rows.
AnbimaCommands ==
  {Stopping("anbima/ima", "get_ima", Every), Stopping("anbima/ettj", "get_ettj", Every),
   FreeOption(Stopping("anbima/debentures", "get_debentures", FirstRows(ByOption)), 50),
   FreeOption(Stopping("anbima/tpf", "get_tpf", FirstRows(ByOption)), 50)}

IpeaCommands ==
  {Prints("ipea/catalog"), FreeOption(Stopping("ipea/get", "get_series_values", Told), 10),
   FreeOption(Stopping("ipea/search", "search_series", Told), 20)}

OpenFinanceCommands ==
  {Prints("openfinance/resources"), Prints("openfinance/datasets"),
   Option(Showing("openfinance/participants", "get_participants", Noted(FirstRows(ByOption))), 30, 1, 1000),
   Option(Showing("openfinance/endpoints", "get_participants", Noted(FirstRows(ByOption))), 40, 1, 5000),
   Stopping("openfinance/files", "get_dataset_files", Every)}

\* lamina shows the headline of the first row before it asks for the returns.
CvmFundCommands ==
  {Option(Stopping("cvm/cadastro", "get_fund_cadastro", Told), 20, 1, 100),
   Option(Stopping("cvm/daily", "get_fund_daily", FirstRows(ByOption)), 31, 1, 5000),
   Stopping("cvm/holdings", "get_fund_holdings", Noted(FirstRows(200))),
   Command("cvm/lamina",
           <<Asks("get_fund_lamina", FirstRows(1), "stops"),
             Asks("get_fund_monthly_returns", FirstRows(24), "skips"),
             Asks("get_fund_yearly_returns", Every, "skips")>>),
   Stopping("cvm/profile", "get_fund_profile", FirstRows(1))}

CvmStructuredCommands ==
  {Command("cvm/fii",
           <<Asks("get_fii_geral", FirstRows(1), "stops"),
             Asks("get_fii_complemento", LastRows(1), "skips")>>),
   Command("cvm/fidc",
           <<Asks("get_fidc_geral", FirstRows(1), "stops"), Asks("get_fidc_pl", FirstRows(1), "skips"),
             Asks("get_fidc_direitos_creditorios", FirstRows(1), "skips")>>),
   Stopping("cvm/fip", "get_fip", LastRows(1))}

CvmCompanyCommands ==
  {Stopping("cvm/ipe", "get_ipe", Noted(FirstRows(50))),
   Command("cvm/ticker",
           <<Asks("get_fca_valores_mobiliarios", FirstRows(1), "stops"),
             Asks("get_fca_geral", FirstRows(1), "skips")>>),
   Stopping("cvm/search", "search_company", Noted(FirstRows(50)))}

BaseDosDadosCommands ==
  {Prints("basedosdados/info"), Option(Prints("basedosdados/sql"), 100, 1, 10000),
   Showing("basedosdados/direct-download-free", "search_direct_download_free", Every)}

\* The three commands that need the optional SDK; a query catches everything.
BaseDosDadosSdkCommands ==
  {Catching(Option(Stopping("basedosdados/query", "read_sql_preview", Told), 100, 1, 10000),
            {"sdk", "value", "other"}),
   Catching(Option(Showing("basedosdados/query/json", "read_sql_preview", Told), 100, 1, 10000),
            {"sdk", "value", "other"}),
   Catching(Showing("basedosdados/datasets", "get_datasets", Every), {"sdk"}),
   Catching(Showing("basedosdados/tables", "get_tables", Every), {"sdk"})}

YahooCommands == {Showing("yahoo/chart", "get_chart", LastRows(60))}

Commands ==
  UNION {BcbCommands, B3Commands, B3IndexCommands, ResolveCommand, TesouroCommands,
         ReceitaAneelSusepCommands, RegistryIbgeCommands, AnbimaCommands, IpeaCommands,
         OpenFinanceCommands, CvmFundCommands, CvmStructuredCommands, CvmCompanyCommands,
         BaseDosDadosCommands, BaseDosDadosSdkCommands, YahooCommands}
=============================================================================
