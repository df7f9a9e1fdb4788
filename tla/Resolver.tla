------------------------------ MODULE Resolver ------------------------------
(***************************************************************************)
(* resolve_asset of findata.resolver.engine: one identifier is normalised  *)
(* and classified by the curated seed or the structural rules; while the   *)
(* result is weak, an injected chain of providers is asked, one of which   *)
(* is the B3 listed-funds catalogue, walked type by type.                  *)
(*                                                                         *)
(* A name is the set of words and phrases in it that the rules look for;   *)
(* words of one kind that the rules never tell apart have one              *)
(* representative (CDB for CDB, RDB, LIG and the two bank letters).        *)
(***************************************************************************)
EXTENDS Integers, Sequences, FiniteSets

CONSTANTS
  Names,        \* the names that are asked for: sets of words
  Tickers,      \* the tickers that are asked for, NoTicker among them
  Chains,       \* the provider chains: sequences of "b3" and "other"
  Others,       \* classifications that other providers answer
  Types,        \* LOOKUP_TYPES, in their order
  NoTicker

ASSUME ChainsAssumption == Chains \subseteq Seq({"b3", "other"})
ASSUME TypesAssumption  == Types \in Seq(STRING)

\* The vocabularies of resolver/models.py; RF is Renda Fixa and RV Renda Variavel.
Kinds  == {"fundo", "acao", "fii", "etf", "bdr", "debenture", "cra", "cri", "cdb", "lci_lca",
           "tesouro", "coe", "outro"}
Macros == {"RF", "RV", "Multimercado", "Alternativos", "Estruturados", "Indefinido"}
Exposures == {"Brasil", "Internacional", "none"}
RuleNames == {"curated_seed", "credito_estruturado_trap", "coe", "debenture", "cra_cri", "bank_paper",
              "lci_lca", "tesouro", "internacional", "fii_name", "etf_name", "fidc", "fip",
              "multimercado", "fia", "ticker_suffix_11", "bdr", "acao", "ticker_suffix_unknown",
              "fallback", "b3_listed_funds", "provider"}

Classifications ==
  [rule : RuleNames, kind : Kinds, macro : Macros, exposure : Exposures, confidence : 0..100,
   exempt : {"confirmed_exempt", "candidate_exempt", "confirmed_taxable", "unknown"},
   law : {"confirmed", "candidate", "not_applicable", "none"},
   source : {"openfindata", "b3", "other"}]

\* AssetProvider: a full classification of its own, under a rule of its own.
ASSUME OthersAssumption ==
  /\ Others \subseteq Classifications
  /\ \A r \in Others : r.source = "other" /\ r.rule = "provider"

VARIABLES
  asked,        \* the name and the ticker as the caller gives them
  chain,        \* providers
  listed,       \* the types under which the catalogue lists the ticker
  shown,        \* those of them whose first page of 20 hits has it
  result,       \* the classification so far
  cascade,      \* result.cascade: the audit trail
  at,           \* the provider that is asked next
  walk,         \* the type whose page is read next, 0 outside the B3 provider
  phase

vars == <<asked, chain, listed, shown, result, cascade, at, walk, phase>>
-----------------------------------------------------------------------------
(* Normalisation: which words and tickers the rules see.                   *)

\* What has_token finds in a phrase, and what name_contains finds in a word.
TokensOf(w) ==
  CASE w = "FUNDO DE INDICE"   -> {"FUNDO"}
    [] w = "FUNDO IMOBILIARIO" -> {"FUNDO"}
    [] OTHER                   -> {w}
PartsOf(w) ==
  CASE w = "CREDITO ESTRUTURADO"  -> {w, "CREDITO"}
    [] w = "DIREITOS CREDITORIOS" -> {w, "CREDITO"}
    [] w = "PARTICIPACOES"        -> {w, "ACOES"}
    [] OTHER                      -> {w}

HasToken(n, ws) == \E w \in n.words : TokensOf(w) \cap ws # {}
Contains(n, ws) == \E w \in n.words : PartsOf(w) \cap ws # {}

\* _TICKER_RE: four letters and one or two digits.  "B5P211" has a digit among
\* the four.
WellShaped(t) == t \notin {NoTicker, "B5P211", "IB5M11", "B5MB11"}

Normalize(a) == [words |-> a.words, ticker |-> IF WellShaped(a.ticker) THEN a.ticker ELSE NoTicker]

norm == Normalize(asked)

\* Two or one trailing digits.
Suffix(t) ==
  CASE t \in {"IVVB11", "BOVA11", "IFRA11", "IMAB11", "HGLG11"} -> "11"
    [] t = "AAPL34" -> "34"
    [] t = "PETR4"  -> "4"
    [] t = "PETR12" -> "12"
    [] OTHER        -> "none"
-----------------------------------------------------------------------------
(* Classifications.  confidence is in per cent; exempt is tax.isento_status, *)
(* law debenture.lei_12431_status, rule the rule among the signals.         *)

Says(rule, kind, macro, exposure, confidence) ==
  [rule |-> rule, kind |-> kind, macro |-> macro, exposure |-> exposure,
   confidence |-> confidence, exempt |-> "unknown", law |-> "none", source |-> "openfindata"]

Exempt(payload) == [payload EXCEPT !.exempt = "confirmed_exempt"]

\* The curated seed: ETFs by ticker, one fund by two tokens of its name.
SeededEquity == [IVVB11 |-> "Internacional", BOVA11 |-> "Brasil"]
SeededIncome == {"IFRA11", "IMAB11", "B5P211", "IB5M11", "B5MB11"}

Seed(n) ==
  IF n.ticker \in DOMAIN SeededEquity
  THEN {Says("curated_seed", "etf", "RV", SeededEquity[n.ticker], 97)}
  ELSE IF n.ticker = "IFRA11"
  THEN {[Exempt(Says("curated_seed", "etf", "RF", "Brasil", 97)) EXCEPT !.law = "confirmed"]}
  ELSE IF n.ticker \in SeededIncome
  THEN {Says("curated_seed", "etf", "RF", "Brasil", 97)}
  ELSE IF HasToken(n, {"ARBOR"}) /\ HasToken(n, {"FIA"})
  THEN {Says("curated_seed", "fundo", "RV", "Internacional", 93)}
  ELSE {}

\* parse_indexador answers "IPCA+".
IpcaLinked(n) == Contains(n, {"IPCA"})

\* MUTANT of Debenture: an inferred exemption is as certain as a stated one.
Debenture_Certain(n) ==
  IF Contains(n, {"INCENTIVADA"}) \/ HasToken(n, {"INFRA"})
  THEN [Exempt(Says("debenture", "debenture", "RF", "Brasil", 92)) EXCEPT !.law = "confirmed"]
  ELSE [Says("debenture", "debenture", "RF", "Brasil", 92)
          EXCEPT !.exempt = "candidate_exempt", !.law = "candidate"]

\* _debenture_payload: what is certain about Lei 12.431, and how certain.
Debenture(n) ==
  LET explicit  == Contains(n, {"INCENTIVADA"}) \/ HasToken(n, {"INFRA"})
      heuristic == HasToken(n, {"RUMO"}) /\ IpcaLinked(n)
      deb(c)    == Says("debenture", "debenture", "RF", "Brasil", c)
  IN IF explicit THEN [Exempt(deb(92)) EXCEPT !.law = "confirmed"]
     ELSE IF heuristic
     THEN [deb(70) EXCEPT !.exempt = "candidate_exempt", !.law = "candidate"]
     ELSE [deb(88) EXCEPT !.law = "not_applicable"]

\* _internacional_payload: the macro class by the first of its own key words.
Internacional(n) ==
  Says("internacional", "fundo",
       IF HasToken(n, {"FIA"}) \/ Contains(n, {"ACOES"}) THEN "RV"
       ELSE IF Contains(n, {"CREDITO", "RENDA FIXA"}) THEN "RF"
       ELSE "Multimercado",
       "Internacional", 90)

\* _etf_payload: underlying by key words, shares by default.
EtfByName(n) ==
  IF Contains(n, {"RENDA FIXA", "TESOURO", "INFRA"})
  THEN Says("etf_name", "etf", "RF", "Brasil", 78)
  ELSE Says("etf_name", "etf", "RV",
            IF Contains(n, {"GLOBAL", "S&P"}) THEN "Internacional" ELSE "Brasil", 72)

\* _ticker_payload: the guess by the ticker's digits.
ByTicker(n) ==
  CASE Suffix(n.ticker) = "11" -> Says("ticker_suffix_11", "fii", "RV", "Brasil", 72)
    [] Suffix(n.ticker) = "34" -> Says("bdr", "bdr", "RV", "Internacional", 80)
    [] Suffix(n.ticker) = "4"  -> Says("acao", "acao", "RV", "Brasil", 85)
    [] OTHER -> Says("ticker_suffix_unknown", "outro", "Indefinido", "none", 20)

FundContext(n) == HasToken(n, {"FIA", "FIC", "FIM", "FUNDO"})

\* The structural rules, in their order: when each fires and what it says.
CreditRules(n) == <<
  [fires |-> Contains(n, {"CREDITO ESTRUTURADO"}),
   says  |-> Says("credito_estruturado_trap", "fundo", "RF", "Brasil", 90)],
  [fires |-> HasToken(n, {"COE"}),
   says  |-> Says("coe", "coe", "Estruturados", "none", 95)],
  [fires |-> HasToken(n, {"DEB"}), says |-> Debenture(n)],
  [fires |-> HasToken(n, {"CRA", "CRI"}),
   says  |-> Exempt(Says("cra_cri", IF HasToken(n, {"CRA"}) THEN "cra" ELSE "cri",
                         "RF", "Brasil", 90))],
  [fires |-> HasToken(n, {"CDB"}),
   says  |-> Says("bank_paper", "cdb", "RF", "Brasil", 88)],
  [fires |-> HasToken(n, {"LCI"}),
   says  |-> Exempt(Says("lci_lca", "lci_lca", "RF", "Brasil", 90))],
  [fires |-> HasToken(n, {"TESOURO"}),
   says  |-> Says("tesouro", "tesouro", "RF", "Brasil", 95)] >>

FundRules(n) == <<
  [fires |-> HasToken(n, {"FII"}) \/ Contains(n, {"FUNDO IMOBILIARIO"}),
   says  |-> Says("fii_name", "fii", "RV", "Brasil", 92)],
  [fires |-> HasToken(n, {"ETF"}) \/ Contains(n, {"FUNDO DE INDICE"}), says |-> EtfByName(n)],
  [fires |-> HasToken(n, {"FIDC"}) \/ Contains(n, {"DIREITOS CREDITORIOS"}),
   says  |-> Says("fidc", "fundo", "RF", "Brasil", 85)],
  [fires |-> HasToken(n, {"FIP"}) \/ (FundContext(n) /\ Contains(n, {"PARTICIPACOES"})),
   says  |-> Says("fip", "fundo", "Alternativos", "none", 88)],
  [fires |-> HasToken(n, {"FIM"}) \/ (FundContext(n) /\ Contains(n, {"MACRO"})),
   says  |-> Says("multimercado", "fundo", "Multimercado", "none", 85)],
  [fires |-> HasToken(n, {"FIA"}) \/ (FundContext(n) /\ Contains(n, {"ACOES"})),
   says  |-> Says("fia", "fundo", "RV", "Brasil", 85)],
  [fires |-> n.ticker # NoTicker, says |-> ByTicker(n)] >>

Rules(n) ==
  CreditRules(n)
  \o << [fires |-> FundContext(n) /\ (HasToken(n, {"IE"}) \/ Contains(n, {"GLOBAL"})),
         says  |-> Internacional(n)] >>
  \o FundRules(n)
  \o << [fires |-> TRUE, says |-> Says("fallback", "outro", "Indefinido", "none", 20)] >>

\* _rule_payload: the first rule that fires decides.
RulePayload(n) ==
  LET rules == Rules(n)
      first == CHOOSE i \in DOMAIN rules :
                 rules[i].fires /\ \A j \in 1..(i - 1) : ~rules[j].fires
  IN rules[first].says

\* classify: the seed, and the rules where it has nothing.
Classify(n) == IF Seed(n) # {} THEN CHOOSE s \in Seed(n) : TRUE ELSE RulePayload(n)
Step(n)     == IF Seed(n) # {} THEN "openfindata:curated" ELSE "openfindata:rules"
-----------------------------------------------------------------------------
(* The B3 catalogue's own classifications.                                  *)

\* _TYPE_HINTS: kind and macro class by the type a fund is listed under.
KindOfType(t) ==
  CASE t \in {"ETF", "ETF-RF", "ETF-INT-RF", "ETF-FII", "ETF-CRIPTO", "ETF-MOEDA"} -> "etf"
    [] t = "FII" -> "fii"
    [] OTHER     -> "fundo"
MacroOfType(t) ==
  CASE t \in {"ETF", "ETF-FII", "FII", "FIAGRO-FII", "FIA"} -> "RV"
    [] t \in {"ETF-RF", "ETF-INT-RF", "FI-INFRA", "FIAGRO-FIDC", "FIDC", "FI-RF"} -> "RF"
    [] t \in {"FIM-INFRA", "FIM-RF-C-REND", "FIM-RF-S-REND", "FIM-RV-C-REND",
              "FIM-RV-S-REND"} -> "Multimercado"
    [] OTHER -> "Alternativos"
ExposureOfType(t) ==
  CASE t \in {"ETF", "ETF-CRIPTO", "ETF-MOEDA", "FIP", "FI-MOEDA"} -> "none"
    [] t = "ETF-INT-RF" -> "Internacional"
    [] OTHER            -> "Brasil"

\* classification_from_listed_fund; intl: the official name has a foreign marker.
FromListing(t, intl) ==
  LET exposure == IF ExposureOfType(t) = "none" /\ intl THEN "Internacional" ELSE ExposureOfType(t)
      hint     == [Says("b3_listed_funds", KindOfType(t), MacroOfType(t), exposure, 91)
                     EXCEPT !.source = "b3"]
  IN IF t = "FI-INFRA" THEN [Exempt(hint) EXCEPT !.law = "confirmed"] ELSE hint

\* _not_listed_classification.
NotListed == [Says("b3_listed_funds", "outro", "Indefinido", "none", 40) EXCEPT !.source = "b3"]
-----------------------------------------------------------------------------
(* resolve_asset.                                                          *)

Init ==
  /\ asked \in [words : Names, ticker : Tickers]
  /\ chain \in Chains
  /\ listed \in SUBSET {Types[i] : i \in DOMAIN Types}
  /\ shown \in SUBSET listed
  /\ result = NotListed
  /\ cascade = << >>
  /\ at = 1
  /\ walk = 0
  /\ phase = "start"

\* The core: no await.
Core ==
  /\ phase = "start"
  /\ result' = Classify(norm)
  /\ cascade' = <<Step(norm)>>
  /\ phase' = "chain"
  /\ UNCHANGED <<asked, chain, listed, shown, at, walk>>

\* MUTANT of Strong: 90 is not enough.
Strong_Above(r) == r.macro # "Indefinido" /\ r.confidence > 90

Strong(r) == r.macro # "Indefinido" /\ r.confidence >= 90

\* The provider whose turn it is.
Turn(provider) ==
  /\ phase = "chain"
  /\ at <= Len(chain)
  /\ ~Strong(result)
  /\ chain[at] = provider

\* MUTANT of Replaced: the provider's own cascade stands alone.
Replaced_Forgets(r, step) ==
  /\ result' = r
  /\ cascade' = <<step>>
  /\ at' = at + 1
  /\ walk' = 0
  /\ UNCHANGED <<asked, chain, listed, shown, phase>>

\* The provider's answer replaces the result; the cascade is put before its own.
Replaced(r, step) ==
  /\ result' = r
  /\ cascade' = Append(cascade, step)
  /\ at' = at + 1
  /\ walk' = 0
  /\ UNCHANGED <<asked, chain, listed, shown, phase>>

\* MUTANT of Passed: the walk is not left.
Passed_KeepsWalk ==
  /\ at' = at + 1
  /\ UNCHANGED <<asked, chain, listed, shown, result, cascade, walk, phase>>

\* MUTANT of Passed: the provider is asked again.
Passed_AsksAgain ==
  /\ walk' = 0
  /\ UNCHANGED <<asked, chain, listed, shown, result, cascade, at, phase>>

\* The provider answers None.
Passed ==
  /\ at' = at + 1
  /\ walk' = 0
  /\ UNCHANGED <<asked, chain, listed, shown, result, cascade, phase>>

\* MUTANT of Raised: an error leaves the class undecided.
Raised_Forgets ==
  /\ cascade' = Append(cascade, "provider_error")
  /\ result' = [result EXCEPT !.macro = "Indefinido"]
  /\ at' = at + 1
  /\ walk' = 0
  /\ UNCHANGED <<asked, chain, listed, shown, phase>>

\* The provider raises: the result stays, and the cascade says so.
Raised ==
  /\ cascade' = Append(cascade, "provider_error")
  /\ at' = at + 1
  /\ walk' = 0
  /\ UNCHANGED <<asked, chain, listed, shown, result, phase>>

OtherAnswers(r) == Turn("other") /\ Replaced(r, "other")
OtherPasses     == Turn("other") /\ Passed
OtherRaises     == Turn("other") /\ Raised

\* b3_listed_provider asks only for tickers that end in 11.
CatalogueSkips  == Turn("b3") /\ Suffix(norm.ticker) # "11" /\ Passed
CatalogueStarts ==
  /\ Turn("b3")
  /\ walk = 0
  /\ Suffix(norm.ticker) = "11"
  /\ walk' = 1
  /\ UNCHANGED <<asked, chain, listed, shown, result, cascade, at, phase>>

\* lookup_listed_fund: one page per type, each of which can fail. B3 searches the
\* type for the acronym; only the first _LOOKUP_PAGE_SIZE hits are compared with
\* it, so a fund beyond them is missed although it is listed.
PageHit(intl) ==
  /\ walk \in DOMAIN Types
  /\ Types[walk] \in shown
  /\ Replaced(FromListing(Types[walk], intl), "b3:listed-funds")
PageMiss ==
  /\ walk \in DOMAIN Types
  /\ Types[walk] \notin shown
  /\ walk' = walk + 1
  /\ UNCHANGED <<asked, chain, listed, shown, result, cascade, at, phase>>

\* MUTANT of PageRaises: the walk goes on with the next type.
PageRaises_GoesOn ==
  /\ walk \in DOMAIN Types
  /\ walk' = walk + 1
  /\ UNCHANGED <<asked, chain, listed, shown, result, cascade, at, phase>>

PageRaises == walk \in DOMAIN Types /\ Raised

\* MUTANT of WalkEnds: a miss passes, whatever the guess was.
WalkEnds_KeepsGuess == walk > Len(Types) /\ Passed

\* No page has the ticker: a guess by its suffix falls, anything else stays.
WalkEnds ==
  /\ walk > Len(Types)
  /\ IF result.rule = "ticker_suffix_11" THEN Replaced(NotListed, "b3:listed-funds") ELSE Passed

\* The chain is at its end, or cut short by a strong result.
Finish ==
  /\ phase = "chain"
  /\ at > Len(chain) \/ Strong(result)
  /\ phase' = "done"
  /\ UNCHANGED <<asked, chain, listed, shown, result, cascade, at, walk>>

Next ==
  \/ Core
  \/ \E r \in Others : OtherAnswers(r)
  \/ OtherPasses
  \/ OtherRaises
  \/ CatalogueSkips
  \/ CatalogueStarts
  \/ \E intl \in BOOLEAN : PageHit(intl)
  \/ PageMiss
  \/ PageRaises
  \/ WalkEnds
  \/ Finish

Spec == Init /\ [][Next]_vars

\* A single task runs; every provider answers, passes or raises.
FairSpec == Spec /\ WF_vars(Next)
-----------------------------------------------------------------------------
(* Properties.                                                             *)

Phases == {"start", "chain", "done"}
Steps  == {"openfindata:curated", "openfindata:rules", "b3:listed-funds", "other", "provider_error"}

\* Types; the catalogue is walked only while it is its turn.
TypeOK ==
  /\ asked \in [words : Names, ticker : Tickers]
  /\ chain \in Chains
  /\ listed \subseteq {Types[i] : i \in DOMAIN Types} /\ shown \subseteq listed
  /\ result \in Classifications
  /\ cascade \in Seq(Steps)
  /\ at \in 1..(Len(chain) + 1)
  /\ walk \in 0..(Len(Types) + 1)
  /\ phase \in Phases
  /\ walk # 0 => phase = "chain" /\ at <= Len(chain) /\ chain[at] = "b3"

Done == phase = "done"

\* The two name traps of engine.py are settled by the core: "Credito Estruturado"
\* is fixed income and a COE is Estruturados, never an ETF, whatever the other words
\* are, whatever providers are injected and whatever they would answer.
TrapsAreFinal ==
  Done /\ Seed(norm) = {} =>
    IF Contains(norm, {"CREDITO ESTRUTURADO"}) THEN result.macro = "RF"
    ELSE HasToken(norm, {"COE"}) => result.macro = "Estruturados" /\ result.kind = "coe"

ErrorSteps == {i \in DOMAIN cascade : cascade[i] = "provider_error"}

\* The guess that a ticker ending in 11 is a FII is the answer only if the chain had
\* at least as many failures as it has catalogue providers.  A miss, or another
\* provider that merely passed, is not enough to keep it; whose failures they were
\* the cascade does not say, so another provider's count, too.
GuessesAreChallenged ==
  Done /\ result.rule = "ticker_suffix_11"
    => Cardinality({i \in DOMAIN chain : chain[i] = "b3"}) <= Cardinality(ErrorSteps)

\* A tax exemption that the core only infers (issuer and IPCA) is the answer only
\* after the whole chain was asked: no early return takes it for a fact.
InferredExemptionIsAsked ==
  Done /\ result.source = "openfindata" /\ result.exempt = "candidate_exempt" => at > Len(chain)

\* Best-effort enrichment: a chain whose providers all fail or pass gives exactly
\* the offline answer, and the cascade still begins with the core's step.
FailuresLoseNothing ==
  Done /\ (\A i \in 2..Len(cascade) : cascade[i] = "provider_error")
    => result = Classify(norm) /\ cascade[1] = Step(norm)

\* The catalogue's word is that of the first pages of hits: the type it names lists
\* the ticker, and is the first in LOOKUP_TYPES whose page has it ("so an ETF is not
\* first claimed as FII"); "not listed" is said only if no page has it, and a page
\* that failed never counts as a miss.  A type before that one, or any type of a
\* ticker that is called not listed, may list it beyond its first page: the
\* exception, which the code's one page per type makes.
CatalogueSpeaksTrue ==
  result.source = "b3" /\ phase # "start" =>
    IF shown = {} THEN result = NotListed
    ELSE \E i \in DOMAIN Types, intl \in BOOLEAN :
           /\ Types[i] \in listed
           /\ \A j \in 1..(i - 1) : Types[j] \notin shown
           /\ result = FromListing(Types[i], intl)

\* The audit trail is only ever extended: a provider owns its result, never what
\* was noted before it.
CascadeGrows ==
  /\ Len(cascade) <= Len(cascade')
  /\ \A i \in DOMAIN cascade : cascade'[i] = cascade[i]
AuditTrailGrows == [][CascadeGrows]_vars

\* Every call of resolve_asset ends.
EveryResolveEnds == <>Done

\* What seed.py says of its tickers: "Index by ticker for O(1) hits",
\* the common path: whoever asks for a curated ticker gets the curated answer.
SeededTickersHit ==
  Done /\ asked.ticker \in SeededIncome => result.rule = "curated_seed"
=============================================================================
