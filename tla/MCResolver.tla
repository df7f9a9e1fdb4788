----------------------------- MODULE MCResolver -----------------------------
(* A small instance of Resolver for TLC: names of up to two words and       *)
(* a few of three.                                                          *)
EXTENDS Resolver

\* Words that different rules claim, in every pair, and words of one rule, alone.
Rivals == {"CREDITO ESTRUTURADO", "COE", "DEB", "INFRA", "TESOURO", "ETF", "FIDC", "FIP",
           "FIA", "FIC", "GLOBAL", "ARBOR"}
Alone  == {"CRA", "CDB", "LCI", "FII", "FUNDO DE INDICE", "FUNDO IMOBILIARIO", "FIM", "ACOES"}

SmallNames == {{a, b} : a, b \in Rivals} \cup {{a} : a \in Alone}
                \cup {{}, {"DEB", "RUMO"}, {"DEB", "RUMO", "IPCA"}, {"FIC", "IE"}, {"FIC", "PARTICIPACOES"},
                      {"FIC", "FIP", "GLOBAL"}, {"FIC", "FIDC", "GLOBAL"}}
SmallTickers == {NoTicker, "IVVB11", "IFRA11", "HGLG11", "PETR4", "AAPL34", "PETR12", "B5P211"}
SmallChains  == {<< >>, <<"b3">>, <<"other", "b3">>, <<"b3", "other">>}
SmallTypes   == <<"ETF", "FI-INFRA">>

Answer(macro, confidence) ==
  [rule |-> "provider", kind |-> "fundo", macro |-> macro, exposure |-> "Brasil",
   confidence |-> confidence, exempt |-> "unknown", law |-> "none", source |-> "other"]
SmallOthers == {Answer("Multimercado", 95), Answer("Indefinido", 95), Answer("Multimercado", 50)}
=============================================================================
