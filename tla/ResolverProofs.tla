--------------------------- MODULE ResolverProofs ---------------------------
(***************************************************************************)
(* Proofs about Resolver, for any names, tickers, provider chains, foreign *)
(* answers and catalogue types.                                            *)
(***************************************************************************)
EXTENDS Resolver, NaturalsInduction, WellFoundedInduction, SequenceTheorems, FiniteSetTheorems, TLAPS

\* What a classification of the core must satisfy: it is well-formed, it is the
\* library's own, and a guess by the suffix is weak and about such a ticker.
Sound(n) ==
  {r \in Classifications :
     /\ r.source = "openfindata"
     /\ r.rule # "provider"
     /\ r.rule = "ticker_suffix_11" => r.confidence = 72 /\ Suffix(n.ticker) = "11"
     /\ r.exempt = "candidate_exempt" => r.confidence < 90}

\* A confirmed exemption keeps a classification sound.
LEMMA ExemptSound ==
  ASSUME NEW n, NEW r \in Sound(n)
  PROVE  Exempt(r) \in Sound(n)
BY DEF Exempt, Sound, Classifications

\* Debentures are sound: the inferred exemption stays below the threshold.
LEMMA DebentureSound ==
  ASSUME NEW n
  PROVE  Debenture(n) \in Sound(n)
<1> DEFINE deb(c) == Says("debenture", "debenture", "RF", "Brasil", c)
<1>1. deb(92) \in Sound(n) /\ deb(70) \in Sound(n) /\ deb(88) \in Sound(n)
  BY DEF RuleNames, Kinds, Macros, Exposures, Says, Sound, Classifications
<1>2. deb(70).confidence = 70
  BY DEF Says
<1>3. [Exempt(deb(92)) EXCEPT !.law = "confirmed"] \in Sound(n)
  <2>1. Exempt(deb(92)) \in Sound(n)
    BY <1>1, ExemptSound
  <2> HIDE DEF deb
  <2> QED BY <2>1 DEF Sound, Classifications
<1>4. [deb(70) EXCEPT !.exempt = "candidate_exempt", !.law = "candidate"] \in Sound(n)
  <2> DEFINE e == [deb(70) EXCEPT !.exempt = "candidate_exempt", !.law = "candidate"]
  <2> HIDE DEF deb
  <2>1. e \in Classifications
    <3>1. deb(70) \in Classifications
      BY <1>1 DEF Sound
    <3>2. [deb(70) EXCEPT !.exempt = "candidate_exempt"] \in Classifications
      BY <3>1 DEF Classifications
    <3>3. \A r \in Classifications : [r EXCEPT !.law = "candidate"] \in Classifications
      BY DEF Classifications
    <3>4. e = [[deb(70) EXCEPT !.exempt = "candidate_exempt"] EXCEPT !.law = "candidate"]
      OBVIOUS
    <3> QED BY <3>2, <3>3, <3>4
  <2>2. e.confidence = 70 /\ e.source = deb(70).source /\ e.rule = deb(70).rule
    BY <1>1, <1>2 DEF Sound, Classifications
  <2> HIDE DEF e
  <2>3. e \in Sound(n)
    BY <1>1, <1>2, <2>1, <2>2 DEF Sound
  <2> QED BY <2>3 DEF e
<1>5. [deb(88) EXCEPT !.law = "not_applicable"] \in Sound(n)
  <2> HIDE DEF deb
  <2> QED BY <1>1 DEF Sound, Classifications
<1> QED BY <1>3, <1>4, <1>5 DEF Debenture

\* A rule of the cascade: a condition and a sound classification.
Rule(n) == [fires : BOOLEAN, says : Sound(n)]

\* The conditions of the rules are Boolean.
LEMMA FiresAreBoolean == \A n, w : HasToken(n, w) \in BOOLEAN /\ Contains(n, w) \in BOOLEAN
BY DEF HasToken, Contains

\* A condition and a sound classification are a rule.
LEMMA RuleFormed ==
  ASSUME NEW n, NEW f \in BOOLEAN, NEW s \in Sound(n)
  PROVE  [fires |-> f, says |-> s] \in Rule(n)
BY DEF Rule

\* Every rule of the credit part is one.
LEMMA CreditRulesSound ==
  ASSUME NEW n
  PROVE  CreditRules(n) \in Seq(Rule(n)) /\ Len(CreditRules(n)) = 7
<1>1. Says("credito_estruturado_trap", "fundo", "RF", "Brasil", 90) \in Sound(n)
  BY DEF RuleNames, Kinds, Macros, Exposures, Says, Sound, Classifications
<1>2. Says("coe", "coe", "Estruturados", "none", 95) \in Sound(n)
  BY DEF RuleNames, Kinds, Macros, Exposures, Says, Sound, Classifications
<1>3. Debenture(n) \in Sound(n)
  BY DebentureSound
<1>4. Exempt(Says("cra_cri", IF HasToken(n, {"CRA"}) THEN "cra" ELSE "cri",
                  "RF", "Brasil", 90)) \in Sound(n)
  <2>1. \A k \in {"cra", "cri"} : Says("cra_cri", k, "RF", "Brasil", 90) \in Sound(n)
    BY DEF RuleNames, Kinds, Macros, Exposures, Says, Sound, Classifications
  <2> QED BY <2>1, ExemptSound
<1>5. Says("bank_paper", "cdb", "RF", "Brasil", 88) \in Sound(n)
  BY DEF RuleNames, Kinds, Macros, Exposures, Says, Sound, Classifications
<1>6. Exempt(Says("lci_lca", "lci_lca", "RF", "Brasil", 90)) \in Sound(n)
  <2>1. Says("lci_lca", "lci_lca", "RF", "Brasil", 90) \in Sound(n)
    BY DEF RuleNames, Kinds, Macros, Exposures, Says, Sound, Classifications
  <2> QED BY <2>1, ExemptSound
<1>7. Says("tesouro", "tesouro", "RF", "Brasil", 95) \in Sound(n)
  BY DEF RuleNames, Kinds, Macros, Exposures, Says, Sound, Classifications
<1> DEFINE r1 == [fires |-> Contains(n, {"CREDITO ESTRUTURADO"}),
                  says  |-> Says("credito_estruturado_trap", "fundo", "RF", "Brasil", 90)]
           r2 == [fires |-> HasToken(n, {"COE"}),
                  says  |-> Says("coe", "coe", "Estruturados", "none", 95)]
           r3 == [fires |-> HasToken(n, {"DEB"}), says |-> Debenture(n)]
           r4 == [fires |-> HasToken(n, {"CRA", "CRI"}),
                  says  |-> Exempt(Says("cra_cri", IF HasToken(n, {"CRA"}) THEN "cra" ELSE "cri",
                                        "RF", "Brasil", 90))]
           r5 == [fires |-> HasToken(n, {"CDB"}), says |-> Says("bank_paper", "cdb", "RF", "Brasil", 88)]
           r6 == [fires |-> HasToken(n, {"LCI"}),
                  says  |-> Exempt(Says("lci_lca", "lci_lca", "RF", "Brasil", 90))]
           r7 == [fires |-> HasToken(n, {"TESOURO"}), says |-> Says("tesouro", "tesouro", "RF", "Brasil", 95)]
<1>8. r1 \in Rule(n) /\ r2 \in Rule(n) /\ r3 \in Rule(n)
  BY <1>1, <1>2, <1>3, FiresAreBoolean, RuleFormed
<1>9. r4 \in Rule(n) /\ r5 \in Rule(n) /\ r6 \in Rule(n) /\ r7 \in Rule(n)
  BY <1>4, <1>5, <1>6, <1>7, FiresAreBoolean, RuleFormed
<1>10. CreditRules(n) = <<r1, r2, r3, r4, r5, r6, r7>>
  BY DEF CreditRules
<1> HIDE DEF r1, r2, r3, r4, r5, r6, r7
<1> QED BY <1>8, <1>9, <1>10

\* The guess by a ticker's digits is sound: weak when it says FII.
LEMMA ByTickerSound ==
  ASSUME NEW n
  PROVE  ByTicker(n) \in Sound(n)
<1>1. Suffix(n.ticker) = "11" => Says("ticker_suffix_11", "fii", "RV", "Brasil", 72) \in Sound(n)
  BY DEF RuleNames, Kinds, Macros, Exposures, Says, Sound, Classifications
<1>2. /\ Says("bdr", "bdr", "RV", "Internacional", 80) \in Sound(n)
      /\ Says("acao", "acao", "RV", "Brasil", 85) \in Sound(n)
      /\ Says("ticker_suffix_unknown", "outro", "Indefinido", "none", 20) \in Sound(n)
  BY DEF RuleNames, Kinds, Macros, Exposures, Says, Sound, Classifications
<1> QED BY <1>1, <1>2 DEF ByTicker

\* So are the two classifications that look for key words of their own.
LEMMA ByNameSound ==
  ASSUME NEW n
  PROVE  Internacional(n) \in Sound(n) /\ EtfByName(n) \in Sound(n)
<1>1. \A m \in {"RV", "RF", "Multimercado"} :
        Says("internacional", "fundo", m, "Internacional", 90) \in Sound(n)
  BY DEF RuleNames, Kinds, Macros, Exposures, Says, Sound, Classifications
<1>2. Internacional(n) \in Sound(n)
  BY <1>1 DEF Internacional
<1>3. Says("etf_name", "etf", "RF", "Brasil", 78) \in Sound(n)
  BY DEF RuleNames, Kinds, Macros, Exposures, Says, Sound, Classifications
<1>4. \A e \in {"Brasil", "Internacional"} : Says("etf_name", "etf", "RV", e, 72) \in Sound(n)
  BY DEF RuleNames, Kinds, Macros, Exposures, Says, Sound, Classifications
<1>5. EtfByName(n) \in Sound(n)
  BY <1>3, <1>4 DEF EtfByName
<1> QED BY <1>2, <1>5

\* Every rule of the fund part is one.
LEMMA FundRulesSound ==
  ASSUME NEW n
  PROVE  FundRules(n) \in Seq(Rule(n)) /\ Len(FundRules(n)) = 7
<1>1. /\ Says("fii_name", "fii", "RV", "Brasil", 92) \in Sound(n)
      /\ Says("fidc", "fundo", "RF", "Brasil", 85) \in Sound(n)
      /\ Says("fip", "fundo", "Alternativos", "none", 88) \in Sound(n)
      /\ Says("multimercado", "fundo", "Multimercado", "none", 85) \in Sound(n)
      /\ Says("fia", "fundo", "RV", "Brasil", 85) \in Sound(n)
  BY DEF RuleNames, Kinds, Macros, Exposures, Says, Sound, Classifications
<1> DEFINE f1 == HasToken(n, {"FII"}) \/ Contains(n, {"FUNDO IMOBILIARIO"})
           f2 == HasToken(n, {"ETF"}) \/ Contains(n, {"FUNDO DE INDICE"})
           f3 == HasToken(n, {"FIDC"}) \/ Contains(n, {"DIREITOS CREDITORIOS"})
           f4 == HasToken(n, {"FIP"}) \/ (FundContext(n) /\ Contains(n, {"PARTICIPACOES"}))
           f5 == HasToken(n, {"FIM"}) \/ (FundContext(n) /\ Contains(n, {"MACRO"}))
           f6 == HasToken(n, {"FIA"}) \/ (FundContext(n) /\ Contains(n, {"ACOES"}))
           f7 == n.ticker # NoTicker
<1>2. f1 \in BOOLEAN /\ f2 \in BOOLEAN /\ f3 \in BOOLEAN /\ f4 \in BOOLEAN
      /\ f5 \in BOOLEAN /\ f6 \in BOOLEAN /\ f7 \in BOOLEAN
  BY FiresAreBoolean DEF FundContext
<1> DEFINE r1 == [fires |-> f1, says |-> Says("fii_name", "fii", "RV", "Brasil", 92)]
           r2 == [fires |-> f2, says |-> EtfByName(n)]
           r3 == [fires |-> f3, says |-> Says("fidc", "fundo", "RF", "Brasil", 85)]
           r4 == [fires |-> f4, says |-> Says("fip", "fundo", "Alternativos", "none", 88)]
           r5 == [fires |-> f5, says |-> Says("multimercado", "fundo", "Multimercado", "none", 85)]
           r6 == [fires |-> f6, says |-> Says("fia", "fundo", "RV", "Brasil", 85)]
           r7 == [fires |-> f7, says |-> ByTicker(n)]
<1>3. FundRules(n) = <<r1, r2, r3, r4, r5, r6, r7>>
  BY DEF FundRules
<1>4. /\ r1 \in Rule(n) /\ r2 \in Rule(n) /\ r3 \in Rule(n) /\ r4 \in Rule(n)
      /\ r5 \in Rule(n) /\ r6 \in Rule(n) /\ r7 \in Rule(n)
  <2> HIDE DEF f1, f2, f3, f4, f5, f6, f7
  <2> QED BY <1>1, <1>2, ByNameSound, ByTickerSound, RuleFormed
<1> HIDE DEF r1, r2, r3, r4, r5, r6, r7
<1> QED BY <1>3, <1>4

\* What joining two sequences of rules keeps.
LEMMA Joined ==
  ASSUME NEW n, NEW s \in Seq(Rule(n)), NEW t \in Seq(Rule(n))
  PROVE  /\ s \o t \in Seq(Rule(n))
         /\ Len(s \o t) = Len(s) + Len(t)
         /\ \A i \in 1..Len(s) : (s \o t)[i] = s[i]
         /\ Len(t) = 1 => (s \o t)[Len(s) + 1] = t[1]
<1>1. Len(s) \in Nat /\ Len(t) \in Nat
  OBVIOUS
<1>2. \A i \in 1..(Len(s) + Len(t)) : (s \o t)[i] = IF i <= Len(s) THEN s[i] ELSE t[i - Len(s)]
  BY ConcatProperties
<1> QED BY <1>1, <1>2, ConcatProperties

\* Two parts and a rule after each: what comes out begins with the first part and
\* ends with the last rule.
LEMMA Assembled ==
  ASSUME NEW n, NEW c \in Seq(Rule(n)), NEW x \in Rule(n),
         NEW d \in Seq(Rule(n)), NEW y \in Rule(n)
  PROVE  LET r == ((c \o <<x>>) \o d) \o <<y>> IN
         /\ r \in Seq(Rule(n))
         /\ Len(r) = Len(c) + Len(d) + 2
         /\ r[Len(r)] = y
         /\ \A i \in 1..Len(c) : r[i] = c[i]
<1> DEFINE a == <<x>>
           z == <<y>>
<1>1. a \in Seq(Rule(n)) /\ Len(a) = 1 /\ z \in Seq(Rule(n)) /\ Len(z) = 1 /\ z[1] = y
  OBVIOUS
<1> HIDE DEF a, z
<1> DEFINE p == c \o a
<1>2. p \in Seq(Rule(n)) /\ Len(p) = Len(c) + Len(a)
  BY <1>1, Joined
<1>3. \A i \in 1..Len(c) : p[i] = c[i]
  BY <1>1, Joined
<1> HIDE DEF p
<1> DEFINE q == p \o d
<1>4. q \in Seq(Rule(n)) /\ Len(q) = Len(p) + Len(d)
  BY <1>2, Joined
<1>5. \A i \in 1..Len(p) : q[i] = p[i]
  BY <1>2, Joined
<1> HIDE DEF q
<1> DEFINE r == q \o z
<1>6. r \in Seq(Rule(n)) /\ Len(r) = Len(q) + Len(z)
  BY <1>1, <1>4, Joined
<1>7. \A i \in 1..Len(q) : r[i] = q[i]
  BY <1>1, <1>4, Joined
<1>8. r[Len(q) + 1] = z[1]
  BY <1>1, <1>4, Joined
<1> HIDE DEF r
<1>9. /\ r \in Seq(Rule(n)) /\ Len(r) = Len(c) + Len(d) + 2
      /\ r[Len(r)] = y /\ \A i \in 1..Len(c) : r[i] = c[i]
  <2>1. Len(c) \in Nat /\ Len(d) \in Nat
    OBVIOUS
  <2> QED BY <2>1, <1>1, <1>2, <1>3, <1>4, <1>5, <1>6, <1>7, <1>8
<1> QED BY <1>9 DEF r, q, p, a, z

\* The whole cascade: sixteen rules, the last of which always fires.
LEMMA RulesSound ==
  ASSUME NEW n
  PROVE  /\ Rules(n) \in Seq(Rule(n)) /\ Len(Rules(n)) = 16
         /\ Rules(n)[16].fires
         /\ \A i \in 1..7 : Rules(n)[i] = CreditRules(n)[i]
<1> DEFINE g == FundContext(n) /\ (HasToken(n, {"IE"}) \/ Contains(n, {"GLOBAL"}))
           r8 == [fires |-> g, says |-> Internacional(n)]
           r16 == [fires |-> TRUE, says |-> Says("fallback", "outro", "Indefinido", "none", 20)]
<1>1. r8 \in Rule(n)
  <2>1. g \in BOOLEAN
    BY FiresAreBoolean DEF FundContext
  <2> HIDE DEF g
  <2> QED BY <2>1, ByNameSound, RuleFormed
<1>2. r16 \in Rule(n) /\ r16.fires
  <2>1. Says("fallback", "outro", "Indefinido", "none", 20) \in Sound(n)
    BY DEF RuleNames, Kinds, Macros, Exposures, Says, Sound, Classifications
  <2> QED BY <2>1, RuleFormed
<1> DEFINE c == CreditRules(n)
           d == FundRules(n)
<1>3. Rules(n) = ((c \o <<r8>>) \o d) \o <<r16>>
  BY DEF Rules
<1>4. c \in Seq(Rule(n)) /\ d \in Seq(Rule(n))
  BY CreditRulesSound, FundRulesSound
<1>6. Len(c) = 7 /\ Len(d) = 7
  BY CreditRulesSound, FundRulesSound
<1> HIDE DEF r8, r16, c, d
<1>5. LET r == ((c \o <<r8>>) \o d) \o <<r16>> IN
      /\ r \in Seq(Rule(n)) /\ Len(r) = 16 /\ r[16] = r16
      /\ \A i \in 1..7 : r[i] = c[i]
  <2> DEFINE r == ((c \o <<r8>>) \o d) \o <<r16>>
  <2>1. r \in Seq(Rule(n)) /\ Len(r) = Len(c) + Len(d) + 2
    BY <1>1, <1>2, <1>4, Assembled
  <2>2. r[Len(r)] = r16 /\ \A i \in 1..Len(c) : r[i] = c[i]
    BY <1>1, <1>2, <1>4, Assembled
  <2> HIDE DEF r
  <2>3. r \in Seq(Rule(n)) /\ Len(r) = 16 /\ r[16] = r16 /\ \A i \in 1..7 : r[i] = c[i]
    BY <2>1, <2>2, <1>6
  <2> QED BY <2>3 DEF r
<1> QED BY <1>2, <1>3, <1>5 DEF c

\* A set of naturals has a least element.
LEMMA Least ==
  ASSUME NEW T \in SUBSET Nat, T # {}
  PROVE  \E x \in T : \A y \in T : x <= y
<1> DEFINE R == OpToRel(<, Nat)
<1>1. IsWellFoundedOn(R, Nat)
  BY NatLessThanWellFounded
<1>2. \A x, y \in Nat : x < y => <<x, y>> \in R
  BY DEF OpToRel
<1> HIDE DEF R
<1>3. PICK x \in T : \A y \in T : ~ (<<y, x>> \in R)
  BY <1>1, WFMin
<1>4. \A y \in T : ~ (y < x)
  BY <1>2, <1>3
<1>5. \A y \in T : x <= y
  BY <1>4
<1> QED BY <1>5

\* The rule that decides is one of the sixteen and fires, and none before it does.
LEMMA FirstRule ==
  ASSUME NEW n
  PROVE  \E i \in 1..16 : /\ RulePayload(n) = Rules(n)[i].says
                          /\ Rules(n)[i].fires
                          /\ \A j \in 1..(i - 1) : ~Rules(n)[j].fires
<1> DEFINE rules == Rules(n)
           T == {i \in 1..16 : rules[i].fires}
           P(i) == rules[i].fires /\ \A j \in 1..(i - 1) : ~rules[j].fires
<1>1. DOMAIN rules = 1..16
  BY RulesSound
<1>2. T \in SUBSET Nat /\ 16 \in T
  BY RulesSound
<1>3. PICK x \in T : \A y \in T : x <= y
  BY <1>2, Least
<1>4. x \in 1..16 /\ P(x)
  <2>1. x \in 1..16 /\ rules[x].fires
    BY <1>3
  <2>2. ASSUME NEW j \in 1..(x - 1) PROVE ~rules[j].fires
    <3>1. j \in 1..16 /\ ~ (x <= j)
      BY <2>1
    <3>2. j \notin T
      BY <1>3, <3>1
    <3> QED BY <3>1, <3>2
  <2> QED BY <2>1, <2>2
<1> DEFINE first == CHOOSE i \in DOMAIN rules : P(i)
<1>5. first \in 1..16 /\ P(first)
  <2>1. \E i \in DOMAIN rules : P(i)
    BY <1>1, <1>4
  <2> HIDE DEF P
  <2>2. first \in DOMAIN rules /\ P(first)
    BY <2>1
  <2> QED BY <1>1, <2>2
<1>6. RulePayload(n) = rules[first].says
  BY DEF RulePayload
<1> HIDE DEF first
<1> QED BY <1>5, <1>6

\* What the curated seed says is sound, and about a ticker or a name it knows.
LEMMA SeedSound ==
  ASSUME NEW n
  PROVE  Seed(n) \subseteq Sound(n)
<1>1. \A e \in {"Brasil", "Internacional"} : Says("curated_seed", "etf", "RV", e, 97) \in Sound(n)
  BY DEF RuleNames, Kinds, Macros, Exposures, Says, Sound, Classifications
<1>2. n.ticker \in DOMAIN SeededEquity => SeededEquity[n.ticker] \in {"Brasil", "Internacional"}
  BY DEF SeededEquity
<1> DEFINE fixed == Says("curated_seed", "etf", "RF", "Brasil", 97)
<1>3. fixed \in Sound(n)
  BY DEF RuleNames, Kinds, Macros, Exposures, Says, Sound, Classifications
<1>4. [Exempt(fixed) EXCEPT !.law = "confirmed"] \in Sound(n)
  <2>1. Exempt(fixed) \in Sound(n)
    BY <1>3, ExemptSound
  <2> HIDE DEF fixed
  <2> QED BY <2>1 DEF Sound, Classifications
<1>5. Says("curated_seed", "fundo", "RV", "Internacional", 93) \in Sound(n)
  BY DEF RuleNames, Kinds, Macros, Exposures, Says, Sound, Classifications
<1> QED BY <1>1, <1>2, <1>3, <1>4, <1>5 DEF Seed

\* What the core answers is sound.
LEMMA ClassifySound ==
  ASSUME NEW n
  PROVE  Classify(n) \in Sound(n)
<1>1. RulePayload(n) \in Sound(n)
  <2>1. PICK i \in 1..16 : RulePayload(n) = Rules(n)[i].says
    BY FirstRule
  <2>2. Rules(n)[i] \in Rule(n)
    BY RulesSound
  <2> QED BY <2>1, <2>2 DEF Rule
<1>2. Seed(n) # {} => (CHOOSE s \in Seed(n) : TRUE) \in Sound(n)
  BY SeedSound
<1> QED BY <1>1, <1>2 DEF Classify

\* The two traps are the first two rules: without a curated hit they decide, with a
\* confidence that no provider is asked to confirm.
Trapped(n) == Seed(n) = {} /\ (Contains(n, {"CREDITO ESTRUTURADO"}) \/ HasToken(n, {"COE"}))

LEMMA TrapsDecide ==
  ASSUME NEW n, Trapped(n)
  PROVE  /\ Strong(Classify(n))
         /\ IF Contains(n, {"CREDITO ESTRUTURADO"}) THEN Classify(n).macro = "RF"
            ELSE Classify(n).macro = "Estruturados" /\ Classify(n).kind = "coe"
<1> DEFINE rules == Rules(n)
           credit == Says("credito_estruturado_trap", "fundo", "RF", "Brasil", 90)
           coe == Says("coe", "coe", "Estruturados", "none", 95)
<1> DEFINE f1 == Contains(n, {"CREDITO ESTRUTURADO"})
           f2 == HasToken(n, {"COE"})
<1>1. /\ rules[1].fires = f1 /\ rules[1].says = credit
      /\ rules[2].fires = f2 /\ rules[2].says = coe
  <2>1. rules[1] = CreditRules(n)[1] /\ rules[2] = CreditRules(n)[2]
    BY RulesSound
  <2>2. CreditRules(n)[1] = [fires |-> f1, says |-> credit]
    BY DEF CreditRules
  <2>3. CreditRules(n)[2] = [fires |-> f2, says |-> coe]
    BY DEF CreditRules
  <2> HIDE DEF rules, credit, coe, f1, f2
  <2> QED BY <2>1, <2>2, <2>3
<1>2. PICK i \in 1..16 : /\ RulePayload(n) = rules[i].says /\ rules[i].fires
                         /\ \A j \in 1..(i - 1) : ~rules[j].fires
  BY FirstRule
<1>3. Classify(n) = rules[i].says
  BY <1>2 DEF Classify, Trapped
<1>6. Strong(credit) /\ credit.macro = "RF"
  BY DEF Strong, Says
<1>7. Strong(coe) /\ coe.macro = "Estruturados" /\ coe.kind = "coe"
  BY DEF Strong, Says
<1> HIDE DEF rules, credit, coe
<1>4. CASE Contains(n, {"CREDITO ESTRUTURADO"})
  <2>1. rules[1].fires
    BY <1>1, <1>4
  <2>2. i = 1
    BY <1>2, <2>1
  <2>3. Classify(n) = credit
    BY <1>1, <1>3, <2>2
  <2> QED BY <1>4, <1>6, <2>3
<1>5. CASE ~Contains(n, {"CREDITO ESTRUTURADO"})
  <2>1. ~rules[1].fires /\ rules[2].fires
    BY <1>1, <1>5 DEF Trapped
  <2>2. i = 2
    BY <1>2, <2>1
  <2>3. Classify(n) = coe
    BY <1>1, <1>3, <2>2
  <2> QED BY <1>5, <1>7, <2>3
<1> QED BY <1>4, <1>5

\* The catalogue's own classifications are well-formed and under its own rule.
LEMMA CatalogueForms ==
  ASSUME NEW t, NEW intl \in BOOLEAN
  PROVE  /\ FromListing(t, intl) \in Classifications /\ NotListed \in Classifications
         /\ FromListing(t, intl).source = "b3" /\ NotListed.source = "b3"
         /\ FromListing(t, intl).rule = "b3_listed_funds" /\ NotListed.rule = "b3_listed_funds"
<1>1. KindOfType(t) \in Kinds /\ MacroOfType(t) \in Macros /\ ExposureOfType(t) \in Exposures
  BY DEF KindOfType, MacroOfType, ExposureOfType, Kinds, Macros, Exposures
<1> DEFINE exposure == IF ExposureOfType(t) = "none" /\ intl THEN "Internacional" ELSE ExposureOfType(t)
           hint == [Says("b3_listed_funds", KindOfType(t), MacroOfType(t), exposure, 91) EXCEPT !.source = "b3"]
<1>2. exposure \in Exposures
  BY <1>1 DEF Exposures
<1> HIDE DEF exposure
<1>3. hint \in Classifications /\ hint.source = "b3" /\ hint.rule = "b3_listed_funds"
  BY <1>1, <1>2 DEF Says, Classifications, RuleNames
<1> HIDE DEF hint
<1>4. \A h \in Classifications :
        h.source = "b3" /\ h.rule = "b3_listed_funds" =>
          LET e == [Exempt(h) EXCEPT !.law = "confirmed"]
          IN e \in Classifications /\ e.source = "b3" /\ e.rule = "b3_listed_funds"
  BY DEF Exempt, Classifications
<1>5. FromListing(t, intl) = IF t = "FI-INFRA" THEN [Exempt(hint) EXCEPT !.law = "confirmed"] ELSE hint
  BY DEF FromListing, hint, exposure
<1>6. NotListed \in Classifications /\ NotListed.source = "b3" /\ NotListed.rule = "b3_listed_funds"
  BY DEF NotListed, Says, Classifications, RuleNames, Kinds, Macros, Exposures
<1> QED BY <1>3, <1>4, <1>5, <1>6
-----------------------------------------------------------------------------
(* The inductive invariant.                                                *)

\* Before the core nothing is asked; after it there is an audit trail.
Begun ==
  /\ phase = "start" => at = 1 /\ walk = 0 /\ cascade = << >> /\ result = NotListed
  /\ phase # "start" => cascade # << >>

\* While only errors follow the core's step, the core's answer stands.
CoreStays ==
  phase # "start" /\ (\A i \in 2..Len(cascade) : cascade[i] = "provider_error")
    => result = Classify(norm) /\ cascade[1] = Step(norm)

\* A strong answer is final: no walk is on, and a chain that ends early ends with one.
StrongIsFinal ==
  /\ walk # 0 => ~Strong(result)
  /\ phase = "done" => at > Len(chain) \/ Strong(result)
  /\ phase # "start" /\ Trapped(norm) => result = Classify(norm)

\* What the library itself says stays sound.
OwnIsSound == phase # "start" /\ result.source = "openfindata" => result \in Sound(norm)

\* The catalogues asked so far, while the guess is the answer, all failed.
CataloguesAsked == {i \in 1..(at - 1) : chain[i] = "b3"}
GuessStays ==
  phase # "start" /\ result.rule = "ticker_suffix_11"
    => result.source = "openfindata" /\ Cardinality(CataloguesAsked) <= Cardinality(ErrorSteps)

\* The pages walked past do not have the ticker, and the catalogue's word is true.
WalkIsTrue ==
  /\ \A i \in 1..(walk - 1) : Types[i] \notin shown
  /\ CatalogueSpeaksTrue

Safe == TypeOK /\ Begun /\ CoreStays /\ StrongIsFinal /\ OwnIsSound /\ GuessStays /\ WalkIsTrue

\* Lengths and domains, once and for all.
LEMMA Shapes ==
  ASSUME TypeOK
  PROVE  /\ chain \in Seq({"b3", "other"}) /\ Len(chain) \in Nat /\ at \in Nat \ {0}
         /\ Types \in Seq(STRING) /\ Len(Types) \in Nat /\ walk \in Nat
         /\ Len(cascade) \in Nat /\ result \in Classifications
BY ChainsAssumption, TypesAssumption DEF TypeOK

\* The initial states.
LEMMA InitSafe == Init => Safe
<1> SUFFICES ASSUME Init PROVE Safe
  OBVIOUS
<1>1. TypeOK
  <2>1. result \in Classifications
    BY CatalogueForms DEF Init
  <2>2. Len(chain) \in Nat /\ Len(Types) \in Nat
    BY ChainsAssumption, TypesAssumption DEF Init
  <2> QED BY <2>1, <2>2 DEF Init, TypeOK, Phases
<1>2. Begun
  BY DEF Init, Begun
<1>3. CoreStays /\ StrongIsFinal /\ OwnIsSound /\ GuessStays
  BY DEF Init, CoreStays, StrongIsFinal, OwnIsSound, GuessStays
<1>4. WalkIsTrue
  BY DEF Init, WalkIsTrue, CatalogueSpeaksTrue
<1> QED BY <1>1, <1>2, <1>3, <1>4 DEF Safe

\* The core's answer is sound, and the audit trail begins with its step.
LEMMA CoreSafe ==
  ASSUME Safe, Core
  PROVE  Safe'
<1>1. /\ result' = Classify(norm) /\ cascade' = <<Step(norm)>> /\ phase = "start" /\ phase' = "chain"
      /\ at' = 1 /\ walk' = 0 /\ asked' = asked /\ chain' = chain /\ listed' = listed /\ shown' = shown
  BY DEF Core, Safe, Begun
<1>2. norm' = norm
  BY <1>1 DEF norm
<1>3. result' \in Sound(norm) /\ result' \in Classifications
        /\ result'.source = "openfindata" /\ result'.rule # "provider"
  BY <1>1, ClassifySound DEF Sound
<1>4. TypeOK'
  <2>1. Len(chain) \in Nat /\ Len(Types) \in Nat
    BY Shapes DEF Safe
  <2>2. cascade' \in Seq(Steps)
    BY <1>1 DEF Step, Steps
  <2> QED BY <1>1, <1>3, <2>1, <2>2 DEF TypeOK, Safe, Phases
<1>5. Begun' /\ CoreStays'
  BY <1>1, <1>2 DEF Begun, CoreStays
<1>6. StrongIsFinal' /\ OwnIsSound'
  BY <1>1, <1>2, <1>3 DEF StrongIsFinal, OwnIsSound
<1>7. GuessStays'
  <2>1. CataloguesAsked' = {}
    BY <1>1 DEF CataloguesAsked
  <2>2. ErrorSteps' = {}
    BY <1>1 DEF ErrorSteps, Step
  <2> QED BY <1>3, <2>1, <2>2, FS_EmptySet DEF GuessStays
<1>8. WalkIsTrue'
  BY <1>1, <1>3 DEF WalkIsTrue, CatalogueSpeaksTrue
<1> QED BY <1>4, <1>5, <1>6, <1>7, <1>8 DEF Safe

\* A provider that passes leaves the answer alone; one that could have challenged the
\* guess does not pass on it.
LEMMA PassedSafe ==
  ASSUME Safe, Passed, phase = "chain", at <= Len(chain), ~Strong(result),
         result.rule = "ticker_suffix_11" => chain[at] # "b3"
  PROVE  Safe'
<1>1. /\ at' = at + 1 /\ walk' = 0 /\ asked' = asked /\ chain' = chain /\ listed' = listed /\ shown' = shown
      /\ result' = result /\ cascade' = cascade /\ phase' = phase
  BY DEF Passed
<1>2. norm' = norm
  BY <1>1 DEF norm
<1>3. TypeOK'
  <2>1. at' \in 1..(Len(chain) + 1) /\ 0 \in 0..(Len(Types) + 1)
    BY <1>1, Shapes DEF Safe
  <2> QED BY <1>1, <2>1 DEF TypeOK, Safe
<1>4. Begun' /\ CoreStays' /\ OwnIsSound'
  BY <1>1, <1>2 DEF Begun, CoreStays, OwnIsSound, Safe
<1>5. StrongIsFinal'
  BY <1>1, <1>2 DEF StrongIsFinal, Safe, Strong
<1>6. GuessStays'
  <2> SUFFICES ASSUME result.rule = "ticker_suffix_11" PROVE GuessStays'
    BY <1>1 DEF GuessStays
  <2>1. CataloguesAsked' = CataloguesAsked
    <3>1. \A i \in 1..at : i = at \/ i \in 1..(at - 1)
      BY Shapes DEF Safe
    <3>2. 1..(at - 1) \subseteq 1..at /\ at' - 1 = at
      BY <1>1, Shapes DEF Safe
    <3>3. CataloguesAsked' = {i \in 1..at : chain[i] = "b3"}
      BY <1>1, <3>2 DEF CataloguesAsked
    <3>4. chain[at] # "b3"
      OBVIOUS
    <3> QED BY <3>1, <3>2, <3>3, <3>4 DEF CataloguesAsked
  <2>2. ErrorSteps' = ErrorSteps
    BY <1>1 DEF ErrorSteps
  <2> QED BY <1>1, <2>1, <2>2 DEF GuessStays, Safe
<1>7. WalkIsTrue'
  BY <1>1 DEF WalkIsTrue, CatalogueSpeaksTrue, Safe
<1> QED BY <1>3, <1>4, <1>5, <1>6, <1>7 DEF Safe

\* A provider that raises leaves the answer alone, and an error behind.
LEMMA RaisedSafe ==
  ASSUME Safe, Raised, phase = "chain", at <= Len(chain), ~Strong(result)
  PROVE  Safe'
<1>1. /\ at' = at + 1 /\ walk' = 0 /\ asked' = asked /\ chain' = chain /\ listed' = listed /\ shown' = shown
      /\ result' = result /\ phase' = phase
  BY DEF Raised
<1>2. norm' = norm
  BY <1>1 DEF norm
<1>3. cascade \in Seq(Steps) /\ "provider_error" \in Steps /\ cascade' = Append(cascade, "provider_error")
  BY DEF Raised, Safe, TypeOK, Steps
<1>4. /\ cascade' \in Seq(Steps) /\ Len(cascade') = Len(cascade) + 1
      /\ \A i \in 1..Len(cascade) : cascade'[i] = cascade[i]
      /\ cascade'[Len(cascade) + 1] = "provider_error"
  BY <1>3, AppendProperties
<1>5. Len(cascade) \in Nat /\ (cascade # << >> => Len(cascade) >= 1)
  BY <1>3
<1>6. TypeOK'
  <2>1. at' \in 1..(Len(chain) + 1) /\ 0 \in 0..(Len(Types) + 1)
    BY <1>1, Shapes DEF Safe
  <2> QED BY <1>1, <1>4, <2>1 DEF TypeOK, Safe
<1>7. Begun' /\ OwnIsSound'
  <2>1. cascade' # << >>
    BY <1>4, <1>5
  <2> QED BY <1>1, <1>2, <2>1 DEF Begun, OwnIsSound, Safe
<1>8. CoreStays'
  <2> SUFFICES ASSUME \A i \in 2..Len(cascade') : cascade'[i] = "provider_error"
               PROVE  result = Classify(norm) /\ cascade'[1] = Step(norm)
    BY <1>1, <1>2 DEF CoreStays
  <2>1. \A i \in 2..Len(cascade) : cascade[i] = "provider_error"
    BY <1>4, <1>5
  <2>2. result = Classify(norm) /\ cascade[1] = Step(norm)
    BY <2>1 DEF CoreStays, Safe
  <2>3. cascade'[1] = cascade[1]
    BY <1>4, <1>5 DEF Begun, Safe
  <2> QED BY <2>2, <2>3
<1>9. StrongIsFinal'
  BY <1>1, <1>2 DEF StrongIsFinal, Safe, Strong
<1>10. GuessStays'
  <2>1. CataloguesAsked' \subseteq CataloguesAsked \cup {at}
    <3>1. \A i \in 1..at : i = at \/ i \in 1..(at - 1)
      BY Shapes DEF Safe
    <3> QED BY <1>1, <3>1, Shapes DEF CataloguesAsked, Safe
  <2>2. IsFiniteSet(CataloguesAsked)
    <3>1. CataloguesAsked \in SUBSET (1..(at - 1))
      BY DEF CataloguesAsked
    <3>2. IsFiniteSet(1..(at - 1))
      BY Shapes, FS_Interval DEF Safe
    <3> QED BY <3>1, <3>2, FS_Subset
  <2>3. Cardinality(CataloguesAsked') <= Cardinality(CataloguesAsked) + 1
    <3>1. /\ IsFiniteSet(CataloguesAsked \cup {at})
          /\ Cardinality(CataloguesAsked \cup {at}) <= Cardinality(CataloguesAsked) + 1
      BY <2>2, FS_AddElement, FS_CardinalityType
    <3>2. IsFiniteSet(CataloguesAsked') /\ Cardinality(CataloguesAsked') <= Cardinality(CataloguesAsked \cup {at})
      BY <2>1, <3>1, FS_Subset
    <3> QED BY <2>2, <3>1, <3>2, FS_CardinalityType
  <2>4. ErrorSteps' = ErrorSteps \cup {Len(cascade) + 1}
    <3>1. DOMAIN cascade = 1..Len(cascade) /\ DOMAIN cascade' = 1..(Len(cascade) + 1)
      BY <1>3, <1>4
    <3>2. \A i \in 1..(Len(cascade) + 1) : i = Len(cascade) + 1 \/ i \in 1..Len(cascade)
      BY <1>5
    <3>3. Len(cascade) + 1 \in 1..(Len(cascade) + 1) /\ 1..Len(cascade) \subseteq 1..(Len(cascade) + 1)
      BY <1>5
    <3>4. ErrorSteps' = {i \in 1..(Len(cascade) + 1) : cascade'[i] = "provider_error"}
      BY <3>1 DEF ErrorSteps
    <3>5. ErrorSteps = {i \in 1..Len(cascade) : cascade[i] = "provider_error"}
      BY <3>1 DEF ErrorSteps
    <3>6. \A i \in 1..Len(cascade) : cascade'[i] = cascade[i]
      BY <1>4
    <3>7. cascade'[Len(cascade) + 1] = "provider_error"
      BY <1>4
    <3>8. ErrorSteps' \subseteq ErrorSteps \cup {Len(cascade) + 1}
      BY <3>2, <3>4, <3>5, <3>6
    <3>9. ErrorSteps \subseteq ErrorSteps'
      BY <3>3, <3>4, <3>5, <3>6
    <3>10. Len(cascade) + 1 \in ErrorSteps'
      BY <3>3, <3>4, <3>7
    <3> QED BY <3>8, <3>9, <3>10, Zenon
  <2>5. IsFiniteSet(ErrorSteps) /\ Len(cascade) + 1 \notin ErrorSteps
    <3>1. ErrorSteps \in SUBSET (1..Len(cascade))
      BY <1>3 DEF ErrorSteps
    <3>2. IsFiniteSet(1..Len(cascade))
      BY <1>5, FS_Interval
    <3>3. IsFiniteSet(ErrorSteps)
      BY <3>1, <3>2, FS_Subset
    <3>4. Len(cascade) + 1 \notin 1..Len(cascade)
      BY <1>5
    <3> QED BY <3>1, <3>3, <3>4
  <2>6. Cardinality(ErrorSteps') = Cardinality(ErrorSteps) + 1 /\ Cardinality(ErrorSteps) \in Nat
    BY <2>4, <2>5, FS_AddElement, FS_CardinalityType
  <2>7. /\ Cardinality(CataloguesAsked) \in Nat /\ Cardinality(CataloguesAsked') \in Nat
    <3>1. IsFiniteSet(CataloguesAsked \cup {at})
      BY <2>2, FS_AddElement
    <3> QED BY <2>1, <2>2, <3>1, FS_Subset, FS_CardinalityType
  <2> QED BY <1>1, <2>3, <2>6, <2>7 DEF GuessStays, Safe
<1>11. WalkIsTrue'
  BY <1>1 DEF WalkIsTrue, CatalogueSpeaksTrue, Safe
<1> QED BY <1>6, <1>7, <1>8, <1>9, <1>10, <1>11 DEF Safe

\* A provider that answers puts its own step behind the trail.  It is not the library,
\* and what the catalogue answers is true.
LEMMA ReplacedSafe ==
  ASSUME Safe, NEW r \in Classifications, NEW step \in Steps \ {"provider_error"}, Replaced(r, step),
         phase = "chain", at <= Len(chain), ~Strong(result),
         r.source # "openfindata", r.rule # "ticker_suffix_11",
         r.source = "b3" =>
           IF shown = {} THEN r = NotListed
           ELSE \E i \in DOMAIN Types, intl \in BOOLEAN :
                  /\ Types[i] \in listed
                  /\ \A j \in 1..(i - 1) : Types[j] \notin shown
                  /\ r = FromListing(Types[i], intl)
  PROVE  Safe'
<1>1. /\ at' = at + 1 /\ walk' = 0 /\ asked' = asked /\ chain' = chain /\ listed' = listed /\ shown' = shown
      /\ result' = r /\ phase' = phase
  BY DEF Replaced
<1>2. norm' = norm
  BY <1>1 DEF norm
<1>3. cascade \in Seq(Steps) /\ step \in Steps /\ cascade' = Append(cascade, step)
  BY DEF Replaced, Safe, TypeOK
<1>4. /\ cascade' \in Seq(Steps) /\ Len(cascade') = Len(cascade) + 1
      /\ cascade'[Len(cascade) + 1] = step
  BY <1>3, AppendProperties
<1>5. Len(cascade) \in Nat /\ Len(cascade) >= 1
  <2>1. cascade # << >>
    BY DEF Begun, Safe
  <2> QED BY <1>3, <2>1
<1>6. TypeOK'
  <2>1. at' \in 1..(Len(chain) + 1) /\ 0 \in 0..(Len(Types) + 1)
    BY <1>1, Shapes DEF Safe
  <2> QED BY <1>1, <1>4, <2>1 DEF TypeOK, Safe
<1>7. Begun' /\ OwnIsSound' /\ GuessStays'
  <2>1. cascade' # << >>
    BY <1>4, <1>5
  <2> QED BY <1>1, <2>1 DEF Begun, OwnIsSound, GuessStays
<1>8. CoreStays'
  <2>1. Len(cascade) + 1 \in 2..Len(cascade') /\ cascade'[Len(cascade) + 1] # "provider_error"
    BY <1>4, <1>5
  <2> QED BY <2>1 DEF CoreStays
<1>9. StrongIsFinal'
  <2>1. ~Trapped(norm)
    BY TrapsDecide DEF StrongIsFinal, Safe
  <2> QED BY <1>1, <1>2, <2>1 DEF StrongIsFinal
<1>10. WalkIsTrue'
  <2>1. CatalogueSpeaksTrue'
    BY <1>1 DEF CatalogueSpeaksTrue
  <2> QED BY <1>1, <2>1 DEF WalkIsTrue
<1> QED BY <1>6, <1>7, <1>8, <1>9, <1>10 DEF Safe

\* A page is read only in the catalogue's turn, and the answer is still weak then.
LEMMA WalkIsATurn ==
  ASSUME Safe, walk # 0
  PROVE  phase = "chain" /\ at <= Len(chain) /\ chain[at] = "b3" /\ ~Strong(result)
BY DEF Safe, TypeOK, StrongIsFinal

\* The steps that only move the walk, or end the call.
LEMMA WalkSafe ==
  ASSUME Safe, CatalogueStarts \/ PageMiss \/ Finish
  PROVE  Safe'
<1>1. /\ asked' = asked /\ chain' = chain /\ listed' = listed /\ shown' = shown /\ result' = result
      /\ cascade' = cascade /\ at' = at /\ phase # "start" /\ phase' # "start"
  <2>1. PageMiss => walk # 0
    BY Shapes DEF PageMiss, Safe
  <2> QED BY <2>1, WalkIsATurn DEF CatalogueStarts, PageMiss, Finish, Turn
<1>2. norm' = norm
  BY <1>1 DEF norm
<1>3. /\ walk' \in 0..(Len(Types) + 1)
      /\ walk' # 0 => phase' = "chain" /\ at <= Len(chain) /\ chain[at] = "b3" /\ ~Strong(result)
      /\ \A i \in 1..(walk' - 1) : Types[i] \notin shown
  <2>1. CASE CatalogueStarts
    BY <2>1, Shapes DEF CatalogueStarts, Turn, Safe
  <2>2. CASE PageMiss
    <3>1. walk \in 1..Len(Types) /\ walk' = walk + 1 /\ Types[walk] \notin shown /\ phase' = phase
      BY <2>2, Shapes DEF PageMiss, Safe
    <3>2. \A i \in 1..walk : i = walk \/ i \in 1..(walk - 1)
      BY <3>1
    <3>3. walk' - 1 = walk /\ walk # 0
      BY <3>1
    <3>4. \A i \in 1..(walk - 1) : Types[i] \notin shown
      BY DEF Safe, WalkIsTrue
    <3>5. \A i \in 1..walk : Types[i] \notin shown
      BY <3>1, <3>2, <3>4
    <3>6. phase = "chain" /\ at <= Len(chain) /\ chain[at] = "b3" /\ ~Strong(result)
      BY <3>3, WalkIsATurn
    <3>7. walk' \in 0..(Len(Types) + 1)
      BY <3>1, Shapes DEF Safe
    <3> QED BY <3>1, <3>3, <3>5, <3>6, <3>7
  <2>3. CASE Finish
    <3>1. walk' = walk /\ phase = "chain" /\ (at > Len(chain) \/ Strong(result))
      BY <2>3 DEF Finish
    <3>2. walk = 0
      BY <3>1, WalkIsATurn, Shapes DEF Safe
    <3> QED BY <3>1, <3>2, Shapes DEF Safe
  <2> QED BY <2>1, <2>2, <2>3
<1>4. phase' \in Phases /\ (phase' = "done" => at > Len(chain) \/ Strong(result))
  BY DEF CatalogueStarts, PageMiss, Finish, Turn, Safe, TypeOK, StrongIsFinal, Phases
<1>5. TypeOK'
  BY <1>1, <1>3, <1>4 DEF TypeOK, Safe
<1>6. Begun' /\ CoreStays' /\ OwnIsSound'
  BY <1>1, <1>2 DEF Begun, CoreStays, OwnIsSound, Safe
<1>7. StrongIsFinal'
  BY <1>1, <1>2, <1>3, <1>4 DEF StrongIsFinal, Safe, Strong
<1>8. GuessStays'
  <2>1. CataloguesAsked' = CataloguesAsked /\ ErrorSteps' = ErrorSteps
    BY <1>1 DEF CataloguesAsked, ErrorSteps
  <2> QED BY <1>1, <2>1 DEF GuessStays, Safe
<1>9. WalkIsTrue'
  BY <1>1, <1>3 DEF WalkIsTrue, CatalogueSpeaksTrue, Safe
<1> QED BY <1>5, <1>6, <1>7, <1>8, <1>9 DEF Safe

\* Another provider answers, passes or raises.
LEMMA OtherSafe ==
  ASSUME Safe, (\E r \in Others : OtherAnswers(r)) \/ OtherPasses \/ OtherRaises
  PROVE  Safe'
<1>1. phase = "chain" /\ at <= Len(chain) /\ ~Strong(result) /\ chain[at] = "other"
  BY DEF OtherAnswers, OtherPasses, OtherRaises, Turn
<1>2. ASSUME NEW r \in Others, OtherAnswers(r) PROVE Safe'
  <2>1. r \in Classifications /\ r.source = "other" /\ r.rule = "provider"
    BY OthersAssumption
  <2>2. Replaced(r, "other") /\ "other" \in Steps \ {"provider_error"}
    BY <1>2 DEF OtherAnswers, Steps
  <2> QED BY <1>1, <2>1, <2>2, ReplacedSafe
<1>3. OtherPasses => Safe'
  BY <1>1, PassedSafe DEF OtherPasses
<1>4. OtherRaises => Safe'
  BY <1>1, RaisedSafe DEF OtherRaises
<1> QED BY <1>2, <1>3, <1>4

\* The page at hand has the ticker, so its type lists it: no page before it does.
LEMMA HitSafe ==
  ASSUME Safe, NEW intl \in BOOLEAN, PageHit(intl)
  PROVE  Safe'
<1>1. walk \in DOMAIN Types /\ walk # 0 /\ Types[walk] \in shown /\ Types[walk] \in listed
  BY Shapes DEF PageHit, Safe, TypeOK
<1>2. phase = "chain" /\ at <= Len(chain) /\ ~Strong(result)
  BY <1>1, WalkIsATurn
<1> DEFINE r == FromListing(Types[walk], intl)
<1>3. Replaced(r, "b3:listed-funds") /\ "b3:listed-funds" \in Steps \ {"provider_error"}
  BY DEF PageHit, Steps
<1>4. r \in Classifications /\ r.source = "b3" /\ r.rule = "b3_listed_funds"
  BY CatalogueForms
<1>5. \E i \in DOMAIN Types, f \in BOOLEAN :
        /\ Types[i] \in listed
        /\ \A j \in 1..(i - 1) : Types[j] \notin shown
        /\ r = FromListing(Types[i], f)
  <2>1. \A j \in 1..(walk - 1) : Types[j] \notin shown
    BY DEF Safe, WalkIsTrue
  <2> QED BY <1>1, <2>1
<1>6. shown # {}
  BY <1>1
<1> HIDE DEF r
<1> QED BY <1>2, <1>3, <1>4, <1>5, <1>6, ReplacedSafe

\* At the end of the walk no page had the ticker.
LEMMA EndSafe ==
  ASSUME Safe, WalkEnds
  PROVE  Safe'
<1>1. walk # 0 /\ walk = Len(Types) + 1
  <2>1. walk \in 0..(Len(Types) + 1)
    BY DEF Safe, TypeOK
  <2> QED BY <2>1, Shapes DEF WalkEnds, Safe
<1>2. phase = "chain" /\ at <= Len(chain) /\ ~Strong(result)
  BY <1>1, WalkIsATurn
<1>3. CASE result.rule = "ticker_suffix_11"
  <2>1. Replaced(NotListed, "b3:listed-funds") /\ "b3:listed-funds" \in Steps \ {"provider_error"}
    BY <1>3 DEF WalkEnds, Steps
  <2>2. shown = {}
    <3>1. walk - 1 = Len(Types) /\ DOMAIN Types = 1..Len(Types)
      BY <1>1, Shapes DEF Safe
    <3>2. \A i \in DOMAIN Types : Types[i] \notin shown
      BY <3>1 DEF Safe, WalkIsTrue
    <3>3. shown \subseteq {Types[i] : i \in DOMAIN Types}
      BY DEF Safe, TypeOK
    <3> QED BY <3>2, <3>3
  <2>3. NotListed \in Classifications /\ NotListed.source = "b3" /\ NotListed.rule = "b3_listed_funds"
    BY CatalogueForms
  <2> QED BY <1>2, <2>1, <2>2, <2>3, ReplacedSafe
<1>4. CASE result.rule # "ticker_suffix_11"
  BY <1>2, <1>4, PassedSafe DEF WalkEnds
<1> QED BY <1>3, <1>4

\* A ticker with another suffix is not the guess: the catalogue may pass on it.
LEMMA SkipSafe ==
  ASSUME Safe, CatalogueSkips
  PROVE  Safe'
<1>1. phase = "chain" /\ at <= Len(chain) /\ ~Strong(result) /\ Suffix(norm.ticker) # "11" /\ Passed
  BY DEF CatalogueSkips, Turn
<1>2. result.rule # "ticker_suffix_11"
  <2> SUFFICES ASSUME result.rule = "ticker_suffix_11" PROVE FALSE
    OBVIOUS
  <2>1. result.source = "openfindata"
    BY <1>1 DEF Safe, GuessStays
  <2>2. result \in Sound(norm)
    BY <1>1, <2>1 DEF Safe, OwnIsSound
  <2> QED BY <1>1, <2>2 DEF Sound
<1> QED BY <1>1, <1>2, PassedSafe

\* Every step preserves the invariant.
LEMMA StepSafe == Safe /\ [Next]_vars => Safe'
<1> SUFFICES ASSUME Safe, [Next]_vars PROVE Safe'
  OBVIOUS
<1>1. CASE Core
  BY <1>1, CoreSafe
<1>2. CASE (\E r \in Others : OtherAnswers(r)) \/ OtherPasses \/ OtherRaises
  BY <1>2, OtherSafe
<1>3. CASE CatalogueSkips
  BY <1>3, SkipSafe
<1>4. CASE CatalogueStarts \/ PageMiss \/ Finish
  BY <1>4, WalkSafe
<1>5. CASE \E intl \in BOOLEAN : PageHit(intl)
  BY <1>5, HitSafe
<1>6. CASE PageRaises
  <2>1. walk # 0
    BY <1>6, Shapes DEF PageRaises, Safe
  <2> QED BY <1>6, <2>1, WalkIsATurn, RaisedSafe DEF PageRaises
<1>7. CASE WalkEnds
  BY <1>7, EndSafe
<1>8. CASE UNCHANGED vars
  <2>1. norm' = norm
    BY <1>8 DEF vars, norm
  <2> QED BY <1>8, <2>1 DEF vars, Safe, TypeOK, Begun, CoreStays, StrongIsFinal, Strong, OwnIsSound,
            GuessStays, CataloguesAsked, ErrorSteps, WalkIsTrue, CatalogueSpeaksTrue
<1> QED BY <1>1, <1>2, <1>3, <1>4, <1>5, <1>6, <1>7, <1>8 DEF Next

\* The invariant holds in every state.
LEMMA AlwaysSafe == Spec => []Safe
BY InitSafe, StepSafe, PTL DEF Spec
-----------------------------------------------------------------------------
(* The theorems.                                                           *)

\* Types: whatever providers are injected and whatever they answer, the result is a
\* well-formed classification and the catalogue is walked only in its turn.
THEOREM ResolverTypeCorrect == Spec => []TypeOK
<1>1. Safe => TypeOK
  BY DEF Safe
<1> QED BY <1>1, AlwaysSafe, PTL

\* The two name traps are settled by the core for every name, ticker and chain.
THEOREM TrapsAreFinalAlways == Spec => []TrapsAreFinal
<1>1. Safe => TrapsAreFinal
  <2> SUFFICES ASSUME Safe, Done, Trapped(norm)
               PROVE  IF Contains(norm, {"CREDITO ESTRUTURADO"}) THEN result.macro = "RF"
                      ELSE result.macro = "Estruturados" /\ result.kind = "coe"
    BY DEF TrapsAreFinal, Trapped
  <2>1. result = Classify(norm)
    BY DEF Safe, StrongIsFinal, Done
  <2> QED BY <2>1, TrapsDecide
<1> QED BY <1>1, AlwaysSafe, PTL

\* When the guess by the suffix is the answer, the chain had a failure for each of
\* its catalogues.
THEOREM GuessesAreChallengedAlways == Spec => []GuessesAreChallenged
<1>1. Safe => GuessesAreChallenged
  <2> SUFFICES ASSUME Safe, Done, result.rule = "ticker_suffix_11"
               PROVE  Cardinality({i \in DOMAIN chain : chain[i] = "b3"}) <= Cardinality(ErrorSteps)
    BY DEF GuessesAreChallenged
  <2>1. result.source = "openfindata" /\ Cardinality(CataloguesAsked) <= Cardinality(ErrorSteps)
    BY DEF Safe, GuessStays, Done
  <2>2. ~Strong(result)
    <3>1. result \in Sound(norm)
      BY <2>1 DEF Safe, OwnIsSound, Done
    <3> QED BY <3>1 DEF Sound, Strong
  <2>3. at - 1 = Len(chain)
    <3>1. at > Len(chain) /\ at \in 1..(Len(chain) + 1)
      BY <2>2 DEF Safe, StrongIsFinal, TypeOK, Done
    <3> QED BY <3>1, Shapes DEF Safe
  <2>4. DOMAIN chain = 1..Len(chain)
    BY Shapes DEF Safe
  <2> QED BY <2>1, <2>3, <2>4 DEF CataloguesAsked
<1> QED BY <1>1, AlwaysSafe, PTL

\* An inferred exemption is only ever an answer after the whole chain was asked.
THEOREM InferredExemptionIsAskedAlways == Spec => []InferredExemptionIsAsked
<1>1. Safe => InferredExemptionIsAsked
  <2> SUFFICES ASSUME Safe, Done, result.source = "openfindata", result.exempt = "candidate_exempt"
               PROVE  at > Len(chain)
    BY DEF InferredExemptionIsAsked
  <2>1. result \in Sound(norm)
    BY DEF Safe, OwnIsSound, Done
  <2>2. ~Strong(result)
    BY <2>1 DEF Sound, Strong, Classifications
  <2> QED BY <2>2 DEF Safe, StrongIsFinal, Done
<1> QED BY <1>1, AlwaysSafe, PTL

\* Providers that fail or pass leave exactly the offline answer.
THEOREM FailuresLoseNothingAlways == Spec => []FailuresLoseNothing
<1>1. Safe => FailuresLoseNothing
  BY DEF Safe, CoreStays, FailuresLoseNothing, Done
<1> QED BY <1>1, AlwaysSafe, PTL

\* The catalogue's answer is the first type whose page of hits has the ticker, "not
\* listed" is said only if no page has it, and a miss is never a failed page.
THEOREM CatalogueSpeaksTrueAlways == Spec => []CatalogueSpeaksTrue
<1>1. Safe => CatalogueSpeaksTrue
  BY DEF Safe, WalkIsTrue
<1> QED BY <1>1, AlwaysSafe, PTL

\* No step takes anything out of the audit trail.
THEOREM AuditTrailGrowsAlways == Spec => AuditTrailGrows
<1>1. Safe /\ [Next]_vars => [CascadeGrows]_vars
  <2> SUFFICES ASSUME Safe, Next PROVE CascadeGrows
    BY DEF vars
  <2>1. cascade \in Seq(Steps) /\ Len(cascade) \in Nat /\ DOMAIN cascade = 1..Len(cascade)
    BY Shapes DEF Safe, TypeOK
  <2>2. cascade' = cascade => CascadeGrows
    BY <2>1 DEF CascadeGrows
  <2>3. ASSUME NEW s \in Steps, cascade' = Append(cascade, s) PROVE CascadeGrows
    BY <2>1, <2>3, AppendProperties DEF CascadeGrows
  <2>4. Core => CascadeGrows
    <3>1. Core => cascade = << >> /\ cascade' = <<Step(norm)>>
      BY DEF Core, Safe, Begun
    <3> QED BY <3>1 DEF CascadeGrows
  <2>5. Raised => CascadeGrows
    BY <2>3 DEF Raised, Steps
  <2>6. ASSUME NEW r, NEW s \in Steps, Replaced(r, s) PROVE CascadeGrows
    BY <2>3, <2>6 DEF Replaced
  <2>7. (\E r \in Others : OtherAnswers(r)) => CascadeGrows
    BY <2>6 DEF OtherAnswers, Steps
  <2>8. (\E intl \in BOOLEAN : PageHit(intl)) => CascadeGrows
    BY <2>6 DEF PageHit, Steps
  <2>9. WalkEnds => CascadeGrows
    BY <2>2, <2>6 DEF WalkEnds, Passed, Steps
  <2>10. OtherRaises \/ PageRaises => CascadeGrows
    BY <2>5 DEF OtherRaises, PageRaises
  <2>11. OtherPasses \/ CatalogueSkips \/ CatalogueStarts \/ PageMiss \/ Finish => CascadeGrows
    BY <2>2 DEF OtherPasses, CatalogueSkips, CatalogueStarts, PageMiss, Finish, Passed
  <2> QED BY <2>4, <2>7, <2>8, <2>9, <2>10, <2>11 DEF Next
<1> QED BY <1>1, AlwaysSafe, PTL DEF Spec, AuditTrailGrows
=============================================================================
