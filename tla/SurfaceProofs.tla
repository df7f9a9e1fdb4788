---------------------------- MODULE SurfaceProofs ----------------------------
(* Proofs about the three HTTP surfaces (Surfaces) and the command line       *)
(* (Cli): for any years, any numbers of rows, and every row of their tables.  *)
(* What the properties need of a row is Fit, or CommandFits, which each one   *)
(* is shown to have; what they need of a request is Sound.                    *)
EXTENDS Surfaces, Cli, TLAPS

-----------------------------------------------------------------------------
(* The rows of the tables                                                     *)

Fields == {"name", "asks", "must", "bounds", "cut", "needs", "checks", "none", "any", "how"}
IsOperation(op) == DOMAIN op = Fields /\ op = [field \in Fields |-> op[field]]

CutKinds == {"all", "page", "first", "top", "one_over", "if_given", "ignored"}
IsCut(cut) == cut.kind \in CutKinds /\ cut.std \in Nat /\ cut.max \in Nat

\* Only the operations that are known for it leave out a limit they declare.
MayCut(cut, name, asks) == cut.kind = "ignored" => name \in LimitIsIgnoredBy \/ asks = << >>

\* Years are bounded by 2025 or less and by last or more.
NoMargin == {"/cvm/financials/dfp", "/cvm/financials/itr"}
MayBound(bounds, name, last) ==
  \A p \in bounds : p[1] = "year" =>
    /\ p[2] \in Nat /\ p[3] \in Nat /\ p[2] <= 2025
    /\ last <= p[3] + (IF name \in NoMargin THEN 1 ELSE 0)

MayHow(how, name, asks) ==
  /\ how \in {"plain", "extra_first", "extra_in_call", "stream", "isolated"}
  /\ how = "isolated" => name \in {"/resolver/resolve", "resolve_asset"}
  /\ how = "stream" => name = "/openfinance/portal/download"
  /\ how = "extra_in_call" => Len(asks) = 1
MayAny(any, name) ==
  /\ any \in {0, 404, 500, 503}
  /\ any = 404 => name \in {"/b3/quote", "/b3/history"}
  /\ any = 500 => name = "/b3/quotes"
  /\ any = 503 => name = "/registry/meta"

Fit(op, last, nones) ==
  /\ IsOperation(op)
  /\ IsCut(op.cut) /\ MayCut(op.cut, op.name, op.asks)
  /\ Len(op.asks) \in Nat
  /\ MayBound(op.bounds, op.name, last)
  /\ MayHow(op.how, op.name, op.asks)
  /\ op.none \in nones
  /\ MayAny(op.any, op.name)

LEMMA AllIsCut == IsCut(All) /\ \A name, asks : MayCut(All, name, asks)
  BY DEF All, IsCut, CutKinds, MayCut
LEMMA PageIsCut ==
  \A std, max \in Nat : IsCut(Page(std, max)) /\ \A name, asks : MayCut(Page(std, max), name, asks)
  BY DEF Page, IsCut, CutKinds, MayCut
LEMMA FirstIsCut ==
  \A std, max \in Nat : IsCut(First(std, max)) /\ \A name, asks : MayCut(First(std, max), name, asks)
  BY DEF First, IsCut, CutKinds, MayCut
LEMMA TopIsCut ==
  \A std, max \in Nat : IsCut(Top(std, max)) /\ \A name, asks : MayCut(Top(std, max), name, asks)
  BY DEF Top, IsCut, CutKinds, MayCut
LEMMA OneOverIsCut ==
  \A std, max \in Nat : IsCut(OneOver(std, max)) /\ \A name, asks : MayCut(OneOver(std, max), name, asks)
  BY DEF OneOver, IsCut, CutKinds, MayCut
LEMMA IfGivenIsCut ==
  \A max \in Nat : IsCut(IfGiven(max)) /\ \A name, asks : MayCut(IfGiven(max), name, asks)
  BY DEF IfGiven, IsCut, CutKinds, MayCut
LEMMA IgnoredIsCut ==
  \A std, max \in Nat :
    /\ IsCut(Ignored(std, max))
    /\ \A name, asks : name \in LimitIsIgnoredBy \/ asks = << >> => MayCut(Ignored(std, max), name, asks)
  BY DEF Ignored, IsCut, CutKinds, MayCut

LEMMA AsksHaveLengths ==
  Len(<< >>) \in Nat /\ (\A s : Len(<<s>>) \in Nat /\ Len(<<s>>) = 1) /\ \A s, t : Len(<<s, t>>) \in Nat
  OBVIOUS

LEMMA OperationFits ==
  ASSUME NEW name, NEW asks, NEW must, NEW bounds, NEW cut, NEW last, NEW nones,
         IsCut(cut), MayCut(cut, name, asks), Len(asks) \in Nat, MayBound(bounds, name, last), 200 \in nones
  PROVE Fit(Operation(name, asks, must, bounds, cut), last, nones)
<1> DEFINE op == Operation(name, asks, must, bounds, cut)
<1>1. IsOperation(op)
  BY DEF IsOperation, Operation, Fields
<1>2. op.name = name /\ op.asks = asks /\ op.bounds = bounds /\ op.cut = cut
  BY DEF Operation
<1>3. op.none = 200 /\ op.any = 0 /\ op.how = "plain"
  BY DEF Operation
<1>4. MayHow("plain", name, asks) /\ MayAny(0, name)
  BY DEF MayHow, MayAny
<1> QED BY <1>1, <1>2, <1>3, <1>4 DEF Fit

LEMMA OperationIs ==
  \A name, asks, must, bounds, cut :
    LET op == Operation(name, asks, must, bounds, cut) IN op.name = name /\ op.asks = asks
  BY DEF Operation

\* The modifiers change one field each.
Alike(op, o) == o.name = op.name /\ o.asks = op.asks /\ o.bounds = op.bounds

LEMMA CheckingIsAlike == \A op, checks : IsOperation(op) => Alike(op, Checking(op, checks))
  BY DEF IsOperation, Fields, Checking, Alike
LEMMA HowIsAlike == \A op, how : IsOperation(op) => Alike(op, How(op, how))
  BY DEF IsOperation, Fields, How, Alike
LEMMA NeedingFits ==
  \A op, needs, last, nones :
    Fit(op, last, nones) => Fit(Needing(op, needs), last, nones)
<1> TAKE op, needs, last, nones
<1> HAVE Fit(op, last, nones)
<1> DEFINE o == Needing(op, needs)
<1>1. IsOperation(op)
  BY DEF Fit
<1>2. IsOperation(o) /\ Alike(op, o) /\ o.cut = op.cut
  BY <1>1 DEF IsOperation, Fields, Needing, Alike
<1>3. o.none = op.none /\ o.any = op.any /\ o.how = op.how
  BY <1>1 DEF IsOperation, Fields, Needing
<1> QED BY <1>2, <1>3 DEF Fit, Alike
LEMMA CheckingFits ==
  \A op, checks, last, nones :
    Fit(op, last, nones) => Fit(Checking(op, checks), last, nones)
<1> TAKE op, checks, last, nones
<1> HAVE Fit(op, last, nones)
<1> DEFINE o == Checking(op, checks)
<1>1. IsOperation(op)
  BY DEF Fit
<1>2. IsOperation(o) /\ Alike(op, o) /\ o.cut = op.cut
  BY <1>1 DEF IsOperation, Fields, Checking, Alike
<1>3. o.none = op.none /\ o.any = op.any /\ o.how = op.how
  BY <1>1 DEF IsOperation, Fields, Checking
<1> QED BY <1>2, <1>3 DEF Fit, Alike
LEMMA NoneFits ==
  \A op, status, last, nones :
    Fit(op, last, nones) /\ status \in nones => Fit(NoneIs(op, status), last, nones)
<1> TAKE op, status, last, nones
<1> HAVE Fit(op, last, nones) /\ status \in nones
<1> DEFINE o == NoneIs(op, status)
<1>1. IsOperation(op)
  BY DEF Fit
<1>2. IsOperation(o) /\ Alike(op, o) /\ o.cut = op.cut
  BY <1>1 DEF IsOperation, Fields, NoneIs, Alike
<1>3. o.none = status /\ o.any = op.any /\ o.how = op.how
  BY <1>1 DEF IsOperation, Fields, NoneIs
<1> QED BY <1>2, <1>3 DEF Fit, Alike
LEMMA AnyFits ==
  \A op, status, last, nones :
    Fit(op, last, nones) /\ MayAny(status, op.name) => Fit(AnyIs(op, status), last, nones)
<1> TAKE op, status, last, nones
<1> HAVE Fit(op, last, nones) /\ MayAny(status, op.name)
<1> DEFINE o == AnyIs(op, status)
<1>1. IsOperation(op)
  BY DEF Fit
<1>2. IsOperation(o) /\ Alike(op, o) /\ o.cut = op.cut
  BY <1>1 DEF IsOperation, Fields, AnyIs, Alike
<1>3. o.none = op.none /\ o.any = status /\ o.how = op.how
  BY <1>1 DEF IsOperation, Fields, AnyIs
<1> QED BY <1>2, <1>3 DEF Fit, Alike
LEMMA HowFits ==
  \A op, how, last, nones :
    Fit(op, last, nones) /\ MayHow(how, op.name, op.asks) => Fit(How(op, how), last, nones)
<1> TAKE op, how, last, nones
<1> HAVE Fit(op, last, nones) /\ MayHow(how, op.name, op.asks)
<1> DEFINE o == How(op, how)
<1>1. IsOperation(op)
  BY DEF Fit
<1>2. IsOperation(o) /\ Alike(op, o) /\ o.cut = op.cut
  BY <1>1 DEF IsOperation, Fields, How, Alike
<1>3. o.none = op.none /\ o.any = op.any /\ o.how = how
  BY <1>1 DEF IsOperation, Fields, How
<1> QED BY <1>2, <1>3 DEF Fit, Alike

\* The routes of the quotes, which may fail in any way.
LEMMA QuoteFits ==
  \A op, last, nones :
    Fit(op, last, nones) /\ op.name \in {"/b3/quote", "/b3/history"} => Fit(AnyIs(How(op, "extra_first"), 404), last, nones)
<1> TAKE op, last, nones
<1> HAVE Fit(op, last, nones) /\ op.name \in {"/b3/quote", "/b3/history"}
<1> DEFINE o == How(op, "extra_first")
<1>1. MayHow("extra_first", op.name, op.asks)
  BY DEF MayHow
<1>2. Fit(o, last, nones) /\ o.name = op.name
  BY <1>1, HowFits, HowIsAlike DEF Fit, Alike
<1>3. MayAny(404, o.name)
  BY <1>2 DEF MayAny
<1> QED BY <1>2, <1>3, AnyFits
LEMMA QuotesFit ==
  \A op, last, nones :
    Fit(op, last, nones) /\ op.name = "/b3/quotes" => Fit(AnyIs(How(op, "extra_first"), 500), last, nones)
<1> TAKE op, last, nones
<1> HAVE Fit(op, last, nones) /\ op.name = "/b3/quotes"
<1> DEFINE o == How(op, "extra_first")
<1>1. MayHow("extra_first", op.name, op.asks)
  BY DEF MayHow
<1>2. Fit(o, last, nones) /\ o.name = op.name
  BY <1>1, HowFits, HowIsAlike DEF Fit, Alike
<1>3. MayAny(500, o.name)
  BY <1>2 DEF MayAny
<1> QED BY <1>2, <1>3, AnyFits

\* The rows of the REST routes, whose years end with the year after the import.
LEMMA BcbRoutesFit ==
  ASSUME NEW at \in Nat
  PROVE \A op \in BcbRoutes : Fit(op, at + 1, {200, 404})
  BY SMTT(20), AsksHaveLengths, OperationFits, AllIsCut, TopIsCut
  DEF BcbRoutes, MayBound
LEMMA CvmCompanyRoutesFit ==
  ASSUME NEW at \in Nat
  PROVE \A op \in CvmCompanyRoutes(at) : Fit(op, at + 1, {200, 404})
  BY SMTT(20), AsksHaveLengths, OperationFits, AllIsCut, PageIsCut
  DEF CvmCompanyRoutes, MayBound, NoMargin
LEMMA CvmFundRoutesFit ==
  ASSUME NEW at \in Nat
  PROVE \A op \in CvmFundRoutes(at) : Fit(op, at + 1, {200, 404})
  BY SMTT(20), AsksHaveLengths, OperationFits, AllIsCut, PageIsCut, OneOverIsCut
  DEF CvmFundRoutes, MayBound, NoMargin, Months
LEMMA CvmStructuredRoutesFit ==
  ASSUME NEW at \in Nat
  PROVE \A op \in CvmStructuredRoutes(at) : Fit(op, at + 1, {200, 404})
  BY SMTT(20), AsksHaveLengths, OperationFits, AllIsCut, PageIsCut
  DEF CvmStructuredRoutes, MayBound, NoMargin, Months
LEMMA B3RoutesFit ==
  ASSUME NEW at \in Nat
  PROVE \A op \in B3Routes : Fit(op, at + 1, {200, 404})
<1> DEFINE Quotes(op, status) == AnyIs(How(op, "extra_first"), status)
<1>1. Fit(Quotes(Operation("/b3/quote", <<"get_quote">>, {"ticker"}, {}, All), 404), at + 1, {200, 404})
  BY SMTT(20), AsksHaveLengths, OperationFits, AllIsCut, OperationIs, QuoteFits DEF MayBound
<1>2. Fit(Quotes(Operation("/b3/history", <<"get_history">>, {"ticker"}, {}, All), 404), at + 1, {200, 404})
  BY SMTT(20), AsksHaveLengths, OperationFits, AllIsCut, OperationIs, QuoteFits DEF MayBound
<1> DEFINE several == Operation("/b3/quotes", <<"get_multiple_quotes">>, {"tickers"}, {}, All)
           checked == Checking(several, {<<"tickers", 1, 20>>})
<1>3. Fit(several, at + 1, {200, 404}) /\ several.name = "/b3/quotes"
  BY AsksHaveLengths, OperationFits, AllIsCut, OperationIs DEF MayBound
<1> HIDE DEF several, checked
<1>4. Fit(checked, at + 1, {200, 404}) /\ checked.name = "/b3/quotes"
  <2>1. IsOperation(several)
    BY <1>3 DEF Fit
  <2>2. checked.name = several.name
    BY <2>1, CheckingIsAlike DEF Alike, checked
  <2> QED BY <1>3, <2>2, CheckingFits DEF checked
<1>5. Fit(Quotes(checked, 500), at + 1, {200, 404})
  BY <1>4, QuotesFit
<1> QED
  BY SMTT(20), <1>1, <1>2, <1>5, AsksHaveLengths, OperationFits, AllIsCut, NoneFits
  DEF B3Routes, MayBound, Months, several, checked
LEMMA TesouroRoutesFit ==
  ASSUME NEW at \in Nat
  PROVE \A op \in TesouroRoutes(at) : Fit(op, at + 1, {200, 404})
  BY SMTT(20), AsksHaveLengths, OperationFits, AllIsCut, TopIsCut
  DEF TesouroRoutes, MayBound, NoMargin
LEMMA IbgeRoutesFit ==
  ASSUME NEW at \in Nat
  PROVE \A op \in IbgeRoutes : Fit(op, at + 1, {200, 404})
  BY SMTT(20), AsksHaveLengths, OperationFits, AllIsCut
  DEF IbgeRoutes, MayBound
LEMMA IpeaRoutesFit ==
  ASSUME NEW at \in Nat
  PROVE \A op \in IpeaRoutes : Fit(op, at + 1, {200, 404})
  BY SMTT(20), AsksHaveLengths, OperationFits, AllIsCut, NoneFits
  DEF IpeaRoutes, MayBound
LEMMA OpenFinanceRoutesFit ==
  ASSUME NEW at \in Nat
  PROVE \A op \in OpenFinanceRoutes : Fit(op, at + 1, {200, 404})
  BY SMTT(20), AsksHaveLengths, OperationFits, AllIsCut, FirstIsCut, NoneFits
  DEF OpenFinanceRoutes, MayBound
LEMMA OpenFinanceKeyRoutesFit ==
  ASSUME NEW at \in Nat
  PROVE \A op \in OpenFinanceKeyRoutes : Fit(op, at + 1, {200, 404})
  BY SMTT(20), AsksHaveLengths, OperationFits, AllIsCut, OperationIs, HowFits
  DEF OpenFinanceKeyRoutes, MayBound, MayHow
LEMMA AnbimaRoutesFit ==
  ASSUME NEW at \in Nat
  PROVE \A op \in AnbimaRoutes : Fit(op, at + 1, {200, 404})
  BY SMTT(20), AsksHaveLengths, OperationFits, AllIsCut, FirstIsCut
  DEF AnbimaRoutes, MayBound
LEMMA ReceitaRoutesFit ==
  ASSUME NEW at \in Nat
  PROVE \A op \in ReceitaRoutes(at) : Fit(op, at + 1, {200, 404})
  BY SMTT(20), AsksHaveLengths, OperationFits, AllIsCut, PageIsCut
  DEF ReceitaRoutes, MayBound, NoMargin, Months
LEMMA AneelRoutesFit ==
  ASSUME NEW at \in Nat
  PROVE \A op \in AneelRoutes(at) : Fit(op, at + 1, {200, 404})
  BY SMTT(20), AsksHaveLengths, OperationFits, PageIsCut
  DEF AneelRoutes, MayBound, NoMargin
LEMMA SusepRoutesFit ==
  ASSUME NEW at \in Nat
  PROVE \A op \in SusepRoutes : Fit(op, at + 1, {200, 404})
  BY SMTT(20), AsksHaveLengths, OperationFits, AllIsCut, PageIsCut
  DEF SusepRoutes, MayBound
LEMMA RegistryRoutesFit ==
  ASSUME NEW at \in Nat
  PROVE \A op \in RegistryRoutes : Fit(op, at + 1, {200, 404})
  BY SMTT(20), AsksHaveLengths, OperationFits, AllIsCut, TopIsCut, OperationIs, AnyFits
  DEF RegistryRoutes, MayBound, MayAny
LEMMA ResolverRoutesFit ==
  ASSUME NEW at \in Nat
  PROVE \A op \in ResolverRoutes : Fit(op, at + 1, {200, 404})
  BY SMTT(20), AsksHaveLengths, OperationFits, AllIsCut, OperationIs, HowFits
  DEF ResolverRoutes, MayBound, MayHow
LEMMA YahooRoutesFit ==
  ASSUME NEW at \in Nat
  PROVE \A op \in YahooRoutes : Fit(op, at + 1, {200, 404})
  BY SMTT(20), AsksHaveLengths, OperationFits, AllIsCut
  DEF YahooRoutes, MayBound
LEMMA BaseDosDadosRoutesFit ==
  ASSUME NEW at \in Nat
  PROVE \A op \in BaseDosDadosRoutes : Fit(op, at + 1, {200, 404})
  BY SMTT(20), AsksHaveLengths, OperationFits, AllIsCut, TopIsCut, OperationIs, HowFits
  DEF BaseDosDadosRoutes, MayBound, MayHow, Open
LEMMA AppRoutesFit ==
  ASSUME NEW at \in Nat
  PROVE \A op \in AppRoutes : Fit(op, at + 1, {200, 404})
  BY SMTT(20), AsksHaveLengths, OperationFits, AllIsCut
  DEF AppRoutes, MayBound
LEMMA RestRoutesFit ==
  ASSUME NEW at \in Nat
  PROVE \A op \in RestRoutes(at) : Fit(op, at + 1, {200, 404})
  BY SMTT(20), BcbRoutesFit, CvmCompanyRoutesFit, CvmFundRoutesFit, CvmStructuredRoutesFit,
     B3RoutesFit, TesouroRoutesFit, IbgeRoutesFit, IpeaRoutesFit, OpenFinanceRoutesFit,
     OpenFinanceKeyRoutesFit, AnbimaRoutesFit, ReceitaRoutesFit, AneelRoutesFit, SusepRoutesFit,
     RegistryRoutesFit, ResolverRoutesFit, YahooRoutesFit, BaseDosDadosRoutesFit, AppRoutesFit
  DEF RestRoutes

\* The rows of the two catalogues of tools, whose years are left open.
LEMMA EntryToolsFit ==
  \A op \in EntryTools : Fit(op, Open, {200, 404})
  BY SMTT(20), AsksHaveLengths, OperationFits, AllIsCut, TopIsCut, OperationIs, HowFits
  DEF EntryTools, MayBound, Tool, NoMargin, MayHow
LEMMA BcbToolsFit ==
  \A op \in BcbTools : Fit(op, Open, {200, 404})
  BY SMTT(20), AsksHaveLengths, OperationFits, AllIsCut, TopIsCut, IgnoredIsCut, CheckingFits
  DEF BcbTools, MayBound, Tool, LimitIsIgnoredBy
LEMMA CvmCompanyToolsFit ==
  \A op \in CvmCompanyTools : Fit(op, Open, {200, 404})
  BY SMTT(20), AsksHaveLengths, OperationFits, FirstIsCut, IgnoredIsCut, NeedingFits
  DEF CvmCompanyTools, MayBound, Tool, Open, NoMargin, LimitIsIgnoredBy
LEMMA CvmFundToolsFit ==
  \A op \in CvmFundTools : Fit(op, Open, {200, 404})
  BY SMTT(20), AsksHaveLengths, OperationFits, FirstIsCut, OneOverIsCut, IgnoredIsCut, NeedingFits,
     NoneFits
  DEF CvmFundTools, MayBound, Tool, Months, LimitIsIgnoredBy
LEMMA CvmStructuredToolsFit ==
  \A op \in CvmStructuredTools : Fit(op, Open, {200, 404})
  BY SMTT(20), AsksHaveLengths, OperationFits, FirstIsCut, IgnoredIsCut, NeedingFits, CheckingFits
  DEF CvmStructuredTools, MayBound, Tool, Months, LimitIsIgnoredBy
LEMMA B3ToolsFit ==
  \A op \in B3Tools : Fit(op, Open, {200, 404})
  BY SMTT(20), AsksHaveLengths, OperationFits, AllIsCut, OperationIs, NeedingFits, CheckingFits,
     HowFits
  DEF B3Tools, MayBound, Tool, Catalog, Months, Open, NoMargin, MayHow
LEMMA TesouroToolsFit ==
  \A op \in TesouroTools : Fit(op, Open, {200, 404})
  BY SMTT(20), AsksHaveLengths, OperationFits, AllIsCut, TopIsCut, IgnoredIsCut, NeedingFits,
     CheckingFits
  DEF TesouroTools, MayBound, Tool, Open, NoMargin, LimitIsIgnoredBy
LEMMA IbgeIpeaToolsFit ==
  \A op \in IbgeIpeaTools : Fit(op, Open, {200, 404})
  BY SMTT(20), AsksHaveLengths, OperationFits, AllIsCut, NoneFits
  DEF IbgeIpeaTools, MayBound, Tool, Catalog
LEMMA AnbimaOpenFinanceToolsFit ==
  \A op \in AnbimaOpenFinanceTools : Fit(op, Open, {200, 404})
  BY SMTT(20), AsksHaveLengths, OperationFits, FirstIsCut, IgnoredIsCut, CheckingFits
  DEF AnbimaOpenFinanceTools, MayBound, Tool, LimitIsIgnoredBy
LEMMA SmallSourceToolsFit ==
  \A op \in SmallSourceTools : Fit(op, Open, {200, 404})
  BY SMTT(20), AsksHaveLengths, OperationFits, AllIsCut, TopIsCut, FirstIsCut, IgnoredIsCut
  DEF SmallSourceTools, MayBound, Tool, Months, Open, NoMargin, LimitIsIgnoredBy
LEMMA McpToolsFit == \A op \in McpTools : Fit(op, Open, {200, 404})
  BY SMTT(20), EntryToolsFit, BcbToolsFit, CvmCompanyToolsFit, CvmFundToolsFit,
     CvmStructuredToolsFit, B3ToolsFit, TesouroToolsFit, IbgeIpeaToolsFit,
     AnbimaOpenFinanceToolsFit, SmallSourceToolsFit
  DEF McpTools
LEMMA WorkerBcbFit ==
  \A op \in WorkerBcb : Fit(op, Open, {0, 200, 404})
  BY SMTT(20), AsksHaveLengths, OperationFits, AllIsCut, TopIsCut, IfGivenIsCut, IgnoredIsCut, CheckingFits
  DEF WorkerBcb, MayBound, WorkerTool, LimitIsIgnoredBy
LEMMA WorkerIbgeFit ==
  \A op \in WorkerIbge : Fit(op, Open, {0, 200, 404})
  BY SMTT(20), AsksHaveLengths, OperationFits, AllIsCut, CheckingFits
  DEF WorkerIbge, MayBound, WorkerTool
LEMMA WorkerIpeaFit ==
  \A op \in WorkerIpea : Fit(op, Open, {0, 200, 404})
  BY SMTT(20), AsksHaveLengths, OperationFits, FirstIsCut, IgnoredIsCut, CheckingFits, NoneFits
  DEF WorkerIpea, MayBound, WorkerTool, LimitIsIgnoredBy
LEMMA WorkerTesouroFit ==
  \A op \in WorkerTesouro : Fit(op, Open, {0, 200, 404})
  BY SMTT(20), AsksHaveLengths, OperationFits, FirstIsCut, NeedingFits, CheckingFits
  DEF WorkerTesouro, MayBound, WorkerTool, Open, NoMargin
LEMMA WorkerOpenFinanceFit ==
  \A op \in WorkerOpenFinance : Fit(op, Open, {0, 200, 404})
  BY SMTT(20), AsksHaveLengths, OperationFits, FirstIsCut, IgnoredIsCut
  DEF WorkerOpenFinance, MayBound, WorkerTool, LimitIsIgnoredBy
LEMMA WorkerToolsFit == \A op \in WorkerTools : Fit(op, Open, {0, 200, 404})
  BY SMTT(20), WorkerBcbFit, WorkerIbgeFit, WorkerIpeaFit, WorkerTesouroFit, WorkerOpenFinanceFit
  DEF WorkerTools

-----------------------------------------------------------------------------
(* The inductive invariant                                                    *)

\* What every request that was received has: an operation of the tables, and no
\* limit or skip beside the current year.
LastYear(surface) == IF surface = "rest" THEN boot + 1 ELSE Open
Nones(surface) == IF surface = "worker" THEN {0, 200, 404} ELSE {200, 404}
Sound(r) ==
  /\ r.surface \in {"rest", "mcp", "worker"}
  /\ Fit(r.op, LastYear(r.surface), Nones(r.surface))
  /\ r.limit \in Int /\ r.skip \in Int
  /\ r.odd = <<"year", year>> => r.limit = Absent /\ r.skip = 0

\* What every answer has: the three properties, of one request and its answer.
Statuses == {IsError, 200, 400, 401, 404, 422, 429, 500, 503}
HasLimit(r, a) ==
  a.status = 200 =>
    \/ Count(a) <= Limit(r) + (IF r.op.cut.kind = "one_over" THEN 1 ELSE 0)
    \/ r.op.cut.kind = "all" \/ (r.op.cut.kind = "if_given" /\ r.limit = Absent)
    \/ r.op.name \in LimitIsIgnoredBy \/ Tables(r)
HasYear(r, a) ==
  r.odd = <<"year", year>> /\ a.status = 422 =>
    r.surface = "rest" /\ year - boot > (IF r.op.name \in NoMargin THEN 0 ELSE 1)
HasBlame(r, a) ==
  /\ a.fault # "nothing" => a.status # 200 \/ r.op.name \in FailsQuietly
  /\ r.surface # "worker" /\ r.op.name \notin FailsQuietly =>
       /\ a.fault \in {"outage", "garbage"} =>
            \/ a.status >= 500 \/ r.op.name \in TakesAnyForUnknown
            \/ a.fault = "garbage" /\ a.status = 400
       /\ a.fault \in {"refused", "none"} =>
            a.status \in 400 .. 499 \/ r.op.name \in {"/b3/quotes", "/registry/meta"}
Good(r, a) == a.status \in Statuses /\ HasLimit(r, a) /\ HasYear(r, a) /\ HasBlame(r, a)

Years ==
  /\ boot \in Nat /\ year \in Nat
  /\ FirstYear <= boot /\ boot <= year /\ year <= FirstYear + MaxYears
SurfaceIInv ==
  /\ Years /\ guarded \in BOOLEAN /\ calls \in Nat
  /\ stage \in {"idle", "received", "asking", "answered"}
  /\ stage = "idle" => req = NoRequest
  /\ stage \in {"idle", "received"} => calls = 0
  /\ stage # "idle" => Sound(req)
  /\ stage = "asking" => ~BadLimit(req) /\ (calls = 0 \/ calls < Len(req.op.asks))
  /\ stage # "answered" => answer = NoAnswer
  /\ stage = "answered" => calls <= Len(req.op.asks) /\ Good(req, answer)

LEMMA YearsAreNat ==
  /\ FirstYear \in Nat /\ MaxYears \in Nat /\ Open \in Nat
  /\ 2025 <= FirstYear /\ FirstYear + MaxYears < Open
<1>1. Open \in Nat
  BY SMT DEF Open
<1> QED BY <1>1, YearsAssumption

LEMMA SoundIs ==
  ASSUME NEW r, Sound(r)
  PROVE /\ r.surface \in {"rest", "mcp", "worker"} /\ r.limit \in Int /\ r.skip \in Int
        /\ IsCut(r.op.cut) /\ MayCut(r.op.cut, r.op.name, r.op.asks)
        /\ Len(r.op.asks) \in Nat
        /\ MayBound(r.op.bounds, r.op.name, LastYear(r.surface))
        /\ MayHow(r.op.how, r.op.name, r.op.asks)
        /\ r.op.none \in {0, 200, 404} /\ (r.surface # "worker" => r.op.none # 0)
        /\ MayAny(r.op.any, r.op.name)
<1>1. Fit(r.op, LastYear(r.surface), Nones(r.surface))
  BY DEF Sound
<1>2. r.op.none \in {0, 200, 404} /\ (r.surface # "worker" => r.op.none # 0)
  BY <1>1 DEF Fit, Nones
<1> QED BY <1>1, <1>2 DEF Fit, Sound

LEMMA OperationsFit ==
  ASSUME NEW surface \in {"rest", "mcp", "worker"}, boot \in Nat, NEW op \in Operations(surface)
  PROVE Fit(op, LastYear(surface), Nones(surface))
<1>1. CASE surface = "rest"
  BY <1>1, RestRoutesFit DEF Operations, LastYear, Nones
<1>2. CASE surface = "mcp"
  BY <1>2, McpToolsFit DEF Operations, LastYear, Nones
<1>3. CASE surface = "worker"
  BY <1>3, WorkerToolsFit DEF Operations, LastYear, Nones
<1> QED BY <1>1, <1>2, <1>3

\* A request as it is received.
LEMMA RequestsAreSound ==
  ASSUME NEW surface \in {"rest", "mcp", "worker"}, boot \in Nat, year \in Nat, NEW r \in Requests(surface)
  PROVE Sound(r)
<1>1. PICK op \in Operations(surface) :
        \/ r \in [surface : {surface}, op : {op}, odd : OddOnes(op), limit : {Absent}, skip : {0},
                  token : BOOLEAN]
        \/ r \in [surface : {surface}, op : {op}, odd : {<<"nothing", 0>>}, limit : Limits(op), skip : {-1, 0, 1},
                  token : {TRUE}]
  BY DEF Requests
<1>2. Fit(op, LastYear(surface), Nones(surface))
  BY OperationsFit
<1>3. r.surface = surface /\ r.op = op
  BY <1>1
<1>4. op.cut.max \in Nat
  BY <1>2 DEF Fit, IsCut
<1>a. \/ r.limit = Absent /\ r.skip = 0
      \/ r.limit \in Limits(op) /\ r.skip \in {-1, 0, 1} /\ r.odd = <<"nothing", 0>>
  BY <1>1
<1>5. r.limit \in Int /\ r.skip \in Int
  BY <1>a, <1>4 DEF Limits, Absent
<1>b. <<"nothing", 0>> # <<"year", year>>
  OBVIOUS
<1>6. r.odd = <<"year", year>> => r.limit = Absent /\ r.skip = 0
  BY <1>a, <1>b
<1> QED BY <1>2, <1>3, <1>5, <1>6 DEF Sound

-----------------------------------------------------------------------------
(* The answers                                                                *)

LEMMA NoRowsAreGood ==
  ASSUME NEW r, Sound(r), NEW a, a.from = 1, a.to = 0, r.limit = Absent \/ r.op.cut.kind = "all" \/ r.limit >= 0
  PROVE HasLimit(r, a)
<1>1. Count(a) = 0
  BY DEF Count
<1>2. r.op.cut.kind = "all" \/ (Limit(r) \in Int /\ Limit(r) >= 0)
  BY SoundIs DEF Limit, IsCut
<1> QED BY <1>1, <1>2 DEF HasLimit

\* A request that is right but for its year is refused only when the bound is short of it.
LEMMA RefusalsAreGood ==
  ASSUME NEW r, Sound(r), Years, NEW extra \in BOOLEAN, NEW over \in BOOLEAN,
         Refusal(r, extra, over) # 200
  PROVE Good(r, Status(Refusal(r, extra, over)))
<1> DEFINE a == Status(Refusal(r, extra, over))
<1>1. a.status = Refusal(r, extra, over) /\ a.fault = "nothing"
  BY DEF Status, NoAnswer
<1> HIDE DEF a
<1>2. Refusal(r, extra, over) \in {IsError, 400, 401, 422, 429, 503}
  BY DEF Refusal
<1>3. HasYear(r, a)
  <2> SUFFICES ASSUME r.odd = <<"year", year>>, Refusal(r, extra, over) = 422
               PROVE r.surface = "rest" /\ year - boot > (IF r.op.name \in NoMargin THEN 0 ELSE 1)
    BY <1>1 DEF HasYear
  <2>1. r.limit = Absent /\ r.skip = 0
    BY DEF Sound
  <2>2. ~BadLimit(r) /\ ~BadSkip(r) /\ ~Unknown(r)
    BY <2>1 DEF BadLimit, BadSkip, Unknown
  <2>3. year \in Nat /\ 2025 <= year /\ year < Open /\ boot \in Nat /\ Open \in Nat
    BY YearsAreNat DEF Years
  <2>4. ~Missing(r, r.op.must)
    BY <2>3 DEF Missing, Absent
  <2>5. Outside(r, r.op.bounds)
    BY <2>2, <2>4 DEF Refusal, IsError
  <2>6. PICK p \in r.op.bounds : p[1] = "year" /\ year \notin p[2] .. p[3]
    BY <2>5 DEF Outside
  <2>7. /\ p[2] \in Nat /\ p[3] \in Nat /\ p[2] <= 2025
        /\ LastYear(r.surface) <= p[3] + (IF r.op.name \in NoMargin THEN 1 ELSE 0)
    BY <2>6, SoundIs DEF MayBound
  <2>8. p[3] < year
    BY <2>3, <2>6, <2>7
  <2>9. r.surface = "rest"
    BY <2>3, <2>7, <2>8 DEF LastYear
  <2> QED BY <2>3, <2>7, <2>8, <2>9 DEF LastYear
<1>4. HasBlame(r, a)
  BY <1>1 DEF HasBlame
<1>5. HasLimit(r, a)
  BY <1>1 DEF HasLimit
<1>6. a.status \in Statuses
  BY <1>1, <1>2 DEF Statuses
<1> QED BY <1>3, <1>4, <1>5, <1>6 DEF Good, a

LEMMA MinOfTwo == \A m, n \in Int : Min({m, n}) \in Int /\ Min({m, n}) <= m /\ Min({m, n}) <= n
<1> TAKE m, n \in Int
<1>1. Min({m, n}) = IF m <= n THEN m ELSE n
  BY DEF Min
<1> QED BY <1>1

\* No more rows leave than the limit allows.
LEMMA RowsAreGood ==
  ASSUME NEW r, Sound(r), ~BadLimit(r), NEW n \in Int
  PROVE Good(r, Rows(r, n))
<1> DEFINE a == Rows(r, n)
<1>1. a.status = 200 /\ a.fault = "nothing"
  BY DEF Rows, Status, NoAnswer
<1> HIDE DEF a
<1>2. HasLimit(r, a)
  <2> DEFINE l == Limit(r)
  <2> SUFFICES ASSUME r.op.cut.kind # "all", r.op.cut.kind # "ignored",
                      r.op.cut.kind # "if_given" \/ r.limit # Absent
               PROVE Count(a) <= l + (IF r.op.cut.kind = "one_over" THEN 1 ELSE 0)
    BY SoundIs DEF HasLimit, MayCut, Tables
  <2>1. r.op.cut.kind \in {"page", "first", "top", "one_over", "if_given"}
    BY SoundIs DEF IsCut, CutKinds
  <2>2. l \in Nat /\ r.skip \in Int
    BY <2>1, SoundIs DEF BadLimit, Declares, Limit, IsCut
  <2>a. l = Limit(r)
    OBVIOUS
  <2> HIDE DEF l
  <2>3. CASE r.op.cut.kind = "page"
    <3> DEFINE last == 1 + r.skip + l - 1
    <3>0. last \in Int
      BY <2>2
    <3>1. a.from = 1 + r.skip /\ a.to = Min({n, last})
      BY <2>a, <2>2, <2>3 DEF Rows, Status, NoAnswer, IsCutAtLimit, Declares, a
    <3> HIDE DEF last
    <3>2. a.to \in Int /\ a.to <= last
      BY <3>0, <3>1, MinOfTwo
    <3> QED BY <3>1, <3>2, <2>2, <2>3 DEF Count, last
  <2>4. CASE r.op.cut.kind \in {"first", "top", "if_given"}
    <3> DEFINE last == 1 + l - 1
    <3>0. last \in Int
      BY <2>2
    <3>1. a.from = 1 /\ a.to = Min({n, last})
      BY <2>a, <2>2, <2>4 DEF Rows, Status, NoAnswer, IsCutAtLimit, Declares, a
    <3> HIDE DEF last
    <3>2. a.to \in Int /\ a.to <= last
      BY <3>0, <3>1, MinOfTwo
    <3> QED BY <3>1, <3>2, <2>2, <2>4 DEF Count, last
  <2>5. CASE r.op.cut.kind = "one_over"
    <3> DEFINE last == l + 1
    <3>0. last \in Int
      BY <2>2
    <3>1. a.from = 1 /\ a.to = Min({n, last})
      BY <2>a, <2>2, <2>5 DEF Rows, Status, NoAnswer, IsCutAtLimit, Declares, a
    <3> HIDE DEF last
    <3>2. a.to \in Int /\ a.to <= last
      BY <3>0, <3>1, MinOfTwo
    <3> QED BY <3>1, <3>2, <2>2, <2>5 DEF Count, last
  <2> QED BY <2>1, <2>3, <2>4, <2>5
<1>3. HasYear(r, a) /\ HasBlame(r, a)
  BY <1>1 DEF HasYear, HasBlame
<1> QED BY <1>1, <1>2, <1>3 DEF Good, Statuses, a

\* An accepted limit is not negative.
LEMMA AcceptedLimit ==
  ASSUME NEW r, Sound(r), ~BadLimit(r)
  PROVE r.limit = Absent \/ r.op.cut.kind = "all" \/ r.limit >= 0
  BY SoundIs DEF BadLimit, Declares, IsCut, CutKinds

LEMMA NoneIsGood ==
  ASSUME NEW r, Sound(r), ~BadLimit(r), r.op.none # 200
  PROVE Good(r, Failed(r.op.none, "none"))
<1> DEFINE a == Failed(r.op.none, "none")
<1>1. a.status = r.op.none /\ a.fault = "none" /\ a.status # 200
  BY DEF Failed, NoAnswer
<1>2. r.op.none \in {0, 404} /\ (r.surface # "worker" => r.op.none = 404)
  BY SoundIs
<1> QED BY <1>1, <1>2 DEF Good, Statuses, HasLimit, HasYear, HasBlame, IsError

LEMMA FaultsAreGood ==
  ASSUME NEW r, Sound(r), ~BadLimit(r), NEW fault \in {"refused", "garbage", "outage"}
  PROVE Good(r, Failed(FaultStatus(r, fault), fault))
<1> DEFINE s == FaultStatus(r, fault)
           a == Failed(s, fault)
<1>1. a.status = s /\ a.fault = fault /\ a.from = 1 /\ a.to = 0
  BY DEF Failed, NoAnswer
<1> HIDE DEF a, s
<1>2. r.op.any \in {0, 404, 500, 503}
  BY SoundIs DEF MayAny
<1>3. s \in {IsError, 200, 400, 404, 500, 503}
  BY <1>2 DEF FaultStatus, s
<1>4. HasLimit(r, a)
  BY <1>1, AcceptedLimit, NoRowsAreGood
<1>5. HasYear(r, a)
  BY <1>1, <1>3 DEF HasYear, IsError
<1>6. HasBlame(r, a)
  <2>1. r.op.how \in {"stream", "isolated"} => r.op.name \in FailsQuietly
    BY SoundIs DEF MayHow, FailsQuietly
  <2>2. CASE r.surface = "worker"
    <3>1. s # 200
      BY <2>2 DEF FaultStatus, IsError, s
    <3> QED BY <3>1, <2>2, <1>1 DEF HasBlame
  <2>3. CASE r.op.name \in FailsQuietly
    BY <2>3 DEF HasBlame
  <2>4. CASE r.surface # "worker" /\ r.op.name \notin FailsQuietly /\ r.op.any # 0
    <3>1. s = r.op.any
      BY <2>1, <2>4 DEF FaultStatus, s
    <3>2. MayAny(s, r.op.name) /\ s \in {404, 500, 503}
      BY <3>1, <2>4, <1>2, SoundIs
    <3>3. /\ s # 200 /\ (s >= 500 \/ r.op.name \in TakesAnyForUnknown)
          /\ s \in 400 .. 499 \/ r.op.name \in {"/b3/quotes", "/registry/meta"}
      BY <3>2 DEF MayAny, TakesAnyForUnknown
    <3> QED BY <3>3, <1>1 DEF HasBlame
  <2>5. CASE r.surface # "worker" /\ r.op.name \notin FailsQuietly /\ r.op.any = 0
    <3>1. s = IF fault \in {"refused", "garbage"} THEN 400 ELSE 500
      BY <2>1, <2>5 DEF FaultStatus, s
    <3>2. /\ s # 200 /\ (fault = "outage" => s >= 500) /\ (fault = "garbage" => s = 400)
          /\ fault = "refused" => s \in 400 .. 499
      BY <3>1
    <3> QED BY <3>2, <1>1 DEF HasBlame
  <2> QED BY <2>2, <2>3, <2>4, <2>5
<1>7. a.status \in Statuses
  BY <1>1, <1>3 DEF Statuses
<1> QED BY <1>4, <1>5, <1>6, <1>7 DEF Good, a, s

-----------------------------------------------------------------------------
(* The steps                                                                  *)

LEMMA SurfaceStart == SurfaceInit => SurfaceIInv
  BY YearsAreNat DEF SurfaceInit, SurfaceIInv, Years

\* A reply keeps the invariant when its answer is good.
LEMMA RepliesKeep ==
  ASSUME SurfaceIInv, stage # "idle", NEW a, Reply(a), Good(req, a), calls' \in Nat,
         calls' <= Len(req.op.asks)
  PROVE SurfaceIInv'
<1>1. /\ boot' = boot /\ year' = year /\ guarded' = guarded /\ req' = req
      /\ answer' = a /\ stage' = "answered"
  BY DEF Reply
<1>2. Sound(req)' /\ Years'
  BY <1>1 DEF SurfaceIInv, Sound, LastYear, Years
<1>3. Good(req, answer)'
  BY <1>1 DEF Good, HasLimit, HasYear, HasBlame
<1> QED BY <1>1, <1>2, <1>3 DEF SurfaceIInv

\* Every step of the server keeps the invariant.
LEMMA SurfaceStep == SurfaceIInv /\ [SurfaceNext]_surfaceVars => SurfaceIInv'
<1> SUFFICES ASSUME SurfaceIInv, [SurfaceNext]_surfaceVars PROVE SurfaceIInv'
  OBVIOUS
<1> USE YearsAreNat
<1>1. CASE NewYear
  <2>1. Years'
    BY <1>1 DEF NewYear, SurfaceIInv, Years
  <2> QED BY <1>1, <2>1 DEF NewYear, SurfaceIInv
<1>2. CASE Restart
  <2>1. Years'
    BY <1>2 DEF Restart, SurfaceIInv, Years
  <2> QED BY <1>2, <2>1 DEF Restart, SurfaceIInv
<1>3. CASE Receive
  <2>1. PICK surface \in {"rest", "mcp", "worker"} : req' \in Requests(surface)
    BY <1>3 DEF Receive
  <2>2. Sound(req')
    BY <2>1, RequestsAreSound DEF SurfaceIInv, Years
  <2>3. Sound(req)' /\ Years'
    BY <1>3, <2>2 DEF Receive, SurfaceIInv, Sound, LastYear, Years
  <2> QED BY <1>3, <2>3 DEF Receive, SurfaceIInv
<1>4. CASE Validate
  <2>0. stage = "received" /\ calls = 0 /\ Sound(req) /\ Years /\ Len(req.op.asks) \in Nat
    BY <1>4, SoundIs DEF Validate, SurfaceIInv
  <2>1. PICK extra \in BOOLEAN, over \in BOOLEAN :
          IF Refusal(req, extra, over) # 200
          THEN Reply(Status(Refusal(req, extra, over))) /\ UNCHANGED calls
          ELSE stage' = "asking" /\ UNCHANGED <<boot, year, guarded, req, calls, answer>>
    BY <1>4 DEF Validate
  <2>2. CASE Refusal(req, extra, over) # 200
    <3>1. Len(req.op.asks) >= 0
      BY <2>0
    <3> QED BY <2>0, <2>1, <2>2, <3>1, RefusalsAreGood, RepliesKeep
  <2>3. CASE Refusal(req, extra, over) = 200
    <3>1. ~BadLimit(req)
      BY <2>3 DEF Refusal, IsError
    <3>2. Sound(req)' /\ Years' /\ ~BadLimit(req)'
      BY <2>0, <2>1, <2>3, <3>1 DEF Sound, LastYear, Years
    <3> QED BY <2>0, <2>1, <2>3, <3>2 DEF SurfaceIInv
  <2> QED BY <2>2, <2>3
<1> DEFINE Asking ==
      /\ stage = "asking" /\ Sound(req) /\ Years /\ ~BadLimit(req) /\ calls \in Nat
      /\ Len(req.op.asks) \in Nat /\ (calls = 0 \/ calls < Len(req.op.asks))
<1>a. stage = "asking" => Asking
  BY SoundIs DEF SurfaceIInv
<1>5. CASE AnswerTable
  <2>1. Asking /\ Tables(req) /\ calls <= Len(req.op.asks)
    BY <1>5, <1>a DEF AnswerTable, Tables
  <2> DEFINE a == [Status(200) EXCEPT !.to = 1]
  <2>2. a.status = 200 /\ a.fault = "nothing"
    BY DEF Status, NoAnswer
  <2> HIDE DEF a
  <2>3. Good(req, a)
    BY <2>1, <2>2 DEF Good, Statuses, HasLimit, HasYear, HasBlame
  <2> QED BY <1>5, <2>1, <2>3, RepliesKeep DEF AnswerTable, a
<1>6. CASE Ask
  <2>1. Asking /\ calls' = calls + 1 /\ calls' < Len(req.op.asks)
    BY <1>6, <1>a DEF Ask
  <2>2. Sound(req)' /\ Years' /\ ~BadLimit(req)'
    BY <1>6, <2>1 DEF Ask, Sound, LastYear, Years
  <2> QED BY <1>6, <2>1, <2>2 DEF Ask, SurfaceIInv
<1>7. CASE SourceAnswers
  <2>1. Asking /\ calls' = calls + 1 /\ calls' = Len(req.op.asks)
    BY <1>7, <1>a DEF SourceAnswers
  <2>2. PICK n \in SourceCounts(req) : Reply(Rows(req, n))
    BY <1>7 DEF SourceAnswers
  <2>3. n \in Int
    <3>1. Limit(req) \in Int
      BY <2>1, SoundIs DEF Limit, IsCut
    <3> QED BY <3>1 DEF SourceCounts
  <2>4. Good(req, Rows(req, n))
    BY <2>1, <2>3, RowsAreGood
  <2> QED BY <2>1, <2>2, <2>4, RepliesKeep
<1>8. CASE SourceHasNone
  <2>1. Asking /\ calls' = calls + 1 /\ calls' <= Len(req.op.asks)
    BY <1>8, <1>a DEF SourceHasNone
  <2> QED BY <1>8, <2>1, NoneIsGood, RepliesKeep DEF SourceHasNone
<1>9. CASE SourceFails
  <2>1. Asking /\ calls' = calls + 1 /\ calls' <= Len(req.op.asks)
    BY <1>9, <1>a DEF SourceFails
  <2> QED BY <1>9, <2>1, FaultsAreGood, RepliesKeep DEF SourceFails
<1>10. CASE ExtraMissing
  <2>1. Asking /\ calls' = calls + 1 /\ Len(req.op.asks) = 1
    BY <1>10, <1>a, SoundIs DEF ExtraMissing, MayHow
  <2> DEFINE a == Failed(503, "extra")
  <2>2. a.status = 503 /\ a.fault = "extra"
    BY DEF Failed, NoAnswer
  <2> HIDE DEF a
  <2>3. Good(req, a)
    BY <2>2 DEF Good, Statuses, HasLimit, HasYear, HasBlame
  <2> QED BY <1>10, <2>1, <2>3, RepliesKeep DEF ExtraMissing, a
<1>11. CASE Finish
  BY <1>11 DEF Finish, SurfaceIInv, Years
<1>12. CASE UNCHANGED surfaceVars
  <2>1. Years' /\ (stage # "idle" => Sound(req)')
    BY <1>12 DEF surfaceVars, SurfaceIInv, Years, Sound, LastYear
  <2>2. stage = "answered" => Good(req, answer)'
    BY <1>12 DEF surfaceVars, SurfaceIInv, Good, HasLimit, HasYear, HasBlame
  <2> QED BY <1>12, <2>1, <2>2 DEF surfaceVars, SurfaceIInv
<1> QED
  BY <1>1, <1>2, <1>3, <1>4, <1>5, <1>6, <1>7, <1>8, <1>9, <1>10, <1>11, <1>12 DEF SurfaceNext

LEMMA SurfaceInvariant == SurfaceSpec => []SurfaceIInv
  BY SurfaceStart, SurfaceStep, PTL DEF SurfaceSpec

\* The variables of the server have their types, and no more sources are called
\* than the operation asks.
THEOREM ServerIsTyped == SurfaceSpec => []SurfaceTypeOK
<1>1. SurfaceIInv => SurfaceTypeOK
  <2> SUFFICES ASSUME SurfaceIInv PROVE SurfaceTypeOK
    OBVIOUS
  <2>1. stage # "idle" => req # NoRequest
    <3>1. NoRequest.surface = "none"
      BY DEF NoRequest
    <3> QED BY <3>1 DEF SurfaceIInv, Sound
  <2>2. answer.status \in {Absent} \cup Statuses
    <3>1. NoAnswer.status = Absent
      BY DEF NoAnswer
    <3> QED BY <3>1 DEF SurfaceIInv, Good
  <2>3. calls <= (IF stage = "idle" THEN 0 ELSE Len(req.op.asks))
    <3>1. stage # "idle" => Len(req.op.asks) \in Nat
      BY SoundIs DEF SurfaceIInv
    <3> QED BY <3>1 DEF SurfaceIInv
  <2> QED BY <2>1, <2>2, <2>3 DEF SurfaceIInv, SurfaceTypeOK, Statuses, Years
<1> QED BY <1>1, SurfaceInvariant, PTL

\* No answer is longer than the limit its request was accepted with, for every
\* operation of the three tables but those the property names.
THEOREM LimitsAreKept == SurfaceSpec => []LimitKept
<1>1. SurfaceIInv => LimitKept
  BY DEF SurfaceIInv, LimitKept, Good, HasLimit
<1> QED BY <1>1, SurfaceInvariant, PTL

\* A right request for the current year is refused only by a REST route of a
\* process that has run through New Year, however many years go by.
THEOREM YearsAreCurrent == SurfaceSpec => []YearIsCurrent
<1>1. SurfaceIInv => YearIsCurrent
  BY DEF SurfaceIInv, YearIsCurrent, Good, HasYear, NoMargin
<1> QED BY <1>1, SurfaceInvariant, PTL

\* No operation blames the caller for an outage, or the server for an argument
\* a source refuses, but those the property names.
THEOREM BlameIsAlwaysJust == SurfaceSpec => []BlameIsJust
<1>1. SurfaceIInv => BlameIsJust
  BY DEF SurfaceIInv, BlameIsJust, Good, HasBlame
<1> QED BY <1>1, SurfaceInvariant, PTL

-----------------------------------------------------------------------------
(* The commands of the command line                                           *)

CommandFields == {"name", "asks", "std", "min", "max", "catches"}
IsCommand(c) == DOMAIN c = CommandFields /\ c = [field \in CommandFields |-> c[field]]

\* A cut that leaves rows out is noted, or its command is known for its silence.
CutFits(cut, name) ==
  /\ cut.side \in {"all", "first", "last", "told"} /\ cut.cap \in Nat /\ cut.noted \in BOOLEAN
  /\ cut.noted => cut.side \in {"first", "last"}
  /\ cut.side \in {"first", "last"} => cut.noted \/ name \in QuietCuts
CutsFit(c) ==
  /\ IsCommand(c) /\ Len(c.asks) \in Nat /\ (c.asks = << >> \/ Len(c.asks) > 0)
  /\ \A i \in 1 .. Len(c.asks) : CutFits(c.asks[i].cut, c.name)

\* A number of rows the caller chooses is one at least, but for three commands
\* without a note.
TakesSlices == {"tesouro/history", "anbima/debentures", "anbima/tpf"}
IsByOption(cut) == cut.cap = ByOption /\ cut.side \in {"first", "last"}
OptionFits(cut, c) ==
  IsByOption(cut) => c.std >= 1 /\ (c.min >= 1 \/ (c.name \in TakesSlices /\ ~cut.noted))
CommandFits(c) ==
  /\ CutsFit(c) /\ c.std \in Int /\ c.min \in Int /\ c.max \in Int
  /\ \A i \in 1 .. Len(c.asks) : OptionFits(c.asks[i].cut, c)

NoneByOption(c) == \A i \in 1 .. Len(c.asks) : ~IsByOption(c.asks[i].cut)
NoneNoted(c) == \A i \in 1 .. Len(c.asks) : ~c.asks[i].cut.noted
NoOption(c) == c.std = 0 /\ c.min = 0 /\ c.max = 0

LEMMA EveryFits == \A name : CutFits(Every, name) /\ ~IsByOption(Every) /\ ~Every.noted
  BY DEF Every, CutFits, IsByOption, ByOption
LEMMA ToldFits == \A name : CutFits(Told, name) /\ ~IsByOption(Told) /\ ~Told.noted
  BY DEF Told, CutFits, IsByOption, ByOption
LEMMA NotedFits ==
  \A cap \in Nat : \A name :
    /\ CutFits(Noted(FirstRows(cap)), name) /\ CutFits(Noted(LastRows(cap)), name)
    /\ cap # 0 => ~IsByOption(Noted(FirstRows(cap))) /\ ~IsByOption(Noted(LastRows(cap)))
  BY DEF Noted, FirstRows, LastRows, CutFits, IsByOption, ByOption
LEMMA QuietFits ==
  \A cap \in Nat : \A name :
    /\ name \in QuietCuts => CutFits(FirstRows(cap), name) /\ CutFits(LastRows(cap), name)
    /\ cap # 0 => ~IsByOption(FirstRows(cap)) /\ ~IsByOption(LastRows(cap))
    /\ ~FirstRows(cap).noted /\ ~LastRows(cap).noted
  BY DEF FirstRows, LastRows, CutFits, IsByOption, ByOption

LEMMA PrintsFit ==
  \A name : CommandFits(Prints(name)) /\ CutsFit(Prints(name)) /\ NoneByOption(Prints(name)) /\ Prints(name).name = name
<1> TAKE name
<1>1. IsCommand(Prints(name)) /\ Prints(name).name = name
  BY DEF Prints, IsCommand, CommandFields
<1>2. Prints(name).asks = << >> /\ Prints(name).std = 0 /\ Prints(name).min = 0 /\ Prints(name).max = 0
  BY DEF Prints
<1>3. 1 .. Len(<< >>) = {} /\ Len(<< >>) \in Nat
  OBVIOUS
<1> QED BY <1>1, <1>2, <1>3 DEF CommandFits, CutsFit, NoneByOption
LEMMA CommandIs ==
  \A name, asks :
    LET c == Command(name, asks) IN IsCommand(c) /\ c.name = name /\ c.asks = asks /\ NoOption(c)
  BY DEF Prints, Command, IsCommand, CommandFields, NoOption
LEMMA OneAsk ==
  ASSUME NEW name, NEW source, NEW cut, NEW empty, CutFits(cut, name)
  PROVE LET c == Command(name, <<Asks(source, cut, empty)>>) IN
        /\ CutsFit(c) /\ NoOption(c) /\ c.name = name
        /\ ~IsByOption(cut) => NoneByOption(c)
        /\ ~cut.noted => NoneNoted(c)
<1> DEFINE asks == <<Asks(source, cut, empty)>>
           c == Command(name, asks)
<1>1. IsCommand(c) /\ c.name = name /\ c.asks = asks /\ NoOption(c)
  BY CommandIs
<1>2. Len(asks) = 1 /\ asks[1].cut = cut
  BY DEF Asks
<1>3. \A i \in 1 .. Len(c.asks) : c.asks[i].cut = cut
  BY <1>1, <1>2
<1> HIDE DEF c
<1>4. CutsFit(c)
  BY <1>1, <1>2, <1>3 DEF CutsFit
<1>5. (~IsByOption(cut) => NoneByOption(c)) /\ (~cut.noted => NoneNoted(c))
  BY <1>3 DEF NoneByOption, NoneNoted
<1> QED BY <1>1, <1>4, <1>5 DEF c
LEMMA StoppingFits ==
  \A name, source, cut :
    CutFits(cut, name) =>
      LET c == Stopping(name, source, cut) IN
      /\ CutsFit(c) /\ NoOption(c) /\ c.name = name
      /\ ~IsByOption(cut) => NoneByOption(c)
      /\ ~cut.noted => NoneNoted(c)
  BY OneAsk DEF Stopping
LEMMA ShowingFits ==
  \A name, source, cut :
    CutFits(cut, name) =>
      LET c == Showing(name, source, cut) IN
      /\ CutsFit(c) /\ NoOption(c) /\ c.name = name
      /\ ~IsByOption(cut) => NoneByOption(c)
      /\ ~cut.noted => NoneNoted(c)
  BY OneAsk DEF Showing

LEMMA PlainFits == \A c : CutsFit(c) /\ NoOption(c) /\ NoneByOption(c) => CommandFits(c)
  BY DEF CommandFits, NoOption, NoneByOption, OptionFits
\* What the options change.
LEMMA OptionIs ==
  ASSUME NEW c, CutsFit(c), NEW std, NEW min, NEW max
  PROVE LET o == Option(c, std, min, max) IN
        /\ CutsFit(o) /\ o.name = c.name /\ o.asks = c.asks
        /\ o.std = std /\ o.min = min /\ o.max = max
<1> DEFINE o == Option(c, std, min, max)
<1>1. IsCommand(c)
  BY DEF CutsFit
<1>2. IsCommand(o) /\ o.name = c.name /\ o.asks = c.asks /\ o.std = std /\ o.min = min /\ o.max = max
  BY <1>1 DEF Option, IsCommand, CommandFields
<1> HIDE DEF o
<1>3. CutsFit(o)
  BY <1>2 DEF CutsFit
<1> QED BY <1>2, <1>3 DEF o
LEMMA OptionFit ==
  \A c, std, min, max :
    CutsFit(c) /\ std \in Int /\ min \in Int /\ max \in Int /\ std >= 1 /\ min >= 1 =>
      CommandFits(Option(c, std, min, max))
  BY OptionIs DEF CommandFits, OptionFits
LEMMA FreeOptionFits ==
  \A c, std :
    CutsFit(c) /\ std \in Int /\ (NoneByOption(c) \/ (std >= 1 /\ c.name \in TakesSlices /\ NoneNoted(c))) =>
      CommandFits(FreeOption(c, std))
<1> TAKE c, std
<1> HAVE CutsFit(c) /\ std \in Int /\ (NoneByOption(c) \/ (std >= 1 /\ c.name \in TakesSlices /\ NoneNoted(c)))
<1>1. AnyInt \in Int /\ 0 - AnyInt \in Int
  BY SMT DEF AnyInt
<1> DEFINE o == Option(c, std, 0 - AnyInt, AnyInt)
<1>2. CutsFit(o) /\ o.name = c.name /\ o.asks = c.asks /\ o.std = std /\ o.min = 0 - AnyInt /\ o.max = AnyInt
  BY OptionIs
<1> HIDE DEF o
<1>3. \A i \in 1 .. Len(o.asks) : OptionFits(o.asks[i].cut, o)
  BY <1>2 DEF OptionFits, NoneByOption, NoneNoted
<1>4. CommandFits(o)
  BY <1>1, <1>2, <1>3 DEF CommandFits
<1> QED BY <1>4 DEF FreeOption, o
LEMMA CatchingFits ==
  \A c, faults : CommandFits(c) => CommandFits(Catching(c, faults))
<1> TAKE c, faults
<1> HAVE CommandFits(c)
<1> DEFINE o == Catching(c, faults)
<1>1. IsCommand(c)
  BY DEF CommandFits, CutsFit
<1>2. IsCommand(o) /\ o.name = c.name /\ o.asks = c.asks /\ o.std = c.std /\ o.min = c.min /\ o.max = c.max
  BY <1>1 DEF Catching, IsCommand, CommandFields
<1> HIDE DEF o
<1>3. CommandFits(o)
  BY <1>2 DEF CommandFits, CutsFit, OptionFits
<1> QED BY <1>3 DEF o

\* One rule for each shape of a row.
LEMMA StoppingPlain ==
  \A name, source, cut :
    CutFits(cut, name) /\ ~IsByOption(cut) => CommandFits(Stopping(name, source, cut))
  BY StoppingFits, PlainFits
LEMMA StoppingOption ==
  \A name, source, cut, std, min, max :
    CutFits(cut, name) /\ std \in Nat \ {0} /\ min \in Nat \ {0} /\ max \in Nat =>
      CommandFits(Option(Stopping(name, source, cut), std, min, max))
  BY StoppingFits, OptionFit
LEMMA StoppingFree ==
  \A name, source, cut, std :
    CutFits(cut, name) /\ std \in Nat \ {0} /\ (~IsByOption(cut) \/ (name \in TakesSlices /\ ~cut.noted)) =>
      CommandFits(FreeOption(Stopping(name, source, cut), std))
  BY StoppingFits, FreeOptionFits
LEMMA ShowingPlain ==
  \A name, source, cut :
    CutFits(cut, name) /\ ~IsByOption(cut) => CommandFits(Showing(name, source, cut))
  BY ShowingFits, PlainFits
LEMMA ShowingOption ==
  \A name, source, cut, std, min, max :
    CutFits(cut, name) /\ std \in Nat \ {0} /\ min \in Nat \ {0} /\ max \in Nat =>
      CommandFits(Option(Showing(name, source, cut), std, min, max))
  BY ShowingFits, OptionFit
LEMMA ShowingFree ==
  \A name, source, cut, std :
    CutFits(cut, name) /\ std \in Nat \ {0} /\ (~IsByOption(cut) \/ (name \in TakesSlices /\ ~cut.noted)) =>
      CommandFits(FreeOption(Showing(name, source, cut), std))
  BY ShowingFits, FreeOptionFits
LEMMA TwoAsks ==
  \A name, s1, c1, e1, s2, c2, e2 :
    CutFits(c1, name) /\ CutFits(c2, name) /\ ~IsByOption(c1) /\ ~IsByOption(c2) =>
      CommandFits(Command(name, <<Asks(s1, c1, e1), Asks(s2, c2, e2)>>))
<1> TAKE name, s1, c1, e1, s2, c2, e2
<1> HAVE CutFits(c1, name) /\ CutFits(c2, name) /\ ~IsByOption(c1) /\ ~IsByOption(c2)
<1> DEFINE asks == <<Asks(s1, c1, e1), Asks(s2, c2, e2)>>
           c == Command(name, asks)
<1>1. IsCommand(c) /\ c.name = name /\ c.asks = asks /\ NoOption(c)
  BY CommandIs
<1>2. Len(asks) = 2 /\ asks[1].cut = c1 /\ asks[2].cut = c2
  BY DEF Asks
<1> HIDE DEF asks, c
<1>3. \A i \in 1 .. Len(c.asks) : CutFits(c.asks[i].cut, name) /\ ~IsByOption(c.asks[i].cut)
  BY <1>1, <1>2
<1>4. CutsFit(c) /\ NoneByOption(c)
  BY <1>1, <1>2, <1>3 DEF CutsFit, NoneByOption
<1> QED BY <1>1, <1>4, PlainFits DEF asks, c
LEMMA ThreeAsks ==
  \A name, s1, c1, e1, s2, c2, e2, s3, c3, e3 :
    CutFits(c1, name) /\ CutFits(c2, name) /\ CutFits(c3, name) /\ ~IsByOption(c1) /\ ~IsByOption(c2) /\ ~IsByOption(c3) =>
      CommandFits(Command(name, <<Asks(s1, c1, e1), Asks(s2, c2, e2), Asks(s3, c3, e3)>>))
<1> TAKE name, s1, c1, e1, s2, c2, e2, s3, c3, e3
<1> HAVE CutFits(c1, name) /\ CutFits(c2, name) /\ CutFits(c3, name) /\ ~IsByOption(c1) /\ ~IsByOption(c2) /\ ~IsByOption(c3)
<1> DEFINE asks == <<Asks(s1, c1, e1), Asks(s2, c2, e2), Asks(s3, c3, e3)>>
           c == Command(name, asks)
<1>1. IsCommand(c) /\ c.name = name /\ c.asks = asks /\ NoOption(c)
  BY CommandIs
<1>2. Len(asks) = 3 /\ asks[1].cut = c1 /\ asks[2].cut = c2 /\ asks[3].cut = c3
  BY DEF Asks
<1> HIDE DEF asks, c
<1>3. \A i \in 1 .. Len(c.asks) : CutFits(c.asks[i].cut, name) /\ ~IsByOption(c.asks[i].cut)
  BY <1>1, <1>2
<1>4. CutsFit(c) /\ NoneByOption(c)
  BY <1>1, <1>2, <1>3 DEF CutsFit, NoneByOption
<1> QED BY <1>1, <1>4, PlainFits DEF asks, c

\* The rows, command by command.
LEMMA BcbCommandsFit == \A c \in BcbCommands : CommandFits(c)
  BY SMTT(20), EveryFits, ToldFits, PrintsFit, StoppingPlain, ShowingFree, CatchingFits
  DEF BcbCommands
LEMMA B3CommandsFit == \A c \in B3Commands : CommandFits(c)
  BY SMTT(20), EveryFits, NotedFits, ShowingPlain, StoppingPlain
  DEF B3Commands
LEMMA B3IndexCommandsFit == \A c \in B3IndexCommands : CommandFits(c)
  BY SMTT(20), EveryFits, NotedFits, PrintsFit, StoppingPlain, StoppingOption
  DEF B3IndexCommands
LEMMA ResolveCommandFit == \A c \in ResolveCommand : CommandFits(c)
  BY SMTT(20), EveryFits, ShowingPlain
  DEF ResolveCommand
LEMMA TesouroCommandsFit == \A c \in TesouroCommands : CommandFits(c)
  BY SMTT(20), EveryFits, NotedFits, QuietFits, StoppingPlain, ShowingPlain, StoppingFree
  DEF TesouroCommands, QuietCuts, TakesSlices, ByOption
LEMMA ReceitaAneelSusepCommandsFit == \A c \in ReceitaAneelSusepCommands : CommandFits(c)
  BY SMTT(20), NotedFits, QuietFits, StoppingPlain
  DEF ReceitaAneelSusepCommands, QuietCuts
LEMMA RegistryIbgeCommandsFit == \A c \in RegistryIbgeCommands : CommandFits(c)
  BY SMTT(20), EveryFits, ToldFits, ShowingPlain, StoppingOption, ShowingFree
  DEF RegistryIbgeCommands
LEMMA AnbimaCommandsFit == \A c \in AnbimaCommands : CommandFits(c)
  BY SMTT(20), EveryFits, QuietFits, StoppingPlain, StoppingFree
  DEF AnbimaCommands, QuietCuts, TakesSlices, ByOption
LEMMA IpeaCommandsFit == \A c \in IpeaCommands : CommandFits(c)
  BY SMTT(20), ToldFits, PrintsFit, StoppingFree
  DEF IpeaCommands
LEMMA OpenFinanceCommandsFit == \A c \in OpenFinanceCommands : CommandFits(c)
  BY SMTT(20), EveryFits, NotedFits, PrintsFit, StoppingPlain, ShowingOption
  DEF OpenFinanceCommands, ByOption
LEMMA CvmFundCommandsFit == \A c \in CvmFundCommands : CommandFits(c)
  BY SMTT(20), EveryFits, ToldFits, NotedFits, QuietFits, StoppingPlain, StoppingOption, ThreeAsks
  DEF CvmFundCommands, QuietCuts, ByOption
LEMMA CvmStructuredCommandsFit == \A c \in CvmStructuredCommands : CommandFits(c)
  BY SMTT(20), QuietFits, StoppingPlain, TwoAsks, ThreeAsks
  DEF CvmStructuredCommands, QuietCuts
LEMMA CvmCompanyCommandsFit == \A c \in CvmCompanyCommands : CommandFits(c)
  BY SMTT(20), NotedFits, QuietFits, StoppingPlain, TwoAsks
  DEF CvmCompanyCommands, QuietCuts
LEMMA BaseDosDadosCommandsFit == \A c \in BaseDosDadosCommands : CommandFits(c)
  BY SMTT(20), EveryFits, PrintsFit, OptionFit, ShowingPlain
  DEF BaseDosDadosCommands
LEMMA BaseDosDadosSdkCommandsFit == \A c \in BaseDosDadosSdkCommands : CommandFits(c)
  BY SMTT(20), EveryFits, ToldFits, ShowingPlain, StoppingOption, ShowingOption, CatchingFits
  DEF BaseDosDadosSdkCommands
LEMMA YahooCommandsFit == \A c \in YahooCommands : CommandFits(c)
  BY SMTT(20), QuietFits, ShowingPlain
  DEF YahooCommands, QuietCuts
LEMMA CommandsFit == \A c \in Commands : CommandFits(c)
  BY SMTT(20), BcbCommandsFit, B3CommandsFit, B3IndexCommandsFit, ResolveCommandFit,
     TesouroCommandsFit, ReceitaAneelSusepCommandsFit, RegistryIbgeCommandsFit, AnbimaCommandsFit,
     IpeaCommandsFit, OpenFinanceCommandsFit, CvmFundCommandsFit, CvmStructuredCommandsFit,
     CvmCompanyCommandsFit, BaseDosDadosCommandsFit, BaseDosDadosSdkCommandsFit, YahooCommandsFit
  DEF Commands

-----------------------------------------------------------------------------
(* One run of a command                                                       *)

ShownRows == [had : Nat, from : Int, to : Int, said : BOOLEAN]
\* A table as Shows makes it, of the rows of the question it answers.
IsShown(s, cut) == s \in ShownRows /\ s = Shows(cut, s.had)
CliIInv ==
  /\ CommandFits(command) /\ given \in Accepts(command)
  /\ exit \in {"running", "done", "empty", "usage", "error", "traceback"}
  /\ given = NotGiven \/ exit = "usage" \/ given \in command.min .. command.max
  /\ shown \in Seq(ShownRows) /\ Len(shown) <= Len(command.asks)
  /\ exit = "running" => Len(shown) < Len(command.asks)
  /\ exit = "usage" => shown = << >>
  /\ exit = "empty" => shown # << >> /\ FoundNone(command.asks[Len(shown)], shown[Len(shown)])
  /\ \A i \in 1 .. Len(shown) : IsShown(shown[i], command.asks[i].cut)

LEMMA MinAndMax ==
  \A m, n \in Int :
    /\ Min({m, n}) = IF m <= n THEN m ELSE n
    /\ Max({m, n}) = IF m >= n THEN m ELSE n
<1> TAKE m, n \in Int
<1>1. Min({m, n}) = IF m <= n THEN m ELSE n
  BY DEF Min
<1>2. Max({m, n}) = IF m >= n THEN m ELSE n
  BY DEF Max
<1> QED BY <1>1, <1>2
LEMMA KeptFirst ==
  \A k \in Int, had \in Nat :
    Kept("first", k, had)[1] = 1 /\ Kept("first", k, had)[2] \in Int
    /\ IF k >= 0 THEN Kept("first", k, had)[2] = (IF k <= had THEN k ELSE had)
       ELSE Kept("first", k, had)[2] = (IF had + k >= 0 THEN had + k ELSE 0)
<1> TAKE k \in Int, had \in Nat
<1> DEFINE to == IF k >= 0 THEN Min({k, had}) ELSE Max({0, had + k})
<1>1. Kept("first", k, had) = <<1, to>>
  BY DEF Kept
<1>2. Min({k, had}) = IF k <= had THEN k ELSE had
  BY MinAndMax
<1> DEFINE rest == had + k
<1>3. rest \in Int
  OBVIOUS
<1> HIDE DEF rest
<1>4. Max({0, rest}) = IF 0 >= rest THEN 0 ELSE rest
  BY <1>3, MinAndMax
<1> USE DEF rest
<1> QED BY <1>1, <1>2, <1>4
LEMMA KeptLast ==
  \A k \in Int, had \in Nat :
    Kept("last", k, had)[2] = had /\ Kept("last", k, had)[1] \in Int
    /\ IF k > 0 THEN Kept("last", k, had)[1] = (IF 1 >= had - k + 1 THEN 1 ELSE had - k + 1)
       ELSE Kept("last", k, had)[1] = (IF had <= 0 - k THEN had ELSE 0 - k) + 1
<1> TAKE k \in Int, had \in Nat
<1> DEFINE from == IF k > 0 THEN Max({1, had - k + 1}) ELSE Min({had, 0 - k}) + 1
           rest == had - k + 1
           less == 0 - k
<1>1. Kept("last", k, had) = <<from, had>>
  BY DEF Kept
<1>2. rest \in Int /\ less \in Int
  OBVIOUS
<1> HIDE DEF rest, less
<1>3. Max({1, rest}) = IF 1 >= rest THEN 1 ELSE rest
  BY <1>2, MinAndMax
<1>4. Min({had, less}) = IF had <= less THEN had ELSE less
  BY <1>2, MinAndMax
<1> USE DEF rest, less
<1> QED BY <1>1, <1>3, <1>4
LEMMA KeptAll ==
  \A k, had : Kept("all", k, had) = <<1, had>> /\ Kept("told", k, had) = <<1, had>>
  BY DEF Kept

\* What a table shows, by the side of its cut.
LEMMA ShowsIs ==
  ASSUME NEW cut, NEW had \in Nat, Cap(cut) \in Int, NEW name, CutFits(cut, name)
  PROVE LET s == Shows(cut, had) IN
        /\ s \in ShownRows /\ s.had = had
        /\ s.said = (cut.noted /\ had > Cap(cut))
        /\ cut.side \in {"all", "told"} => s.from = 1 /\ s.to = had
        /\ cut.side = "first" =>
             s.from = 1 /\ s.to = (IF Cap(cut) >= 0 THEN IF Cap(cut) <= had THEN Cap(cut) ELSE had
                                   ELSE IF had + Cap(cut) >= 0 THEN had + Cap(cut) ELSE 0)
        /\ cut.side = "last" =>
             s.to = had /\ s.from = (IF Cap(cut) > 0
                                     THEN IF 1 >= had - Cap(cut) + 1 THEN 1 ELSE had - Cap(cut) + 1
                                     ELSE (IF had <= 0 - Cap(cut) THEN had ELSE 0 - Cap(cut)) + 1)
<1> DEFINE s == Shows(cut, had)
           k == Cap(cut)
           kept == Kept(cut.side, k, had)
<1>1. s = [had |-> had, from |-> kept[1], to |-> kept[2], said |-> cut.noted /\ had > k]
  BY DEF Shows
<1>2. cut.side \in {"all", "first", "last", "told"} /\ cut.noted \in BOOLEAN
  BY DEF CutFits
<1> HIDE DEF s, k
<1>3. k \in Int
  BY DEF k
<1>4. kept[1] \in Int /\ kept[2] \in Int
  <2>1. CASE cut.side = "first"
    BY <2>1, <1>3, KeptFirst
  <2>2. CASE cut.side = "last"
    BY <2>2, <1>3, KeptLast
  <2>3. CASE cut.side \in {"all", "told"}
    BY <2>3, KeptAll
  <2> QED BY <1>2, <2>1, <2>2, <2>3
<1>5. s.had = had /\ s.from = kept[1] /\ s.to = kept[2] /\ s.said = (cut.noted /\ had > k)
  BY <1>1
<1>6. s \in ShownRows
  <2>1. (cut.noted /\ had > k) \in BOOLEAN
    OBVIOUS
  <2> HIDE DEF kept
  <2> QED BY <1>1, <1>4, <2>1 DEF ShownRows
<1>7. cut.side = "first" =>
        s.from = 1 /\ s.to = (IF k >= 0 THEN IF k <= had THEN k ELSE had
                              ELSE IF had + k >= 0 THEN had + k ELSE 0)
  BY <1>3, <1>5, KeptFirst
<1>8. cut.side = "last" =>
        s.to = had /\ s.from = (IF k > 0 THEN IF 1 >= had - k + 1 THEN 1 ELSE had - k + 1
                                ELSE (IF had <= 0 - k THEN had ELSE 0 - k) + 1)
  BY <1>3, <1>5, KeptLast
<1>9. cut.side \in {"all", "told"} => s.from = 1 /\ s.to = had
  BY <1>5, KeptAll
<1> QED BY <1>5, <1>6, <1>7, <1>8, <1>9 DEF s, k

LEMMA CommandIsFit ==
  ASSUME NEW c, CommandFits(c)
  PROVE /\ c.std \in Int /\ c.min \in Int /\ c.max \in Int /\ Len(c.asks) \in Nat
        /\ \A i \in 1 .. Len(c.asks) : CutFits(c.asks[i].cut, c.name) /\ OptionFits(c.asks[i].cut, c)
  BY DEF CommandFits, CutsFit
LEMMA GivenIsInt ==
  ASSUME CommandFits(command), given \in Accepts(command)
  PROVE given \in Int /\ NotGiven \in Int /\ Value \in Int
<1>1. NotGiven \in Int
  BY SMT DEF NotGiven, AnyInt
<1>2. given \in Int
  BY <1>1, CommandIsFit DEF Accepts
<1> QED BY <1>1, <1>2, CommandIsFit DEF Value
LEMMA CapIsInt ==
  ASSUME CommandFits(command), given \in Accepts(command), NEW i \in 1 .. Len(command.asks)
  PROVE Cap(command.asks[i].cut) \in Int
  BY GivenIsInt, CommandIsFit DEF Cap, CutFits
LEMMA CountsAreNat ==
  ASSUME NEW cut, Cap(cut) \in Int, NEW had \in Counts(cut)
  PROVE had \in Nat
<1>1. CASE had \in {0, 1, 3}
  BY <1>1
<1>2. CASE had \in {Max({0, Cap(cut) + i}) : i \in {0, 1}}
  <2>1. PICK i \in {0, 1} : had = Max({0, Cap(cut) + i})
    BY <1>2
  <2> DEFINE n == Cap(cut) + i
  <2>2. n \in Int /\ 0 \in Int
    OBVIOUS
  <2> HIDE DEF n
  <2>3. Max({0, n}) = IF 0 >= n THEN 0 ELSE n
    BY <2>2, MinAndMax
  <2> QED BY <2>1, <2>2, <2>3 DEF n
<1> QED BY <1>1, <1>2 DEF Counts

LEMMA CliStart == CliInit => CliIInv
<1> SUFFICES ASSUME CliInit PROVE CliIInv
  OBVIOUS
<1>1. CommandFits(command) /\ given = NotGiven /\ shown = << >> /\ exit = "done"
  BY PrintsFit DEF CliInit
<1>2. << >> \in Seq(ShownRows) /\ Len(<< >>) = 0
  OBVIOUS
<1>3. Len(command.asks) \in Nat
  BY <1>1, CommandIsFit
<1> QED BY <1>1, <1>2, <1>3 DEF CliIInv, Accepts

\* Every step of a run keeps the invariant.
LEMMA CliStep == CliIInv /\ [CliNext]_cliVars => CliIInv'
<1> SUFFICES ASSUME CliIInv, [CliNext]_cliVars PROVE CliIInv'
  OBVIOUS
<1>1. CASE Start
  <2>1. /\ command' \in Commands /\ given' \in Accepts(command') /\ shown' = << >>
        /\ exit' = IF given' # NotGiven /\ given' \notin command'.min .. command'.max THEN "usage"
                   ELSE IF command'.asks = << >> THEN "done" ELSE "running"
    BY <1>1 DEF Start
  <2>2. CommandFits(command')
    BY <2>1, CommandsFit
  <2>3. Len(command'.asks) \in Nat /\ << >> \in Seq(ShownRows) /\ Len(<< >>) = 0
    BY <2>2, CommandIsFit
  <2>4. command'.asks # << >> => Len(command'.asks) > 0
    BY <2>2 DEF CommandFits, CutsFit
  <2>5. Accepts(command)' = Accepts(command') /\ NotGiven' = NotGiven
    BY DEF Accepts, NotGiven
  <2> QED BY <2>1, <2>2, <2>3, <2>4, <2>5 DEF CliIInv
<1>2. CASE RowsCome
  <2> DEFINE n == Len(shown) + 1
             cut == Current.cut
  <2>1. /\ command' = command /\ given' = given /\ exit = "running"
        /\ n \in 1 .. Len(command.asks) /\ Current = command.asks[n]
    BY <1>2, CommandIsFit DEF RowsCome, CliIInv, Current
  <2>2. Cap(cut) \in Int /\ CutFits(cut, command.name)
    BY <2>1, CapIsInt, CommandIsFit DEF CliIInv
  <2>3. PICK had \in Counts(cut) :
          LET s == Shows(cut, had) IN
          /\ shown' = Append(shown, s)
          /\ exit' = IF FoundNone(Current, s) THEN "empty"
                     ELSE IF Len(shown) + 1 = Len(command.asks) THEN "done" ELSE "running"
    BY <1>2 DEF RowsCome
  <2>4. had \in Nat
    BY <2>2, CountsAreNat
  <2> DEFINE s == Shows(cut, had)
  <2>5. s \in ShownRows /\ s.had = had
    BY <2>2, <2>4, ShowsIs
  <2>6. IsShown(s, command.asks[n].cut)
    BY <2>1, <2>5 DEF IsShown
  <2> HIDE DEF s, n
  <2>7. /\ shown' = Append(shown, s) /\ shown' \in Seq(ShownRows) /\ Len(shown') = n
        /\ shown'[n] = s /\ \A i \in 1 .. Len(shown) : shown'[i] = shown[i]
    BY <2>3, <2>5 DEF CliIInv, s, n
  <2>8. exit' = IF FoundNone(command.asks[n], s) THEN "empty"
                ELSE IF n = Len(command.asks) THEN "done" ELSE "running"
    BY <2>1, <2>3 DEF s, n
  <2>9. \A i \in 1 .. Len(shown') : IsShown(shown'[i], command.asks[i].cut)
    BY <2>6, <2>7 DEF CliIInv, n
  <2>10. /\ \A i \in 1 .. Len(shown') : IsShown(shown[i], command.asks[i].cut)'
         /\ FoundNone(command.asks[Len(shown)], shown[Len(shown)])' = FoundNone(command.asks[n], s)
         /\ Accepts(command)' = Accepts(command)
    <3>1. \A c, h : Shows(c, h)' = Shows(c, h)
      BY <2>1 DEF Shows, Cap, Value
    <3>2. \A r, c : IsShown(r, c)' = IsShown(r, c)
      BY <3>1 DEF IsShown
    <3> QED BY <2>1, <2>7, <2>9, <3>2 DEF FoundNone, IsShown, Accepts
  <2>11. Len(shown') <= Len(command.asks) /\ Len(command.asks) \in Nat /\ n \in Nat
    BY <2>1, <2>7, CommandIsFit DEF CliIInv
  <2>12. shown' # << >>
    BY <2>7, <2>11, <2>1
  <2> QED BY <2>1, <2>7, <2>8, <2>10, <2>11, <2>12 DEF CliIInv
<1>3. CASE SourceRaises
  BY <1>3 DEF SourceRaises, CliIInv, Accepts, IsShown, Shows, Cap, Value, CommandFits, CutsFit
<1>4. CASE UNCHANGED cliVars
  BY <1>4 DEF cliVars, CliIInv, Accepts, IsShown, Shows, Cap, Value, FoundNone
<1> QED BY <1>1, <1>2, <1>3, <1>4 DEF CliNext

LEMMA CliInvariant == CliSpec => []CliIInv
  BY CliStart, CliStep, PTL DEF CliSpec

\* The variables of the command line have their types: no run asks more sources
\* than its command has, and no table shows a row that is not there.
THEOREM CommandLineIsTyped == CliSpec => []CliTypeOK
<1>1. CliIInv => CliTypeOK
  <2> SUFFICES ASSUME CliIInv PROVE CliTypeOK
    OBVIOUS
  <2>1. ASSUME NEW i \in DOMAIN shown PROVE shown[i].from >= 1 /\ shown[i].to <= shown[i].had
    <3> DEFINE cut == command.asks[i].cut
               had == shown[i].had
    <3>1. i \in 1 .. Len(command.asks) /\ IsShown(shown[i], cut)
      BY <2>1, CommandIsFit DEF CliIInv
    <3>2. had \in Nat /\ shown[i] = Shows(cut, had)
      BY <3>1 DEF IsShown, ShownRows
    <3>3. Cap(cut) \in Int /\ CutFits(cut, command.name)
      BY <3>1, CapIsInt, CommandIsFit DEF CliIInv
    <3> HIDE DEF cut, had
    <3>4. cut.side \in {"all", "first", "last", "told"}
      BY <3>3 DEF CutFits
    <3> QED BY <3>2, <3>3, <3>4, ShowsIs
  <2> QED BY <2>1 DEF CliIInv, CliTypeOK
<1> QED BY <1>1, CliInvariant, PTL

\* A table that leaves rows out says so, or the caller chose how many, and then it
\* shows no more than that; a note is true, and a command that says that nothing
\* matched found nothing: for every command, but those the property names, every
\* option and any number of rows.
THEOREM TablesAreAlwaysHonest == CliSpec => []TablesAreHonest
<1>1. CliIInv => TablesAreHonest
  <2> SUFFICES ASSUME CliIInv, NEW i \in DOMAIN shown
               PROVE LET cut == command.asks[i].cut IN
                     /\ shown[i].said => Length(shown[i]) < shown[i].had
                     /\ Length(shown[i]) < shown[i].had =>
                          shown[i].said \/ given # NotGiven \/ command.name \in QuietCuts
                     /\ given # NotGiven /\ cut.cap = ByOption /\ cut.side \notin {"told", "all"} =>
                          Length(shown[i]) <= given \/ ReadAsSlice
                     /\ exit = "empty" /\ i = Len(shown) => shown[i].had = 0 \/ ReadAsSlice
    BY DEF TablesAreHonest
  <2> DEFINE cut == command.asks[i].cut
             had == shown[i].had
             k == Cap(cut)
  <2>1. i \in 1 .. Len(shown) /\ i \in 1 .. Len(command.asks) /\ IsShown(shown[i], cut)
    BY CommandIsFit DEF CliIInv
  <2>2. had \in Nat /\ shown[i] = Shows(cut, had)
    BY <2>1 DEF IsShown, ShownRows
  <2>3. k \in Int /\ CutFits(cut, command.name) /\ OptionFits(cut, command)
    BY <2>1, CapIsInt, CommandIsFit DEF CliIInv
  <2>4. /\ given \in Int /\ command.std \in Int /\ command.min \in Int
        /\ given = NotGiven \/ command.min <= given
    <3>1. exit # "usage"
      BY <2>1 DEF CliIInv
    <3> QED BY <3>1, GivenIsInt, CommandIsFit DEF CliIInv
  \* What the table says and shows, by the side of its cut.
  <2>5. /\ shown[i].said = (cut.noted /\ had > k)
        /\ cut.side \in {"all", "told"} => Length(shown[i]) = had
        /\ cut.side \in {"first", "last"} /\ k > 0 => Length(shown[i]) = (IF k <= had THEN k ELSE had)
        /\ cut.side = "first" => Length(shown[i]) \in Int
    BY <2>2, <2>3, ShowsIs DEF Length
  <2>6. cut.side \in {"all", "first", "last", "told"} /\ cut.noted \in BOOLEAN /\ cut.cap \in Nat
    BY <2>3 DEF CutFits
  \* The number of rows is one at least, but where it is read as a slice.
  <2>7. cut.side \in {"first", "last"} => k > 0 \/ (given # NotGiven /\ ReadAsSlice /\ ~cut.noted)
    <3>1. CASE ~IsByOption(cut)
      BY <3>1, <2>6 DEF IsByOption, Cap, ByOption
    <3>2. CASE IsByOption(cut)
      <4>1. k = (IF given = NotGiven THEN command.std ELSE given)
        BY <3>2 DEF IsByOption, Cap, Value
      <4>2. command.std >= 1 /\ (command.min >= 1 \/ (command.name \in TakesSlices /\ ~cut.noted))
        BY <3>2, <2>3 DEF OptionFits
      <4> QED BY <4>1, <4>2, <2>4 DEF ReadAsSlice, TakesSlices
    <3> QED BY <3>1, <3>2
  <2>8. cut.side \in {"first", "last"} /\ cut.cap = ByOption /\ given # NotGiven => k = given
    BY DEF Cap, Value
  <2>9. cut.noted => cut.side \in {"first", "last"}
    BY <2>3 DEF CutFits
  <2>10. cut.side \in {"first", "last"} => cut.noted \/ command.name \in QuietCuts
    BY <2>3 DEF CutFits
  <2>11. exit = "empty" /\ i = Len(shown) =>
           had = 0 \/ (cut.side = "first" /\ Length(shown[i]) = 0)
    BY DEF CliIInv, FoundNone
  <2> HIDE DEF cut, had, k
  <2>12. shown[i].said => Length(shown[i]) < had
    <3> SUFFICES ASSUME shown[i].said PROVE Length(shown[i]) < had
      OBVIOUS
    <3>1. cut.noted /\ had > k
      BY <2>5
    <3>2. cut.side \in {"first", "last"} /\ k > 0
      BY <3>1, <2>7, <2>9
    <3> QED BY <2>2, <2>3, <2>5, <3>1, <3>2
  <2>13. Length(shown[i]) < had => shown[i].said \/ given # NotGiven \/ command.name \in QuietCuts
    BY <2>2, <2>3, <2>5, <2>6, <2>7, <2>10
  <2>14. given # NotGiven /\ cut.cap = ByOption /\ cut.side \notin {"told", "all"} =>
           Length(shown[i]) <= given \/ ReadAsSlice
    BY <2>2, <2>3, <2>5, <2>6, <2>7, <2>8
  <2>15. exit = "empty" /\ i = Len(shown) => had = 0 \/ ReadAsSlice
    BY <2>2, <2>3, <2>5, <2>7, <2>11
  <2> QED BY <2>12, <2>13, <2>14, <2>15 DEF cut, had
<1> QED BY <1>1, CliInvariant, PTL
=============================================================================
