----------------------------- MODULE FundLookup -----------------------------
(* The other two datasets of cvm_fund that are searched, in Python and in the *)
(* Worker: the catalogue (the register's files of funds, their classes and    *)
(* the subclasses of these, joined by the places of the rows) and the         *)
(* holdings (the blocks of one month's ZIP archive). The Worker reads lines,  *)
(* and stops at caps of its own.                                              *)
EXTENDS Integers, Sequences, FiniteSets
Ext == INSTANCE SequencesExt   \* named: FundQuotes has definitions of these names

CONSTANTS Lists,          \* the register's three files
          Zips,           \* the archives: sequences of blocks
          LookupLimits,   \* the limits asked for
          CatalogCap      \* CATALOG_CLASS_CAP of the Worker

VARIABLES asked, lists, zip, \* what is asked for, and the files it meets
          entry, holdings,  \* the entries of the archive that were read, and the rows kept of them
          found             \* the answer

lookupVars == <<asked, lists, zip, entry, holdings, found>>

\* A row of the register is a hit if it has the CNPJ that is asked for or, in a
\* search by name, the fragment. A line of a block is of the fund that is asked for,
\* of a holder of its quotas, whose line names the CNPJ too, or of another fund.
LineKinds == {"own", "holder", "other"}
Blocks == {"BLC_1", "BLC_2"}
Register == [funds : Seq([hit : BOOLEAN]), classes : Seq([fund : Nat, hit : BOOLEAN]),
             subs : Seq([class : Nat, hit : BOOLEAN])]

ASSUME LookupAssumption ==
  /\ LookupLimits \subseteq Nat \ {0} /\ CatalogCap \in Nat \ {0}
  /\ Lists \subseteq Register
  /\ Zips \subseteq Seq([label : Blocks, lines : Seq(LineKinds)])

Requested ==
  [surface : {"python", "worker"}, limit : LookupLimits, by : {"cnpj", "q", "neither"}, dataset : {"catalog"}]
  \cup [surface : {"python", "worker"}, limit : LookupLimits, by : {"cnpj", "neither"}, dataset : {"holdings"},
     blocks : {Blocks, {"BLC_1"}, {"BLC_2"}}]

NotFound == [kind |-> "none", funds |-> << >>, classes |-> {}, subs |-> {}, rows |-> << >>, truncated |-> FALSE]

NoLists == [funds |-> << >>, classes |-> << >>, subs |-> << >>]

Reads(dataset) == asked.dataset = dataset /\ asked.by # "neither"

\* Each dataset reads an archive of its own.
LookupInit ==
  /\ asked \in Requested /\ found = NotFound
  /\ lists \in IF Reads("catalog") THEN Lists ELSE {NoLists}
  /\ zip \in IF Reads("holdings") THEN Zips ELSE {<< >>}
  /\ entry = 0 /\ holdings = << >>

Upto(s, n) == SubSeq(s, 1, Ext!Min({n, Len(s)}))
\* Those of the places of a file that are wanted, in order: the k-th is the one that
\* k of them do not come after.
Places(file, wanted) ==
  LET these == wanted \cap DOMAIN file
      Rank(i) == Cardinality({j \in these : j <= i})
  IN [k \in 1 .. Cardinality(these) |-> CHOOSE i \in these : Rank(i) = k]
Funds(wanted) == Places(lists.funds, wanted)
HitFunds == {i \in DOMAIN lists.funds : lists.funds[i].hit}
HitClasses == {c \in DOMAIN lists.classes : lists.classes[c].hit}
HitSubs == {s \in DOMAIN lists.subs : lists.subs[s].hit}
FundsOf(classes) == {lists.classes[c].fund : c \in classes}
\* A subclass may be of a class that the file of classes does not have.
ClassesOf(subs) == {lists.subs[s].class : s \in subs} \cap DOMAIN lists.classes

Catalogued(funds, classes, subs) ==
  [NotFound EXCEPT !.kind = "catalog", !.funds = funds,
     !.classes = {c \in classes : lists.classes[c].fund \in Ext!ToSet(funds)},
     !.subs = {s \in subs : lists.subs[s].class \in classes /\ lists.classes[lists.subs[s].class].fund \in Ext!ToSet(funds)}]

-----------------------------------------------------------------------------
(* The register in Python                                                     *)

AllClasses == DOMAIN lists.classes
AllSubs == DOMAIN lists.subs

ByPart_NoSubclasses == FundsOf(HitClasses)   \* (mutant) subclasses are not joined
\* The funds of which a class or a subclass has the name.
ByPart == FundsOf(HitClasses \cup ClassesOf(HitSubs))

\* The loop over the funds known by a part adds one before it looks at the limit.
_select_fundos ==
  LET hits == Upto(Funds(HitFunds), asked.limit)
      byClass == FundsOf(HitClasses)
      more == Funds(ByPart \ Ext!ToSet(hits))
  IN IF asked.by = "q" THEN hits \o Upto(more, Ext!Max({1, asked.limit - Len(hits)}))
     ELSE IF hits # << >> THEN hits
     ELSE Upto(Funds(byClass), asked.limit)

Catalog ==
  /\ found.kind = "none" /\ Reads("catalog") /\ asked.surface = "python"
  /\ found' = Catalogued(_select_fundos, AllClasses, AllSubs)
  /\ UNCHANGED <<asked, lists, zip, entry, holdings>>

-----------------------------------------------------------------------------
(* The register in the Worker: each file is scanned anew, up to a cap.        *)

Scan(file, wanted) == Ext!ToSet(Upto(Places(file, wanted), CatalogCap))

\* The funds that are found and, of them and some more, the classes that are read.
CatalogByCnpj ==
  LET own == Upto(Funds(HitFunds), Ext!Max({asked.limit, CatalogCap}))
      byClass == FundsOf(Scan(lists.classes, HitClasses))
  IN [funds |-> IF own # << >> THEN own ELSE Upto(Funds(byClass), asked.limit),
      keep |-> Ext!ToSet(own) \cup byClass]

CatalogByName ==
  LET named == Upto(Funds(HitFunds), asked.limit)
      parents == ClassesOf(Scan(lists.subs, HitSubs))
      extra == FundsOf(Scan(lists.classes, HitClasses) \cup Scan(lists.classes, parents))
      all == named \o Upto(Funds(extra \ Ext!ToSet(named)), asked.limit)
  IN [funds |-> all, keep |-> Ext!ToSet(all)]

CatalogWorker ==
  /\ found.kind = "none" /\ Reads("catalog") /\ asked.surface = "worker"
  /\ LET hit == IF asked.by = "cnpj" THEN CatalogByCnpj ELSE CatalogByName
         classes == Scan(lists.classes, {c \in AllClasses : lists.classes[c].fund \in hit.keep})
         subs == Scan(lists.subs, {s \in AllSubs : lists.subs[s].class \in classes})
     IN found' = Catalogued(Upto(hit.funds, asked.limit), classes, subs)
  /\ UNCHANGED <<asked, lists, zip, entry, holdings>>

-----------------------------------------------------------------------------
(* The holdings                                                               *)

LinesOf(b, kinds) == {i \in DOMAIN zip[b].lines : zip[b].lines[i] \in kinds}

\* In the Worker a block's scan stops after as many lines with the CNPJ as rows are
\* still wanted; only then those of other funds are dropped.
Named(b) ==
  LET lines == LinesOf(b, {"own", "holder"})
  IN IF asked.surface = "python" THEN lines
     ELSE Ext!ToSet(Upto(Places(zip[b].lines, lines), asked.limit - Len(holdings)))

\* The fund's own rows of a block, as pairs of places.
FromBlock(b) ==
  LET at == Places(zip[b].lines, Named(b) \cap LinesOf(b, {"own"})) IN [k \in DOMAIN at |-> <<b, at[k]>>]

ReadEnough == asked.surface = "worker" /\ Len(holdings) >= asked.limit

ReadEntry ==
  /\ found.kind = "none" /\ Reads("holdings") /\ entry < Len(zip) /\ ~ReadEnough
  /\ entry' = entry + 1
  /\ holdings' = IF zip[entry'].label \in asked.blocks THEN holdings \o FromBlock(entry') ELSE holdings
  /\ UNCHANGED <<asked, lists, zip, found>>

AnswerHoldings ==
  /\ found.kind = "none" /\ Reads("holdings") /\ (entry = Len(zip) \/ ReadEnough)
  /\ found' = [NotFound EXCEPT !.kind = "holdings", !.rows = holdings, !.truncated = ReadEnough]
  /\ UNCHANGED <<asked, lists, zip, entry, holdings>>

-----------------------------------------------------------------------------
\* Neither a CNPJ nor a name, or holdings without a CNPJ.
RefuseLookup ==
  /\ found.kind = "none" /\ asked.by = "neither"
  /\ found' = [NotFound EXCEPT !.kind = "refused"]
  /\ UNCHANGED <<asked, lists, zip, entry, holdings>>

FetchFails ==
  /\ found.kind = "none" /\ asked.by # "neither"
  /\ found' = [NotFound EXCEPT !.kind = "failed"]
  /\ UNCHANGED <<asked, lists, zip, entry, holdings>>

LookupNext == Catalog \/ CatalogWorker \/ ReadEntry \/ AnswerHoldings \/ RefuseLookup \/ FetchFails

LookupSpec == LookupInit /\ [][LookupNext]_lookupVars

-----------------------------------------------------------------------------
LookupTypeOK ==
  /\ asked \in Requested /\ lists \in Register /\ zip \in Seq([label : Blocks, lines : Seq(LineKinds)])
  /\ entry \in 0 .. Len(zip) /\ holdings \in Seq(Nat \X Nat)
  /\ found.kind \in {"none", "catalog", "holdings", "refused", "failed"}
  /\ found.funds \in Seq(DOMAIN lists.funds) /\ found.classes \subseteq AllClasses /\ found.subs \subseteq AllSubs
  /\ found.rows \in {<< >>, holdings} /\ found.truncated \in BOOLEAN
  /\ found.kind = "none" => found = NotFound

\* What a request is about: the funds with the CNPJ or, if there are none, those of
\* the classes with it; or the funds with the name in any part of them.
Due ==
  LET funds == DOMAIN lists.funds
  IN IF asked.by = "q" THEN HitFunds \cup {i \in funds : i \in ByPart}
     ELSE IF HitFunds # {} THEN HitFunds
     ELSE {i \in funds : \E c \in HitClasses : lists.classes[c].fund = i}

\* A scan of the Worker has reached its cap.
Capped ==
  LET More(S) == Cardinality(S) > CatalogCap
      classes == {c \in AllClasses : lists.classes[c].fund \in CatalogByName.keep \cup CatalogByCnpj.keep}
      parents == {c \in AllClasses : \E s \in HitSubs : lists.subs[s].class = c}
  IN asked.surface = "worker" /\
     (More(classes) \/ More({s \in AllSubs : lists.subs[s].class \in classes}) \/ More(parents)
      \/ More(HitClasses) \/ More(HitSubs))

\* The fund's own lines in the blocks that were asked for.
OwnLines == UNION {{b} \X LinesOf(b, {"own"}) : b \in {b \in DOMAIN zip : zip[b].label \in asked.blocks}}

\* Rows come as the blocks do and, in a block, as its lines.
InOrder(rows) ==
  \A k, l \in DOMAIN rows : k < l =>
    rows[k][1] < rows[l][1] \/ (rows[k][1] = rows[l][1] /\ rows[k][2] < rows[l][2])

\* A search of the register serves each fund that it is about once, all of them
\* if there are fewer than the limit, with all its classes and their subclasses;
\* and holdings are the fund's own rows of the blocks that were asked for, in order, all of
\* them unless the Worker says that it truncated them. The code's exceptions: one
\* fund more than the limit, found by a part after names alone filled it; what the
\* caps of the Worker cut; and holders of the fund's quotas in the same file.
LookupIsWhole ==
  /\ found.kind = "catalog" =>
       LET served == Ext!ToSet(found.funds)
           over == asked.surface = "python" /\ asked.by = "q" /\ Len(Funds(HitFunds)) >= asked.limit
       IN /\ served \subseteq Due /\ Cardinality(served) = Len(found.funds)
          /\ Len(found.funds) <= asked.limit + (IF over THEN 1 ELSE 0)
          /\ Capped \/
               /\ Len(found.funds) < asked.limit => served = Due
               /\ found.classes = {c \in AllClasses : lists.classes[c].fund \in served}
               /\ found.subs = {s \in AllSubs : lists.subs[s].class \in found.classes}
  /\ found.kind = "holdings" =>
       /\ InOrder(found.rows) /\ Ext!ToSet(found.rows) \subseteq OwnLines
       /\ Ext!ToSet(found.rows) = OwnLines
          \/ (asked.surface = "worker" /\ (found.truncated \/ \E b \in DOMAIN zip : "holder" \in Ext!ToSet(zip[b].lines)))

\* "scans every CDA block for one CNPJ": holdings that are not truncated are all
\* of the fund's rows in the blocks that were asked for.
HoldingsAreWhole ==
  found.kind = "holdings" /\ ~found.truncated => Ext!ToSet(found.rows) = OwnLines
=============================================================================
