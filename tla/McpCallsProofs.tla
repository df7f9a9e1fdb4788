--------------------------- MODULE McpCallsProofs ---------------------------
(***************************************************************************)
(* Proofs about the tools of the MCP server that keep everything in one    *)
(* call: FundQuotes, for any requests, registers and files, any limit,     *)
(* scan cap and length of the window; CodeMode, for any number of          *)
(* processes; FundLookup, for any register, archive, limit and cap; and    *)
(* their composition McpCalls.                                             *)
(***************************************************************************)
EXTENDS McpCalls, WellFoundedInduction, NaturalsInduction, FunctionTheorems, FiniteSetTheorems, TLAPS
-----------------------------------------------------------------------------
(* Months.                                                                 *)

\* AddMonths gives a month, as far away as it is told.
LEMMA AddMonthsIsExact ==
  ASSUME NEW m \in Months, NEW d \in Int
  PROVE  AddMonths(m, d) \in Months /\ Absolute(AddMonths(m, d)) = Absolute(m) + d
<1> DEFINE a == Absolute(m) + d
<1>1. a \in Int
  BY DEF Absolute, Months
<1>2. a \div 12 \in Int /\ a % 12 \in 0..11 /\ a = 12 * (a \div 12) + (a % 12)
  BY <1>1
<1>3. AddMonths(m, d) = <<a \div 12, (a % 12) + 1>>
  BY DEF AddMonths
<1> HIDE DEF a
<1>4. AddMonths(m, d) \in Months
  BY <1>2, <1>3 DEF Months
<1>5. Absolute(AddMonths(m, d)) = a
  <2>1. AddMonths(m, d)[1] = a \div 12 /\ AddMonths(m, d)[2] = (a % 12) + 1
    BY <1>3
  <2> QED BY <1>1, <1>2, <2>1 DEF Absolute
<1> QED BY <1>4, <1>5 DEF a

\* A month is known by its number.
LEMMA AbsoluteIsInjective ==
  ASSUME NEW m \in Months, NEW n \in Months, Absolute(m) = Absolute(n)
  PROVE  m = n
<1>1. PICK y \in Int, i \in 1..12 : m = <<y, i>>
  BY DEF Months
<1>2. PICK z \in Int, j \in 1..12 : n = <<z, j>>
  BY DEF Months
<1>3. Absolute(m) = y * 12 + (i - 1) /\ Absolute(n) = z * 12 + (j - 1)
  BY <1>1, <1>2 DEF Absolute
<1>4. y * 12 + (i - 1) = z * 12 + (j - 1)
  BY <1>3
<1>5. y = z /\ i = j
  BY <1>4
<1> QED BY <1>1, <1>2, <1>5

\* The number of a month is an integer.
LEMMA AbsoluteType ==
  ASSUME NEW m \in Months
  PROVE  Absolute(m) \in Int
BY DEF Absolute, Months
-----------------------------------------------------------------------------
(* Rows, and the first of them.                                            *)

\* What the archive's files are.
ArchiveOK == archive \in Archives

Rows == UNION {RowsOf(m) : m \in DOMAIN archive}

\* A row is a line of its month's file, known by its place.
LEMMA RowFacts ==
  ASSUME ArchiveOK, NEW r \in Rows
  PROVE  /\ r.month \in DOMAIN archive
         /\ r.month \in Months
         /\ Absolute(r.month) \in Int
         /\ r \in RowsOf(r.month)
         /\ r.pos \in 1..Len(archive[r.month])
         /\ Len(archive[r.month]) \in Nat
         /\ r.pos \in Nat
<1>1. PICK m \in DOMAIN archive : r \in RowsOf(m)
  BY DEF Rows
<1>2. PICK i \in DOMAIN archive[m] :
        r = [month |-> m, pos |-> i, cnpj |-> archive[m][i].cnpj, day |-> archive[m][i].day,
             sub |-> archive[m][i].sub]
  BY <1>1 DEF RowsOf
<1>3. r.month = m /\ r.pos = i
  BY <1>2
<1>4. m \in Months /\ Len(archive[m]) \in Nat /\ DOMAIN archive[m] = 1..Len(archive[m])
  BY ArchivesAssumption DEF ArchiveOK
<1>5. Absolute(m) \in Int
  BY <1>4, AbsoluteType
<1> QED BY <1>1, <1>2, <1>3, <1>4, <1>5

\* A line of a published file is a row of its month.
LEMMA RowsOfAreRows ==
  ASSUME NEW m \in DOMAIN archive, NEW r \in RowsOf(m)
  PROVE  r \in Rows /\ r.month = m
BY DEF Rows, RowsOf

\* Two rows at one place are one.
LEMMA SameRow ==
  ASSUME ArchiveOK, NEW r \in Rows, NEW q \in Rows, r.month = q.month, r.pos = q.pos
  PROVE  r = q
<1>1. r \in RowsOf(r.month) /\ q \in RowsOf(r.month)
  BY RowFacts
<1> QED BY <1>1 DEF RowsOf

\* The rows of a file are finitely many.
LEMMA FilesAreFinite ==
  ASSUME ArchiveOK, NEW m \in DOMAIN archive
  PROVE  IsFiniteSet(RowsOf(m))
<1> DEFINE row(i) == [month |-> m, pos |-> i, cnpj |-> archive[m][i].cnpj,
                      day |-> archive[m][i].day, sub |-> archive[m][i].sub]
           f == [i \in DOMAIN archive[m] |-> row(i)]
<1>1. Len(archive[m]) \in Nat /\ DOMAIN archive[m] = 1..Len(archive[m])
  BY ArchivesAssumption DEF ArchiveOK
<1>2. IsFiniteSet(DOMAIN archive[m])
  <2>1. \A n \in Nat : IsFiniteSet(1..n)
    BY FS_Interval
  <2> QED BY <1>1, <2>1
<1>3. RowsOf(m) = {row(i) : i \in DOMAIN archive[m]}
  BY DEF RowsOf
<1>4. f \in Surjection(DOMAIN archive[m], RowsOf(m))
  <2> HIDE DEF row
  <2> QED BY <1>3 DEF Surjection
<1> QED BY <1>2, <1>4, FS_Surjection

\* Rows are totally ordered.
LEMMA BeforeIsTotal ==
  ASSUME ArchiveOK
  PROVE  /\ \A r \in Rows : ~Before(r, r)
         /\ \A r, q \in Rows : r = q \/ Before(r, q) \/ Before(q, r)
         /\ \A p, q, r \in Rows : Before(p, q) /\ Before(q, r) => Before(p, r)
<1>1. ASSUME NEW r \in Rows PROVE ~Before(r, r)
  BY <1>1, RowFacts DEF Before
<1>2. ASSUME NEW r \in Rows, NEW q \in Rows PROVE r = q \/ Before(r, q) \/ Before(q, r)
  <2>1. Absolute(r.month) = Absolute(q.month) => r.month = q.month
    BY <1>2, RowFacts, AbsoluteIsInjective
  <2>2. r.month = q.month /\ r.pos = q.pos => r = q
    BY <1>2, SameRow
  <2>3. r.pos \in Nat /\ q.pos \in Nat /\ Absolute(r.month) \in Int /\ Absolute(q.month) \in Int
    BY <1>2, RowFacts
  <2> QED BY <2>1, <2>2, <2>3 DEF Before
<1>3. ASSUME NEW p \in Rows, NEW q \in Rows, NEW r \in Rows, Before(p, q), Before(q, r)
      PROVE  Before(p, r)
  <2>1. /\ p.pos \in Nat /\ q.pos \in Nat /\ r.pos \in Nat
        /\ Absolute(p.month) \in Int /\ Absolute(q.month) \in Int /\ Absolute(r.month) \in Int
    BY <1>3, RowFacts
  <2> QED BY <1>3, <2>1 DEF Before
<1> QED BY <1>1, <1>2, <1>3

\* Cutting at n leaves at most n rows, and all of them when there are not more.
LEMMA FirstIsCut ==
  ASSUME ArchiveOK, NEW R, R \subseteq Rows, IsFiniteSet(R), NEW n \in Nat \ {0}
  PROVE  /\ First(R, n) \subseteq R
         /\ IsFiniteSet(First(R, n))
         /\ Cardinality(First(R, n)) <= n
         /\ Cardinality(R) <= n => First(R, n) = R
<1> DEFINE earlier(r) == {q \in R : Before(q, r)}
           f == [r \in First(R, n) |-> Cardinality(earlier(r))]
<1>1. \A r \in R : IsFiniteSet(earlier(r)) /\ Cardinality(earlier(r)) \in Nat
  BY FS_Subset, FS_CardinalityType
<1>2. First(R, n) = {r \in R : Cardinality(earlier(r)) < n}
  BY DEF First
<1>3. First(R, n) \subseteq R /\ IsFiniteSet(First(R, n))
  BY <1>2, FS_Subset
<1>4. \A r, q \in R : Before(r, q) => Cardinality(earlier(r)) < Cardinality(earlier(q))
  <2> SUFFICES ASSUME NEW r \in R, NEW q \in R, Before(r, q)
               PROVE  Cardinality(earlier(r)) < Cardinality(earlier(q))
    OBVIOUS
  <2>1. earlier(r) \subseteq earlier(q)
    BY BeforeIsTotal
  <2>2. r \in earlier(q) /\ r \notin earlier(r)
    BY BeforeIsTotal
  <2>3. Cardinality(earlier(r)) <= Cardinality(earlier(q)) /\ Cardinality(earlier(r)) # Cardinality(earlier(q))
    <3> HIDE DEF earlier
    <3>1. earlier(r) \in SUBSET earlier(q) /\ earlier(r) # earlier(q)
      BY <2>1, <2>2
    <3> QED BY <1>1, <3>1, FS_Subset
  <2> QED BY <1>1, <2>3
<1>5. f \in Injection(First(R, n), 0..(n - 1))
  <2>1. f \in [First(R, n) -> 0..(n - 1)]
    BY <1>1, <1>2
  <2>2. ASSUME NEW r \in First(R, n), NEW q \in First(R, n), f[r] = f[q]
        PROVE  r = q
    <3>1. r \in R /\ q \in R /\ r \in Rows /\ q \in Rows
      BY <1>3
    <3>2. Cardinality(earlier(r)) = Cardinality(earlier(q))
      BY <2>2
    <3>3. ~Before(r, q) /\ ~Before(q, r)
      BY <1>1, <1>4, <3>1, <3>2
    <3> QED BY <3>1, <3>3, BeforeIsTotal
  <2> HIDE DEF f
  <2> QED BY <2>1, <2>2 DEF Injection, IsInjective
<1>6. IsFiniteSet(0..(n - 1)) /\ Cardinality(0..(n - 1)) = n
  BY FS_Interval
<1>7. Cardinality(First(R, n)) <= n
  BY <1>5, <1>6, FS_Injection
<1>8. ASSUME Cardinality(R) <= n PROVE First(R, n) = R
  <2>1. ASSUME NEW r \in R PROVE Cardinality(earlier(r)) < n
    <3>1. earlier(r) \in SUBSET R /\ r \notin earlier(r)
      BY BeforeIsTotal
    <3>2. earlier(r) # R
      BY <3>1
    <3> HIDE DEF earlier
    <3>3. Cardinality(earlier(r)) <= Cardinality(R) /\ Cardinality(earlier(r)) # Cardinality(R)
      BY <3>1, <3>2, FS_Subset
    <3>4. Cardinality(R) \in Nat /\ Cardinality(earlier(r)) \in Nat
      BY <1>1, FS_CardinalityType
    <3> QED BY <1>8, <3>3, <3>4
  <2> QED BY <1>2, <2>1
<1> QED BY <1>3, <1>7, <1>8

\* A set of natural numbers has a least element.
LEMMA Least ==
  ASSUME NEW T \in SUBSET Nat, T # {}
  PROVE  \E x \in T : \A y \in T : x <= y
<1> DEFINE R == OpToRel(<, Nat)
<1>1. IsWellFoundedOn(R, Nat)
  BY NatLessThanWellFounded
<1>2. \A x, y \in Nat : x < y => <<x, y>> \in R
  BY DEF OpToRel
<1> HIDE DEF R
<1>3. PICK x \in T : \A y \in T : ~ (<<y, x>> \in R)
  BY <1>1, WFMin
<1>4. \A y \in T : ~ (y < x)
  BY <1>2, <1>3
<1>5. \A y \in T : x <= y
  BY <1>4
<1> QED BY <1>5

\* Rows of one file have a first and a last one.
LEMMA Ends ==
  ASSUME ArchiveOK, NEW R, R \subseteq Rows, R # {}, NEW m, \A r \in R : r.month = m
  PROVE  /\ \E r \in R : \A q \in R : ~Before(q, r)
         /\ \E r \in R : \A q \in R : ~Before(r, q)
<1> DEFINE L == Len(archive[m])
<1>1. /\ L \in Nat /\ Absolute(m) \in Int
      /\ \A r \in R : r.pos \in Nat /\ r.pos <= L
  <2>1. \A r \in R : r.pos \in 1..L /\ L \in Nat /\ Absolute(m) \in Int
    BY RowFacts
  <2> HIDE DEF L
  <2> QED BY <2>1
<1> HIDE DEF L
<1>2. \A r, q \in R : Before(r, q) <=> r.pos < q.pos
  BY <1>1 DEF Before
<1>3. \E r \in R : \A q \in R : ~Before(q, r)
  <2> DEFINE T == {r.pos : r \in R}
  <2>1. T \in SUBSET Nat /\ T # {}
    BY <1>1
  <2>2. PICK x \in T : \A y \in T : x <= y
    BY <2>1, Least
  <2>3. PICK r \in R : r.pos = x
    OBVIOUS
  <2>4. \A q \in R : r.pos <= q.pos
    BY <2>2, <2>3
  <2> QED BY <1>1, <1>2, <2>4
<1>4. \E r \in R : \A q \in R : ~Before(r, q)
  <2> DEFINE T == {L - r.pos : r \in R}
  <2>1. T \in SUBSET Nat /\ T # {}
    BY <1>1
  <2>2. PICK x \in T : \A y \in T : x <= y
    BY <2>1, Least
  <2>3. PICK r \in R : L - r.pos = x
    OBVIOUS
  <2>4. \A q \in R : L - r.pos <= L - q.pos
    BY <2>2, <2>3
  <2>5. \A q \in R : q.pos <= r.pos
    BY <1>1, <2>4
  <2> QED BY <1>1, <1>2, <2>5
<1> QED BY <1>3, <1>4

\* The row that is kept for a key has the key, and the preferred CNPJ if a row with
\* the key has it.
LEMMA ChosenIsRow ==
  ASSUME ArchiveOK, series \subseteq Rows, NEW r \in series
  PROVE  /\ Chosen(Key(r)) \in series
         /\ Key(Chosen(Key(r))) = Key(r)
         /\ r.cnpj = Prefer => Chosen(Key(r)).cnpj = Prefer
<1> DEFINE rows   == {q \in series : Key(q) = Key(r)}
           better == {q \in rows : q.cnpj = Prefer}
           last   == CHOOSE q \in better : \A p \in better : ~Before(q, p)
           first  == CHOOSE q \in rows : \A p \in rows : ~Before(p, q)
<1>1. \A q \in rows : q.month = r.month
  BY DEF Key, DateOf
<1>2. r \in rows /\ rows \subseteq Rows
  OBVIOUS
<1>3. better # {} => last \in better
  <2> SUFFICES ASSUME better # {} PROVE last \in better
    OBVIOUS
  <2>1. better \subseteq Rows /\ \A q \in better : q.month = r.month
    BY <1>1, <1>2
  <2>2. \E q \in better : \A p \in better : ~Before(q, p)
    <3> HIDE DEF better
    <3> QED BY <2>1, Ends
  <2> HIDE DEF better
  <2> QED BY <2>2
<1>4. first \in rows
  <2>1. \E q \in rows : \A p \in rows : ~Before(p, q)
    <3> HIDE DEF rows
    <3> QED BY <1>1, <1>2, Ends
  <2> HIDE DEF rows
  <2> QED BY <2>1
<1>5. Chosen(Key(r)) = IF better # {} THEN last ELSE first
  BY DEF Chosen
<1> HIDE DEF last, first
<1> QED BY <1>2, <1>3, <1>4, <1>5
-----------------------------------------------------------------------------
(* The window.                                                             *)

HasLast == \E m \in DOMAIN archive : \A n \in DOMAIN archive : Absolute(n) <= Absolute(m)

\* A request that is not refused, and whose window is known.
Asks ==
  /\ request \in Requests
  /\ ~Refused
  /\ Ranged \/ request.month # <<0, 0>> \/ HasLast

Window == IF Ranged THEN Between ELSE Lookback(Last)
Base   == IF Ranged THEN Absolute(request.start.month) - 1 ELSE Absolute(Last) - request.months
Size   == IF Ranged THEN Span ELSE request.months

\* The ends of what was asked are months.
LEMMA EndsAreMonths ==
  ASSUME ArchiveOK, Asks
  PROVE  /\ Ranged => request.start.month \in Months /\ request.end.month \in Months
         /\ ~Ranged => Last \in Months
         /\ request.months \in 1..MonthsMax
         /\ Base \in Int
         /\ Size \in 1..MonthsMax
<1>1. Ranged => request.start.month \in Months /\ request.end.month \in Months
  BY RequestsAssumption DEF Asks, Refused
<1>2. ASSUME ~Ranged PROVE Last \in Months
  <2>1. CASE request.month # <<0, 0>>
    <3>1. PICK y \in Int, i \in 0..12 : request.month = <<y, i>>
      BY RequestsAssumption DEF Asks
    <3>2. i # 0
      BY <1>2, <2>1, <3>1 DEF Asks, Refused
    <3> QED BY <1>2, <2>1, <3>1, <3>2 DEF Last, Months
  <2>2. CASE request.month = <<0, 0>>
    <3>1. HasLast
      BY <1>2, <2>2 DEF Asks
    <3>2. Last \in DOMAIN archive
      BY <1>2, <2>2, <3>1 DEF Last, HasLast
    <3> QED BY <3>2, ArchivesAssumption DEF ArchiveOK
  <2> QED BY <2>1, <2>2
<1>3. request.months \in 1..MonthsMax
  BY RequestsAssumption DEF Asks
<1>4. Base \in Int
  BY <1>1, <1>2, <1>3, AbsoluteType, LimitsAssumption DEF Base
<1>5. Size \in 1..MonthsMax
  <2>1. CASE Ranged
    <3>1. Span \in Int /\ ~(Span < 1) /\ ~(Span > MonthsMax)
      BY <1>1, <2>1, AbsoluteType DEF Asks, Refused, Span
    <3> QED BY <2>1, <3>1, LimitsAssumption DEF Size
  <2>2. CASE ~Ranged
    BY <1>3, <2>2 DEF Size
  <2> QED BY <2>1, <2>2
<1> QED BY <1>1, <1>2, <1>3, <1>4, <1>5

\* The window has the months from Base on, one after the other.
LEMMA WindowIsExact ==
  ASSUME ArchiveOK, Asks
  PROVE  /\ Window \in Seq(Months)
         /\ Len(Window) = Size
         /\ \A i \in 1..Size : Window[i] \in Months /\ Absolute(Window[i]) = Base + i
<1>1. Size \in Nat /\ Base \in Int
  BY EndsAreMonths, LimitsAssumption
<1>2. \A i \in 1..Size : Window[i] \in Months /\ Absolute(Window[i]) = Base + i
  <2>1. CASE Ranged
    <3> SUFFICES ASSUME NEW i \in 1..Size
                 PROVE  Window[i] \in Months /\ Absolute(Window[i]) = Base + i
      OBVIOUS
    <3>1. Window[i] = AddMonths(request.start.month, i - 1)
      BY <2>1 DEF Window, Between, Size
    <3>2. i - 1 \in Int /\ request.start.month \in Months /\ Absolute(request.start.month) \in Int
      BY <1>1, <2>1, EndsAreMonths, AbsoluteType
    <3>3. /\ AddMonths(request.start.month, i - 1) \in Months
          /\ Absolute(AddMonths(request.start.month, i - 1)) = Absolute(request.start.month) + (i - 1)
      BY <3>2, AddMonthsIsExact
    <3> QED BY <1>1, <2>1, <3>1, <3>2, <3>3 DEF Base
  <2>2. CASE ~Ranged
    <3> SUFFICES ASSUME NEW i \in 1..Size
                 PROVE  Window[i] \in Months /\ Absolute(Window[i]) = Base + i
      OBVIOUS
    <3>1. Window[i] = AddMonths(Last, i - request.months)
      BY <2>2 DEF Window, Lookback, Size
    <3>2. i - request.months \in Int /\ Last \in Months /\ Absolute(Last) \in Int /\ request.months \in Int
      BY <1>1, <2>2, EndsAreMonths, AbsoluteType DEF Size
    <3>3. /\ AddMonths(Last, i - request.months) \in Months
          /\ Absolute(AddMonths(Last, i - request.months)) = Absolute(Last) + (i - request.months)
      BY <3>2, AddMonthsIsExact
    <3> QED BY <1>1, <2>2, <3>1, <3>2, <3>3 DEF Base
  <2> QED BY <2>1, <2>2
<1>3. Window = [i \in 1..Size |-> Window[i]]
  BY DEF Window, Between, Lookback, Size
<1>4. [i \in 1..Size |-> Window[i]] \in Seq(Months)
  BY <1>1, <1>2
<1>5. Len([i \in 1..Size |-> Window[i]]) = Size
  BY <1>1
<1> QED BY <1>2, <1>3, <1>4, <1>5

\* A month between the ends of the window is in it.
LEMMA WindowIsComplete ==
  ASSUME ArchiveOK, Asks, NEW m \in Months, Absolute(m) \in (Base + 1)..(Base + Size)
  PROVE  \E i \in 1..Len(Window) : Window[i] = m
<1> DEFINE i == Absolute(m) - Base
<1>1. Absolute(m) \in Int /\ Base \in Int /\ Size \in Int
  BY EndsAreMonths, AbsoluteType, LimitsAssumption
<1>2. i \in 1..Size /\ Base + i = Absolute(m)
  BY <1>1
<1> HIDE DEF i
<1>3. Window[i] \in Months /\ Absolute(Window[i]) = Absolute(m) /\ Len(Window) = Size
  BY <1>2, WindowIsExact
<1>4. Window[i] = m
  BY <1>3, AbsoluteIsInjective
<1> QED BY <1>2, <1>3, <1>4
-----------------------------------------------------------------------------
(* What the steps leave alone.                                             *)

\* Request and archive determine the window.
LEMMA WindowStays ==
  ASSUME UNCHANGED <<request, archive>>
  PROVE  /\ ArchiveOK' = ArchiveOK /\ Asks' = Asks /\ Refused' = Refused /\ Ranged' = Ranged
         /\ Window' = Window /\ Last' = Last /\ Rows' = Rows
BY DEF ArchiveOK, Asks, Refused, Ranged, Window, Last, Rows, Span, Between, Lookback, HasLast,
       RowsOf, Absolute

\* Request, archive and register determine what is read of a file.
LEMMA ScanStays ==
  ASSUME UNCHANGED <<request, archive, funds>>, NEW m, NEW r
  PROVE  (r \in Scanned(m))' = (r \in Scanned(m)) /\ Wanted(r)' = Wanted(r)
BY DEF Scanned, Wanted, RowsOf, Needles, Classes, Ranged
-----------------------------------------------------------------------------
(* The invariant.                                                          *)

TypeInv ==
  /\ request \in Requests
  /\ ArchiveOK
  /\ stamps \in Seq(Months) /\ Len(stamps) <= MonthsMax
  /\ funds \in {<< >>, register}
  /\ index \in 1..(Len(stamps) + 1)
  /\ missing \cap DOMAIN archive = {}
  /\ truncated \in BOOLEAN
  /\ phase \in {"start", "register", "months", "done", "refused", "failed"}

\* After Open the months to read are the window.
WindowInv == phase \in {"register", "months", "done"} => Asks /\ stamps = Window

\* The rows of the months passed that were wanted.
ReadSoFar ==
  {r \in Rows : \E i \in 1..(index - 1) :
     stamps[i] \in DOMAIN archive /\ r \in Scanned(stamps[i]) /\ Wanted(r)}

\* As long as nothing was cut, the series is what was read of the months passed.
SeriesInv ==
  /\ IsFiniteSet(series) /\ Cardinality(series) <= Limit
  /\ series \subseteq ReadSoFar
  /\ ~truncated => ReadSoFar \subseteq series
  /\ phase \in {"start", "register"} => index = 1 /\ series = {} /\ ~truncated
  /\ phase = "done" /\ ~truncated => index = Len(stamps) + 1

Inv == TypeInv /\ WindowInv /\ SeriesInv

\* The invariant holds initially.
LEMMA InvInit == Init => Inv
<1> SUFFICES ASSUME Init PROVE Inv
  OBVIOUS
<1>1. TypeInv
  <2>1. stamps = << >> /\ index = 1 /\ truncated = FALSE
    BY DEF Init
  <2>2. stamps \in Seq(Months) /\ Len(stamps) = 0
    BY <2>1
  <2>3. Len(stamps) <= MonthsMax /\ index \in 1..(Len(stamps) + 1)
    BY <2>1, <2>2, LimitsAssumption
  <2> QED BY <2>1, <2>2, <2>3 DEF Init, TypeInv, ArchiveOK
<1>2. WindowInv
  BY DEF Init, WindowInv
<1>3. SeriesInv
  BY FS_EmptySet, LimitsAssumption DEF Init, SeriesInv, ReadSoFar
<1> QED BY <1>1, <1>2, <1>3 DEF Inv

\* Steps that read nothing keep what is said of the series.
LEMMA SeriesStays ==
  ASSUME Inv, UNCHANGED <<request, archive, funds, stamps, index, series, truncated>>,
         phase' = "done" => phase = "done" \/ (phase = "months" /\ ~Reading),
         phase' \in {"start", "register"} => phase \in {"start", "register"}
  PROVE  SeriesInv'
<1>1. ReadSoFar' = ReadSoFar
  <2>1. Rows' = Rows
    BY WindowStays
  <2>2. \A m, r : (r \in Scanned(m))' = (r \in Scanned(m)) /\ Wanted(r)' = Wanted(r)
    BY ScanStays
  <2> QED BY <2>1, <2>2 DEF ReadSoFar
<1>2. phase' = "done" /\ ~truncated' => index' = Len(stamps') + 1
  BY DEF Inv, SeriesInv, TypeInv, Reading
<1>3. phase' \in {"start", "register"} => index' = 1 /\ series' = {} /\ ~truncated'
  BY DEF Inv, SeriesInv
<1> QED BY <1>1, <1>2, <1>3 DEF Inv, SeriesInv

\* Every step keeps the invariant.
LEMMA InvStep == Inv /\ [Next]_vars => Inv'
<1> SUFFICES ASSUME Inv, [Next]_vars PROVE Inv'
  OBVIOUS
<1>1. CASE Refuse
  <2>1. TypeInv'
    BY <1>1 DEF Refuse, Inv, TypeInv, ArchiveOK
  <2>2. WindowInv'
    BY <1>1 DEF Refuse, WindowInv
  <2>3. SeriesInv'
    BY <1>1, SeriesStays DEF Refuse
  <2> QED BY <2>1, <2>2, <2>3 DEF Inv
<1>2. CASE Open
  <2>1. Asks /\ stamps' = Window
    <3>1. CASE Ranged
      BY <1>2, <3>1 DEF Open, Inv, TypeInv, Asks, Window
    <3>2. CASE ~Ranged /\ request.month # <<0, 0>>
      BY <1>2, <3>2 DEF Open, Inv, TypeInv, Asks, Window, Last
    <3>3. CASE ~Ranged /\ request.month = <<0, 0>>
      <4>1. PICK last \in DOMAIN archive :
              /\ \A m \in DOMAIN archive : Absolute(m) <= Absolute(last)
              /\ stamps' = Lookback(last)
        BY <1>2, <3>3 DEF Open
      <4>2. HasLast
        BY <4>1 DEF HasLast
      <4>3. Last \in DOMAIN archive /\ \A m \in DOMAIN archive : Absolute(m) <= Absolute(Last)
        BY <3>3, <4>2 DEF Last, HasLast
      <4>4. last \in Months /\ Last \in Months
        BY <4>1, <4>3, ArchivesAssumption DEF Inv, TypeInv, ArchiveOK
      <4>5. Absolute(last) = Absolute(Last)
        BY <4>1, <4>3, <4>4, AbsoluteType
      <4>6. last = Last
        BY <4>4, <4>5, AbsoluteIsInjective
      <4>7. Asks
        BY <1>2, <3>3, <4>2 DEF Open, Inv, TypeInv, Asks
      <4> QED BY <3>3, <4>1, <4>6, <4>7 DEF Window
    <3> QED BY <3>1, <3>2, <3>3
  <2>2. stamps' \in Seq(Months) /\ Len(stamps') <= MonthsMax /\ Len(stamps') \in Nat
    BY <2>1, WindowIsExact, EndsAreMonths, LimitsAssumption DEF Inv, TypeInv
  <2>3. index = 1
    BY <1>2 DEF Open, Inv, SeriesInv
  <2>4. TypeInv'
    BY <1>2, <2>2, <2>3 DEF Open, Inv, TypeInv, ArchiveOK
  <2>5. WindowInv'
    <3>1. Asks' = Asks /\ Window' = Window
      BY <1>2, WindowStays DEF Open
    <3> QED BY <2>1, <3>1 DEF WindowInv
  <2>6. SeriesInv'
    <3>1. ReadSoFar' = {}
      BY <1>2, <2>3 DEF Open, ReadSoFar
    <3> QED BY <1>2, <3>1 DEF Open, Inv, SeriesInv
  <2> QED BY <2>4, <2>5, <2>6 DEF Inv
<1>3. CASE ListingFails
  <2>1. TypeInv'
    BY <1>3 DEF ListingFails, Inv, TypeInv, ArchiveOK
  <2>2. WindowInv'
    BY <1>3 DEF ListingFails, WindowInv
  <2>3. SeriesInv'
    BY <1>3, SeriesStays DEF ListingFails
  <2> QED BY <2>1, <2>2, <2>3 DEF Inv
<1>4. CASE Look
  <2>1. TypeInv'
    BY <1>4 DEF Look, Inv, TypeInv, ArchiveOK
  <2>2. WindowInv'
    <3>1. Asks' = Asks /\ Window' = Window
      BY <1>4, WindowStays DEF Look
    <3> QED BY <1>4, <3>1 DEF Look, Inv, WindowInv
  <2>3. SeriesInv'
    <3>1. index = 1
      BY <1>4 DEF Look, Inv, SeriesInv
    <3>2. ReadSoFar' = {}
      BY <1>4, <3>1 DEF Look, ReadSoFar
    <3> QED BY <1>4, <3>2 DEF Look, Inv, SeriesInv
  <2> QED BY <2>1, <2>2, <2>3 DEF Inv
<1>5. CASE LookFails
  <2>1. TypeInv'
    BY <1>5 DEF LookFails, Inv, TypeInv, ArchiveOK
  <2>2. WindowInv'
    <3>1. Asks' = Asks /\ Window' = Window
      BY <1>5, WindowStays DEF LookFails
    <3> QED BY <1>5, <3>1 DEF LookFails, Inv, WindowInv
  <2>3. SeriesInv'
    BY <1>5, SeriesStays DEF LookFails
  <2> QED BY <2>1, <2>2, <2>3 DEF Inv
<1>6. CASE LookRaises
  <2>1. TypeInv'
    BY <1>6 DEF LookRaises, Inv, TypeInv, ArchiveOK
  <2>2. WindowInv'
    BY <1>6 DEF LookRaises, WindowInv
  <2>3. SeriesInv'
    BY <1>6, SeriesStays DEF LookRaises
  <2> QED BY <2>1, <2>2, <2>3 DEF Inv
<1>7. CASE ReadMonth
  <2> DEFINE m    == stamps[index]
             new  == {r \in Scanned(m) : Wanted(r)}
             kept == series \cup new
  <2>1. /\ phase = "months" /\ index \in 1..Len(stamps) /\ ~truncated /\ m \in DOMAIN archive
        /\ series' = First(kept, Limit)
        /\ truncated' = (Cardinality(kept) >= Limit)
        /\ index' = index + 1 /\ Len(stamps) \in Nat
    BY <1>7 DEF ReadMonth, Reading, Inv, TypeInv
  <2>2. UNCHANGED <<request, register, archive, stamps, funds, missing, phase>>
    BY <1>7 DEF ReadMonth
  <2>3. TypeInv'
    <3>1. truncated' \in BOOLEAN
      BY <2>1
    <3> QED BY <2>1, <2>2, <3>1 DEF Inv, TypeInv, ArchiveOK
  <2>4. WindowInv'
    <3>1. Asks' = Asks /\ Window' = Window
      BY <2>2, WindowStays
    <3> QED BY <2>2, <3>1 DEF Inv, WindowInv
  <2>5. new \subseteq RowsOf(m)
    BY DEF Scanned, First
  <2>6. kept \subseteq Rows /\ IsFiniteSet(kept)
    <3>1. IsFiniteSet(RowsOf(m))
      BY <2>1, FilesAreFinite DEF Inv, TypeInv
    <3>2. IsFiniteSet(new)
      <4> HIDE DEF new, m
      <4> QED BY <2>5, <3>1, FS_Subset
    <3>3. IsFiniteSet(kept)
      <4> HIDE DEF new, m
      <4> QED BY <3>2, FS_Union DEF Inv, SeriesInv
    <3>4. RowsOf(m) \subseteq Rows
      BY <2>1 DEF Rows
    <3> QED BY <2>5, <3>3, <3>4 DEF Inv, SeriesInv, ReadSoFar
  <2>7. /\ series' \subseteq kept
        /\ IsFiniteSet(series') /\ Cardinality(series') <= Limit
        /\ ~truncated' => series' = kept
    <3> HIDE DEF kept
    <3>1. Limit \in Nat \ {0} /\ Cardinality(kept) \in Nat
      BY <2>6, FS_CardinalityType, LimitsAssumption
    <3>2. ArchiveOK
      BY DEF Inv, TypeInv
    <3>3. /\ First(kept, Limit) \subseteq kept /\ IsFiniteSet(First(kept, Limit))
          /\ Cardinality(First(kept, Limit)) <= Limit
          /\ Cardinality(kept) <= Limit => First(kept, Limit) = kept
      BY <2>6, <3>1, <3>2, FirstIsCut
    <3>4. ~truncated' => Cardinality(kept) <= Limit
      <4>1. ~truncated' => ~(Cardinality(kept) >= Limit)
        BY <2>1, Zenon
      <4>2. ~(Cardinality(kept) >= Limit) => Cardinality(kept) <= Limit
        BY <3>1
      <4> QED BY <4>1, <4>2
    <3> QED BY <2>1, <3>3, <3>4
  <2>8. kept = ReadSoFar'
    <3>1. Rows' = Rows /\ archive' = archive /\ stamps' = stamps /\ index' = index + 1
      BY <2>1, <2>2, WindowStays
    <3>2. \A n, r : (r \in Scanned(n))' = (r \in Scanned(n)) /\ Wanted(r)' = Wanted(r)
      BY <2>2, ScanStays
    <3>3. ReadSoFar' = {r \in Rows : \E i \in 1..index :
            stamps[i] \in DOMAIN archive /\ r \in Scanned(stamps[i]) /\ Wanted(r)}
      <4>1. (index + 1) - 1 = index
        BY <2>1
      <4> QED BY <3>1, <3>2, <4>1 DEF ReadSoFar
    <3>4. series = ReadSoFar
      BY <2>1 DEF Inv, SeriesInv
    <3>5. \A i : i \in 1..index <=> i \in 1..(index - 1) \/ i = index
      BY <2>1
    <3>6. ASSUME NEW r \in Rows
          PROVE  r \in kept <=> \E i \in 1..index :
                   stamps[i] \in DOMAIN archive /\ r \in Scanned(stamps[i]) /\ Wanted(r)
      BY <2>1, <3>4, <3>5, <3>6 DEF ReadSoFar
    <3> HIDE DEF kept
    <3> QED BY <2>6, <3>3, <3>6
  <2>9. SeriesInv'
    <3> HIDE DEF kept
    <3> QED BY <2>1, <2>2, <2>7, <2>8 DEF SeriesInv
  <2> QED BY <2>3, <2>4, <2>9 DEF Inv
<1>8. CASE MissMonth
  <2>1. /\ phase = "months" /\ index \in 1..Len(stamps) /\ stamps[index] \notin DOMAIN archive
        /\ missing' = missing \cup {stamps[index]} /\ index' = index + 1 /\ Len(stamps) \in Nat
    BY <1>8 DEF MissMonth, Reading, Inv, TypeInv
  <2>2. UNCHANGED <<request, register, archive, stamps, funds, series, truncated, phase>>
    BY <1>8 DEF MissMonth
  <2>3. TypeInv'
    BY <2>1, <2>2 DEF Inv, TypeInv, ArchiveOK
  <2>4. WindowInv'
    <3>1. Asks' = Asks /\ Window' = Window
      BY <2>2, WindowStays
    <3> QED BY <2>2, <3>1 DEF Inv, WindowInv
  <2>5. ReadSoFar' = ReadSoFar
    <3>1. Rows' = Rows /\ archive' = archive /\ stamps' = stamps /\ index' = index + 1
      BY <2>1, <2>2, WindowStays
    <3>2. \A n, r : (r \in Scanned(n))' = (r \in Scanned(n)) /\ Wanted(r)' = Wanted(r)
      BY <2>2, ScanStays
    <3>3. ReadSoFar' = {r \in Rows : \E i \in 1..index :
            stamps[i] \in DOMAIN archive /\ r \in Scanned(stamps[i]) /\ Wanted(r)}
      <4>1. (index + 1) - 1 = index
        BY <2>1
      <4> QED BY <3>1, <3>2, <4>1 DEF ReadSoFar
    <3>4. \A i : i \in 1..index <=> i \in 1..(index - 1) \/ i = index
      BY <2>1
    <3> QED BY <2>1, <3>3, <3>4 DEF ReadSoFar
  <2>6. SeriesInv'
    BY <2>1, <2>2, <2>5 DEF Inv, SeriesInv
  <2> QED BY <2>3, <2>4, <2>6 DEF Inv
<1>9. CASE MonthFails
  <2>1. TypeInv'
    BY <1>9 DEF MonthFails, Inv, TypeInv, ArchiveOK
  <2>2. WindowInv'
    BY <1>9 DEF MonthFails, WindowInv
  <2>3. SeriesInv'
    BY <1>9, SeriesStays DEF MonthFails
  <2> QED BY <2>1, <2>2, <2>3 DEF Inv
<1>10. CASE Answer
  <2>1. TypeInv'
    BY <1>10 DEF Answer, Inv, TypeInv, ArchiveOK
  <2>2. WindowInv'
    <3>1. Asks' = Asks /\ Window' = Window
      BY <1>10, WindowStays DEF Answer
    <3> QED BY <1>10, <3>1 DEF Answer, Inv, WindowInv
  <2>3. SeriesInv'
    BY <1>10, SeriesStays DEF Answer
  <2> QED BY <2>1, <2>2, <2>3 DEF Inv
<1>11. CASE UNCHANGED vars
  <2>1. TypeInv'
    BY <1>11 DEF vars, Inv, TypeInv, ArchiveOK
  <2>2. WindowInv'
    <3>1. Asks' = Asks /\ Window' = Window
      BY <1>11, WindowStays DEF vars
    <3> QED BY <1>11, <3>1 DEF vars, Inv, WindowInv
  <2>3. SeriesInv'
    BY <1>11, SeriesStays DEF vars
  <2> QED BY <2>1, <2>2, <2>3 DEF Inv
<1> QED BY <1>1, <1>2, <1>3, <1>4, <1>5, <1>6, <1>7, <1>8, <1>9, <1>10, <1>11 DEF Next

\* The invariant holds in every behaviour.
LEMMA InvAlways == Spec => []Inv
<1>1. Init => Inv
  BY InvInit
<1>2. Inv /\ [Next]_vars => Inv'
  BY InvStep
<1> QED BY <1>1, <1>2, PTL DEF Spec
-----------------------------------------------------------------------------
(* The theorems.                                                           *)

\* The window never has more months than _DAILY_MONTHS_MAX and they are months; the
\* series never exceeds the limit.
THEOREM QuotesTypeCorrect == Spec => []TypeOK
<1>1. Inv => TypeOK
  BY DEF Inv, TypeInv, SeriesInv, TypeOK
<1> QED BY <1>1, InvAlways, PTL

\* A row of the series was asked for.
LEMMA SeriesWasAsked ==
  ASSUME Inv, Done, NEW r \in series
  PROVE  Asked(r) /\ r \in Rows
<1>1. PICK i \in 1..(index - 1) :
        stamps[i] \in DOMAIN archive /\ r \in Scanned(stamps[i]) /\ Wanted(r) /\ r \in Rows
  BY DEF Inv, SeriesInv, ReadSoFar
<1>2. r \in RowsOf(stamps[i]) /\ r.cnpj \in Needles
  BY <1>1 DEF Scanned, First
<1>3. r.month = stamps[i]
  BY <1>1, <1>2, RowsOfAreRows
<1>4. ArchiveOK /\ Asks /\ stamps = Window
  BY DEF Inv, TypeInv, WindowInv, Done
<1>5. i \in 1..Size
  <2>1. Len(stamps) = Size /\ Size \in Int /\ index \in 1..(Len(stamps) + 1)
    BY <1>4, WindowIsExact, EndsAreMonths, LimitsAssumption DEF Inv, TypeInv
  <2> QED BY <2>1
<1>6. ASSUME ~Ranged
      PROVE  Absolute(r.month) \in (Absolute(Last) - request.months + 1)..Absolute(Last)
  <2>1. Absolute(r.month) = Absolute(Last) - request.months + i /\ i \in 1..request.months
    BY <1>3, <1>4, <1>5, <1>6, WindowIsExact DEF Base, Size
  <2>2. Absolute(Last) \in Int /\ request.months \in Int
    BY <1>4, <1>6, EndsAreMonths, AbsoluteType, LimitsAssumption
  <2> QED BY <2>1, <2>2
<1> QED BY <1>1, <1>2, <1>6 DEF Asked

\* What was published and asked for is in a series that was not cut.
LEMMA SeriesIsComplete ==
  ASSUME Inv, Done, ~truncated, NEW r \in Published
  PROVE  r \in series
<1>1. PICK m \in DOMAIN archive : Uncapped(m) /\ r \in RowsOf(m) /\ Asked(r)
  BY DEF Published
<1>2. r \in Rows /\ r.month = m
  BY <1>1, RowsOfAreRows
<1>3. ArchiveOK /\ Asks /\ stamps = Window
  BY DEF Inv, TypeInv, WindowInv, Done
<1>4. m \in Months /\ Absolute(m) \in Int
  BY <1>2, <1>3, RowFacts
<1>5. Absolute(m) \in (Base + 1)..(Base + Size)
  <2>1. CASE Ranged
    <3>1. request.start.month \in Months /\ request.end.month \in Months
      BY <1>3, <2>1, EndsAreMonths
    <3>2. Absolute(request.start.month) \in Int /\ Absolute(request.end.month) \in Int
      BY <3>1, AbsoluteType
    <3>3. NotAfter(request.start, DateOf(r)) /\ NotAfter(DateOf(r), request.end)
      BY <1>1, <2>1 DEF Asked, Wanted
    <3>4. Absolute(request.start.month) <= Absolute(m) /\ Absolute(m) <= Absolute(request.end.month)
      BY <1>2, <1>4, <3>2, <3>3 DEF NotAfter, DateOf
    <3> QED BY <1>4, <2>1, <3>2, <3>4 DEF Base, Size, Span
  <2>2. CASE ~Ranged
    <3>1. Absolute(m) \in (Absolute(Last) - request.months + 1)..Absolute(Last)
      BY <1>1, <1>2, <2>2 DEF Asked
    <3>2. Absolute(Last) \in Int /\ request.months \in Int
      BY <1>3, <2>2, EndsAreMonths, AbsoluteType, LimitsAssumption
    <3> QED BY <1>4, <2>2, <3>1, <3>2 DEF Base, Size
  <2> QED BY <2>1, <2>2
<1>6. PICK i \in 1..Len(stamps) : stamps[i] = m
  BY <1>3, <1>4, <1>5, WindowIsComplete
<1>7. r \in Scanned(m)
  <2> DEFINE kept == {q \in RowsOf(m) : q.cnpj \in Needles}
  <2>1. r \in kept
    BY <1>1 DEF Asked
  <2>2. CASE request.surface = "worker"
    <3>1. Cardinality(kept) <= ScanCap
      BY <1>1, <2>2 DEF Uncapped
    <3>2. kept \subseteq RowsOf(m) /\ kept \subseteq Rows
      BY <1>1 DEF Rows
    <3>3. IsFiniteSet(kept)
      <4>1. IsFiniteSet(RowsOf(m))
        BY <1>3, FilesAreFinite
      <4> QED BY <3>2, <4>1, FS_Subset
    <3>4. First(kept, ScanCap) = kept
      <4> HIDE DEF kept
      <4> QED BY <1>3, <3>1, <3>2, <3>3, FirstIsCut, LimitsAssumption
    <3> QED BY <2>1, <2>2, <3>4 DEF Scanned
  <2>3. CASE request.surface # "worker"
    BY <2>1, <2>3 DEF Scanned
  <2> QED BY <2>2, <2>3
<1>8. index = Len(stamps) + 1 /\ Len(stamps) \in Nat
  BY DEF Inv, TypeInv, SeriesInv, Done
<1>9. r \in ReadSoFar
  <2>1. i \in 1..(index - 1)
    BY <1>6, <1>8
  <2>2. Wanted(r)
    BY <1>1 DEF Asked
  <2> QED BY <1>1, <1>2, <1>6, <1>7, <2>1, <2>2 DEF ReadSoFar
<1> QED BY <1>9 DEF Inv, SeriesInv

\* The points that are served are rows of the series.
LEMMA DedupedFacts ==
  ASSUME Inv
  PROVE  /\ ArchiveOK /\ series \subseteq Rows
         /\ \A q \in Deduped : q \in series /\ q = Chosen(Key(q))
         /\ \A r \in series : Chosen(Key(r)) \in Deduped
<1>1. ArchiveOK /\ series \subseteq Rows
  BY DEF Inv, TypeInv, SeriesInv, ReadSoFar
<1>2. ASSUME NEW q \in Deduped PROVE q \in series /\ q = Chosen(Key(q))
  <2>1. PICK r \in series : q = Chosen(Key(r))
    BY <1>2 DEF Deduped
  <2>2. q \in series /\ Key(q) = Key(r)
    BY <1>1, <2>1, ChosenIsRow
  <2> QED BY <2>1, <2>2
<1>3. \A r \in series : Chosen(Key(r)) \in Deduped
  BY DEF Deduped
<1> QED BY <1>1, <1>2, <1>3

\* An answer that does not say "truncated" has a point for every day and subclass that
\* CVM has published in the window, whatever failed, and none that was not asked for.
THEOREM AnswerIsExactAlways == Spec => []AnswerIsExact
<1>1. ASSUME Inv PROVE AnswerIsExact
  <2> SUFFICES ASSUME Done
               PROVE  /\ \A r \in Deduped : Asked(r)
                      /\ ~truncated => \A r \in Published : \E q \in Deduped : Key(q) = Key(r)
    BY DEF AnswerIsExact
  <2>1. \A r \in Deduped : Asked(r)
    BY <1>1, DedupedFacts, SeriesWasAsked
  <2>2. ASSUME ~truncated, NEW r \in Published
        PROVE  \E q \in Deduped : Key(q) = Key(r)
    <3>1. r \in series
      BY <1>1, <2>2, SeriesIsComplete
    <3>2. Chosen(Key(r)) \in Deduped /\ Key(Chosen(Key(r))) = Key(r)
      BY <1>1, <3>1, DedupedFacts, ChosenIsRow
    <3> QED BY <3>2
  <2> QED BY <2>1, <2>2
<1> QED BY <1>1, InvAlways, PTL

\* A fund and its only class are served as one series with one point a day, which is
\* the class's own where it has one.
THEOREM ContinuationIsStitchedAlways == Spec => []ContinuationIsStitched
<1>1. ASSUME Inv PROVE ContinuationIsStitched
  <2> SUFFICES ASSUME Done, ~truncated, Continuation # None, NEW r \in Published
               PROVE  \E s \in Served :
                        /\ s.cnpj = Continuation /\ s.sub = r.sub
                        /\ \A t \in Served : t.sub = s.sub => t = s
                        /\ \E q \in s.rows :
                             /\ DateOf(q) = DateOf(r)
                             /\ r.cnpj = Continuation => q.cnpj = Continuation
                             /\ \A p \in s.rows : DateOf(p) = DateOf(q) => p = q
    BY DEF ContinuationIsStitched
  <2> DEFINE q == Chosen(Key(r))
             Group(p) == [cnpj |-> ServedAs(p), sub |-> p.sub,
                      rows |-> {x \in Deduped : ServedAs(x) = ServedAs(p) /\ x.sub = p.sub}]
  <2>1. r \in series
    BY <1>1, SeriesIsComplete
  <2>2. q \in Deduped /\ Key(q) = Key(r) /\ (r.cnpj = Prefer => q.cnpj = Prefer)
    BY <1>1, <2>1, DedupedFacts, ChosenIsRow
  <2>3. Target = Continuation /\ Prefer = Continuation
    BY DEF Target, Prefer
  <2>4. \A p \in Deduped : ServedAs(p) = Continuation
    <3>1. \A p \in Deduped : p.cnpj \in Needles
      BY <1>1, DedupedFacts, SeriesWasAsked DEF Asked
    <3> QED BY <2>3, <3>1 DEF ServedAs
  <2>5. DateOf(q) = DateOf(r) /\ q.sub = r.sub
    BY <2>2 DEF Key
  <2>6. Served = {Group(p) : p \in Deduped}
    BY DEF Served
  <2> HIDE DEF q
  <2>7. Group(q) \in Served /\ Group(q).cnpj = Continuation /\ Group(q).sub = r.sub
    BY <2>2, <2>4, <2>5, <2>6
  <2>8. \A t \in Served : t.sub = Group(q).sub => t = Group(q)
    <3> SUFFICES ASSUME NEW p \in Deduped, Group(p).sub = Group(q).sub PROVE Group(p) = Group(q)
      BY <2>6
    <3>1. p.sub = q.sub /\ ServedAs(p) = ServedAs(q)
      BY <2>2, <2>4
    <3> QED BY <3>1
  <2>9. q \in Group(q).rows
    BY <2>2
  <2>10. \A p \in Group(q).rows : DateOf(p) = DateOf(q) => p = q
    <3> SUFFICES ASSUME NEW p \in Deduped, p.sub = q.sub, DateOf(p) = DateOf(q) PROVE p = q
      OBVIOUS
    <3>1. Key(p) = Key(q)
      BY DEF Key
    <3>2. p = Chosen(Key(p)) /\ q = Chosen(Key(q))
      BY <1>1, <2>2, DedupedFacts
    <3> QED BY <3>1, <3>2
  <2> HIDE DEF Group
  <2> QED BY <2>2, <2>3, <2>5, <2>7, <2>8, <2>9, <2>10
<1> QED BY <1>1, InvAlways, PTL

-----------------------------------------------------------------------------
(* The snippet of execute_code.                                               *)

\* The inductive invariant.
Safe == RunTypeOK /\ ProcessesAreSound /\ KilledGroupStaysDead /\ AnsweredRunIsReaped

\* Before _execute_code has started its child, the invariant holds.
LEMMA SafeInit == RunInit => Safe
<1> SUFFICES ASSUME RunInit PROVE Safe
  OBVIOUS
<1>1. RunTypeOK /\ KilledGroupStaysDead /\ AnsweredRunIsReaped
  BY DEF RunInit, RunTypeOK, KilledGroupStaysDead, AnsweredRunIsReaped
<1>2. ProcessesAreSound
  BY DEF RunInit, ProcessesAreSound, Procs
<1> QED BY <1>1, <1>2 DEF Safe

\* Starting a process keeps a killed group dead: who starts it runs, and so is not
\* in the group, and neither is the new one.
LEMMA SpawnSafe ==
  ASSUME Safe, NEW p \in Procs, NEW q \in Kids, NEW inherits \in BOOLEAN,
         Spawn(p, q, inherits)
  PROVE  Safe'
<1>1. q \in Procs /\ q # Root /\ Root \in Procs
  BY RootAssumption DEF Procs
<1>2. RunTypeOK'
  BY <1>1 DEF Safe, RunTypeOK, Spawn
<1>3. \A r \in Procs : r # q => state'[r] = state[r] /\ inGroup'[r] = inGroup[r] /\ writes'[r] = writes[r]
  BY DEF Spawn, Safe, RunTypeOK
<1>4. state'[q] = "running" /\ inGroup'[q] = inGroup[p]
  BY <1>1 DEF Spawn, Safe, RunTypeOK
<1>5. KilledGroupStaysDead'
  BY <1>3, <1>4 DEF Safe, KilledGroupStaysDead, Spawn
<1>6. state'[Root] = state[Root] /\ inGroup'[Root] = inGroup[Root]
  BY <1>1, <1>3
<1>7. AnsweredRunIsReaped'
  BY <1>6 DEF Safe, AnsweredRunIsReaped, Spawn
<1>8. ProcessesAreSound'
  BY <1>3, <1>4, <1>6 DEF Safe, ProcessesAreSound, Spawn
<1> QED BY <1>2, <1>5, <1>7, <1>8 DEF Safe

\* The timeout leaves no process of the group running, unless Root is gone.
LEMMA TimeoutSafe ==
  ASSUME Safe, Timeout
  PROVE  Safe'
<1>1. Root \in Procs
  BY DEF Procs
<1>2. \A p \in Procs : p \in Doomed => state[p] = "running" /\ inGroup[p]
  BY DEF Doomed
<1>3. /\ \A p \in Procs : p \notin Doomed => state'[p] = state[p]
      /\ \A p \in Procs : p \in Doomed => state'[p] \in {"zombie", "gone"} /\ ~writes'[p]
      /\ \A p \in Procs : writes'[p] => writes[p]
  BY DEF Timeout
<1>4. RunTypeOK'
  BY DEF Safe, RunTypeOK, Timeout
<1>5. KilledGroupStaysDead'
  BY <1>3 DEF Timeout, Doomed, KilledGroupStaysDead
<1>6. AnsweredRunIsReaped'
  BY DEF Safe, RunTypeOK, Timeout, AnsweredRunIsReaped
<1>7. ASSUME killed' PROVE state'[Root] \in {"zombie", "gone"}
  <2>1. state[Root] # "gone" /\ state[Root] # "none" /\ inGroup[Root]
    BY <1>7 DEF Timeout, Safe, ProcessesAreSound
  <2>2. CASE state[Root] = "running"
    BY <1>1, <1>3, <2>1, <2>2 DEF Doomed
  <2>3. CASE state[Root] = "zombie"
    BY <1>1, <1>2, <1>3, <2>3
  <2> QED BY <1>1, <2>1, <2>2, <2>3 DEF Safe, RunTypeOK
<1>8. /\ state'[Root] = "none" <=> state[Root] = "none"
      /\ inGroup' = inGroup
  BY <1>1, <1>2, <1>3 DEF Timeout
<1>9. \A p \in Procs : /\ writes'[p] => state'[p] = "running"
                       /\ state'[p] = "none" => ~inGroup'[p]
  BY <1>2, <1>3, <1>8 DEF Safe, ProcessesAreSound
<1>10. ProcessesAreSound'
  BY <1>7, <1>8, <1>9 DEF Timeout, Safe, ProcessesAreSound
<1> QED BY <1>4, <1>5, <1>6, <1>10 DEF Safe

\* Every step keeps the invariant: one case per action.
LEMMA SafeNext == Safe /\ [RunNext]_runVars => Safe'
<1> SUFFICES ASSUME Safe, [RunNext]_runVars PROVE Safe'
  OBVIOUS
<1>r. Root \in Procs
  BY DEF Procs
<1>1. CASE Start
  <2>1. RunTypeOK'
    BY <1>1, <1>r DEF Start, Safe, RunTypeOK
  <2>2. ProcessesAreSound' /\ KilledGroupStaysDead' /\ AnsweredRunIsReaped'
    BY <1>1, <1>r DEF Start, Safe, RunTypeOK, ProcessesAreSound, KilledGroupStaysDead, AnsweredRunIsReaped
  <2> QED BY <2>1, <2>2 DEF Safe
<1>2. ASSUME NEW p \in Procs, NEW q \in Kids, NEW inherits \in BOOLEAN, Spawn(p, q, inherits)
      PROVE  Safe'
  BY <1>2, SpawnSafe
<1>3. ASSUME NEW p \in Procs, Detach(p) PROVE Safe'
  <2>1. RunTypeOK'
    BY <1>3 DEF Detach, Safe, RunTypeOK
  <2>2. ProcessesAreSound' /\ KilledGroupStaysDead' /\ AnsweredRunIsReaped'
    BY <1>3, <1>r DEF Detach, Safe, RunTypeOK, ProcessesAreSound, KilledGroupStaysDead, AnsweredRunIsReaped
  <2> QED BY <2>1, <2>2 DEF Safe
<1>4. ASSUME NEW p \in Procs, Exit(p) PROVE Safe'
  <2>1. RunTypeOK'
    BY <1>4 DEF Exit, Safe, RunTypeOK
  <2>2. /\ \A q \in Procs : q # p => state'[q] = state[q] /\ writes'[q] = writes[q]
        /\ state'[p] \in {"zombie", "gone"} /\ ~writes'[p] /\ state[p] = "running"
        /\ p = Root => state'[p] = "zombie"
        /\ inGroup' = inGroup /\ progress' = progress /\ killed' = killed /\ outcome' = outcome
    BY <1>4 DEF Exit, Safe, RunTypeOK
  <2>3. KilledGroupStaysDead' /\ AnsweredRunIsReaped'
    BY <1>r, <2>2 DEF Safe, KilledGroupStaysDead, AnsweredRunIsReaped
  <2>4. ProcessesAreSound'
    BY <1>r, <2>2 DEF Safe, ProcessesAreSound
  <2> QED BY <2>1, <2>3, <2>4 DEF Safe
<1>5. CASE Reap
  <2>1. RunTypeOK'
    BY <1>5, <1>r DEF Reap, Safe, RunTypeOK
  <2>2. ProcessesAreSound' /\ KilledGroupStaysDead' /\ AnsweredRunIsReaped'
    BY <1>5, <1>r DEF Reap, Safe, RunTypeOK, ProcessesAreSound, KilledGroupStaysDead, AnsweredRunIsReaped
  <2> QED BY <2>1, <2>2 DEF Safe
<1>6. CASE Collect \/ AnswerTimeout \/ Cancel
  <2>1. RunTypeOK'
    BY <1>6 DEF Collect, AnswerTimeout, Cancel, Safe, RunTypeOK
  <2>2. ProcessesAreSound' /\ KilledGroupStaysDead' /\ AnsweredRunIsReaped'
    BY <1>6 DEF Collect, AnswerTimeout, Cancel, Safe, RunTypeOK, ProcessesAreSound, KilledGroupStaysDead,
      AnsweredRunIsReaped
  <2> QED BY <2>1, <2>2 DEF Safe
<1>7. CASE Timeout
  BY <1>7, TimeoutSafe
<1>8. CASE UNCHANGED runVars
  BY <1>8 DEF runVars, Safe, RunTypeOK, ProcessesAreSound, KilledGroupStaysDead, AnsweredRunIsReaped
<1> QED BY <1>1, <1>2, <1>3, <1>4, <1>5, <1>6, <1>7, <1>8 DEF RunNext

\* Types and process facts are an invariant of every run of _execute_code.
LEMMA SafeAlways == RunSpec => []Safe
BY SafeInit, SafeNext, PTL DEF RunSpec

\* Every variable keeps its type, and a run is over exactly when it has an outcome.
THEOREM CodeModeTypeCorrect == RunSpec => []RunTypeOK
BY SafeAlways, PTL DEF Safe

\* A killed group stays dead, for any number of processes in any tree.
THEOREM KilledGroupStaysDeadAlways == RunSpec => []KilledGroupStaysDead
BY SafeAlways, PTL DEF Safe

\* No answered run leaves a zombie.
THEOREM AnsweredRunIsReapedAlways == RunSpec => []AnsweredRunIsReaped
BY SafeAlways, PTL DEF Safe

-----------------------------------------------------------------------------
(* The searches of the register and of the holdings.                          *)

\* All values of a sequence of places differ.
Distinct(s) == \A k, l \in DOMAIN s : s[k] = s[l] => k = l

\* A sequence that has every element of a set of places once, in their order.
Enumerates(s, W) ==
  /\ s \in Seq(W) /\ Len(s) \in Nat /\ DOMAIN s = 1 .. Len(s)
  /\ Ext!ToSet(s) = W
  /\ \A k, l \in DOMAIN s : k < l => s[k] < s[l]

\* A sequence has its elements at 1 .. Len.
LEMMA SeqFacts == \A S : \A s \in Seq(S) : Len(s) \in Nat /\ DOMAIN s = 1 .. Len(s) /\ \A k \in DOMAIN s : s[k] \in S
OBVIOUS

\* As many values as places, if the values differ.
LEMMA DistinctCounts ==
  \A S : \A s \in Seq(S) : Distinct(s) =>
    IsFiniteSet(Ext!ToSet(s)) /\ Cardinality(Ext!ToSet(s)) = Len(s)
<1> SUFFICES ASSUME NEW S, NEW s \in Seq(S), Distinct(s)
             PROVE  IsFiniteSet(Ext!ToSet(s)) /\ Cardinality(Ext!ToSet(s)) = Len(s)
  OBVIOUS
<1>0. Distinct(s)
  OBVIOUS
<1>1. Len(s) \in Nat /\ DOMAIN s = 1 .. Len(s)
  BY SeqFacts
<1>2. s \in [1 .. Len(s) -> Ext!ToSet(s)]
  BY <1>1 DEF Ext!ToSet
<1>3. s \in Bijection(1 .. Len(s), Ext!ToSet(s))
  <2>1. \A k, l \in 1 .. Len(s) : s[k] = s[l] => k = l
    BY <1>1, <1>0 DEF Distinct
  <2>2. \A x \in Ext!ToSet(s) : \E k \in 1 .. Len(s) : s[k] = x
    BY <1>1 DEF Ext!ToSet
  <2>3. s \in Injection(1 .. Len(s), Ext!ToSet(s)) /\ s \in Surjection(1 .. Len(s), Ext!ToSet(s))
    BY <1>2, <2>1, <2>2 DEF Injection, IsInjective, Surjection
  <2> QED BY <2>3 DEF Bijection
<1>4. IsFiniteSet(1 .. Len(s)) /\ Cardinality(1 .. Len(s)) = Len(s)
  BY <1>1, FS_Interval
<1>5. ExistsBijection(1 .. Len(s), Ext!ToSet(s))
  BY <1>3 DEF ExistsBijection
<1> QED BY <1>4, <1>5, FS_Bijection

\* The rank of a place in a set of places.
Rank(W, i) == Cardinality({j \in W : j <= i})

\* Ranks are 1 .. Cardinality, each once, and follow the order of the places.
LEMMA Ranks ==
  \A W : W \subseteq Nat /\ IsFiniteSet(W) =>
    /\ Cardinality(W) \in Nat
    /\ \A i \in W : Rank(W, i) \in 1 .. Cardinality(W)
    /\ \A i, j \in W : i < j => Rank(W, i) < Rank(W, j)
    /\ \A k \in 1 .. Cardinality(W) : \E i \in W : Rank(W, i) = k
<1> SUFFICES ASSUME NEW W, W \subseteq Nat, IsFiniteSet(W)
             PROVE  /\ Cardinality(W) \in Nat
                    /\ \A i \in W : Rank(W, i) \in 1 .. Cardinality(W)
                    /\ \A i, j \in W : i < j => Rank(W, i) < Rank(W, j)
                    /\ \A k \in 1 .. Cardinality(W) : \E i \in W : Rank(W, i) = k
  OBVIOUS
<1> DEFINE Down(i) == {j \in W : j <= i}
<1>1. Cardinality(W) \in Nat
  BY FS_CardinalityType
<1>2. ASSUME NEW i \in W
      PROVE  IsFiniteSet(Down(i)) /\ Cardinality(Down(i)) \in Nat /\ Cardinality(Down(i)) <= Cardinality(W) /\ Cardinality(Down(i)) # 0
  <2>1. Down(i) \in SUBSET W /\ i \in Down(i)
    OBVIOUS
  <2> HIDE DEF Down
  <2>2. IsFiniteSet(Down(i)) /\ Cardinality(Down(i)) <= Cardinality(W)
    BY <2>1, FS_Subset
  <2>3. Cardinality(Down(i)) \in Nat
    BY <2>2, FS_CardinalityType
  <2>4. Cardinality(Down(i)) # 0
    BY <2>1, <2>2, FS_EmptySet
  <2> QED BY <2>2, <2>3, <2>4
<1>3. \A i \in W : Rank(W, i) = Cardinality(Down(i))
  BY DEF Rank
<1>4. ASSUME NEW i \in W, NEW j \in W, i < j
      PROVE  Cardinality(Down(i)) < Cardinality(Down(j))
  <2>1. Down(i) \in SUBSET Down(j) /\ Down(i) # Down(j)
    <3>1. \A x \in W : x <= i => x <= j
      BY <1>4
    <3>2. j \in Down(j) /\ j \notin Down(i)
      BY <1>4
    <3> QED BY <3>1, <3>2
  <2>2. IsFiniteSet(Down(j)) /\ Cardinality(Down(i)) \in Nat /\ Cardinality(Down(j)) \in Nat
    BY <1>2
  <2> HIDE DEF Down
  <2>3. Cardinality(Down(i)) <= Cardinality(Down(j)) /\ Cardinality(Down(i)) # Cardinality(Down(j))
    BY <2>1, <2>2, FS_Subset
  <2> QED BY <2>2, <2>3
<1> DEFINE f == [i \in W |-> Cardinality(Down(i))]
           N == 1 .. Cardinality(W)
<1>5. f \in Injection(W, N)
  <2>1. \A i \in W : Cardinality(Down(i)) \in N
    <3> SUFFICES ASSUME NEW i \in W PROVE Cardinality(Down(i)) \in N
      OBVIOUS
    <3> QED BY <1>1, <1>2
  <2>2. f \in [W -> N]
    BY <2>1
  <2>3. \A i, j \in W : f[i] = f[j] => i = j
    <3> SUFFICES ASSUME NEW i \in W, NEW j \in W, i # j PROVE f[i] # f[j]
      OBVIOUS
    <3>1. i < j \/ j < i
      OBVIOUS
    <3>2. Cardinality(Down(i)) \in Nat /\ Cardinality(Down(j)) \in Nat
      BY <1>2
    <3>3. Cardinality(Down(i)) < Cardinality(Down(j)) \/ Cardinality(Down(j)) < Cardinality(Down(i))
      BY <1>4, <3>1
    <3>4. f[i] = Cardinality(Down(i)) /\ f[j] = Cardinality(Down(j))
      OBVIOUS
    <3> HIDE DEF f, Down
    <3> QED BY <3>2, <3>3, <3>4
  <2> HIDE DEF f, N
  <2> QED BY <2>2, <2>3 DEF Injection, IsInjective
<1>6. IsFiniteSet(N) /\ Cardinality(N) = Cardinality(W)
  BY <1>1, FS_Interval
<1>7. f \in Surjection(W, N)
  <2> HIDE DEF f, N
  <2> QED BY <1>5, <1>6, FS_Injection
<1>8. \A k \in N : \E i \in W : f[i] = k
  BY <1>7 DEF Surjection
<1>9. \A i \in W : f[i] = Rank(W, i) /\ f[i] \in N
  <2>1. \A i \in W : f[i] = Cardinality(Down(i))
    OBVIOUS
  <2>2. f \in [W -> N]
    BY <1>5 DEF Injection
  <2> HIDE DEF f
  <2> QED BY <1>3, <2>1, <2>2
<1>10. \A i, j \in W : i < j => Rank(W, i) < Rank(W, j)
  BY <1>3, <1>4
<1> HIDE DEF f
<1> QED BY <1>1, <1>8, <1>9, <1>10

\* Places lists those of a file's places that are wanted.
LEMMA PlacesAreListed ==
  \A S, wanted : \A file \in Seq(S) : Enumerates(Places(file, wanted), wanted \cap DOMAIN file)
<1> SUFFICES ASSUME NEW S, NEW wanted, NEW file \in Seq(S)
             PROVE  Enumerates(Places(file, wanted), wanted \cap DOMAIN file)
  OBVIOUS
<1> DEFINE W == wanted \cap DOMAIN file
           s == Places(file, wanted)
           n == Cardinality(W)
<1>1. W \subseteq Nat /\ IsFiniteSet(W)
  <2>1. Len(file) \in Nat /\ DOMAIN file = 1 .. Len(file)
    BY SeqFacts
  <2>2. IsFiniteSet(1 .. Len(file)) /\ W \in SUBSET (1 .. Len(file))
    BY <2>1, FS_Interval
  <2> QED BY <2>2, FS_Subset
<1>2. s = [k \in 1 .. n |-> CHOOSE i \in W : Rank(W, i) = k]
  BY DEF Places, Rank
<1> HIDE DEF W, s
<1>3. /\ n \in Nat
      /\ \A i \in W : Rank(W, i) \in 1 .. n
      /\ \A i, j \in W : i < j => Rank(W, i) < Rank(W, j)
      /\ \A k \in 1 .. n : \E i \in W : Rank(W, i) = k
  BY <1>1, Ranks
<1> HIDE DEF n
<1>4. \A k \in 1 .. n : s[k] \in W /\ Rank(W, s[k]) = k
  BY <1>2, <1>3
<1>5. DOMAIN s = 1 .. n /\ s \in Seq(W) /\ Len(s) = n
  <2>1. s \in [1 .. n -> W]
    BY <1>2, <1>4
  <2> QED BY <1>3, <2>1
<1>6. \A i, j \in W : Rank(W, i) = Rank(W, j) => i = j
  <2> SUFFICES ASSUME NEW i \in W, NEW j \in W, i # j PROVE Rank(W, i) # Rank(W, j)
    OBVIOUS
  <2>1. i < j \/ j < i
    BY <1>1
  <2>2. Rank(W, i) \in Nat /\ Rank(W, j) \in Nat
    BY <1>3
  <2> QED BY <1>3, <2>1, <2>2
<1>7. Ext!ToSet(s) = W
  <2>1. \A i \in W : \E k \in 1 .. n : s[k] = i
    <3> SUFFICES ASSUME NEW i \in W PROVE s[Rank(W, i)] = i /\ Rank(W, i) \in 1 .. n
      OBVIOUS
    <3> QED BY <1>3, <1>4, <1>6
  <2> QED BY <1>4, <1>5, <2>1 DEF Ext!ToSet
<1>8. \A k, l \in DOMAIN s : k < l => s[k] < s[l]
  <2> SUFFICES ASSUME NEW k \in 1 .. n, NEW l \in 1 .. n, k < l PROVE s[k] < s[l]
    BY <1>5
  <2>1. s[k] \in Nat /\ s[l] \in Nat /\ s[k] # s[l]
    <3>1. Rank(W, s[k]) = k /\ Rank(W, s[l]) = l /\ s[k] \in W /\ s[l] \in W
      BY <1>4
    <3>2. k # l
      OBVIOUS
    <3>3. s[k] # s[l]
      BY <3>1, <3>2, Zenon
    <3> QED BY <1>1, <3>1, <3>3
  <2>2. ~ (s[l] < s[k])
    <3>1. s[l] < s[k] => Rank(W, s[l]) < Rank(W, s[k])
      BY <1>3, <1>4
    <3> QED BY <1>4, <3>1
  <2> QED BY <2>1, <2>2
<1>9. Enumerates(s, W)
  BY <1>3, <1>5, <1>7, <1>8 DEF Enumerates
<1> QED BY <1>9 DEF W, s

\* The smaller and the larger of two numbers.
LEMMA OfTwo ==
  \A a, b \in Int : Ext!Min({a, b}) = (IF a <= b THEN a ELSE b) /\ Ext!Max({a, b}) = (IF a <= b THEN b ELSE a)
<1> SUFFICES ASSUME NEW a \in Int, NEW b \in Int
             PROVE  Ext!Min({a, b}) = (IF a <= b THEN a ELSE b) /\ Ext!Max({a, b}) = (IF a <= b THEN b ELSE a)
  OBVIOUS
<1>1. \A x \in {a, b} : (\A y \in {a, b} : x <= y) => x = IF a <= b THEN a ELSE b
  OBVIOUS
<1>2. \A x \in {a, b} : (\A y \in {a, b} : x >= y) => x = IF a <= b THEN b ELSE a
  OBVIOUS
<1>3. \E x \in {a, b} : \A y \in {a, b} : x <= y
  OBVIOUS
<1>4. \E x \in {a, b} : \A y \in {a, b} : x >= y
  OBVIOUS
<1>5. Ext!Min({a, b}) = IF a <= b THEN a ELSE b
  BY <1>1, <1>3 DEF Ext!Min
<1>6. Ext!Max({a, b}) = IF a <= b THEN b ELSE a
  BY <1>2, <1>4 DEF Ext!Max
<1> QED BY <1>5, <1>6

\* The first n elements of a sequence, or all of them.
LEMMA UptoIs ==
  \A S : \A s \in Seq(S) : \A n \in Nat :
    /\ Upto(s, n) \in Seq(S)
    /\ Len(Upto(s, n)) = (IF n <= Len(s) THEN n ELSE Len(s))
    /\ \A k \in DOMAIN Upto(s, n) : k \in DOMAIN s /\ Upto(s, n)[k] = s[k]
    /\ Len(s) <= n => Upto(s, n) = s
<1> SUFFICES ASSUME NEW S, NEW s \in Seq(S), NEW n \in Nat
             PROVE  /\ Upto(s, n) \in Seq(S)
                    /\ Len(Upto(s, n)) = (IF n <= Len(s) THEN n ELSE Len(s))
                    /\ \A k \in DOMAIN Upto(s, n) : k \in DOMAIN s /\ Upto(s, n)[k] = s[k]
                    /\ Len(s) <= n => Upto(s, n) = s
  OBVIOUS
<1> DEFINE m == IF n <= Len(s) THEN n ELSE Len(s)
<1>0. Len(s) \in Nat /\ DOMAIN s = 1 .. Len(s)
  BY SeqFacts
<1>1. Len(s) \in Nat /\ m \in Nat /\ m <= Len(s) /\ DOMAIN s = 1 .. Len(s)
  BY <1>0
<1>7. (Len(s) <= n => m = Len(s)) /\ m = (IF n <= Len(s) THEN n ELSE Len(s))
  <2>1. \A a, b \in Nat : a <= b => (IF b <= a THEN b ELSE a) = a
    OBVIOUS
  <2> QED BY <1>0, <2>1, Zenon
<1>2. Upto(s, n) = SubSeq(s, 1, m)
  BY <1>1, OfTwo DEF Upto
<1> HIDE DEF m
<1>3. SubSeq(s, 1, m) \in Seq(S) /\ Len(SubSeq(s, 1, m)) = m /\ \A k \in 1 .. m : SubSeq(s, 1, m)[k] = s[k]
  BY <1>1
<1>4. DOMAIN SubSeq(s, 1, m) = 1 .. m
  BY <1>3, SeqFacts
<1>5. \A k \in 1 .. m : k \in 1 .. Len(s)
  BY <1>1
<1>6. m = Len(s) => SubSeq(s, 1, m) = s
  <2> SUFFICES ASSUME m = Len(s) PROVE SubSeq(s, 1, m) = s
    OBVIOUS
  <2>1. s \in Seq(S) /\ SubSeq(s, 1, m) \in Seq(S) /\ Len(s) = Len(SubSeq(s, 1, m))
    BY <1>3
  <2>2. \A k \in 1 .. Len(s) : SubSeq(s, 1, m)[k] = s[k]
    BY <1>3
  <2> QED BY <2>1, <2>2
<1>8. Upto(s, n) \in Seq(S) /\ Len(Upto(s, n)) = (IF n <= Len(s) THEN n ELSE Len(s))
  BY <1>2, <1>3, <1>7, Zenon
<1>9. \A k \in DOMAIN Upto(s, n) : k \in DOMAIN s /\ Upto(s, n)[k] = s[k]
  BY <1>1, <1>2, <1>3, <1>4, <1>5, Zenon
<1>10. Len(s) <= n => Upto(s, n) = s
  BY <1>2, <1>6, <1>7, Zenon
<1> QED BY <1>8, <1>9, <1>10

\* A sequence of some of the elements of W, each once, all of them if there is room.
Picks(s, W, n) ==
  /\ s \in Seq(W) /\ Len(s) \in Nat /\ DOMAIN s = 1 .. Len(s) /\ Distinct(s) /\ Len(s) <= n
  /\ Ext!ToSet(s) \subseteq W
  /\ Len(s) < n => Ext!ToSet(s) = W
  /\ Cardinality(W) <= n => Ext!ToSet(s) = W

\* The first of the wanted places of a file are such a sequence.
LEMMA PlacesArePicked ==
  \A S, wanted : \A file \in Seq(S) : \A n \in Nat :
    Picks(Upto(Places(file, wanted), n), wanted \cap DOMAIN file, n)
<1> SUFFICES ASSUME NEW S, NEW wanted, NEW file \in Seq(S), NEW n \in Nat
             PROVE  Picks(Upto(Places(file, wanted), n), wanted \cap DOMAIN file, n)
  OBVIOUS
<1> DEFINE W == wanted \cap DOMAIN file
           s == Places(file, wanted)
           u == Upto(s, n)
<1>1. Enumerates(s, W)
  BY PlacesAreListed
<1>2. W \subseteq Nat
  BY SeqFacts
<1> HIDE DEF W, s
<1>3. /\ s \in Seq(W) /\ Len(s) \in Nat /\ DOMAIN s = 1 .. Len(s) /\ Ext!ToSet(s) = W
      /\ \A k, l \in DOMAIN s : k < l => s[k] < s[l]
  BY <1>1 DEF Enumerates
<1>4. /\ u \in Seq(W) /\ Len(u) = (IF n <= Len(s) THEN n ELSE Len(s))
      /\ \A k \in DOMAIN u : k \in DOMAIN s /\ u[k] = s[k]
      /\ Len(s) <= n => u = s
  BY <1>3, UptoIs
<1> HIDE DEF u
<1>5. Len(u) \in Nat /\ DOMAIN u = 1 .. Len(u) /\ \A k \in DOMAIN u : u[k] \in W
  BY <1>4, SeqFacts
<1>6. Distinct(s)
  <2> SUFFICES ASSUME NEW k \in DOMAIN s, NEW l \in DOMAIN s, k # l PROVE s[k] # s[l]
    BY DEF Distinct
  <2>1. k < l \/ l < k
    BY <1>3
  <2>2. s[k] \in Nat /\ s[l] \in Nat
    BY <1>2, <1>3, SeqFacts
  <2>3. s[k] < s[l] \/ s[l] < s[k]
    BY <1>3, <2>1
  <2> QED BY <2>2, <2>3
<1>7. Distinct(u)
  <2>1. \A k, l \in DOMAIN s : s[k] = s[l] => k = l
    BY <1>6 DEF Distinct
  <2> QED BY <1>4, <2>1, Zenon DEF Distinct
<1>8. Ext!ToSet(u) \subseteq W
  BY <1>5 DEF Ext!ToSet
<1>9. Len(u) < n => Ext!ToSet(u) = W
  <2>1. Len(u) < n => Len(s) <= n
    BY <1>3, <1>4
  <2> QED BY <1>3, <1>4, <2>1
<1>10. Cardinality(W) = Len(s)
  BY <1>3, <1>6, DistinctCounts
<1>11. Len(u) <= n
  BY <1>3, <1>4
<1>12. Cardinality(W) <= n => Ext!ToSet(u) = W
  BY <1>3, <1>4, <1>10
<1>13. Picks(u, W, n)
  BY <1>4, <1>5, <1>7, <1>8, <1>9, <1>11, <1>12 DEF Picks
<1> QED BY <1>13 DEF u, W, s

\* Two sequences with all their values, one after the other.
Joined(r, s, t, U) ==
  /\ r \in Seq(U) /\ Len(r) = Len(s) + Len(t) /\ Distinct(r)
  /\ Ext!ToSet(r) = Ext!ToSet(s) \cup Ext!ToSet(t)

\* Different values stay different when they are joined.
LEMMA OneAfterTheOther ==
  \A V, W, s, t, m, n :
    Picks(s, V, m) /\ Picks(t, W, n) /\ Ext!ToSet(s) \cap W = {} => Joined(s \o t, s, t, V \cup W)
<1> SUFFICES ASSUME NEW V, NEW W, NEW s, NEW t, NEW m, NEW n,
                    Picks(s, V, m), Picks(t, W, n), Ext!ToSet(s) \cap W = {}
             PROVE  Joined(s \o t, s, t, V \cup W)
  OBVIOUS
<1>0. Ext!ToSet(s) \cap W = {}
  OBVIOUS
<1>1. /\ s \in Seq(V) /\ Len(s) \in Nat /\ DOMAIN s = 1 .. Len(s) /\ Distinct(s)
      /\ t \in Seq(W) /\ Len(t) \in Nat /\ DOMAIN t = 1 .. Len(t) /\ Distinct(t)
  BY DEF Picks
<1>2. s \in Seq(V \cup W) /\ t \in Seq(V \cup W)
  BY <1>1
<1>3. s \o t \in Seq(V \cup W) /\ Len(s \o t) = Len(s) + Len(t)
  BY <1>1, <1>2
<1>4. DOMAIN (s \o t) = 1 .. Len(s) + Len(t)
  BY <1>3, SeqFacts
<1>5. \A k \in 1 .. Len(s) : (s \o t)[k] = s[k] /\ k \in DOMAIN (s \o t)
  BY <1>1, <1>2, <1>4
<1>6. \A k \in 1 .. Len(t) : (s \o t)[Len(s) + k] = t[k] /\ Len(s) + k \in DOMAIN (s \o t)
  BY <1>1, <1>2, <1>4
<1>7. \A k \in DOMAIN (s \o t) : k \in 1 .. Len(s) \/ (k - Len(s) \in 1 .. Len(t) /\ k = Len(s) + (k - Len(s)))
  BY <1>1, <1>4
<1>8. \A k \in 1 .. Len(s) : s[k] \in Ext!ToSet(s)
  BY <1>1 DEF Ext!ToSet
<1>9. \A k \in 1 .. Len(t) : t[k] \in W /\ t[k] \in Ext!ToSet(t)
  BY <1>1 DEF Ext!ToSet
<1> DEFINE r == s \o t
<1> HIDE DEF r
<1>10. /\ \A k \in DOMAIN r : \/ k \in 1 .. Len(s) /\ r[k] = s[k]
                              \/ k - Len(s) \in 1 .. Len(t) /\ r[k] = t[k - Len(s)]
  BY <1>5, <1>6, <1>7 DEF r
<1>11. Distinct(r)
  <2> SUFFICES ASSUME NEW k \in DOMAIN r, NEW l \in DOMAIN r, r[k] = r[l] PROVE k = l
    BY DEF Distinct
  <2>1. k \in Nat /\ l \in Nat
    BY <1>1, <1>4 DEF r
  <2>2. CASE k \in 1 .. Len(s) /\ r[k] = s[k] /\ l \in 1 .. Len(s) /\ r[l] = s[l]
    BY <1>1, <2>2 DEF Distinct
  <2>3. CASE k - Len(s) \in 1 .. Len(t) /\ r[k] = t[k - Len(s)] /\ l - Len(s) \in 1 .. Len(t) /\ r[l] = t[l - Len(s)]
    <3>1. k - Len(s) = l - Len(s)
      BY <1>1, <2>3 DEF Distinct
    <3> QED BY <1>1, <2>1, <3>1
  <2>4. CASE k \in 1 .. Len(s) /\ r[k] = s[k] /\ l - Len(s) \in 1 .. Len(t) /\ r[l] = t[l - Len(s)]
    BY <1>0, <1>8, <1>9, <2>4, Zenon
  <2>5. CASE l \in 1 .. Len(s) /\ r[l] = s[l] /\ k - Len(s) \in 1 .. Len(t) /\ r[k] = t[k - Len(s)]
    BY <1>0, <1>8, <1>9, <2>5, Zenon
  <2> QED BY <1>10, <2>2, <2>3, <2>4, <2>5
<1>12. Ext!ToSet(r) = Ext!ToSet(s) \cup Ext!ToSet(t)
  <2>1. \A x \in Ext!ToSet(r) : x \in Ext!ToSet(s) \/ x \in Ext!ToSet(t)
    <3> SUFFICES ASSUME NEW x \in Ext!ToSet(r) PROVE x \in Ext!ToSet(s) \/ x \in Ext!ToSet(t)
      OBVIOUS
    <3>1. PICK k \in DOMAIN r : r[k] = x
      BY DEF Ext!ToSet
    <3> QED BY <1>8, <1>9, <1>10, <3>1
  <2>2. \A x \in Ext!ToSet(s) : x \in Ext!ToSet(r)
    <3> SUFFICES ASSUME NEW x \in Ext!ToSet(s) PROVE x \in Ext!ToSet(r)
      OBVIOUS
    <3>1. PICK k \in 1 .. Len(s) : s[k] = x
      BY <1>1 DEF Ext!ToSet
    <3>2. k \in DOMAIN r /\ r[k] = x
      BY <1>5, <3>1 DEF r
    <3> QED BY <3>2 DEF Ext!ToSet
  <2>3. \A x \in Ext!ToSet(t) : x \in Ext!ToSet(r)
    <3> SUFFICES ASSUME NEW x \in Ext!ToSet(t) PROVE x \in Ext!ToSet(r)
      OBVIOUS
    <3>1. PICK k \in 1 .. Len(t) : t[k] = x
      BY <1>1 DEF Ext!ToSet
    <3>2. Len(s) + k \in DOMAIN r /\ r[Len(s) + k] = x
      BY <1>6, <3>1 DEF r
    <3> QED BY <3>2 DEF Ext!ToSet
  <2> QED BY <2>1, <2>2, <2>3
<1> QED BY <1>3, <1>11, <1>12 DEF r, Joined

\* What is read of the register is of its files, which are finite.
LEMMA RegisterFacts ==
  lists \in Register =>
    /\ lists.funds \in Seq([hit : BOOLEAN])
    /\ lists.classes \in Seq([fund : Nat, hit : BOOLEAN])
    /\ lists.subs \in Seq([class : Nat, hit : BOOLEAN])
    /\ HitFunds \subseteq DOMAIN lists.funds /\ HitClasses \subseteq AllClasses /\ HitSubs \subseteq AllSubs
    /\ IsFiniteSet(DOMAIN lists.funds) /\ IsFiniteSet(AllClasses) /\ IsFiniteSet(AllSubs)
<1> SUFFICES ASSUME lists \in Register
             PROVE  /\ lists.funds \in Seq([hit : BOOLEAN])
                    /\ lists.classes \in Seq([fund : Nat, hit : BOOLEAN])
                    /\ lists.subs \in Seq([class : Nat, hit : BOOLEAN])
                    /\ HitFunds \subseteq DOMAIN lists.funds /\ HitClasses \subseteq AllClasses /\ HitSubs \subseteq AllSubs
                    /\ IsFiniteSet(DOMAIN lists.funds) /\ IsFiniteSet(AllClasses) /\ IsFiniteSet(AllSubs)
  OBVIOUS
<1>1. /\ lists.funds \in Seq([hit : BOOLEAN])
      /\ lists.classes \in Seq([fund : Nat, hit : BOOLEAN])
      /\ lists.subs \in Seq([class : Nat, hit : BOOLEAN])
  BY DEF Register
<1>2. \A S : \A s \in Seq(S) : IsFiniteSet(DOMAIN s)
  <2> SUFFICES ASSUME NEW S, NEW s \in Seq(S) PROVE IsFiniteSet(DOMAIN s)
    OBVIOUS
  <2>1. Len(s) \in Nat /\ DOMAIN s = 1 .. Len(s)
    BY SeqFacts
  <2> QED BY <2>1, FS_Interval
<1>3. HitFunds \subseteq DOMAIN lists.funds /\ HitClasses \subseteq AllClasses /\ HitSubs \subseteq AllSubs
  BY DEF HitFunds, HitClasses, HitSubs, AllClasses, AllSubs
<1>4. IsFiniteSet(DOMAIN lists.funds) /\ IsFiniteSet(AllClasses) /\ IsFiniteSet(AllSubs)
  BY <1>1, <1>2 DEF AllClasses, AllSubs
<1> QED BY <1>1, <1>3, <1>4

\* The first of the wanted funds.
LEMMA FundsArePicked ==
  lists \in Register =>
    \A wanted : \A n \in Nat : Picks(Upto(Funds(wanted), n), wanted \cap DOMAIN lists.funds, n)
BY RegisterFacts, PlacesArePicked DEF Funds

\* A scan of a file brings all of it that is wanted, unless that exceeds the cap.
LEMMA ScansAreWhole ==
  \A S, wanted : \A file \in Seq(S) : wanted \subseteq DOMAIN file =>
    /\ Scan(file, wanted) \subseteq wanted
    /\ ~ (Cardinality(wanted) > CatalogCap) => Scan(file, wanted) = wanted
<1> SUFFICES ASSUME NEW S, NEW wanted, NEW file \in Seq(S), wanted \subseteq DOMAIN file
             PROVE  /\ Scan(file, wanted) \subseteq wanted
                    /\ ~ (Cardinality(wanted) > CatalogCap) => Scan(file, wanted) = wanted
  OBVIOUS
<1>1. CatalogCap \in Nat
  BY LookupAssumption
<1>2. Picks(Upto(Places(file, wanted), CatalogCap), wanted \cap DOMAIN file, CatalogCap)
  BY <1>1, PlacesArePicked
<1>3. wanted \cap DOMAIN file = wanted
  OBVIOUS
<1>4. Len(file) \in Nat /\ DOMAIN file = 1 .. Len(file)
  BY SeqFacts
<1>5. IsFiniteSet(wanted)
  <2>1. IsFiniteSet(DOMAIN file) /\ wanted \in SUBSET DOMAIN file
    BY <1>4, FS_Interval
  <2> QED BY <2>1, FS_Subset
<1>6. Cardinality(wanted) \in Nat
  BY <1>5, FS_CardinalityType
<1>7. ~ (Cardinality(wanted) > CatalogCap) => Cardinality(wanted) <= CatalogCap
  BY <1>1, <1>6
<1> QED BY <1>2, <1>3, <1>7 DEF Scan, Picks

\* Funds that a search may serve: each once and as many as it says, those it is about.
Serves(fs, most) ==
  /\ fs \in Seq(DOMAIN lists.funds) /\ Len(fs) \in Nat /\ DOMAIN fs = 1 .. Len(fs) /\ Distinct(fs)
  /\ Len(fs) <= most /\ Ext!ToSet(fs) \subseteq Due

ServesAll(fs) == Len(fs) < asked.limit => Ext!ToSet(fs) = Due

\* More than the limit, when the names alone fill it.
Over == asked.by = "q" /\ Len(Funds(HitFunds)) >= asked.limit

\* The Python search.
LEMMA PythonServes ==
  lists \in Register /\ asked.limit \in Nat \ {0} =>
    Serves(_select_fundos, asked.limit + (IF Over THEN 1 ELSE 0)) /\ ServesAll(_select_fundos)
<1> SUFFICES ASSUME lists \in Register, asked.limit \in Nat \ {0}
             PROVE  Serves(_select_fundos, asked.limit + (IF Over THEN 1 ELSE 0)) /\ ServesAll(_select_fundos)
  OBVIOUS
<1> DEFINE D == DOMAIN lists.funds
           hits == Upto(Funds(HitFunds), asked.limit)
           more == Funds(ByPart \ Ext!ToSet(hits))
           room == Ext!Max({1, asked.limit - Len(hits)})
           tail == Upto(more, room)
           rest == (ByPart \ Ext!ToSet(hits)) \cap D
           byClass == Upto(Funds(FundsOf(HitClasses)), asked.limit)
<1>1. HitFunds \subseteq D /\ HitFunds \cap D = HitFunds
  BY RegisterFacts
<1>2. asked.limit \in Nat /\ asked.limit >= 1
  OBVIOUS
<1>3. Picks(hits, HitFunds, asked.limit)
  BY <1>1, <1>2, FundsArePicked
<1>4. Len(hits) \in Nat /\ Len(hits) <= asked.limit /\ hits \in Seq(HitFunds)
      /\ Ext!ToSet(hits) \subseteq HitFunds /\ (Len(hits) < asked.limit => Ext!ToSet(hits) = HitFunds)
  BY <1>3 DEF Picks
<1>5. Len(hits) = asked.limit => Len(Funds(HitFunds)) >= asked.limit
  <2>1. Enumerates(Funds(HitFunds), HitFunds)
    BY <1>1, RegisterFacts, PlacesAreListed DEF Funds
  <2>2. Funds(HitFunds) \in Seq(HitFunds) /\ Len(Funds(HitFunds)) \in Nat
    BY <2>1 DEF Enumerates
  <2>3. Len(hits) = (IF asked.limit <= Len(Funds(HitFunds)) THEN asked.limit ELSE Len(Funds(HitFunds)))
    BY <1>2, <2>2, UptoIs
  <2> HIDE DEF hits
  <2> QED BY <1>2, <2>2, <2>3
<1>6. CASE asked.by = "q"
  <2>1. _select_fundos = hits \o tail
    BY <1>6 DEF _select_fundos
  <2>2. Due = HitFunds \cup (ByPart \cap D)
    BY <1>6 DEF Due
  <2>3. room = (IF Len(hits) = asked.limit THEN 1 ELSE asked.limit - Len(hits)) /\ room \in Nat
    <3>1. \A a, b \in Int : Ext!Max({a, b}) = (IF a <= b THEN b ELSE a)
      BY OfTwo
    <3>2. asked.limit - Len(hits) \in Int
      BY <1>2, <1>4
    <3>3. room = (IF 1 <= asked.limit - Len(hits) THEN asked.limit - Len(hits) ELSE 1)
      BY <3>1, <3>2
    <3> HIDE DEF hits, room
    <3> QED BY <1>2, <1>4, <3>3
  <2>4. Picks(tail, rest, room)
    BY <2>3, FundsArePicked
  <2>5. Ext!ToSet(hits) \cap rest = {}
    OBVIOUS
  <2>6. Joined(_select_fundos, hits, tail, HitFunds \cup rest)
    <3> HIDE DEF hits, tail, rest, room
    <3> QED BY <1>3, <2>1, <2>4, <2>5, OneAfterTheOther
  <2>7. Len(tail) \in Nat /\ Len(tail) <= room /\ Ext!ToSet(tail) \subseteq rest /\ (Len(tail) < room => Ext!ToSet(tail) = rest)
    BY <2>4 DEF Picks
  <2>8. rest \subseteq ByPart \cap D /\ (Ext!ToSet(hits) = HitFunds => HitFunds \cup rest = HitFunds \cup (ByPart \cap D))
    OBVIOUS
  <2> DEFINE fs == _select_fundos
  <2> HIDE DEF hits, tail, rest, room, D, fs
  <2>9. /\ fs \in Seq(HitFunds \cup rest) /\ Len(fs) = Len(hits) + Len(tail) /\ Distinct(fs)
        /\ Ext!ToSet(fs) = Ext!ToSet(hits) \cup Ext!ToSet(tail)
    BY <2>6 DEF Joined, fs
  <2>10. fs \in Seq(D) /\ Len(fs) \in Nat /\ DOMAIN fs = 1 .. Len(fs)
    <3>1. HitFunds \cup rest \subseteq D
      BY <1>1, <2>8
    <3> QED BY <2>9, <3>1, SeqFacts
  <2>11. Ext!ToSet(fs) \subseteq Due
    BY <1>4, <2>2, <2>7, <2>8, <2>9
  <2>12. Len(fs) <= asked.limit + (IF Over THEN 1 ELSE 0)
    <3>1. CASE Len(hits) = asked.limit
      <4>1. Over
        BY <1>5, <1>6, <3>1 DEF Over
      <4> QED BY <1>2, <1>4, <2>3, <2>7, <2>9, <3>1, <4>1
    <3>2. CASE Len(hits) # asked.limit
      <4>1. Len(fs) <= asked.limit
        BY <1>2, <1>4, <2>3, <2>7, <2>9, <3>2
      <4>2. (IF Over THEN 1 ELSE 0) \in Nat
        OBVIOUS
      <4> QED BY <1>2, <2>10, <4>1, <4>2
    <3> QED BY <3>1, <3>2
  <2>13. Len(fs) < asked.limit => Ext!ToSet(fs) = Due
    <3> SUFFICES ASSUME Len(fs) < asked.limit PROVE Ext!ToSet(fs) = Due
      OBVIOUS
    <3>1. Len(hits) < asked.limit /\ Len(tail) < room
      BY <1>2, <1>4, <2>3, <2>7, <2>9
    <3> QED BY <1>4, <2>2, <2>7, <2>8, <2>9, <3>1
  <2> QED BY <2>9, <2>10, <2>11, <2>12, <2>13 DEF Serves, ServesAll, fs, D
<1>7. CASE asked.by # "q" /\ hits # << >>
  <2>1. _select_fundos = hits
    BY <1>7 DEF _select_fundos
  <2>2. Len(hits) # 0
    BY <1>4, <1>7
  <2>3. HitFunds # {}
    BY <1>4, <2>2
  <2>4. Due = HitFunds
    BY <1>7, <2>3 DEF Due
  <2> HIDE DEF hits
  <2>5. hits \in Seq(D) /\ DOMAIN hits = 1 .. Len(hits) /\ Distinct(hits)
    BY <1>1, <1>3 DEF Picks
  <2>6. Len(hits) <= asked.limit + (IF Over THEN 1 ELSE 0)
    BY <1>2, <1>4
  <2> QED BY <1>4, <2>1, <2>4, <2>5, <2>6 DEF Serves, ServesAll
<1>8. CASE asked.by # "q" /\ hits = << >>
  <2>1. _select_fundos = byClass
    BY <1>8 DEF _select_fundos
  <2>2. Ext!ToSet(hits) = {} /\ Len(hits) = 0
    BY <1>8 DEF Ext!ToSet
  <2>3. HitFunds = {}
    BY <1>2, <1>4, <2>2
  <2>4. Due = FundsOf(HitClasses) \cap D
    BY <1>8, <2>3 DEF Due, FundsOf
  <2>5. Picks(byClass, Due, asked.limit)
    BY <1>2, <2>4, FundsArePicked
  <2> HIDE DEF byClass, hits
  <2>6. byClass \in Seq(D)
    BY <2>4, <2>5 DEF Picks
  <2>7. Len(byClass) <= asked.limit + (IF Over THEN 1 ELSE 0)
    BY <1>2, <2>5 DEF Picks
  <2> QED BY <2>1, <2>5, <2>6, <2>7 DEF Serves, ServesAll, Picks
<1> QED BY <1>6, <1>7, <1>8

\* A cut of different values.
LEMMA CutsKeep ==
  \A W : \A s \in Seq(W) : \A n \in Nat : Distinct(s) =>
    /\ Upto(s, n) \in Seq(W) /\ Len(Upto(s, n)) \in Nat /\ DOMAIN Upto(s, n) = 1 .. Len(Upto(s, n))
    /\ Distinct(Upto(s, n)) /\ Len(Upto(s, n)) <= n /\ Ext!ToSet(Upto(s, n)) \subseteq Ext!ToSet(s)
    /\ Len(Upto(s, n)) < n => Upto(s, n) = s
<1> SUFFICES ASSUME NEW W, NEW s \in Seq(W), NEW n \in Nat, Distinct(s)
             PROVE  /\ Upto(s, n) \in Seq(W) /\ Len(Upto(s, n)) \in Nat /\ DOMAIN Upto(s, n) = 1 .. Len(Upto(s, n))
                    /\ Distinct(Upto(s, n)) /\ Len(Upto(s, n)) <= n /\ Ext!ToSet(Upto(s, n)) \subseteq Ext!ToSet(s)
                    /\ Len(Upto(s, n)) < n => Upto(s, n) = s
  OBVIOUS
<1> DEFINE u == Upto(s, n)
<1>0. Distinct(s)
  OBVIOUS
<1>1. Len(s) \in Nat
  BY SeqFacts
<1>2. /\ u \in Seq(W) /\ Len(u) = (IF n <= Len(s) THEN n ELSE Len(s))
      /\ \A k \in DOMAIN u : k \in DOMAIN s /\ u[k] = s[k]
      /\ Len(s) <= n => u = s
  BY UptoIs
<1> HIDE DEF u
<1>3. Len(u) \in Nat /\ DOMAIN u = 1 .. Len(u)
  BY <1>2, SeqFacts
<1>4. Distinct(u)
  <2>1. \A k, l \in DOMAIN s : s[k] = s[l] => k = l
    BY <1>0 DEF Distinct
  <2> QED BY <1>2, <2>1, Zenon DEF Distinct
<1>5. Len(u) <= n /\ (Len(u) < n => Len(s) <= n)
  BY <1>1, <1>2
<1>6. Ext!ToSet(u) \subseteq Ext!ToSet(s)
  <2> SUFFICES ASSUME NEW x \in Ext!ToSet(u) PROVE x \in Ext!ToSet(s)
    OBVIOUS
  <2>1. PICK k \in DOMAIN u : u[k] = x
    BY DEF Ext!ToSet
  <2>2. k \in DOMAIN s /\ s[k] = x
    BY <1>2, <2>1
  <2> QED BY <2>2 DEF Ext!ToSet
<1> QED BY <1>2, <1>3, <1>4, <1>5, <1>6 DEF u

\* What no cap of the Worker has cut.
KeptClasses == {c \in AllClasses : lists.classes[c].fund \in CatalogByName.keep \cup CatalogByCnpj.keep}
Small(S) == ~ (Cardinality(S) > CatalogCap)

\* Where the Worker is not capped every scan of it is whole.
LEMMA UncappedIsSmall ==
  asked.surface = "worker" /\ ~Capped =>
    /\ Small(HitClasses) /\ Small(HitSubs) /\ Small(KeptClasses)
    /\ Small({s \in AllSubs : lists.subs[s].class \in KeptClasses})
    /\ Small({c \in AllClasses : \E s \in HitSubs : lists.subs[s].class = c})
BY DEF Capped, Small, KeptClasses

\* The scans of the register's files.
LEMMA RegisterScans ==
  lists \in Register =>
    /\ \A wanted : wanted \subseteq AllClasses =>
         Scan(lists.classes, wanted) \subseteq wanted /\ (Small(wanted) => Scan(lists.classes, wanted) = wanted)
    /\ \A wanted : wanted \subseteq AllSubs =>
         Scan(lists.subs, wanted) \subseteq wanted /\ (Small(wanted) => Scan(lists.subs, wanted) = wanted)
BY RegisterFacts, ScansAreWhole DEF AllClasses, AllSubs, Small

\* The Worker's search by CNPJ.
LEMMA CnpjServes ==
  lists \in Register /\ asked.limit \in Nat \ {0} /\ asked.surface = "worker" /\ asked.by = "cnpj" =>
    /\ Serves(Upto(CatalogByCnpj.funds, asked.limit), asked.limit)
    /\ ~Capped => ServesAll(Upto(CatalogByCnpj.funds, asked.limit))
    /\ Ext!ToSet(Upto(CatalogByCnpj.funds, asked.limit)) \subseteq CatalogByCnpj.keep
<1> SUFFICES ASSUME lists \in Register, asked.limit \in Nat \ {0}, asked.surface = "worker", asked.by = "cnpj"
             PROVE  /\ Serves(Upto(CatalogByCnpj.funds, asked.limit), asked.limit)
                    /\ ~Capped => ServesAll(Upto(CatalogByCnpj.funds, asked.limit))
                    /\ Ext!ToSet(Upto(CatalogByCnpj.funds, asked.limit)) \subseteq CatalogByCnpj.keep
  OBVIOUS
<1> DEFINE D == DOMAIN lists.funds
           room == Ext!Max({asked.limit, CatalogCap})
           own == Upto(Funds(HitFunds), room)
           scanned == Scan(lists.classes, HitClasses)
           byClass == FundsOf(scanned)
           parted == Upto(Funds(byClass), asked.limit)
           fs == CatalogByCnpj.funds
           u == Upto(fs, asked.limit)
<1>1. fs = (IF own # << >> THEN own ELSE parted) /\ CatalogByCnpj.keep = Ext!ToSet(own) \cup byClass
  BY DEF CatalogByCnpj
<1>2. HitFunds \cap D = HitFunds /\ HitFunds \subseteq D
  BY RegisterFacts
<1>3. room \in Nat /\ asked.limit \in Nat /\ asked.limit <= room /\ 1 <= asked.limit
  <2>1. CatalogCap \in Nat
    BY LookupAssumption
  <2>2. room = (IF asked.limit <= CatalogCap THEN CatalogCap ELSE asked.limit)
    <3>1. asked.limit \in Int /\ CatalogCap \in Int
      BY <2>1
    <3> QED BY <3>1, OfTwo
  <2> HIDE DEF room
  <2> QED BY <2>1, <2>2
<1>4. Picks(own, HitFunds, room)
  <2> HIDE DEF room
  <2> QED BY <1>2, <1>3, FundsArePicked
<1>5. Picks(parted, byClass \cap D, asked.limit)
  BY <1>3, FundsArePicked
<1>6. scanned \subseteq HitClasses /\ (~Capped => scanned = HitClasses)
  BY RegisterScans, RegisterFacts, UncappedIsSmall
<1>7. own = << >> => HitFunds = {} /\ Due = FundsOf(HitClasses) \cap D
  <2> SUFFICES ASSUME own = << >> PROVE HitFunds = {} /\ Due = FundsOf(HitClasses) \cap D
    OBVIOUS
  <2> HIDE DEF own, room
  <2>1. Len(own) = 0 /\ Ext!ToSet(own) = {}
    BY DEF Ext!ToSet
  <2>2. HitFunds = {}
    BY <1>3, <1>4, <2>1 DEF Picks
  <2> QED BY <2>2 DEF Due, FundsOf
<1>8. own # << >> => Due = HitFunds
  <2> HIDE DEF own, room
  <2>1. own # << >> => HitFunds # {}
    BY <1>4 DEF Picks
  <2> QED BY <2>1 DEF Due
<1> HIDE DEF room, own, parted, scanned, fs, u
<1>9. CASE own # << >>
  <2>1. fs = own /\ Due = HitFunds
    BY <1>1, <1>8, <1>9
  <2>2. own \in Seq(D) /\ Distinct(own) /\ Ext!ToSet(own) \subseteq Due /\ (Len(own) < room => Ext!ToSet(own) = Due)
    BY <1>2, <1>4, <2>1 DEF Picks
  <2>3. /\ u \in Seq(D) /\ Len(u) \in Nat /\ DOMAIN u = 1 .. Len(u) /\ Distinct(u)
        /\ Len(u) <= asked.limit /\ Ext!ToSet(u) \subseteq Ext!ToSet(own)
        /\ Len(u) < asked.limit => u = own
    BY <1>3, <2>1, <2>2, CutsKeep DEF u
  <2>4. Serves(u, asked.limit)
    BY <2>2, <2>3 DEF Serves
  <2>5. ServesAll(u)
    BY <1>3, <2>2, <2>3 DEF ServesAll
  <2> QED BY <1>1, <2>3, <2>4, <2>5 DEF u, fs
<1>10. CASE own = << >>
  <2>1. fs = parted /\ Due = FundsOf(HitClasses) \cap D
    BY <1>1, <1>7, <1>10
  <2>2. byClass \cap D \subseteq Due /\ (~Capped => byClass \cap D = Due)
    BY <1>6, <2>1 DEF FundsOf
  <2> HIDE DEF byClass
  <2>3. /\ parted \in Seq(byClass \cap D) /\ Distinct(parted) /\ Ext!ToSet(parted) \subseteq byClass \cap D
        /\ Len(parted) < asked.limit => Ext!ToSet(parted) = byClass \cap D
    BY <1>5 DEF Picks
  <2>4. parted \in Seq(D)
    BY <2>3
  <2>5. /\ u \in Seq(D) /\ Len(u) \in Nat /\ DOMAIN u = 1 .. Len(u) /\ Distinct(u)
        /\ Len(u) <= asked.limit /\ Ext!ToSet(u) \subseteq Ext!ToSet(parted)
        /\ Len(u) < asked.limit => u = parted
    BY <1>3, <2>1, <2>3, <2>4, CutsKeep DEF u
  <2>6. Serves(u, asked.limit)
    BY <2>2, <2>3, <2>5 DEF Serves
  <2>7. ~Capped => ServesAll(u)
    BY <1>3, <2>2, <2>3, <2>5 DEF ServesAll
  <2> QED BY <1>1, <2>3, <2>5, <2>6, <2>7 DEF u, fs
<1> QED BY <1>9, <1>10

\* The Worker's search by name.
LEMMA NameServes ==
  lists \in Register /\ asked.limit \in Nat \ {0} /\ asked.surface = "worker" /\ asked.by = "q" =>
    /\ Serves(Upto(CatalogByName.funds, asked.limit), asked.limit)
    /\ ~Capped => ServesAll(Upto(CatalogByName.funds, asked.limit))
    /\ Ext!ToSet(Upto(CatalogByName.funds, asked.limit)) \subseteq CatalogByName.keep
<1> SUFFICES ASSUME lists \in Register, asked.limit \in Nat \ {0}, asked.surface = "worker", asked.by = "q"
             PROVE  /\ Serves(Upto(CatalogByName.funds, asked.limit), asked.limit)
                    /\ ~Capped => ServesAll(Upto(CatalogByName.funds, asked.limit))
                    /\ Ext!ToSet(Upto(CatalogByName.funds, asked.limit)) \subseteq CatalogByName.keep
  OBVIOUS
<1> DEFINE D == DOMAIN lists.funds
           named == Upto(Funds(HitFunds), asked.limit)
           subs == Scan(lists.subs, HitSubs)
           parents == ClassesOf(subs)
           classes == Scan(lists.classes, HitClasses) \cup Scan(lists.classes, parents)
           extra == FundsOf(classes)
           rest == (extra \ Ext!ToSet(named)) \cap D
           tail == Upto(Funds(extra \ Ext!ToSet(named)), asked.limit)
           all == named \o tail
           fs == CatalogByName.funds
           u == Upto(fs, asked.limit)
<1>1. fs = all /\ CatalogByName.keep = Ext!ToSet(all)
  BY DEF CatalogByName
<1>2. HitFunds \cap D = HitFunds /\ HitFunds \subseteq D
  BY RegisterFacts
<1>3. asked.limit \in Nat
  OBVIOUS
<1>4. Picks(named, HitFunds, asked.limit)
  BY <1>2, <1>3, FundsArePicked
<1>5. Picks(tail, rest, asked.limit)
  BY <1>3, FundsArePicked
<1>6. Due = HitFunds \cup (ByPart \cap D)
  BY DEF Due
<1>7. subs \subseteq HitSubs /\ (~Capped => subs = HitSubs)
  BY RegisterScans, RegisterFacts, UncappedIsSmall
<1>8. parents \subseteq AllClasses /\ parents \subseteq ClassesOf(HitSubs) /\ (~Capped => parents = ClassesOf(HitSubs))
  <2> HIDE DEF subs
  <2> QED BY <1>7 DEF ClassesOf, AllClasses
<1>9. ClassesOf(HitSubs) = {c \in AllClasses : \E s \in HitSubs : lists.subs[s].class = c}
  BY DEF ClassesOf, AllClasses
<1>10. classes \subseteq HitClasses \cup ClassesOf(HitSubs) /\ (~Capped => classes = HitClasses \cup ClassesOf(HitSubs))
  <2> HIDE DEF parents
  <2>1. /\ Scan(lists.classes, HitClasses) \subseteq HitClasses
        /\ Scan(lists.classes, parents) \subseteq parents
    BY <1>8, RegisterScans, RegisterFacts
  <2>2. ~Capped => Scan(lists.classes, HitClasses) = HitClasses
    BY RegisterScans, RegisterFacts, UncappedIsSmall
  <2>3. ~Capped => Small(ClassesOf(HitSubs))
    BY <1>9, UncappedIsSmall
  <2>4. ~Capped => Scan(lists.classes, parents) = ClassesOf(HitSubs)
    BY <1>8, <2>3, RegisterScans
  <2> QED BY <1>8, <2>1, <2>2, <2>4
<1>11. extra \subseteq ByPart /\ (~Capped => extra = ByPart)
  <2> HIDE DEF classes
  <2> QED BY <1>10 DEF FundsOf, ByPart
<1> HIDE DEF extra
<1>12. rest \subseteq ByPart \cap D /\ (~Capped /\ Ext!ToSet(named) = HitFunds => HitFunds \cup rest = Due)
  BY <1>6, <1>11
<1>13. Ext!ToSet(named) \cap rest = {}
  OBVIOUS
<1> HIDE DEF named, tail, rest, D
<1>14. Joined(all, named, tail, HitFunds \cup rest)
  BY <1>4, <1>5, <1>13, OneAfterTheOther
<1> HIDE DEF all, fs, u
<1>15. /\ all \in Seq(HitFunds \cup rest) /\ Len(all) = Len(named) + Len(tail) /\ Distinct(all)
       /\ Ext!ToSet(all) = Ext!ToSet(named) \cup Ext!ToSet(tail)
  BY <1>14 DEF Joined
<1>16. /\ Len(named) \in Nat /\ Ext!ToSet(named) \subseteq HitFunds /\ (Len(named) < asked.limit => Ext!ToSet(named) = HitFunds)
       /\ Len(tail) \in Nat /\ Ext!ToSet(tail) \subseteq rest /\ (Len(tail) < asked.limit => Ext!ToSet(tail) = rest)
  BY <1>4, <1>5 DEF Picks
<1>17. all \in Seq(D)
  <2>1. HitFunds \cup rest \subseteq D
    BY <1>2 DEF rest
  <2> QED BY <1>15, <2>1
<1>18. /\ u \in Seq(D) /\ Len(u) \in Nat /\ DOMAIN u = 1 .. Len(u) /\ Distinct(u)
       /\ Len(u) <= asked.limit /\ Ext!ToSet(u) \subseteq Ext!ToSet(all)
       /\ Len(u) < asked.limit => u = all
  BY <1>1, <1>3, <1>15, <1>17, CutsKeep DEF u
<1>19. Ext!ToSet(all) \subseteq Due
  BY <1>6, <1>12, <1>15, <1>16
<1>20. Serves(u, asked.limit)
  BY <1>18, <1>19 DEF Serves, D
<1>21. ~Capped => ServesAll(u)
  <2> SUFFICES ASSUME ~Capped, Len(u) < asked.limit PROVE Ext!ToSet(u) = Due
    BY DEF ServesAll
  <2>1. Len(named) < asked.limit /\ Len(tail) < asked.limit
    BY <1>3, <1>15, <1>16, <1>18
  <2> QED BY <1>12, <1>15, <1>16, <1>18, <2>1
<1> QED BY <1>1, <1>18, <1>20, <1>21 DEF u, fs

\* A search of the register that is whole: the funds it serves, all their classes and
\* the subclasses of these.
CatalogWhole(f) ==
  /\ f.kind = "catalog" /\ f.rows = << >> /\ f.truncated = FALSE
  /\ Serves(f.funds, IF asked.surface = "python" /\ Over THEN asked.limit + 1 ELSE asked.limit)
  /\ f.classes \subseteq AllClasses /\ f.subs \subseteq AllSubs
  /\ Capped \/
       /\ ServesAll(f.funds)
       /\ f.classes = {c \in AllClasses : lists.classes[c].fund \in Ext!ToSet(f.funds)}
       /\ f.subs = {s \in AllSubs : lists.subs[s].class \in f.classes}

\* The parts of an answer of the catalogue.
LEMMA CataloguedIs ==
  \A fs, cs, ss :
    /\ Catalogued(fs, cs, ss).kind = "catalog" /\ Catalogued(fs, cs, ss).funds = fs
    /\ Catalogued(fs, cs, ss).classes = {c \in cs : lists.classes[c].fund \in Ext!ToSet(fs)}
    /\ Catalogued(fs, cs, ss).subs =
         {s \in ss : lists.subs[s].class \in cs /\ lists.classes[lists.subs[s].class].fund \in Ext!ToSet(fs)}
    /\ Catalogued(fs, cs, ss).rows = << >> /\ Catalogued(fs, cs, ss).truncated = FALSE
BY DEF Catalogued, NotFound

\* The Python catalogue is whole.
LEMMA PythonIsWhole ==
  lists \in Register /\ asked.limit \in Nat \ {0} /\ asked.surface = "python" =>
    CatalogWhole(Catalogued(_select_fundos, AllClasses, AllSubs))
<1> SUFFICES ASSUME lists \in Register, asked.limit \in Nat \ {0}, asked.surface = "python"
             PROVE  CatalogWhole(Catalogued(_select_fundos, AllClasses, AllSubs))
  OBVIOUS
<1> DEFINE f == Catalogued(_select_fundos, AllClasses, AllSubs)
           fs == _select_fundos
<1>1. Serves(fs, asked.limit + (IF Over THEN 1 ELSE 0)) /\ ServesAll(fs)
  BY PythonServes
<1> HIDE DEF fs
<1>2. /\ f.kind = "catalog" /\ f.funds = fs /\ f.rows = << >> /\ f.truncated = FALSE
      /\ f.classes = {c \in AllClasses : lists.classes[c].fund \in Ext!ToSet(fs)}
      /\ f.subs = {s \in AllSubs : lists.subs[s].class \in AllClasses
                                   /\ lists.classes[lists.subs[s].class].fund \in Ext!ToSet(fs)}
  BY CataloguedIs DEF fs
<1> HIDE DEF f
<1>3. f.subs = {s \in AllSubs : lists.subs[s].class \in f.classes}
  BY <1>2
<1>4. f.classes \subseteq AllClasses /\ f.subs \subseteq AllSubs
  BY <1>2
<1>5. (IF asked.surface = "python" /\ Over THEN asked.limit + 1 ELSE asked.limit)
      = asked.limit + (IF Over THEN 1 ELSE 0)
  OBVIOUS
<1>6. CatalogWhole(f)
  BY <1>1, <1>2, <1>3, <1>4, <1>5 DEF CatalogWhole
<1> QED BY <1>6 DEF f, fs

\* The Worker's catalogue is whole where no cap has cut it.
LEMMA WorkerIsWhole ==
  \A hit, fs, cs, ss :
    /\ lists \in Register /\ asked.surface = "worker"
    /\ hit.keep \subseteq CatalogByName.keep \cup CatalogByCnpj.keep
    /\ Serves(fs, asked.limit) /\ (~Capped => ServesAll(fs)) /\ Ext!ToSet(fs) \subseteq hit.keep
    /\ cs = Scan(lists.classes, {c \in AllClasses : lists.classes[c].fund \in hit.keep})
    /\ ss = Scan(lists.subs, {s \in AllSubs : lists.subs[s].class \in cs})
    => CatalogWhole(Catalogued(fs, cs, ss))
<1> SUFFICES ASSUME NEW hit, NEW fs, NEW cs, NEW ss,
                    lists \in Register, asked.surface = "worker",
                    hit.keep \subseteq CatalogByName.keep \cup CatalogByCnpj.keep,
                    Serves(fs, asked.limit), ~Capped => ServesAll(fs), Ext!ToSet(fs) \subseteq hit.keep,
                    cs = Scan(lists.classes, {c \in AllClasses : lists.classes[c].fund \in hit.keep}),
                    ss = Scan(lists.subs, {s \in AllSubs : lists.subs[s].class \in cs})
             PROVE  CatalogWhole(Catalogued(fs, cs, ss))
  OBVIOUS
<1> DEFINE f == Catalogued(fs, cs, ss)
           C == {c \in AllClasses : lists.classes[c].fund \in hit.keep}
           B == {s \in AllSubs : lists.subs[s].class \in cs}
           K == {s \in AllSubs : lists.subs[s].class \in KeptClasses}
<1>1. IsFiniteSet(AllClasses) /\ IsFiniteSet(AllSubs)
  BY RegisterFacts
<1>2. CatalogCap \in Nat
  BY LookupAssumption
<1>3. \A V, W : IsFiniteSet(V) /\ W \subseteq V /\ Small(V) => Small(W)
  <2> SUFFICES ASSUME NEW V, NEW W, IsFiniteSet(V), W \subseteq V, Small(V) PROVE Small(W)
    OBVIOUS
  <2>1. IsFiniteSet(W) /\ Cardinality(W) <= Cardinality(V)
    BY FS_Subset
  <2>2. Cardinality(W) \in Nat /\ Cardinality(V) \in Nat
    BY <2>1, FS_CardinalityType
  <2> QED BY <1>2, <2>1, <2>2 DEF Small
<1>4. cs \subseteq C /\ (Small(C) => cs = C)
  BY RegisterScans
<1>5. ss \subseteq B /\ (Small(B) => ss = B)
  BY RegisterScans
<1>6. C \subseteq KeptClasses /\ KeptClasses \subseteq AllClasses /\ C \subseteq AllClasses
  BY DEF KeptClasses
<1>7. B \subseteq K /\ K \subseteq AllSubs
  <2> HIDE DEF C
  <2> QED BY <1>4, <1>6
<1>8. IsFiniteSet(KeptClasses) /\ IsFiniteSet(K)
  <2> HIDE DEF K
  <2> QED BY <1>1, <1>6, <1>7, FS_Subset
<1>9. ~Capped => Small(KeptClasses) /\ Small(K)
  BY UncappedIsSmall
<1>10. ~Capped => cs = C /\ ss = B
  <2> HIDE DEF C, B, K
  <2> QED BY <1>3, <1>4, <1>5, <1>6, <1>7, <1>8, <1>9
<1>11. /\ f.kind = "catalog" /\ f.funds = fs /\ f.rows = << >> /\ f.truncated = FALSE
       /\ f.classes = {c \in cs : lists.classes[c].fund \in Ext!ToSet(fs)}
       /\ f.subs = {s \in ss : lists.subs[s].class \in cs
                               /\ lists.classes[lists.subs[s].class].fund \in Ext!ToSet(fs)}
  BY CataloguedIs
<1> HIDE DEF f
<1>12. f.classes \subseteq AllClasses /\ f.subs \subseteq AllSubs
  <2>1. cs \subseteq AllClasses /\ ss \subseteq AllSubs
    <3> HIDE DEF C, B
    <3> QED BY <1>4, <1>5, <1>6, <1>7
  <2> QED BY <1>11, <2>1
<1>13. ~Capped => f.classes = {c \in AllClasses : lists.classes[c].fund \in Ext!ToSet(f.funds)}
  <2> SUFFICES ASSUME ~Capped
               PROVE  f.classes = {c \in AllClasses : lists.classes[c].fund \in Ext!ToSet(f.funds)}
    OBVIOUS
  <2>1. cs = C
    BY <1>10
  <2>2. Ext!ToSet(fs) \subseteq hit.keep
    OBVIOUS
  <2>3. f.classes = {c \in C : lists.classes[c].fund \in Ext!ToSet(fs)} /\ f.funds = fs
    BY <1>11, <2>1
  <2> QED BY <2>2, <2>3
<1>14. ~Capped => f.subs = {s \in AllSubs : lists.subs[s].class \in f.classes}
  <2> SUFFICES ASSUME ~Capped
               PROVE  f.subs = {s \in AllSubs : lists.subs[s].class \in f.classes}
    OBVIOUS
  <2>1. ss = B
    BY <1>10
  <2>2. \A s \in AllSubs : lists.subs[s].class \in f.classes <=>
          lists.subs[s].class \in cs /\ lists.classes[lists.subs[s].class].fund \in Ext!ToSet(fs)
    BY <1>11
  <2>3. f.subs = {s \in B : lists.subs[s].class \in cs /\ lists.classes[lists.subs[s].class].fund \in Ext!ToSet(fs)}
    BY <1>11, <2>1
  <2> QED BY <2>2, <2>3
<1>15. (IF asked.surface = "python" /\ Over THEN asked.limit + 1 ELSE asked.limit) = asked.limit
  OBVIOUS
<1> QED BY <1>11, <1>12, <1>13, <1>14, <1>15 DEF CatalogWhole, f

\* Either search of the Worker.
LEMMA WorkerServes ==
  \A hit :
    /\ lists \in Register /\ asked.limit \in Nat \ {0} /\ asked.surface = "worker" /\ asked.by \in {"cnpj", "q"}
    /\ hit = (IF asked.by = "cnpj" THEN CatalogByCnpj ELSE CatalogByName)
    => /\ hit.keep \subseteq CatalogByName.keep \cup CatalogByCnpj.keep
       /\ Serves(Upto(hit.funds, asked.limit), asked.limit)
       /\ ~Capped => ServesAll(Upto(hit.funds, asked.limit))
       /\ Ext!ToSet(Upto(hit.funds, asked.limit)) \subseteq hit.keep
<1> SUFFICES ASSUME NEW hit, lists \in Register, asked.limit \in Nat \ {0}, asked.surface = "worker",
                    asked.by \in {"cnpj", "q"},
                    hit = (IF asked.by = "cnpj" THEN CatalogByCnpj ELSE CatalogByName)
             PROVE  /\ hit.keep \subseteq CatalogByName.keep \cup CatalogByCnpj.keep
                    /\ Serves(Upto(hit.funds, asked.limit), asked.limit)
                    /\ ~Capped => ServesAll(Upto(hit.funds, asked.limit))
                    /\ Ext!ToSet(Upto(hit.funds, asked.limit)) \subseteq hit.keep
  OBVIOUS
<1>1. CASE asked.by = "cnpj"
  <2>1. hit = CatalogByCnpj
    BY <1>1
  <2> QED BY <1>1, <2>1, CnpjServes
<1>2. CASE asked.by = "q"
  <2>1. hit = CatalogByName
    BY <1>2
  <2> QED BY <1>2, <2>1, NameServes
<1> QED BY <1>1, <1>2

\* A block that names the CNPJ in a line of another fund.
SomeHolder == \E b \in DOMAIN zip : "holder" \in Ext!ToSet(zip[b].lines)
Archive == Seq([label : Blocks, lines : Seq(LineKinds)])
Worker == asked.surface = "worker"

\* What is kept of a block: some of its own lines in their order, all of them unless
\* the Worker has as many rows as it wants or a holder's line in the archive.
KeptOf(b, r) ==
  /\ r \in Seq(Nat \X Nat) /\ InOrder(r) /\ Ext!ToSet(r) \subseteq {b} \X LinesOf(b, {"own"})
  /\ Worker => Len(holdings) + Len(r) <= asked.limit
  /\ \/ Ext!ToSet(r) = {b} \X LinesOf(b, {"own"})
     \/ Worker /\ (SomeHolder \/ Len(holdings) + Len(r) = asked.limit)

\* A block's rows are so kept.
LEMMA BlockIsKept ==
  \A b : /\ zip \in Archive /\ b \in DOMAIN zip /\ asked.limit \in Nat /\ Len(holdings) \in Nat
         /\ asked.surface \in {"python", "worker"} /\ (Worker => Len(holdings) <= asked.limit)
         => KeptOf(b, FromBlock(b))
<1> SUFFICES ASSUME NEW b, zip \in Archive, b \in DOMAIN zip, asked.limit \in Nat, Len(holdings) \in Nat,
                    asked.surface \in {"python", "worker"}, Worker => Len(holdings) <= asked.limit
             PROVE  KeptOf(b, FromBlock(b))
  OBVIOUS
<1> DEFINE lines == zip[b].lines
           own == LinesOf(b, {"own"})
           some == LinesOf(b, {"own", "holder"})
           kept == Named(b) \cap own
           at == Places(lines, kept)
           r == FromBlock(b)
           room == asked.limit - Len(holdings)
           cut == Upto(Places(lines, some), room)
<1>1. lines \in Seq(LineKinds) /\ b \in Nat
  <2>1. Len(zip) \in Nat /\ DOMAIN zip = 1 .. Len(zip) /\ zip[b] \in [label : Blocks, lines : Seq(LineKinds)]
    BY SeqFacts DEF Archive
  <2> QED BY <2>1
<1>2. own \subseteq DOMAIN lines /\ some \subseteq DOMAIN lines /\ own \subseteq some
  BY DEF LinesOf
<1>3. ~ SomeHolder => own = some
  <2> SUFFICES ASSUME ~ SomeHolder PROVE \A i \in some : i \in own
    BY <1>2
  <2>1. \A i \in DOMAIN lines : lines[i] # "holder"
    <3> SUFFICES ASSUME NEW i \in DOMAIN lines, lines[i] = "holder" PROVE FALSE
      OBVIOUS
    <3>1. "holder" \in Ext!ToSet(zip[b].lines)
      BY DEF Ext!ToSet
    <3> QED BY <3>1 DEF SomeHolder
  <2> QED BY <2>1 DEF LinesOf
<1>4. r = [k \in DOMAIN at |-> <<b, at[k]>>]
  BY DEF FromBlock
<1>5. Worker => Named(b) = Ext!ToSet(cut) /\ room \in Nat
  BY DEF Named, Worker
<1>6. ~ Worker => Named(b) = some
  BY DEF Named, Worker
<1>7. Worker => Picks(cut, some, room)
  <2> SUFFICES ASSUME Worker PROVE Picks(cut, some, room)
    OBVIOUS
  <2>1. room \in Nat
    BY <1>5
  <2>2. some \cap DOMAIN lines = some
    BY <1>2
  <2> HIDE DEF room, lines, some
  <2> QED BY <1>1, <2>1, <2>2, PlacesArePicked
<1>8. Enumerates(at, kept)
  <2>1. kept \cap DOMAIN lines = kept
    BY <1>2
  <2> HIDE DEF lines, kept
  <2> QED BY <1>1, <2>1, PlacesAreListed
<1>9. own \subseteq Nat
  <2>1. DOMAIN lines \subseteq Nat
    BY <1>1, SeqFacts
  <2> QED BY <1>2, <2>1
<1> HIDE DEF lines, own, some, at, r, room, cut
<1>10. /\ at \in Seq(kept) /\ Len(at) \in Nat /\ DOMAIN at = 1 .. Len(at) /\ Ext!ToSet(at) = kept
       /\ \A k, l \in DOMAIN at : k < l => at[k] < at[l]
  BY <1>8 DEF Enumerates
<1>11. kept \subseteq own /\ kept \subseteq Nat
  BY <1>1, <1>9
<1>12. \A k \in 1 .. Len(at) : at[k] \in kept
  BY <1>10
<1>13. Distinct(at)
  <2> SUFFICES ASSUME NEW k \in DOMAIN at, NEW l \in DOMAIN at, k # l PROVE at[k] # at[l]
    BY DEF Distinct
  <2>1. k < l \/ l < k
    BY <1>10
  <2>2. at[k] \in Nat /\ at[l] \in Nat
    BY <1>10, <1>11, <1>12
  <2>3. at[k] < at[l] \/ at[l] < at[k]
    BY <1>10, <2>1
  <2> QED BY <2>2, <2>3
<1>14. Len(at) = Cardinality(kept)
  BY <1>10, <1>13, DistinctCounts
<1> HIDE DEF kept
<1>15. r \in Seq(Nat \X Nat) /\ Len(r) = Len(at) /\ DOMAIN r = 1 .. Len(at)
  <2>1. r \in [1 .. Len(at) -> Nat \X Nat]
    BY <1>1, <1>4, <1>10, <1>11, <1>12
  <2> QED BY <1>10, <2>1
<1>16. \A k \in 1 .. Len(at) : r[k] = <<b, at[k]>>
  BY <1>4, <1>10
<1>17. InOrder(r)
  <2> SUFFICES ASSUME NEW k \in 1 .. Len(at), NEW l \in 1 .. Len(at), k < l
               PROVE  r[k][1] = r[l][1] /\ r[k][2] < r[l][2]
    BY <1>15 DEF InOrder
  <2> QED BY <1>10, <1>16
<1>18. Ext!ToSet(r) = {b} \X kept
  <2>1. ASSUME NEW x \in Ext!ToSet(r) PROVE x \in {b} \X kept
    <3>1. PICK k \in 1 .. Len(at) : r[k] = x
      BY <1>15 DEF Ext!ToSet
    <3>2. x = <<b, at[k]>> /\ at[k] \in kept
      BY <1>12, <1>16, <3>1
    <3> QED BY <3>2
  <2>2. ASSUME NEW x \in {b} \X kept PROVE x \in Ext!ToSet(r)
    <3>1. PICK i \in kept : x = <<b, i>>
      OBVIOUS
    <3>2. PICK k \in 1 .. Len(at) : at[k] = i
      BY <1>10 DEF Ext!ToSet
    <3>3. r[k] = x /\ k \in DOMAIN r
      BY <1>15, <1>16, <3>1, <3>2
    <3> QED BY <3>3 DEF Ext!ToSet
  <2> QED BY <2>1, <2>2
<1>19. Worker => Len(at) <= room
  <2> SUFFICES ASSUME Worker PROVE Len(at) <= room
    OBVIOUS
  <2>1. cut \in Seq(some) /\ Distinct(cut) /\ Len(cut) \in Nat /\ Len(cut) <= room
    BY <1>7 DEF Picks
  <2>2. IsFiniteSet(Ext!ToSet(cut)) /\ Cardinality(Ext!ToSet(cut)) = Len(cut)
    BY <2>1, DistinctCounts
  <2>3. kept \subseteq Ext!ToSet(cut)
    BY <1>5 DEF kept
  <2>4. Cardinality(kept) <= Cardinality(Ext!ToSet(cut))
    BY <2>2, <2>3, FS_Subset
  <2> QED BY <1>5, <1>10, <1>14, <2>1, <2>2, <2>4
<1>20. kept = own \/ (Worker /\ (SomeHolder \/ Len(at) = room))
  <2>1. CASE ~ Worker
    BY <1>2, <1>6, <2>1 DEF kept
  <2>2. CASE Worker /\ ~ SomeHolder
    <3>1. cut \in Seq(some) /\ Distinct(cut) /\ Len(cut) \in Nat /\ Len(cut) <= room
          /\ Ext!ToSet(cut) \subseteq some /\ (Len(cut) < room => Ext!ToSet(cut) = some)
      BY <1>7, <2>2 DEF Picks
    <3>2. kept = Ext!ToSet(cut)
      BY <1>3, <1>5, <2>2, <3>1 DEF kept
    <3>3. Len(at) = Len(cut)
      BY <1>14, <3>1, <3>2, DistinctCounts
    <3>4. Len(cut) < room \/ Len(cut) = room
      BY <1>5, <2>2, <3>1
    <3> QED BY <1>3, <2>2, <3>1, <3>2, <3>3, <3>4
  <2> QED BY <2>1, <2>2
<1>21. Worker => Len(holdings) + Len(r) <= asked.limit
  BY <1>5, <1>10, <1>15, <1>19 DEF room
<1>22. Len(at) = room => Len(holdings) + Len(r) = asked.limit
  BY <1>15 DEF room
<1>23. Ext!ToSet(r) \subseteq {b} \X own
  BY <1>11, <1>18
<1>24. Ext!ToSet(r) = {b} \X own \/ (Worker /\ (SomeHolder \/ Len(holdings) + Len(r) = asked.limit))
  BY <1>18, <1>20, <1>22
<1> QED BY <1>15, <1>17, <1>21, <1>23, <1>24 DEF KeptOf, r, own

\* What is kept of the blocks up to e: own lines in order, all of them unless the Worker
\* is full or a holder's line is in the archive.
HoldsUpto(h, e) ==
  /\ InOrder(h) /\ (Worker => Len(h) <= asked.limit)
  /\ \A row \in Ext!ToSet(h) : row \in OwnLines /\ row[1] <= e
  /\ \/ \A row \in OwnLines : row[1] <= e => row \in Ext!ToSet(h)
     \/ Worker /\ (SomeHolder \/ Len(h) = asked.limit)

\* The own lines, block by block.
LEMMA OwnLinesAre ==
  zip \in Archive =>
    /\ \A row \in OwnLines : row[1] \in DOMAIN zip /\ row[1] \in Nat /\ zip[row[1]].label \in asked.blocks
                             /\ row \in {row[1]} \X LinesOf(row[1], {"own"})
    /\ \A b \in DOMAIN zip : zip[b].label \in asked.blocks => {b} \X LinesOf(b, {"own"}) \subseteq OwnLines
<1> SUFFICES ASSUME zip \in Archive
             PROVE  /\ \A row \in OwnLines : row[1] \in DOMAIN zip /\ row[1] \in Nat /\ zip[row[1]].label \in asked.blocks
                                             /\ row \in {row[1]} \X LinesOf(row[1], {"own"})
                    /\ \A b \in DOMAIN zip : zip[b].label \in asked.blocks => {b} \X LinesOf(b, {"own"}) \subseteq OwnLines
  OBVIOUS
<1>1. Len(zip) \in Nat /\ DOMAIN zip = 1 .. Len(zip)
  BY SeqFacts DEF Archive
<1>2. ASSUME NEW row \in OwnLines
      PROVE  row[1] \in DOMAIN zip /\ row[1] \in Nat /\ zip[row[1]].label \in asked.blocks
             /\ row \in {row[1]} \X LinesOf(row[1], {"own"})
  <2>1. PICK b \in DOMAIN zip : zip[b].label \in asked.blocks /\ row \in {b} \X LinesOf(b, {"own"})
    BY DEF OwnLines
  <2>2. row[1] = b
    BY <2>1
  <2> QED BY <1>1, <2>1, <2>2
<1>3. \A b \in DOMAIN zip : zip[b].label \in asked.blocks => {b} \X LinesOf(b, {"own"}) \subseteq OwnLines
  BY DEF OwnLines
<1> QED BY <1>2, <1>3

\* An entry that is not asked for changes nothing.
LEMMA SkippedEntry ==
  \A e : zip \in Archive /\ entry \in Nat /\ e = entry + 1 /\ e \in DOMAIN zip /\ zip[e].label \notin asked.blocks
         /\ HoldsUpto(holdings, entry) => HoldsUpto(holdings, e)
<1> SUFFICES ASSUME NEW e, zip \in Archive, entry \in Nat, e = entry + 1, e \in DOMAIN zip,
                    zip[e].label \notin asked.blocks, HoldsUpto(holdings, entry)
             PROVE  HoldsUpto(holdings, e)
  OBVIOUS
<1>1. \A row \in OwnLines : row[1] \in Nat /\ row[1] # e
  BY OwnLinesAre
<1>2. \A n \in Nat : (n <= entry => n <= e) /\ (n <= e /\ n # e => n <= entry)
  OBVIOUS
<1>3. InOrder(holdings) /\ (Worker => Len(holdings) <= asked.limit)
  BY DEF HoldsUpto
<1>4. \A row \in Ext!ToSet(holdings) : row \in OwnLines /\ row[1] <= e
  BY <1>1, <1>2 DEF HoldsUpto
<1>5. \/ \A row \in OwnLines : row[1] <= e => row \in Ext!ToSet(holdings)
      \/ Worker /\ (SomeHolder \/ Len(holdings) = asked.limit)
  BY <1>1, <1>2 DEF HoldsUpto
<1> QED BY <1>3, <1>4, <1>5 DEF HoldsUpto

\* The elements of two sequences one after the other.
LEMMA BothSequences ==
  \A S : \A s, t \in Seq(S) :
    /\ s \o t \in Seq(S) /\ Len(s \o t) = Len(s) + Len(t)
    /\ Ext!ToSet(s \o t) = Ext!ToSet(s) \cup Ext!ToSet(t)
    /\ \A k \in DOMAIN (s \o t) :
         (k \in DOMAIN s /\ (s \o t)[k] = s[k])
         \/ (k > Len(s) /\ k - Len(s) \in DOMAIN t /\ (s \o t)[k] = t[k - Len(s)])
<1> SUFFICES ASSUME NEW S, NEW s \in Seq(S), NEW t \in Seq(S)
             PROVE  /\ s \o t \in Seq(S) /\ Len(s \o t) = Len(s) + Len(t)
                    /\ Ext!ToSet(s \o t) = Ext!ToSet(s) \cup Ext!ToSet(t)
                    /\ \A k \in DOMAIN (s \o t) :
                         (k \in DOMAIN s /\ (s \o t)[k] = s[k])
                         \/ (k > Len(s) /\ k - Len(s) \in DOMAIN t /\ (s \o t)[k] = t[k - Len(s)])
  OBVIOUS
<1> DEFINE r == s \o t
<1>1. Len(s) \in Nat /\ DOMAIN s = 1 .. Len(s) /\ Len(t) \in Nat /\ DOMAIN t = 1 .. Len(t)
  BY SeqFacts
<1>2. r \in Seq(S) /\ Len(r) = Len(s) + Len(t)
  OBVIOUS
<1>3. \A k \in 1 .. Len(s) : r[k] = s[k]
  BY <1>1
<1>4. \A k \in 1 .. Len(t) : r[Len(s) + k] = t[k]
  BY <1>1
<1> HIDE DEF r
<1>5. DOMAIN r = 1 .. Len(s) + Len(t)
  BY <1>2, SeqFacts
<1>6. \A k \in DOMAIN r : \/ k \in DOMAIN s /\ r[k] = s[k]
                          \/ k > Len(s) /\ k - Len(s) \in DOMAIN t /\ r[k] = t[k - Len(s)]
  <2> SUFFICES ASSUME NEW k \in DOMAIN r
               PROVE  \/ k \in DOMAIN s /\ r[k] = s[k]
                      \/ k > Len(s) /\ k - Len(s) \in DOMAIN t /\ r[k] = t[k - Len(s)]
    OBVIOUS
  <2>1. k \in Nat /\ 1 <= k /\ k <= Len(s) + Len(t)
    BY <1>1, <1>5
  <2>2. CASE k <= Len(s)
    BY <1>1, <1>3, <2>1, <2>2
  <2>3. CASE ~ (k <= Len(s))
    <3>1. k > Len(s) /\ k - Len(s) \in 1 .. Len(t) /\ Len(s) + (k - Len(s)) = k
      BY <1>1, <2>1, <2>3
    <3> QED BY <1>1, <1>4, <3>1
  <2> QED BY <2>2, <2>3
<1>7. Ext!ToSet(r) = Ext!ToSet(s) \cup Ext!ToSet(t)
  <2>1. ASSUME NEW x \in Ext!ToSet(r) PROVE x \in Ext!ToSet(s) \cup Ext!ToSet(t)
    <3>1. PICK k \in DOMAIN r : r[k] = x
      BY DEF Ext!ToSet
    <3>2. CASE k \in DOMAIN s /\ r[k] = s[k]
      BY <3>1, <3>2 DEF Ext!ToSet
    <3>3. CASE k - Len(s) \in DOMAIN t /\ r[k] = t[k - Len(s)]
      BY <3>1, <3>3 DEF Ext!ToSet
    <3> QED BY <1>6, <3>2, <3>3
  <2>2. ASSUME NEW x \in Ext!ToSet(s) PROVE x \in Ext!ToSet(r)
    <3>1. PICK k \in DOMAIN s : s[k] = x
      BY DEF Ext!ToSet
    <3>2. k \in DOMAIN r /\ r[k] = x
      BY <1>1, <1>3, <1>5, <3>1
    <3> QED BY <3>2 DEF Ext!ToSet
  <2>3. ASSUME NEW x \in Ext!ToSet(t) PROVE x \in Ext!ToSet(r)
    <3>1. PICK k \in DOMAIN t : t[k] = x
      BY DEF Ext!ToSet
    <3>2. Len(s) + k \in DOMAIN r /\ r[Len(s) + k] = x
      BY <1>1, <1>4, <1>5, <3>1
    <3> QED BY <3>2 DEF Ext!ToSet
  <2> QED BY <2>1, <2>2, <2>3
<1> QED BY <1>2, <1>6, <1>7 DEF r

\* An entry that is asked for brings its rows.
LEMMA EntryRead ==
  \A e, r : zip \in Archive /\ entry \in Nat /\ e = entry + 1 /\ e \in DOMAIN zip /\ zip[e].label \in asked.blocks
            /\ holdings \in Seq(Nat \X Nat) /\ ~ (Worker /\ Len(holdings) >= asked.limit) /\ asked.limit \in Nat
            /\ HoldsUpto(holdings, entry) /\ KeptOf(e, r) => HoldsUpto(holdings \o r, e)
<1> SUFFICES ASSUME NEW e, NEW r, zip \in Archive, entry \in Nat, e = entry + 1, e \in DOMAIN zip,
                    zip[e].label \in asked.blocks, holdings \in Seq(Nat \X Nat),
                    ~ (Worker /\ Len(holdings) >= asked.limit), asked.limit \in Nat,
                    HoldsUpto(holdings, entry), KeptOf(e, r)
             PROVE  HoldsUpto(holdings \o r, e)
  OBVIOUS
<1> DEFINE h == holdings \o r
           L == {e} \X LinesOf(e, {"own"})
<1>1. /\ r \in Seq(Nat \X Nat) /\ InOrder(r) /\ Ext!ToSet(r) \subseteq L
      /\ Worker => Len(holdings) + Len(r) <= asked.limit
      /\ Ext!ToSet(r) = L \/ (Worker /\ (SomeHolder \/ Len(holdings) + Len(r) = asked.limit))
  BY DEF KeptOf
<1>2. /\ InOrder(holdings)
      /\ \A row \in Ext!ToSet(holdings) : row \in OwnLines /\ row[1] <= entry
      /\ \/ \A row \in OwnLines : row[1] <= entry => row \in Ext!ToSet(holdings)
         \/ Worker /\ (SomeHolder \/ Len(holdings) = asked.limit)
  BY DEF HoldsUpto
<1>3. Len(holdings) \in Nat /\ Len(r) \in Nat /\ DOMAIN holdings = 1 .. Len(holdings) /\ DOMAIN r = 1 .. Len(r)
  BY <1>1, SeqFacts
<1>4. /\ Len(h) = Len(holdings) + Len(r) /\ Ext!ToSet(h) = Ext!ToSet(holdings) \cup Ext!ToSet(r)
      /\ \A k \in DOMAIN h : \/ k \in DOMAIN holdings /\ h[k] = holdings[k]
                             \/ k > Len(holdings) /\ k - Len(holdings) \in DOMAIN r /\ h[k] = r[k - Len(holdings)]
      /\ h \in Seq(Nat \X Nat)
  BY <1>1, BothSequences
<1> HIDE DEF h
<1>5. L \subseteq OwnLines /\ \A row \in L : row[1] = e
  BY OwnLinesAre
<1>6. \A row \in OwnLines : row[1] \in Nat /\ row \in {row[1]} \X LinesOf(row[1], {"own"})
  BY OwnLinesAre
<1> HIDE DEF L
<1>7. \A n \in Nat : (n <= entry => n <= e /\ n < e) /\ (n <= e => n <= entry \/ n = e)
  OBVIOUS
<1>8. \A row \in Ext!ToSet(h) : row \in OwnLines /\ row[1] <= e
  <2>1. e <= e
    OBVIOUS
  <2> QED BY <1>1, <1>2, <1>4, <1>5, <1>6, <1>7, <2>1
<1>9. Worker => Len(h) <= asked.limit
  BY <1>1, <1>4
<1>10. InOrder(h)
  <2> SUFFICES ASSUME NEW k \in DOMAIN h, NEW l \in DOMAIN h, k < l
               PROVE  h[k][1] < h[l][1] \/ (h[k][1] = h[l][1] /\ h[k][2] < h[l][2])
    BY DEF InOrder
  <2>1. k \in Nat /\ l \in Nat
    <3>1. DOMAIN h = 1 .. Len(h) /\ Len(h) \in Nat
      BY <1>4, SeqFacts
    <3> QED BY <3>1
  <2>2. CASE k \in DOMAIN holdings /\ h[k] = holdings[k] /\ l \in DOMAIN holdings /\ h[l] = holdings[l]
    BY <1>2, <2>2 DEF InOrder
  <2>3. CASE k \in DOMAIN holdings /\ h[k] = holdings[k]
             /\ l - Len(holdings) \in DOMAIN r /\ h[l] = r[l - Len(holdings)]
    <3>1. h[k] \in Ext!ToSet(holdings) /\ h[l] \in Ext!ToSet(r)
      BY <2>3 DEF Ext!ToSet
    <3>2. h[k][1] < e /\ h[l][1] = e
      BY <1>1, <1>2, <1>5, <1>6, <1>7, <3>1
    <3> QED BY <3>2
  <2>4. CASE k > Len(holdings) /\ l \in DOMAIN holdings
    BY <1>3, <2>1, <2>4
  <2>5. CASE /\ k - Len(holdings) \in DOMAIN r /\ h[k] = r[k - Len(holdings)]
             /\ l - Len(holdings) \in DOMAIN r /\ h[l] = r[l - Len(holdings)]
    <3>1. k - Len(holdings) < l - Len(holdings)
      BY <1>3, <2>1
    <3> QED BY <1>1, <2>5, <3>1 DEF InOrder
  <2> QED BY <1>4, <2>2, <2>3, <2>4, <2>5
<1>11. \/ \A row \in OwnLines : row[1] <= e => row \in Ext!ToSet(h)
       \/ Worker /\ (SomeHolder \/ Len(h) = asked.limit)
  <2>1. CASE Worker /\ SomeHolder
    BY <2>1
  <2>2. CASE ~ (Worker /\ SomeHolder)
    <3>1. \A row \in OwnLines : row[1] <= entry => row \in Ext!ToSet(holdings)
      <4>1. ~ (Worker /\ Len(holdings) = asked.limit)
        BY <1>3
      <4> QED BY <1>2, <2>2, <4>1
    <3>2. CASE Ext!ToSet(r) = L
      <4> SUFFICES ASSUME NEW row \in OwnLines, row[1] <= e PROVE row \in Ext!ToSet(h)
        OBVIOUS
      <4>1. row[1] = e => row \in L
        BY <1>6 DEF L
      <4> QED BY <1>4, <1>6, <1>7, <3>1, <3>2, <4>1
    <3>3. CASE Worker /\ Len(holdings) + Len(r) = asked.limit
      BY <1>4, <3>3
    <3> QED BY <1>1, <2>2, <3>2, <3>3
  <2> QED BY <2>1, <2>2
<1> QED BY <1>8, <1>9, <1>10, <1>11 DEF HoldsUpto, h

\* What the requests are.
LEMMA RequestFacts ==
  asked \in Requested =>
    /\ asked.limit \in Nat \ {0} /\ asked.limit \in Nat
    /\ asked.surface \in {"python", "worker"} /\ asked.by \in {"cnpj", "q", "neither"}
BY LookupAssumption DEF Requested

\* The rows of the holdings, while they are read and when they are answered.
HoldingsSound == Reads("holdings") => HoldsUpto(holdings, entry)

\* What is answered is whole: of the catalogue at once, of the holdings when every
\* block was read or enough of them.
FoundWhole ==
  /\ found.kind = "catalog" => CatalogWhole(found)
  /\ found.kind = "holdings" =>
       /\ Reads("holdings") /\ found.rows = holdings /\ found.truncated = ReadEnough
       /\ entry = Len(zip) \/ ReadEnough

LookupSound == LookupTypeOK /\ HoldingsSound /\ FoundWhole

\* What the request and the files determine.
LEMMA FilesStay ==
  ASSUME UNCHANGED <<asked, lists, zip>>
  PROVE  /\ OwnLines' = OwnLines /\ SomeHolder' = SomeHolder /\ Worker' = Worker
         /\ Reads("holdings")' = Reads("holdings") /\ Reads("catalog")' = Reads("catalog")
         /\ AllClasses' = AllClasses /\ AllSubs' = AllSubs /\ Over' = Over /\ Due' = Due
BY DEF OwnLines, LinesOf, SomeHolder, Worker, Reads, AllClasses, AllSubs, Over, Due, Funds, HitFunds, HitClasses,
       HitSubs, ByPart, FundsOf, ClassesOf

\* So is what the caps may cut.
LEMMA CapsStay ==
  ASSUME UNCHANGED <<asked, lists, zip>>
  PROVE  Capped' = Capped
BY DEF Capped, CatalogByName, CatalogByCnpj, AllClasses, AllSubs, Funds, HitFunds, HitClasses,
       HitSubs, FundsOf, ClassesOf

\* And whether what is found is whole.
LEMMA ServedStays ==
  ASSUME UNCHANGED <<asked, lists, zip>>, NEW f, CatalogWhole(f), found' = f
  PROVE  CatalogWhole(found)'
<1>1. /\ AllClasses' = AllClasses /\ AllSubs' = AllSubs /\ Over' = Over /\ Due' = Due /\ Capped' = Capped
  BY FilesStay, CapsStay
<1> QED BY <1>1 DEF CatalogWhole, Serves, ServesAll

\* While the files and what is kept stay, so does what is known of it.
LEMMA HoldingsStay ==
  ASSUME UNCHANGED <<asked, lists, zip, entry, holdings>>, HoldingsSound
  PROVE  HoldingsSound'
<1>1. /\ OwnLines' = OwnLines /\ SomeHolder' = SomeHolder /\ Worker' = Worker
      /\ Reads("holdings")' = Reads("holdings")
  BY FilesStay
<1> QED BY <1>1 DEF HoldingsSound, HoldsUpto, InOrder

\* The types of what is found.
LEMMA TypesStay ==
  ASSUME UNCHANGED <<asked, lists, zip, entry, holdings>>, LookupTypeOK,
         found'.kind \in {"catalog", "holdings", "refused", "failed"},
         found'.funds \in Seq(DOMAIN lists.funds), found'.classes \subseteq AllClasses, found'.subs \subseteq AllSubs,
         found'.rows \in {<< >>, holdings}, found'.truncated \in BOOLEAN
  PROVE  LookupTypeOK'
BY DEF LookupTypeOK, AllClasses, AllSubs

\* A search begins with nothing.
LEMMA LookupInitSound == ASSUME LookupInit PROVE LookupSound
<1>1. lists \in Register /\ zip \in Archive /\ asked \in Requested /\ found = NotFound /\ entry = 0 /\ holdings = << >>
  <2>1. NoLists \in Register /\ << >> \in Archive
    BY DEF NoLists, Register, Archive
  <2> QED BY <2>1, LookupAssumption DEF LookupInit, Archive
<1>2. Len(zip) \in Nat
  BY <1>1, SeqFacts DEF Archive
<1>3. LookupTypeOK
  <2>1. entry \in 0 .. Len(zip) /\ holdings \in Seq(Nat \X Nat)
    BY <1>1, <1>2
  <2>2. << >> \in Seq(DOMAIN lists.funds)
    OBVIOUS
  <2> QED BY <1>1, <2>1, <2>2 DEF LookupTypeOK, NotFound, Archive
<1>4. HoldsUpto(holdings, entry)
  <2>1. asked.limit \in Nat
    BY <1>1, RequestFacts
  <2>2. Len(<< >>) = 0 /\ Ext!ToSet(<< >>) = {} /\ InOrder(<< >>)
    BY DEF Ext!ToSet, InOrder
  <2>3. \A row \in OwnLines : ~ (row[1] <= entry)
    <3>1. \A row \in OwnLines : row[1] \in DOMAIN zip
      BY <1>1, OwnLinesAre
    <3>2. DOMAIN zip = 1 .. Len(zip)
      BY <1>1, SeqFacts DEF Archive
    <3> QED BY <1>1, <1>2, <3>1, <3>2
  <2> QED BY <1>1, <2>1, <2>2, <2>3 DEF HoldsUpto
<1>5. FoundWhole
  BY <1>1 DEF FoundWhole, NotFound
<1> QED BY <1>3, <1>4, <1>5 DEF LookupSound, HoldingsSound

\* The catalogue in Python.
LEMMA CatalogSound == ASSUME LookupSound, Catalog PROVE LookupSound'
<1> DEFINE f == Catalogued(_select_fundos, AllClasses, AllSubs)
<1>1. found' = f /\ UNCHANGED <<asked, lists, zip, entry, holdings>> /\ asked.surface = "python"
  BY DEF Catalog
<1>2. LookupTypeOK /\ HoldingsSound /\ asked \in Requested /\ lists \in Register
  BY DEF LookupSound, LookupTypeOK
<1>3. CatalogWhole(f)
  BY <1>1, <1>2, RequestFacts, PythonIsWhole
<1> HIDE DEF f
<1>4. CatalogWhole(found)'
  BY <1>1, <1>3, ServedStays
<1>5. /\ f.kind = "catalog" /\ f.rows = << >> /\ f.truncated = FALSE /\ f.funds \in Seq(DOMAIN lists.funds)
      /\ f.classes \subseteq AllClasses /\ f.subs \subseteq AllSubs
  BY <1>3 DEF CatalogWhole, Serves
<1>6. LookupTypeOK'
  BY <1>1, <1>2, <1>5, TypesStay
<1>7. HoldingsSound'
  BY <1>1, <1>2, HoldingsStay
<1>8. FoundWhole'
  BY <1>1, <1>4, <1>5 DEF FoundWhole
<1> QED BY <1>6, <1>7, <1>8 DEF LookupSound

\* The catalogue of the Worker.
LEMMA CatalogWorkerSound == ASSUME LookupSound, CatalogWorker PROVE LookupSound'
<1> DEFINE hit == IF asked.by = "cnpj" THEN CatalogByCnpj ELSE CatalogByName
           cs == Scan(lists.classes, {c \in AllClasses : lists.classes[c].fund \in hit.keep})
           ss == Scan(lists.subs, {s \in AllSubs : lists.subs[s].class \in cs})
           fs == Upto(hit.funds, asked.limit)
           f == Catalogued(fs, cs, ss)
<1>1. found' = f /\ UNCHANGED <<asked, lists, zip, entry, holdings>> /\ asked.surface = "worker" /\ Reads("catalog")
  BY DEF CatalogWorker
<1>2. LookupTypeOK /\ HoldingsSound /\ asked \in Requested /\ lists \in Register
  BY DEF LookupSound, LookupTypeOK
<1>3. asked.by \in {"cnpj", "q"} /\ asked.limit \in Nat \ {0}
  BY <1>1, <1>2, RequestFacts DEF Reads
<1> HIDE DEF hit
<1>4. /\ hit.keep \subseteq CatalogByName.keep \cup CatalogByCnpj.keep
      /\ Serves(fs, asked.limit) /\ (~Capped => ServesAll(fs)) /\ Ext!ToSet(fs) \subseteq hit.keep
  BY <1>1, <1>2, <1>3, WorkerServes DEF hit
<1> HIDE DEF fs
<1>5. CatalogWhole(f)
  BY <1>1, <1>2, <1>4, WorkerIsWhole
<1> HIDE DEF f
<1>6. CatalogWhole(found)'
  BY <1>1, <1>5, ServedStays
<1>7. /\ f.kind = "catalog" /\ f.rows = << >> /\ f.truncated = FALSE /\ f.funds \in Seq(DOMAIN lists.funds)
      /\ f.classes \subseteq AllClasses /\ f.subs \subseteq AllSubs
  BY <1>5 DEF CatalogWhole, Serves
<1>8. LookupTypeOK'
  BY <1>1, <1>2, <1>7, TypesStay
<1>9. HoldingsSound'
  BY <1>1, <1>2, HoldingsStay
<1>10. FoundWhole'
  BY <1>1, <1>6, <1>7 DEF FoundWhole
<1> QED BY <1>8, <1>9, <1>10 DEF LookupSound

\* One more entry of the archive.
LEMMA ReadEntrySound == ASSUME LookupSound, ReadEntry PROVE LookupSound'
<1> DEFINE e == entry + 1
           r == FromBlock(e)
<1>1. /\ found.kind = "none" /\ Reads("holdings") /\ entry < Len(zip) /\ ~ReadEnough /\ entry' = e
      /\ holdings' = (IF zip[e].label \in asked.blocks THEN holdings \o r ELSE holdings)
      /\ UNCHANGED <<asked, lists, zip, found>>
  BY DEF ReadEntry
<1>2. LookupTypeOK /\ HoldingsSound /\ FoundWhole
  BY DEF LookupSound
<1>3. /\ asked \in Requested /\ lists \in Register /\ zip \in Archive /\ entry \in 0 .. Len(zip)
      /\ holdings \in Seq(Nat \X Nat) /\ found = NotFound
  BY <1>1, <1>2 DEF LookupTypeOK, Archive
<1>4. Len(zip) \in Nat /\ DOMAIN zip = 1 .. Len(zip) /\ Len(holdings) \in Nat
  BY <1>3, SeqFacts DEF Archive
<1>5. entry \in Nat /\ e \in DOMAIN zip /\ e \in 0 .. Len(zip) /\ e = entry + 1
  BY <1>1, <1>3, <1>4
<1>6. asked.limit \in Nat /\ asked.surface \in {"python", "worker"}
  BY <1>3, RequestFacts
<1>7. HoldsUpto(holdings, entry) /\ (Worker => Len(holdings) <= asked.limit)
  BY <1>1, <1>2 DEF HoldingsSound, HoldsUpto
<1>8. KeptOf(e, r)
  <2> HIDE DEF e
  <2> QED BY <1>3, <1>4, <1>5, <1>6, <1>7, BlockIsKept
<1> HIDE DEF e, r
<1>9. HoldsUpto(holdings', e) /\ holdings' \in Seq(Nat \X Nat)
  <2>1. CASE zip[e].label \in asked.blocks
    <3>1. holdings' = holdings \o r /\ r \in Seq(Nat \X Nat)
      BY <1>1, <1>8, <2>1 DEF KeptOf
    <3>2. ~ (Worker /\ Len(holdings) >= asked.limit)
      BY <1>1 DEF ReadEnough, Worker
    <3>3. HoldsUpto(holdings \o r, e)
      BY <1>3, <1>5, <1>6, <1>7, <1>8, <2>1, <3>2, EntryRead
    <3> QED BY <1>3, <3>1, <3>3
  <2>2. CASE zip[e].label \notin asked.blocks
    BY <1>1, <1>3, <1>5, <1>7, <2>2, SkippedEntry
  <2> QED BY <2>1, <2>2
<1>10. HoldingsSound'
  <2>1. /\ OwnLines' = OwnLines /\ SomeHolder' = SomeHolder /\ Worker' = Worker
    BY <1>1, FilesStay
  <2> QED BY <1>1, <1>9, <2>1 DEF HoldingsSound, HoldsUpto, InOrder
<1>11. LookupTypeOK'
  BY <1>1, <1>2, <1>3, <1>5, <1>9 DEF LookupTypeOK, NotFound, AllClasses, AllSubs
<1>12. FoundWhole'
  BY <1>1 DEF FoundWhole
<1> QED BY <1>10, <1>11, <1>12 DEF LookupSound

\* The answer with the holdings.
LEMMA AnswerHoldingsSound == ASSUME LookupSound, AnswerHoldings PROVE LookupSound'
<1>1. /\ Reads("holdings") /\ (entry = Len(zip) \/ ReadEnough)
      /\ found' = [NotFound EXCEPT !.kind = "holdings", !.rows = holdings, !.truncated = ReadEnough]
      /\ UNCHANGED <<asked, lists, zip, entry, holdings>>
  BY DEF AnswerHoldings
<1>2. LookupTypeOK /\ HoldingsSound
  BY DEF LookupSound
<1>3. /\ found'.kind = "holdings" /\ found'.rows = holdings /\ found'.truncated = ReadEnough
      /\ found'.funds = << >> /\ found'.classes = {} /\ found'.subs = {}
  BY <1>1 DEF NotFound
<1>4. ReadEnough \in BOOLEAN /\ ReadEnough' = ReadEnough /\ Reads("holdings")' = Reads("holdings")
  BY <1>1 DEF ReadEnough, Reads
<1>5. << >> \in Seq(DOMAIN lists.funds)
  OBVIOUS
<1>6. LookupTypeOK'
  BY <1>1, <1>2, <1>3, <1>4, <1>5, TypesStay
<1>7. HoldingsSound'
  BY <1>1, <1>2, HoldingsStay
<1>8. FoundWhole'
  BY <1>1, <1>3, <1>4 DEF FoundWhole
<1> QED BY <1>6, <1>7, <1>8 DEF LookupSound

\* An answer without any row.
LEMMA NothingSound == ASSUME LookupSound, RefuseLookup \/ FetchFails PROVE LookupSound'
<1>1. PICK k \in {"refused", "failed"} : found' = [NotFound EXCEPT !.kind = k]
  BY DEF RefuseLookup, FetchFails
<1>2. UNCHANGED <<asked, lists, zip, entry, holdings>>
  BY DEF RefuseLookup, FetchFails
<1>3. LookupTypeOK /\ HoldingsSound
  BY DEF LookupSound
<1>4. /\ found'.kind = k /\ found'.rows = << >> /\ found'.truncated = FALSE
      /\ found'.funds = << >> /\ found'.classes = {} /\ found'.subs = {}
  BY <1>1 DEF NotFound
<1>5. << >> \in Seq(DOMAIN lists.funds)
  OBVIOUS
<1>6. LookupTypeOK'
  BY <1>2, <1>3, <1>4, <1>5, TypesStay
<1>7. HoldingsSound'
  BY <1>2, <1>3, HoldingsStay
<1>8. FoundWhole'
  BY <1>4 DEF FoundWhole
<1> QED BY <1>6, <1>7, <1>8 DEF LookupSound

\* A step of another tool.
LEMMA OthersSound == ASSUME LookupSound, UNCHANGED lookupVars PROVE LookupSound'
<1>1. UNCHANGED <<asked, lists, zip, entry, holdings>> /\ found' = found
  BY DEF lookupVars
<1>2. LookupTypeOK /\ HoldingsSound /\ FoundWhole
  BY DEF LookupSound
<1>3. LookupTypeOK'
  BY <1>1, <1>2 DEF LookupTypeOK, AllClasses, AllSubs
<1>4. HoldingsSound'
  BY <1>1, <1>2, HoldingsStay
<1>5. found.kind = "catalog" => CatalogWhole(found)'
  <2> SUFFICES ASSUME found.kind = "catalog" PROVE CatalogWhole(found)'
    OBVIOUS
  <2>1. CatalogWhole(found)
    BY <1>2 DEF FoundWhole
  <2>2. /\ AllClasses' = AllClasses /\ AllSubs' = AllSubs /\ Over' = Over /\ Due' = Due /\ Capped' = Capped
    BY <1>1, FilesStay, CapsStay
  <2> QED BY <1>1, <2>1, <2>2 DEF CatalogWhole, Serves, ServesAll
<1>6. ReadEnough' = ReadEnough /\ Reads("holdings")' = Reads("holdings")
  BY <1>1 DEF ReadEnough, Reads
<1>7. FoundWhole'
  BY <1>1, <1>2, <1>5, <1>6 DEF FoundWhole
<1> QED BY <1>3, <1>4, <1>7 DEF LookupSound

\* Every search keeps the invariant.
LEMMA LookupAlwaysSound == LookupSpec => []LookupSound
<1>1. LookupInit => LookupSound
  BY LookupInitSound
<1>2. LookupSound /\ [LookupNext]_lookupVars => LookupSound'
  BY CatalogSound, CatalogWorkerSound, ReadEntrySound, AnswerHoldingsSound, NothingSound, OthersSound
     DEF LookupNext
<1> QED BY <1>1, <1>2, PTL DEF LookupSpec

\* The types of a search, for any register, archives, limits and cap.
THEOREM LookupIsTyped == LookupSpec => []LookupTypeOK
<1>1. LookupSound => LookupTypeOK
  BY DEF LookupSound
<1> QED BY <1>1, LookupAlwaysSound, PTL

\* What is sound is whole.
LEMMA SoundIsWhole == ASSUME LookupSound PROVE LookupIsWhole
<1>1. LookupTypeOK /\ HoldingsSound /\ FoundWhole /\ asked \in Requested /\ zip \in Archive
  BY DEF LookupSound, LookupTypeOK, Archive
<1>2. asked.limit \in Nat
  BY <1>1, RequestFacts
<1>3. ASSUME found.kind = "catalog"
      PROVE  LET served == Ext!ToSet(found.funds)
                 over == asked.surface = "python" /\ asked.by = "q" /\ Len(Funds(HitFunds)) >= asked.limit
             IN /\ served \subseteq Due /\ Cardinality(served) = Len(found.funds)
                /\ Len(found.funds) <= asked.limit + (IF over THEN 1 ELSE 0)
                /\ Capped \/
                     /\ Len(found.funds) < asked.limit => served = Due
                     /\ found.classes = {c \in AllClasses : lists.classes[c].fund \in served}
                     /\ found.subs = {s \in AllSubs : lists.subs[s].class \in found.classes}
  <2> DEFINE fs == found.funds
             over == asked.surface = "python" /\ asked.by = "q" /\ Len(Funds(HitFunds)) >= asked.limit
  <2>1. CatalogWhole(found)
    BY <1>1, <1>3 DEF FoundWhole
  <2>2. Serves(fs, IF over THEN asked.limit + 1 ELSE asked.limit)
    BY <2>1 DEF CatalogWhole, Over
  <2>3. (IF over THEN asked.limit + 1 ELSE asked.limit) = asked.limit + (IF over THEN 1 ELSE 0)
    BY <1>2
  <2>4. Capped \/
          /\ Len(fs) < asked.limit => Ext!ToSet(fs) = Due
          /\ found.classes = {c \in AllClasses : lists.classes[c].fund \in Ext!ToSet(fs)}
          /\ found.subs = {s \in AllSubs : lists.subs[s].class \in found.classes}
    BY <2>1 DEF CatalogWhole, ServesAll
  <2> HIDE DEF fs, over
  <2>5. Ext!ToSet(fs) \subseteq Due /\ Len(fs) <= asked.limit + (IF over THEN 1 ELSE 0)
    BY <2>2, <2>3 DEF Serves
  <2>6. Cardinality(Ext!ToSet(fs)) = Len(fs)
    BY <2>2, DistinctCounts DEF Serves
  <2> QED BY <2>4, <2>5, <2>6 DEF fs, over
<1>4. ASSUME found.kind = "holdings"
      PROVE  /\ InOrder(found.rows) /\ Ext!ToSet(found.rows) \subseteq OwnLines
             /\ Ext!ToSet(found.rows) = OwnLines
                \/ (asked.surface = "worker"
                    /\ (found.truncated \/ \E b \in DOMAIN zip : "holder" \in Ext!ToSet(zip[b].lines)))
  <2>1. /\ Reads("holdings") /\ found.rows = holdings /\ found.truncated = ReadEnough
        /\ (entry = Len(zip) \/ ReadEnough)
    BY <1>1, <1>4 DEF FoundWhole
  <2>2. HoldsUpto(holdings, entry)
    BY <1>1, <2>1 DEF HoldingsSound
  <2>3. InOrder(holdings) /\ Ext!ToSet(holdings) \subseteq OwnLines
    BY <2>2 DEF HoldsUpto
  <2>4. Worker /\ Len(holdings) = asked.limit => ReadEnough
    BY <1>2 DEF Worker, ReadEnough
  <2>5. ReadEnough => Worker
    BY DEF ReadEnough, Worker
  <2>6. entry = Len(zip) => \A row \in OwnLines : row[1] <= entry
    <3>1. Len(zip) \in Nat /\ DOMAIN zip = 1 .. Len(zip)
      BY <1>1, SeqFacts DEF Archive
    <3>2. \A row \in OwnLines : row[1] \in DOMAIN zip
      BY <1>1, OwnLinesAre
    <3> QED BY <3>1, <3>2
  <2>7. Ext!ToSet(holdings) = OwnLines \/ (Worker /\ (ReadEnough \/ SomeHolder))
    <3>1. CASE ReadEnough
      BY <2>5, <3>1
    <3>2. CASE ~ ReadEnough
      <4>1. (\A row \in OwnLines : row \in Ext!ToSet(holdings)) \/ (Worker /\ SomeHolder)
        BY <2>1, <2>2, <2>4, <2>6, <3>2 DEF HoldsUpto
      <4> QED BY <2>3, <4>1
    <3> QED BY <3>1, <3>2
  <2> QED BY <2>1, <2>3, <2>7 DEF Worker, SomeHolder
<1> QED BY <1>3, <1>4 DEF LookupIsWhole

\* A search of the register serves each fund that it is about once, all of them if there
\* are fewer than the limit, with its classes and subclasses; and holdings are the fund's
\* own rows in order, all of them unless the Worker says it truncated them or met a
\* holder's line: for any register, archive, limit and cap.
THEOREM LookupIsAlwaysWhole == LookupSpec => []LookupIsWhole
<1>1. LookupSound => LookupIsWhole
  BY SoundIsWhole
<1> QED BY <1>1, LookupAlwaysSound, PTL
-----------------------------------------------------------------------------
(* The three calls side by side.                                              *)

\* Each machine of the composition behaves as its own specification: what is proved
\* of a machine holds of the composition.
LEMMA CallsImplementMachines == CallsSpec => Spec /\ LookupSpec /\ RunSpec
<1>1. CallsInit => Init /\ LookupInit /\ RunInit
  BY DEF CallsInit
<1>2. [CallsNext]_callVars => [Next]_vars
  BY DEF CallsNext, QuotesMove, LookupMove, SnippetMove, callVars
<1>3. [CallsNext]_callVars => [LookupNext]_lookupVars
  BY DEF CallsNext, QuotesMove, LookupMove, SnippetMove, callVars
<1>4. [CallsNext]_callVars => [RunNext]_runVars
  BY DEF CallsNext, QuotesMove, LookupMove, SnippetMove, callVars
<1> QED BY <1>1, <1>2, <1>3, <1>4, PTL DEF CallsSpec, Spec, LookupSpec, RunSpec

\* The variables of the three calls have their types, whichever is called.
THEOREM CallsAreTyped == CallsSpec => []CallsTypeOK
BY CallsImplementMachines, QuotesTypeCorrect, LookupIsTyped, CodeModeTypeCorrect, PTL DEF CallsTypeOK
=============================================================================
