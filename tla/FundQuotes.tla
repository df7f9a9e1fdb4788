----------------------------- MODULE FundQuotes -----------------------------
(***************************************************************************)
(* The daily quotes of a fund, dataset=daily of the tool cvm_fund: the     *)
(* window of months, the CNPJs under which the fund's register says it was *)
(* quoted, one CVM file per month, the cut at the limit, one row per day   *)
(* and subclass, and the series that are served.  _cvm_fund_quotes of      *)
(* findata.api.mcp_app and its copy in the Cloudflare Worker differ where  *)
(* the request's surface is looked at.                                     *)
(***************************************************************************)
EXTENDS Integers, Sequences, FiniteSets

CONSTANTS
  Requests,   \* what is asked: see Request
  Registers,  \* what the register has for the CNPJ: sequences of funds
  Archives,   \* the files CVM has published: functions from months to sequences of lines
  Limit,      \* the limit argument
  ScanCap,    \* DAILY_SCAN_CAP of the Worker
  MonthsMax,  \* _DAILY_MONTHS_MAX
  None        \* no CNPJ, no subclass

ASSUME LimitsAssumption == Limit \in Nat \ {0} /\ ScanCap \in Nat \ {0} /\ MonthsMax \in Nat \ {0}

(* Months are pairs of a year and a month, dates a month and a day.  A zero *)
(* year or month stands for an argument that is not given.                  *)

Months == Int \X (1..12)
NoDate == [month |-> <<0, 0>>, day |-> 0]

ASSUME RequestsAssumption ==
  \A q \in Requests :
    /\ q.months \in 1..MonthsMax
    /\ q.month \in Int \X (0..12)
    /\ q.start = NoDate \/ q.start.month \in Months
    /\ q.end = NoDate \/ q.end.month \in Months

ASSUME ArchivesAssumption ==
  \A a \in Archives :
    /\ DOMAIN a \subseteq Months
    /\ \A m \in DOMAIN a : Len(a[m]) \in Nat /\ DOMAIN a[m] = 1..Len(a[m])

VARIABLES
  request,    \* the arguments of the call
  register,   \* the register's entries for the CNPJ
  archive,    \* the published files
  stamps,     \* the months to read
  funds,      \* cadastro: the entries as they were read
  index,      \* the place in stamps of the month to read next
  series,     \* the rows kept so far
  missing,    \* the months without a file
  truncated,
  phase

vars == <<request, register, archive, stamps, funds, index, series, missing, truncated, phase>>
-----------------------------------------------------------------------------
Absolute(m) == m[1] * 12 + (m[2] - 1)

AddMonths(m, delta) ==
  <<(Absolute(m) + delta) \div 12, ((Absolute(m) + delta) % 12) + 1>>

NotAfter(a, b) ==
  \/ Absolute(a.month) < Absolute(b.month)
  \/ a.month = b.month /\ a.day <= b.day

Ranged == request.start # NoDate \/ request.end # NoDate

Span == Absolute(request.end.month) - Absolute(request.start.month) + 1

\* MUTANT of Refused: the window may be of any length.
Refused_AnyLength ==
  IF Ranged
  THEN request.start = NoDate \/ request.end = NoDate \/ Span < 1
  ELSE (request.month[1] = 0) # (request.month[2] = 0)

\* Half a range, a range that ends before its first month or is too long, half a month.
Refused ==
  IF Ranged
  THEN request.start = NoDate \/ request.end = NoDate \/ Span < 1 \/ Span > MonthsMax
  ELSE (request.month[1] = 0) # (request.month[2] = 0)

\* _stamps_inclusive, and _lookback_months.
Between        == [i \in 1..Span |-> AddMonths(request.start.month, i - 1)]
Lookback(last) == [i \in 1..request.months |-> AddMonths(last, i - request.months)]
-----------------------------------------------------------------------------
(* The register: a fund has a CNPJ and the CNPJs of its classes.            *)

Classes(fund) == {fund.classes[i] : i \in DOMAIN fund.classes} \ {None}

\* related_quote_cnpjs: a fund's classes, and the fund of an only class.
Needles ==
  {request.cnpj} \cup
  UNION {IF fund.cnpj = request.cnpj THEN Classes(fund)
         ELSE IF Classes(fund) = {request.cnpj} THEN {fund.cnpj}
         ELSE {} : fund \in {funds[i] : i \in DOMAIN funds}}

\* _select_fundos: the funds with the CNPJ, or else those with a class that has it.
Selected(entries) ==
  \/ \A i \in DOMAIN entries : entries[i].cnpj = request.cnpj
  \/ \A i \in DOMAIN entries : entries[i].cnpj # request.cnpj /\ request.cnpj \in Classes(entries[i])

Continues(fund) ==
  /\ request.cnpj \in Classes(fund) \cup {fund.cnpj}
  /\ Cardinality(Classes(fund)) = 1

\* continuation_class_cnpj: the only class of the first such fund.
Continuation ==
  IF \A i \in DOMAIN funds : ~Continues(funds[i]) THEN None
  ELSE LET first == CHOOSE i \in DOMAIN funds :
                      Continues(funds[i]) /\ \A j \in 1..(i - 1) : ~Continues(funds[j])
       IN CHOOSE c \in Classes(funds[first]) : TRUE

Prefer == IF Continuation # None THEN Continuation ELSE request.cnpj
-----------------------------------------------------------------------------
(* Rows: a line of a month's file, and its place in it.                     *)

RowsOf(m) ==
  {[month |-> m, pos |-> i, cnpj |-> archive[m][i].cnpj, day |-> archive[m][i].day,
    sub |-> archive[m][i].sub] : i \in DOMAIN archive[m]}

DateOf(r) == [month |-> r.month, day |-> r.day]
Key(r)    == <<DateOf(r), r.sub>>

Before(r, q) ==
  Absolute(r.month) < Absolute(q.month) \/ (r.month = q.month /\ r.pos < q.pos)

\* The n first rows of R.
First(R, n) == {r \in R : Cardinality({q \in R : Before(q, r)}) < n}

\* get_fund_daily; dailySeries stops its scan at a cap.
Scanned(m) ==
  LET found == {r \in RowsOf(m) : r.cnpj \in Needles}
  IN IF request.surface = "worker" THEN First(found, ScanCap) ELSE found

Wanted(r) ==
  /\ request.sub \in {None, r.sub}
  /\ Ranged => NotAfter(request.start, DateOf(r)) /\ NotAfter(DateOf(r), request.end)

\* MUTANT of Chosen: the first row of a day stays.
Chosen_First(k) ==
  LET rows == {r \in series : Key(r) = k}
  IN CHOOSE r \in rows : \A q \in rows : ~Before(q, r)

\* _dedupe_daily_rows: of the rows of one day and subclass the last one under the
\* preferred CNPJ, or else the first.
Chosen(k) ==
  LET rows   == {r \in series : Key(r) = k}
      better == {r \in rows : r.cnpj = Prefer}
  IN IF better # {} THEN CHOOSE r \in better : \A q \in better : ~Before(r, q)
     ELSE CHOOSE r \in rows : \A q \in rows : ~Before(q, r)

Deduped == {Chosen(Key(r)) : r \in series}

\* The CNPJ that related rows are served under.
Target ==
  IF Continuation # None THEN Continuation
  ELSE IF request.surface = "python" /\ funds # << >> /\ Cardinality(Needles) = 2
  THEN request.cnpj
  ELSE None

ServedAs(r) == IF Target # None /\ r.cnpj \in Needles THEN Target ELSE r.cnpj

\* _group_daily_series: the series that are served.
Served ==
  {[cnpj |-> ServedAs(r), sub |-> r.sub,
    rows |-> {q \in Deduped : ServedAs(q) = ServedAs(r) /\ q.sub = r.sub}] : r \in Deduped}
-----------------------------------------------------------------------------
Init ==
  /\ request \in Requests
  /\ register \in Registers
  /\ Selected(register)
  /\ archive \in Archives
  /\ stamps = << >>
  /\ funds = << >>
  /\ index = 1
  /\ series = {}
  /\ missing = {}
  /\ truncated = FALSE
  /\ phase = "start"

Refuse ==
  /\ phase = "start"
  /\ Refused
  /\ phase' = "refused"
  /\ UNCHANGED <<request, register, archive, stamps, funds, index, series, missing, truncated>>

\* A range, or a month and how many before it; without a month, the last one
\* that the listing of the files has.
Open ==
  /\ phase = "start"
  /\ ~Refused
  /\ IF Ranged THEN stamps' = Between
     ELSE IF request.month # <<0, 0>> THEN stamps' = Lookback(request.month)
     ELSE \E last \in DOMAIN archive :
            /\ \A m \in DOMAIN archive : Absolute(m) <= Absolute(last)
            /\ stamps' = Lookback(last)
  /\ phase' = "register"
  /\ UNCHANGED <<request, register, archive, funds, index, series, missing, truncated>>

\* The register is read ...
Look ==
  /\ phase = "register"
  /\ funds' = register
  /\ phase' = "months"
  /\ UNCHANGED <<request, register, archive, stamps, index, series, missing, truncated>>

\* ... or its source fails, and the call goes on without.
LookFails ==
  /\ phase = "register"
  /\ phase' = "months"
  /\ UNCHANGED <<request, register, archive, stamps, funds, index, series, missing, truncated>>

\* A register that was fetched and cannot be read: raised by Python, while the Worker
\* goes on without.
LookRaises ==
  /\ phase = "register"
  /\ request.surface = "python"
  /\ phase' = "failed"
  /\ UNCHANGED <<request, register, archive, stamps, funds, index, series, missing, truncated>>

Reading == phase = "months" /\ index <= Len(stamps) /\ ~truncated

\* A month's file: its rows are kept, up to the limit.
ReadMonth ==
  LET kept == series \cup {r \in Scanned(stamps[index]) : Wanted(r)}
  IN /\ Reading
     /\ stamps[index] \in DOMAIN archive
     /\ series' = First(kept, Limit)
     /\ truncated' = (Cardinality(kept) >= Limit)
     /\ index' = index + 1
     /\ UNCHANGED <<request, register, archive, stamps, funds, missing, phase>>

\* No file for the month: 404.
MissMonth ==
  /\ Reading
  /\ stamps[index] \notin DOMAIN archive
  /\ missing' = missing \cup {stamps[index]}
  /\ index' = index + 1
  /\ UNCHANGED <<request, register, archive, stamps, funds, series, truncated, phase>>

\* MUTANT of MonthFails: a failed month is passed over.
MonthFails_GoesOn ==
  /\ Reading
  /\ index' = index + 1
  /\ UNCHANGED <<request, register, archive, stamps, funds, series, missing, truncated, phase>>

\* Any other failure of a read is raised.
MonthFails ==
  /\ Reading
  /\ phase' = "failed"
  /\ UNCHANGED <<request, register, archive, stamps, funds, index, series, missing, truncated>>

\* The listing has no file, or cannot be read.
ListingFails ==
  /\ phase = "start"
  /\ ~Refused /\ ~Ranged /\ request.month = <<0, 0>>
  /\ phase' = "failed"
  /\ UNCHANGED <<request, register, archive, stamps, funds, index, series, missing, truncated>>

\* The payload is made of series, missing and truncated.
Answer ==
  /\ phase = "months"
  /\ ~Reading
  /\ phase' = "done"
  /\ UNCHANGED <<request, register, archive, stamps, funds, index, series, missing, truncated>>

Next ==
  \/ Refuse
  \/ Open
  \/ ListingFails
  \/ Look
  \/ LookFails
  \/ LookRaises
  \/ ReadMonth
  \/ MissMonth
  \/ MonthFails
  \/ Answer

Spec == Init /\ [][Next]_vars
-----------------------------------------------------------------------------
(* Properties.                                                             *)

\* Types; and of the window: it never has more months than _DAILY_MONTHS_MAX, whatever
\* range is asked for, and its months are months.
TypeOK ==
  /\ Len(stamps) <= MonthsMax
  /\ stamps \in Seq(Months)
  /\ funds \in {<< >>, register}
  /\ index \in 1..(Len(stamps) + 1)
  /\ Cardinality(series) <= Limit
  /\ missing \cap DOMAIN archive = {}
  /\ truncated \in BOOLEAN
  /\ phase \in {"start", "register", "months", "done", "refused", "failed"}

Done == phase = "done"

\* The last month of the window that was asked for.
Last ==
  IF Ranged THEN request.end.month
  ELSE IF request.month # <<0, 0>> THEN request.month
  ELSE CHOOSE m \in DOMAIN archive : \A n \in DOMAIN archive : Absolute(n) <= Absolute(m)

Asked(r) ==
  /\ r.cnpj \in Needles
  /\ Wanted(r)
  /\ ~Ranged => Absolute(r.month) \in (Absolute(Last) - request.months + 1)..Absolute(Last)

\* The Worker's scan of the month did not come to its cap.
Uncapped(m) ==
  request.surface = "worker" => Cardinality({r \in RowsOf(m) : r.cnpj \in Needles}) <= ScanCap

\* What CVM has published on what was asked.
Published == {r \in UNION {RowsOf(m) : m \in {n \in DOMAIN archive : Uncapped(n)}} : Asked(r)}

\* An answer that does not say "truncated" has a point for every day and subclass that
\* CVM has published in the window, whatever failed, and none that was not asked for.
AnswerIsExact ==
  Done => /\ \A r \in Deduped : Asked(r)
          /\ ~truncated => \A r \in Published : \E q \in Deduped : Key(q) = Key(r)

\* "stitches a single-class RCVM 175 continuation onto legacy 555 INF_DIARIO": the old
\* fund and its only class are one series under the class's CNPJ, with one point a day,
\* which is the class's own where it has one.
ContinuationIsStitched ==
  Done /\ ~truncated /\ Continuation # None =>
    \A r \in Published : \E s \in Served :
      /\ s.cnpj = Continuation /\ s.sub = r.sub
      /\ \A t \in Served : t.sub = s.sub => t = s
      /\ \E q \in s.rows :
           /\ DateOf(q) = DateOf(r)
           /\ r.cnpj = Continuation => q.cnpj = Continuation
           /\ \A p \in s.rows : DateOf(p) = DateOf(q) => p = q

\* "Multi-class funds never borrow another class - those series are different
\* investments": a fund with two classes is served with a series for each.
ClassesAreApart ==
  Done /\ ~truncated =>
    \A i \in DOMAIN funds : Cardinality(Classes(funds[i])) > 1 =>
      \A r \in Published : r.cnpj \in Classes(funds[i]) =>
        \E s \in Served : s.cnpj = r.cnpj /\ s.sub = r.sub /\ \A q \in s.rows : q.cnpj = r.cnpj
=============================================================================
