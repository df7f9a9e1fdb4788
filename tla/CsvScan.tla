------------------------------ MODULE CsvScan -------------------------------
(* How the Worker looks for rows in a CSV file of a ZIP archive: a stored file*)
(* is in memory, a deflated one comes in chunks that end anywhere, within a   *)
(* line, a needle or a line's end. A file is a sequence of bytes.             *)
EXTENDS Integers, Sequences, SequencesExt, FiniteSetsExt

CONSTANTS Needles,        \* the sequences of bytes looked for
          MaxFile,        \* bound on the bytes of a file
          MaxRows         \* bound on the limit

VARIABLES csv,            \* the file
          came,           \* how many of its bytes have come
          leftover,       \* the bytes of the line that has not ended
          header, rows,   \* the header, and the rows kept
          rowLimit,       \* limit
          scan            \* "closed", "stored", "deflated", "stopped", "done"

csvVars == <<csv, came, leftover, header, rows, rowLimit, scan>>

LF == 10
CR == 13
Bytes == {LF, CR, 120}

\* A needle is a CNPJ, and never holds a line's end.
ASSUME CsvAssumption ==
  /\ MaxFile \in Nat /\ MaxRows \in Nat \ {0}
  /\ Needles \subseteq Seq(Bytes) /\ \A needle \in Needles : CR \notin ToSet(needle)

NoHeader == << >>         \* no line that is visited is empty

CsvInit ==
  /\ csv = << >> /\ came = 0 /\ leftover = << >> /\ header = NoHeader /\ rows = << >>
  /\ rowLimit = 1 /\ scan = "closed"

lineContains(line, needle) == \E i \in 0 .. Len(line) - Len(needle) : SubSeq(line, i + 1, i + Len(needle)) = needle
Wanting(line) == \E needle \in Needles : needle # << >> /\ lineContains(line, needle)

Bare(line) == IF line # << >> /\ Last(line) = CR THEN Front(line) ELSE line

\* visit: the first line is the header, and the scan stops at the limit.
Visit(s, line) ==
  IF line = << >> \/ Len(s.rows) >= rowLimit THEN s
  ELSE IF s.header = NoHeader THEN [s EXCEPT !.header = line]
  ELSE IF Wanting(line) THEN [s EXCEPT !.rows = Append(@, line)] ELSE s

\* One byte: a line ends at a line feed, a carriage return before it is dropped.
TakeByte(s, b) ==
  IF b = LF THEN [Visit(s, Bare(s.line)) EXCEPT !.line = << >>] ELSE [s EXCEPT !.line = Append(@, b)]

Sofar == [header |-> header, rows |-> rows, line |-> leftover]
TakeChunk_Forgets(chunk) == FoldLeft(TakeByte, [Sofar EXCEPT !.line = << >>], chunk)   \* (mutant) no leftover
TakeChunk(chunk) == FoldLeft(TakeByte, Sofar, chunk)

OpenFile ==
  /\ scan = "closed"
  /\ \E n \in 0 .. MaxFile : csv' \in [1 .. n -> Bytes]
  /\ rowLimit' \in 1 .. MaxRows /\ scan' \in {"stored", "deflated"}
  /\ UNCHANGED <<came, leftover, header, rows>>

\* In memory the end of the file ends a line as a line feed does.
ScanStored ==
  /\ scan = "stored" /\ scan' = "done"
  /\ LET all == TakeByte(TakeChunk(csv), LF) IN
     header' = all.header /\ rows' = all.rows /\ came' = Len(csv)
  /\ UNCHANGED <<csv, leftover, rowLimit>>

ReadChunk ==
  /\ scan = "deflated" /\ came < Len(csv)
  /\ \E n \in came + 1 .. Len(csv) :
       LET now == TakeChunk(SubSeq(csv, came + 1, n)) IN
       /\ came' = n /\ header' = now.header /\ rows' = now.rows /\ leftover' = now.line
       /\ scan' = IF Len(rows') >= rowLimit THEN "stopped" ELSE "deflated"
  /\ UNCHANGED <<csv, rowLimit>>

\* The last line of a stream is visited as it is.
StreamEnds ==
  /\ scan = "deflated" /\ came = Len(csv) /\ scan' = "done"
  /\ LET all == Visit(Sofar, leftover) IN header' = all.header /\ rows' = all.rows
  /\ UNCHANGED <<csv, came, leftover, rowLimit>>

CsvNext == OpenFile \/ ScanStored \/ ReadChunk \/ StreamEnds

CsvSpec == CsvInit /\ [][CsvNext]_csvVars

-----------------------------------------------------------------------------
CsvTypeOK ==
  /\ came \in 0 .. Len(csv) /\ Len(rows) <= rowLimit
  /\ LF \notin ToSet(leftover)
  /\ scan \in {"closed", "stored", "deflated", "stopped", "done"}

\* The lines of a file, by the places before them: a line stands between two line
\* feeds, or at an end of the file, without the carriage return at its own end.
Ends(file) == {0} \cup {i \in DOMAIN file : file[i] = LF}
Until(file, i) == Min({j \in Ends(file) : j > i} \cup {Len(file) + 1})
LineAt(file, i) == Bare(SubSeq(file, i + 1, Until(file, i) - 1))
Lines(file) == {i \in Ends(file) : LineAt(file, i) # << >>}
\* Those that hold a needle, the header apart.
Due(file) == {i \in Lines(file) : Wanting(LineAt(file, i)) /\ \E h \in Lines(file) : h < i}

\* However the file was stored and wherever its chunks ended, the rows are the
\* first lines after the header that hold a needle. Only a carriage return that
\* is the last byte of a stream stays in its line.
ScanIsWhole ==
  scan \in {"stopped", "done"} =>
    LET due == Due(csv) IN
    /\ Len(rows) = Min({rowLimit, Cardinality(due)})
    /\ \A i \in due :
         LET place == Cardinality({j \in due : j <= i}) IN
         place <= rowLimit =>
           \/ rows[place] = LineAt(csv, i)
           \/ rows[place] = Append(LineAt(csv, i), CR) /\ Until(csv, i) = Len(csv) + 1 /\ Last(csv) = CR
=============================================================================
