-------------------------------- MODULE Cli ---------------------------------
(* One run of the command line: the option is checked, the sources are asked  *)
(* one after the other, each in an event loop of its own, and what each one   *)
(* gave is shown before the next is asked. A later failure takes nothing of   *)
(* it back.                                                                   *)
EXTENDS CliCommands, SequencesExt

VARIABLES command,        \* the command being run
          given,          \* the value given with -n, or NotGiven
          shown,          \* for each source that answered: rows had, first and last shown, the note
          exit            \* "running", "done", "empty" (says that nothing matched), "usage",
                          \* "error" (a message), "traceback"

cliVars == <<command, given, shown, exit>>

NotGiven == 0 - 2 * AnyInt
Accepts(c) ==
  {NotGiven} \cup IF c.max = 0 THEN {} ELSE {0 - 1, 0, 1, c.min - 1, c.min, c.max, c.max + 1}
Value == IF given = NotGiven THEN command.std ELSE given
Current == command.asks[Len(shown) + 1]

CliInit == command = Prints("banner") /\ given = NotGiven /\ shown = << >> /\ exit = "done"

Start ==
  /\ exit # "running"
  /\ command' \in Commands
  /\ given' \in Accepts(command')
  /\ shown' = << >>
  /\ exit' = IF given' # NotGiven /\ given' \notin command'.min .. command'.max THEN "usage"
             ELSE IF command'.asks = << >> THEN "done" ELSE "running"

\* Python's rows[:k] and rows[-k:], also where k is zero or negative.
Kept(side, k, had) ==
  CASE side = "first" -> <<1, IF k >= 0 THEN Min({k, had}) ELSE Max({0, had + k})>>
    [] side = "last" -> <<IF k > 0 THEN Max({1, had - k + 1}) ELSE Min({had, 0 - k}) + 1, had>>
    [] OTHER -> <<1, had>>

Cap(cut) == IF cut.cap = ByOption THEN Value ELSE cut.cap
\* (mutant) The note is printed when the table is just full.
Shows_EarlyNote(cut, had) ==
  [had |-> had, from |-> Kept(cut.side, Cap(cut), had)[1], to |-> Kept(cut.side, Cap(cut), had)[2],
   said |-> cut.noted /\ had >= Cap(cut)]

Shows(cut, had) ==
  [had |-> had, from |-> Kept(cut.side, Cap(cut), had)[1], to |-> Kept(cut.side, Cap(cut), had)[2],
   said |-> cut.noted /\ had > Cap(cut)]
Length(s) == s.to - s.from + 1

\* The commands whose rows are cut by the option test the cut list for rows,
\* the history of a bond tests the list before the cut.
FoundNone(ask, s) ==
  /\ ask.empty = "stops"
  /\ s.had = 0 \/ (ask.cut.side = "first" /\ ask.cut.cap = ByOption /\ Length(s) = 0)

Counts(cut) == {0, 1, 3} \cup {Max({0, Cap(cut) + i}) : i \in {0, 1}}

RowsCome ==
  /\ exit = "running"
  /\ \E had \in Counts(Current.cut) :
       LET s == Shows(Current.cut, had) IN
       /\ shown' = Append(shown, s)
       /\ exit' = IF FoundNone(Current, s) THEN "empty"
                  ELSE IF Len(shown) + 1 = Len(command.asks) THEN "done" ELSE "running"
  /\ UNCHANGED <<command, given>>

\* "value": ValueError; "sdk": the optional package is missing; "other".
SourceRaises ==
  /\ exit = "running"
  /\ \E fault \in {"value", "other"} \cup (command.catches \cap {"sdk"}) :
       exit' = IF fault \in command.catches THEN "error" ELSE "traceback"
  /\ UNCHANGED <<command, given, shown>>

CliNext == Start \/ RowsCome \/ SourceRaises

CliSpec == CliInit /\ [][CliNext]_cliVars

-----------------------------------------------------------------------------
CliTypeOK ==
  /\ given \in Accepts(command)
  /\ exit \in {"running", "done", "empty", "usage", "error", "traceback"}
  /\ Len(shown) <= Len(command.asks)
  /\ \A i \in DOMAIN shown : shown[i].from >= 1 /\ shown[i].to <= shown[i].had

\* The commands that leave rows out and do not say so when nothing was asked to
\* be left out: three tables of the last or first rows, four default options and
\* the commands that show one record.
QuietCuts ==
  {"aneel/leiloes/transmissao", "aneel/leiloes/geracao", "yahoo/chart",
   "tesouro/history", "anbima/debentures", "anbima/tpf", "cvm/daily",
   "cvm/lamina", "cvm/profile", "cvm/fii", "cvm/fidc", "cvm/fip", "cvm/ticker"}

\* Where typer takes any number for -n, zero and below are read as slices: the
\* whole history of a bond, all quotes but the last, or none.
ReadAsSlice == given <= 0 /\ command.name \in {"tesouro/history", "anbima/debentures", "anbima/tpf"}

\* A table that leaves rows out says so, unless the caller chose how many, and then
\* it shows at most that many; a note that rows are missing is true; and a command
\* that says that nothing matched found nothing. QuietCuts and the options that
\* are read as slices are the code's exceptions.
TablesAreHonest ==
  \A i \in DOMAIN shown :
    LET cut == command.asks[i].cut IN
    /\ shown[i].said => Length(shown[i]) < shown[i].had
    /\ Length(shown[i]) < shown[i].had =>
         shown[i].said \/ given # NotGiven \/ command.name \in QuietCuts
    /\ given # NotGiven /\ cut.cap = ByOption /\ cut.side \notin {"told", "all"} =>
         Length(shown[i]) <= given \/ ReadAsSlice
    /\ exit = "empty" /\ i = Len(shown) => shown[i].had = 0 \/ ReadAsSlice
=============================================================================
