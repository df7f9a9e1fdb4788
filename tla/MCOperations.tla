---------------------------- MODULE MCOperations ----------------------------
(* A small instance of the machines of SideBySide.                            *)
EXTENDS SideBySide, TLC

SmallCompanies == {
  [kind |-> "company", codes |-> {<<"1", ".", "2">>, <<"R", "1">>}, tickers |-> {<<"R", "1">>},
   names |-> {<<"O", "R", " ", "R", "O">>}],
  [kind |-> "company", codes |-> {<<"2", "2">>, <<"O", "2">>}, tickers |-> {<<"O", "2">>}, names |-> {<<"N", "O">>}]}
SmallFunds == {
  [kind |-> "fund", codes |-> {<<"2", ".", "1">>}, tickers |-> {}, names |-> {<<"N", ".", "R", " ", "1">>}]}
SmallInsurers == {
  [kind |-> "susep", codes |-> {<<"1", "1", "2">>, <<"2", "1">>}, tickers |-> {}, names |-> {<<"R", "N">>}]}
CsvNeedles == {<<120, 120>>, << >>}

\* The tasks of each machine are interchangeable.
TaskSymmetry == Permutations(ImaCallers)

\* What is typed of the small entities matches them.
ASSUME TypedMatches
=============================================================================
