---------------------------- MODULE MCFundQuotes ----------------------------
(* A small instance of FundQuotes for TLC: a fund F with the classes A and B, *)
(* two months on either side of a year's end and the one before them.         *)
EXTENDS FundQuotes

CONSTANTS F, A, B, S

Nov == <<2025, 11>>
Dec == <<2025, 12>>
Jan == <<2026, 1>>

Ask(surface, cnpj, sub, start, end, month, months) ==
  [surface |-> surface, cnpj |-> cnpj, sub |-> sub, start |-> start, end |-> end,
   month |-> month, months |-> months]
Date(m, d) == [month |-> m, day |-> d]

SmallRequests ==
  UNION {{Ask(surface, cnpj, None, NoDate, NoDate, <<0, 0>>, 2),
          Ask(surface, cnpj, S, NoDate, NoDate, Jan, 2),
          Ask(surface, cnpj, None, Date(Dec, 2), Date(Jan, 1), <<0, 0>>, 1),
          Ask(surface, cnpj, None, Date(Nov, 1), Date(Jan, 1), <<0, 0>>, 1),
          Ask(surface, cnpj, None, NoDate, Date(Jan, 1), <<0, 0>>, 1),
          Ask(surface, cnpj, None, NoDate, NoDate, <<2026, 0>>, 1)} :
         surface \in {"python", "worker"}, cnpj \in {F, A}}

Fund(cnpj, classes) == [cnpj |-> cnpj, classes |-> classes]
SmallRegisters ==
  {<< >>, <<Fund(F, <<A>>)>>, <<Fund(F, <<A, B>>)>>, <<Fund(F, <<F, B>>)>>, <<Fund(F, <<None>>)>>,
   <<Fund(F, <<A, B>>), Fund(F, <<A>>)>>}

Line(cnpj, day, sub) == [cnpj |-> cnpj, day |-> day, sub |-> sub]
SmallFiles ==
  {<< >>, <<Line(F, 1, None), Line(A, 1, None)>>, <<Line(A, 2, None), Line(F, 2, None)>>,
   <<Line(A, 1, None), Line(B, 1, None)>>, <<Line(A, 1, None), Line(A, 1, S), Line(F, 2, S)>>}
SmallArchives == UNION {[months -> SmallFiles] : months \in SUBSET {Nov, Dec, Jan}}

\* Two classes of one fund, quoted on the same day without a subclass.
ClassArchives == {[m \in {Jan} |-> <<Line(A, 1, None), Line(B, 1, None)>>]}
=============================================================================
