---------------------------- MODULE MCFundLookup ----------------------------
(* Small instances of FundLookup for TLC: three funds with up to three       *)
(* classes and a subclass between them, and archives of two blocks.           *)
EXTENDS FundLookup

SeqsUpto(S, n) == UNION {[1 .. k -> S] : k \in 0 .. n}

SmallLists ==
  {[funds |-> funds, classes |-> classes, subs |-> subs] :
     funds \in [1 .. 3 -> [hit : BOOLEAN]],
     classes \in SeqsUpto([fund : 1 .. 3, hit : BOOLEAN], 3),
     subs \in SeqsUpto([class : {1, 2}, hit : {TRUE}], 1) \cup {<<[class |-> 1, hit |-> FALSE]>>}}
SmallZips ==
  {<<[label |-> "BLC_1", lines |-> one], [label |-> "BLC_2", lines |-> two]>> :
     one \in SeqsUpto(LineKinds \ {"other"}, 2), two \in SeqsUpto(LineKinds, 3)}
=============================================================================
