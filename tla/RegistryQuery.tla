--------------------------- MODULE RegistryQuery ----------------------------
(* How the words of the offline registry and of a query to it are made, by    *)
(* build_registry.py and store.py, and when FTS5 matches the two. A text is a *)
(* sequence of characters: letters, digits, and others that part words.       *)
EXTENDS Integers, Sequences, SequencesExt, FiniteSetsExt

Letters == {"O", "R", "N"}
Digits == {"1", "2"}
\* " " is a space, "." any punctuation.
IsAlnum(c) == c \in Letters \cup Digits
_FTS5_RESERVED == {<<"O", "R">>}
_MIN_QUERY_LEN == 2

normalize_token(text) == SelectSeq(text, IsAlnum)

\* The runs of letters and digits of a text, in order.
WordsOf(text) ==
  LET Take(acc, c) ==
        IF IsAlnum(c) THEN [acc EXCEPT !.word = Append(@, c)]
        ELSE IF acc.word = << >> THEN acc ELSE [words |-> Append(acc.words, acc.word), word |-> << >>]
      last == FoldLeft(Take, [words |-> << >>, word |-> << >>], text)
  IN IF last.word = << >> THEN last.words ELSE Append(last.words, last.word)

\* An entity's searchable words: each code is one word, each name its words.
make_searchable(e) ==
  ({normalize_token(code) : code \in e.codes} \ {<< >>}) \cup UNION {ToSet(WordsOf(name)) : name \in e.names}

-----------------------------------------------------------------------------
Strip(text) ==
  LET solid == {i \in DOMAIN text : text[i] # " "} IN
  IF solid = {} THEN << >> ELSE SubSeq(text, Min(solid), Max(solid))

_escape_token(t) == [word |-> t, prefix |-> t \notin _FTS5_RESERVED]
AllDigits(t) == ToSet(t) \subseteq Digits

\* Each variant is a set of terms that must all match; one variant is enough.
_normalize_query(q) ==
  LET tokens == WordsOf(q)
      joined == FlattenSeq(tokens)
      digits == FlattenSeq(SelectSeq(tokens, AllDigits))
  IN IF Len(Strip(q)) < _MIN_QUERY_LEN \/ tokens = << >> THEN {}
     ELSE {{_escape_token(t) : t \in ToSet(tokens)}, {_escape_token(joined)}}
          \cup (IF digits = << >> THEN {} ELSE {{_escape_token(digits)}})

\* FTS5: a term with a star matches the beginning of a word, a quoted one the word.
TermMatches(term, words) == \E w \in words : IF term.prefix THEN IsPrefix(term.word, w) ELSE term.word = w
Match(q, e) == \E variant \in _normalize_query(q) : \A term \in variant : TermMatches(term, make_searchable(e))

-----------------------------------------------------------------------------
\* How people type an entity: a code with punctuation between its characters; a
\* code of digits behind a label; beginnings of words of a name in any order. A
\* reserved word is searched as it stands, so it must be a whole word.
Punctuated(code) ==
  LET t == normalize_token(code) IN
  {FlattenSeq([i \in DOMAIN t |-> IF i \in gaps THEN <<".", t[i]>> ELSE <<t[i]>>]) : gaps \in SUBSET DOMAIN t}
Label == <<"N", "R", ".", " ">>
Labelled(code) == IF AllDigits(normalize_token(code)) THEN {Label \o text : text \in Punctuated(code)} ELSE {}
Beginnings(w) == {t \in {SubSeq(w, 1, n) : n \in 1 .. Len(w)} : t \notin _FTS5_RESERVED} \cup {w}
SomeWords(name) ==
  LET starts == UNION {Beginnings(w) : w \in ToSet(WordsOf(name))} IN
  starts \cup {<<" ">> \o s \o <<" ">> \o t : s, t \in starts}
TypedAs(e) ==
  UNION {Punctuated(code) \cup Labelled(code) : code \in e.codes} \cup UNION {SomeWords(name) : name \in e.names}
=============================================================================
