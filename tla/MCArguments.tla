---------------------------- MODULE MCArguments ----------------------------
(* Every core type with a number around each limit, with the dates around  *)
(* the ends of the months and with words that may or may not make an atom. *)
EXTENDS Arguments

MCYear == {1900, 2000, 2023, 2024, 2100}

Numbers ==
  {[kind |-> "number", sign |-> sign, digits |-> n, space |-> space] :
     sign \in {"", "+", "-"}, n \in 0 .. UintMax + 2, space \in Space}
Dates ==
  {[kind |-> "date", year |-> y, month |-> m, day |-> d] :
     y \in MCYear, m \in {0, 1, 2, 4, 8, 12, 13}, d \in {0, 1, 28, 29, 30, 31, 32}}
AnyWord(word, form, prefix, length, utf8, space) ==
  [kind |-> "word", word |-> word, form |-> form, prefix |-> prefix, length |-> length,
   utf8 |-> utf8, space |-> space]
Words ==
  {AnyWord(w, "identifier", 0, 4, TRUE, "none") :
     w \in {"unbounded", "other"} \cup UNION {WordsOf[t] \ {"1.1"} : t \in DOMAIN WordsOf}}
  \cup {AnyWord("1.1", "other", 0, 3, TRUE, "none"), AnyWord("", "other", 0, 0, TRUE, "none")}
  \cup {AnyWord("other", form, 0, n, TRUE, "none") :
          form \in {"identifier", "xml", "uri"}, n \in {AtomMax, AtomMax + 1}}
  \cup {AnyWord("other", "prefixed", p, n, TRUE, "none") :
          p \in {2, AtomMax, AtomMax + 1}, n \in {AtomMax + 3, 2 * AtomMax, 2 * AtomMax + 1}}
  \cup {AnyWord("other", "other", 0, 4, utf8, space) : utf8 \in BOOLEAN, space \in Space}
MCScenario ==
  [type : Type, version : {1, 2}, arg : Numbers \cup Dates \cup Words]
=============================================================================
