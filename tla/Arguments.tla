------------------------------ MODULE Arguments ------------------------------
(***************************************************************************)
(* The argument of a statement: the validators of the core types           *)
(* (core_types.rs, core_validators.rs), the Erlang type that               *)
(* yang_set_type_bits gives a type (grammar.rs), and arg_to_term, which    *)
(* makes the Erlang term (c_src/rustler_yang_parser/src/lib.rs).           *)
(*                                                                         *)
(* The integers are written with the maxima of i64 and u64 as parameters.  *)
(***************************************************************************)
EXTENDS Integers, FiniteSets

CONSTANTS
  IntMax, UintMax,   \* i64::MAX, u64::MAX
  AtomMax,           \* the length of the longest atom
  Year,              \* the years that dates are in
  Scenario           \* [type, version, arg], see ScenarioType

(* Arguments: numbers as they are written (without leading zeros), dates,  *)
(* and words, of which only some properties count.  The text before a      *)
(* colon is counted by prefix, the colon itself not at all.                *)
Space == {"none", "before", "behind"}
Number == [kind : {"number"}, sign : {"", "+", "-"}, digits : Nat, space : Space]
Date == [kind : {"date"}, year : Year, month : Nat, day : Nat]
Word == [kind : {"word"}, word : STRING, form : {"identifier", "prefixed", "xml", "uri", "other"},
         prefix : Nat, length : Nat, utf8 : BOOLEAN, space : Space]

(* The types whose argument is one of a few words.                         *)
WordsOf ==
  [type \in {"version", "boolean", "ordered-by-arg", "deviate-arg", "=not-supported", "=delete",
            "=replace", "status-arg", "modifier-arg"} |->
     CASE type = "version" -> {"1.1"}
       [] type = "boolean" -> {"true", "false"}
       [] type = "ordered-by-arg" -> {"user", "system"}
       [] type = "deviate-arg" -> {"add", "delete", "replace", "not-supported"}
       [] type = "=not-supported" -> {"not-supported"}
       [] type = "=delete" -> {"delete"}
       [] type = "=replace" -> {"replace"}
       [] type = "status-arg" -> {"current", "obsolete", "deprecated"}
       [] type = "modifier-arg" -> {"invert-match"}]

Type == DOMAIN WordsOf \cup
  {"string", "identifier", "identifier-ref", "uri", "date", "enum-arg", "integer",
   "non-negative-integer", "fraction-digits-arg", "max-value"}

ASSUME LimitsAssumption ==
  /\ IntMax \in Nat /\ UintMax \in Nat /\ AtomMax \in Nat
  /\ 18 <= IntMax /\ IntMax < UintMax
ASSUME YearAssumption == Year \subseteq Nat \ {0}
ASSUME ScenarioAssumption ==
  \A s \in Scenario :
    /\ s.type \in Type /\ s.version \in {1, 2} /\ s.arg \in Number \cup Date \cup Word
    /\ s.arg.kind = "word" =>
         /\ s.arg.prefix <= s.arg.length
         /\ s.arg.word = "unbounded" => s.arg.utf8 /\ s.arg.length <= AtomMax

VARIABLES
  scn,        \* the scenario, never changed
  phase,      \* "check", "convert", "rejected", "badarg", "done"
  term        \* the Erlang term

vars == <<scn, phase, term>>

NoTerm == [is |-> "none"]

-----------------------------------------------------------------------------
Value(a) == IF a.sign = "-" THEN - a.digits ELSE a.digits

Plain(a) == a.kind = "number" /\ a.space = "none"

(* str::parse for i64 and u64: nothing but a sign and digits, and "-" only *)
(* before an i64.                                                          *)
ParsesI64(a) == Plain(a) /\ -IntMax - 1 <= Value(a) /\ Value(a) <= IntMax
(* Fault: all numbers are parsed as i64.                                   *)
ParsesSigned(a) == ParsesI64(a) /\ a.sign # "-"
ParsesU64(a) == Plain(a) /\ a.sign # "-" /\ a.digits <= UintMax

(* chk_date_rs, behind a regular expression for months up to 12 and days   *)
(* up to 31.                                                               *)
(* Fault: every fourth year is a leap year.                                *)
JulianLeapYear(y) == y % 4 = 0
LeapYear(y) == y % 400 = 0 \/ (y % 4 = 0 /\ y % 100 # 0)
Days(y, m) ==
  IF m = 2 THEN (IF LeapYear(y) THEN 29 ELSE 28)
  ELSE IF m \in {4, 6, 9, 11} THEN 30 ELSE 31
DateMatches(a) == a.kind = "date" /\ a.month \in 1 .. 12 /\ a.day \in 1 .. 31
ChkDate(a) == DateMatches(a) /\ a.day <= Days(a.year, a.month)

ChkIdentifier(a, version) ==
  /\ a.kind = "word" /\ a.space = "none"
  /\ a.form \in (IF version = 1 THEN {"identifier"} ELSE {"identifier", "xml"})
ChkFractionDigits(a) == ParsesU64(a) /\ a.digits \in 1 .. 18
ChkMaxValue(a) == (a.kind = "word" /\ a.word = "unbounded") \/ ParsesU64(a)

(* Checked after a lossy conversion: any bytes will do, if there are some. *)
ChkEnumArg(a) ==
  /\ a.kind = "word" => a.length > 0
  /\ a.kind \in {"number", "word"} => a.space = "none"

(* The syntax the core types are installed with.  A word with a form other *)
(* than "other" matches the regular expression of that form.               *)
Accepts(type, a, version) ==
  CASE type = "string" -> TRUE
    [] type \in DOMAIN WordsOf ->
         \/ a.kind = "word" /\ a.word \in WordsOf[type]
         \/ type = "version" /\ Plain(a) /\ a.sign = "" /\ a.digits = 1
    [] type = "identifier" -> ChkIdentifier(a, version)
    [] type = "identifier-ref" ->
         a.kind = "word" /\ a.space = "none" /\ a.form \in {"identifier", "xml", "prefixed"}
    [] type = "uri" -> a.kind = "word" /\ a.form = "uri"
    [] type = "date" -> ChkDate(a)
    [] type = "enum-arg" -> ChkEnumArg(a)
    [] type = "integer" -> ParsesI64(a)
    [] type = "non-negative-integer" -> ParsesU64(a)
    [] type = "fraction-digits-arg" -> ChkFractionDigits(a)
    [] type = "max-value" -> ChkMaxValue(a)

(* yang_set_type_bits.                                                     *)
AtomTypes == {"identifier", "uri", "boolean", "ordered-by-arg", "enum-arg", "deviate-arg",
              "=not-supported", "=delete", "=replace", "status-arg"}
UintTypes == {"non-negative-integer", "fraction-digits-arg"}
(* Fault: max-value is an unsigned integer, as the other counts are.       *)
PlainCounts(type) ==
  IF type \in AtomTypes THEN "atom"
  ELSE IF type = "integer" THEN "int"
  ELSE IF type \in UintTypes \cup {"max-value"} THEN "uint"
  ELSE IF type = "identifier-ref" THEN "identifier_ref"
  ELSE "binary"
ErlType(type) ==
  IF type \in AtomTypes THEN "atom"
  ELSE IF type = "integer" THEN "int"
  ELSE IF type \in UintTypes THEN "uint"
  ELSE IF type = "max-value" THEN "atom_or_uint"
  ELSE IF type = "identifier-ref" THEN "identifier_ref"
  ELSE "binary"

(* arg_to_term.  Bad is the BadArg that the NIF raises: for bytes that are *)
(* not UTF-8, a number that does not parse and an atom that is too long.   *)
Bad == [is |-> "badarg"]
Utf8(a) == a.kind = "word" => a.utf8
FitsAtom(a) ==
  IF a.kind = "word" THEN a.length - a.prefix <= AtomMax /\ a.prefix <= AtomMax ELSE TRUE
MakeAtom(a) ==
  IF Utf8(a) /\ (a.kind = "word" => a.length <= AtomMax) THEN [is |-> "atom", of |-> a] ELSE Bad
MakePair(a) == IF Utf8(a) /\ FitsAtom(a) THEN [is |-> "pair", of |-> a] ELSE Bad
MakeNumber(a, parses) == IF parses THEN [is |-> "number", of |-> Value(a)] ELSE Bad
Prefixed(a) == a.kind = "word" /\ a.prefix > 0
ArgToTerm(type, a) ==
  CASE ErlType(type) = "atom" -> MakeAtom(a)
    [] ErlType(type) = "int" -> MakeNumber(a, ParsesI64(a))
    [] ErlType(type) = "uint" -> MakeNumber(a, ParsesU64(a))
    [] ErlType(type) = "atom_or_uint" -> IF ParsesU64(a) THEN MakeNumber(a, TRUE) ELSE MakeAtom(a)
    [] ErlType(type) = "identifier_ref" -> IF Prefixed(a) THEN MakePair(a) ELSE MakeAtom(a)
    [] ErlType(type) = "binary" -> [is |-> "binary", of |-> a]

-----------------------------------------------------------------------------
Init == scn \in Scenario /\ phase = "check" /\ term = NoTerm

Check ==
  /\ phase = "check"
  /\ phase' = IF Accepts(scn.type, scn.arg, scn.version) THEN "convert" ELSE "rejected"
  /\ UNCHANGED <<scn, term>>

Convert ==
  /\ phase = "convert"
  /\ term' = ArgToTerm(scn.type, scn.arg)
  /\ phase' = IF term' = Bad THEN "badarg" ELSE "done"
  /\ UNCHANGED scn

Terminated == phase \in {"rejected", "badarg", "done"} /\ UNCHANGED vars

Next == Check \/ Convert \/ Terminated
Spec == Init /\ [][Next]_vars
-----------------------------------------------------------------------------
NumericType == {"integer", "max-value"} \cup UintTypes

(* The validators and the conversion are written apart, in two crates, and *)
(* parse twice: what the grammar has accepted is converted, but for words  *)
(* that make no atom.  (For those parse raises badarg, with no error in    *)
(* the list and without freeing the statements.)                           *)
ConvertsWhatItAccepts ==
  phase = "badarg" =>
    /\ scn.arg.kind = "word"
    /\ ~scn.arg.utf8 \/ scn.arg.length > AtomMax
    /\ scn.type \in AtomTypes \cup {"identifier-ref"}

(* A number goes through as it was written or is refused: what the type is *)
(* for is accepted up to the limits of 64 bits, the term is its value, and *)
(* nothing outside the limits is wrapped or cut off.                       *)
KeepsTheNumber ==
  scn.type \in NumericType =>
    LET a == scn.arg
        limits == IF scn.type = "integer" THEN -IntMax - 1 .. IntMax
                  ELSE IF scn.type = "fraction-digits-arg" THEN 1 .. 18
                  ELSE 0 .. UintMax
        inRange == Value(a) \in limits
    IN /\ phase = "done" /\ a.kind = "number" => (inRange /\ term = [is |-> "number", of |-> Value(a)])
       /\ phase = "rejected" /\ a.kind = "number" /\ a.space = "none" =>
            (~inRange \/ (a.sign = "-" /\ scn.type # "integer"))

(* The days before a date, counted by years: Gregorian years have 365 days *)
(* and one more for every leap year before.                                *)
DaysBefore(y) == 365 * (y - 1) + (y - 1) \div 4 - (y - 1) \div 100 + (y - 1) \div 400
MonthLengths(y) == <<31, DaysBefore(y + 1) - DaysBefore(y) - 337, 31, 30, 31, 30, 31, 31, 30, 31, 30, 31>>
Exists(a) == a.month \in 1 .. 12 /\ a.day \in 1 .. MonthLengths(a.year)[a.month]

(* A revision date is accepted if there is such a day: the lengths of the  *)
(* years agree with the Gregorian count of days.                           *)
DatesExist ==
  scn.type = "date" /\ scn.arg.kind = "date" =>
    /\ phase = "done" => Exists(scn.arg)
    /\ phase = "rejected" => ~Exists(scn.arg)
=============================================================================
