-------------------------- MODULE Arguments_proofs --------------------------
(***************************************************************************)
(* Proofs about Arguments, for all limits of the integers and all years.   *)
(***************************************************************************)
EXTENDS Arguments, TLAPS

(* What the validator and the conversion have said so far.                 *)
IInv ==
  /\ scn \in Scenario
  /\ phase \in {"check", "convert", "rejected", "badarg", "done"}
  /\ phase = "rejected" => ~Accepts(scn.type, scn.arg, scn.version)
  /\ phase \in {"convert", "badarg", "done"} => Accepts(scn.type, scn.arg, scn.version)
  /\ phase = "badarg" => ArgToTerm(scn.type, scn.arg) = Bad
  /\ phase = "done" => term = ArgToTerm(scn.type, scn.arg)

LEMMA Inductive == Spec => []IInv
<1>1. Init => IInv
  BY DEF Init, IInv
<1>2. IInv /\ [Next]_vars => IInv'
  BY DEF IInv, Next, Check, Convert, Terminated, vars
<1> QED  BY <1>1, <1>2, PTL DEF Spec

(* The kinds of arguments.                                                 *)
LEMMA Kinds ==
  ASSUME NEW s \in Scenario
  PROVE  /\ s.arg.kind \in {"number", "date", "word"}
         /\ s.arg.kind = "number" => s.arg \in Number
         /\ s.arg.kind = "date" => s.arg \in Date
         /\ s.arg.kind = "word" => s.arg \in Word
BY ScenarioAssumption DEF Number, Date, Word

LEMMA TypeNames ==
  Type = {"string", "identifier", "identifier-ref", "uri", "date", "enum-arg", "integer",
          "non-negative-integer", "fraction-digits-arg", "max-value", "version", "boolean",
          "ordered-by-arg", "deviate-arg", "=not-supported", "=delete", "=replace", "status-arg",
          "modifier-arg"}
BY DEF Type, WordsOf

(* The validators of the numeric types.                                    *)
LEMMA AcceptsNumeric ==
  ASSUME NEW type \in NumericType, NEW a, NEW version
  PROVE  /\ type = "integer" => (Accepts(type, a, version) <=> ParsesI64(a))
         /\ type = "non-negative-integer" => (Accepts(type, a, version) <=> ParsesU64(a))
         /\ type = "fraction-digits-arg" => (Accepts(type, a, version) <=> ChkFractionDigits(a))
         /\ type = "max-value" => (Accepts(type, a, version) <=> ChkMaxValue(a))
<1>1. DOMAIN WordsOf = {"version", "boolean", "ordered-by-arg", "deviate-arg", "=not-supported",
                        "=delete", "=replace", "status-arg", "modifier-arg"}
  BY DEF WordsOf
<1>2. type \in {"integer", "non-negative-integer", "fraction-digits-arg", "max-value"}
  BY DEF NumericType, UintTypes
<1> QED  BY <1>1, <1>2 DEF Accepts

LEMMA NumericTerm ==
  ASSUME NEW type \in NumericType, NEW a
  PROVE  /\ type = "integer" => ArgToTerm(type, a) = MakeNumber(a, ParsesI64(a))
         /\ type \in UintTypes => ArgToTerm(type, a) = MakeNumber(a, ParsesU64(a))
         /\ type = "max-value" =>
              ArgToTerm(type, a) = IF ParsesU64(a) THEN MakeNumber(a, TRUE) ELSE MakeAtom(a)
<1>1. type \in {"integer", "non-negative-integer", "fraction-digits-arg", "max-value"}
  BY DEF NumericType, UintTypes
<1>2. ErlType(type) = IF type = "integer" THEN "int"
                      ELSE IF type = "max-value" THEN "atom_or_uint" ELSE "uint"
  BY <1>1 DEF ErlType, AtomTypes, UintTypes
<1> QED  BY <1>1, <1>2 DEF ArgToTerm, UintTypes

(* What a number must be to parse.                                         *)
LEMMA NumberParses ==
  ASSUME NEW a \in Number
  PROVE  /\ ParsesI64(a) <=> a.space = "none" /\ Value(a) \in -IntMax - 1 .. IntMax
         /\ ParsesU64(a) <=> /\ a.space = "none" /\ a.sign # "-"
                             /\ Value(a) \in 0 .. UintMax
         /\ a.sign # "-" => Value(a) = a.digits
         /\ a.kind = "number" /\ a.digits \in Nat
<1>1. a.kind = "number" /\ a.digits \in Nat
  BY DEF Number
<1>2. Value(a) \in Int /\ (a.sign # "-" => Value(a) = a.digits)
  BY <1>1 DEF Value
<1> QED  BY <1>1, <1>2, LimitsAssumption DEF ParsesI64, ParsesU64, Plain

(* A number that a numeric type accepts becomes the term for its value, in *)
(* the limits of the type; one that it refuses is outside of them.         *)
THEOREM NumbersKept == Spec => []KeepsTheNumber
<1>1. IInv => KeepsTheNumber
  <2> SUFFICES ASSUME IInv, scn.type \in NumericType, scn.arg.kind = "number"
               PROVE  KeepsTheNumber
    BY DEF KeepsTheNumber
  <2> DEFINE a == scn.arg
             type == scn.type
             limits == IF type = "integer" THEN -IntMax - 1 .. IntMax
                       ELSE IF type = "fraction-digits-arg" THEN 1 .. 18
                       ELSE 0 .. UintMax
             number == [is |-> "number", of |-> Value(a)]
  <2>1. a \in Number /\ type \in NumericType
    BY Kinds DEF IInv
  <2>2. type \in {"integer", "non-negative-integer", "fraction-digits-arg", "max-value"}
    BY <2>1 DEF NumericType, UintTypes
  <2>3. Accepts(type, a, scn.version) => /\ Value(a) \in limits
                                         /\ ArgToTerm(type, a) = number
    <3> SUFFICES ASSUME Accepts(type, a, scn.version)
                 PROVE  Value(a) \in limits /\ ArgToTerm(type, a) = number
      OBVIOUS
    <3> HIDE DEF a, type
    <3>1. CASE type = "integer"
      <4>1. ParsesI64(a)
        BY <2>1, <3>1, AcceptsNumeric
      <4> QED  BY <2>1, <3>1, <4>1, NumberParses, NumericTerm DEF MakeNumber
    <3>2. CASE type = "non-negative-integer"
      <4>1. ParsesU64(a)
        BY <2>1, <3>2, AcceptsNumeric
      <4> QED  BY <2>1, <3>2, <4>1, NumberParses, NumericTerm DEF MakeNumber, UintTypes
    <3>3. CASE type = "fraction-digits-arg"
      <4>1. ParsesU64(a) /\ a.digits \in 1 .. 18
        BY <2>1, <3>3, AcceptsNumeric DEF ChkFractionDigits
      <4> QED  BY <2>1, <3>3, <4>1, NumberParses, NumericTerm DEF MakeNumber, UintTypes
    <3>4. CASE type = "max-value"
      <4>1. ParsesU64(a)
        BY <2>1, <3>4, AcceptsNumeric, NumberParses DEF ChkMaxValue
      <4> QED  BY <2>1, <3>4, <4>1, NumberParses, NumericTerm DEF MakeNumber
    <3> QED  BY <2>2, <3>1, <3>2, <3>3, <3>4 DEF type
  <2>4. (Value(a) \in limits /\ a.space = "none" /\ (a.sign # "-" \/ type = "integer"))
          => Accepts(type, a, scn.version)
    <3> SUFFICES ASSUME Value(a) \in limits, a.space = "none", a.sign # "-" \/ type = "integer"
                 PROVE  Accepts(type, a, scn.version)
      OBVIOUS
    <3> HIDE DEF a, type
    <3>1. CASE type = "integer"
      BY <2>1, <3>1, AcceptsNumeric, NumberParses
    <3>2. CASE type = "non-negative-integer"
      BY <2>1, <3>2, AcceptsNumeric, NumberParses
    <3>3. CASE type = "fraction-digits-arg"
      <4>1. Value(a) \in 1 .. 18 /\ Value(a) \in 0 .. UintMax
        BY <3>3, LimitsAssumption
      <4>2. ParsesU64(a) /\ a.digits \in 1 .. 18
        BY <2>1, <3>3, <4>1, NumberParses
      <4> QED  BY <2>1, <3>3, <4>2, AcceptsNumeric DEF ChkFractionDigits
    <3>4. CASE type = "max-value"
      BY <2>1, <3>4, AcceptsNumeric, NumberParses DEF ChkMaxValue
    <3> QED  BY <2>2, <3>1, <3>2, <3>3, <3>4 DEF type
  <2> HIDE DEF limits
  <2> QED  BY <2>3, <2>4 DEF IInv, KeepsTheNumber, limits
<1> QED  BY <1>1, Inductive, PTL

(* What is accepted is converted, but for words that make no atom; the     *)
(* validators and the conversion are not written with each other.          *)
THEOREM ConversionSucceeds == Spec => []ConvertsWhatItAccepts
<1>1. IInv => ConvertsWhatItAccepts
  <2> SUFFICES ASSUME IInv, phase = "badarg"
               PROVE  /\ scn.arg.kind = "word"
                      /\ ~scn.arg.utf8 \/ scn.arg.length > AtomMax
                      /\ scn.type \in AtomTypes \cup {"identifier-ref"}
    BY DEF ConvertsWhatItAccepts
  <2> DEFINE a == scn.arg
             type == scn.type
  <2>1. /\ scn \in Scenario /\ type \in Type
        /\ Accepts(type, a, scn.version) /\ ArgToTerm(type, a) = Bad
    BY ScenarioAssumption DEF IInv
  <2>2. a.kind = "word" => /\ a \in Word /\ a.prefix <= a.length
                           /\ a.word = "unbounded" => a.utf8 /\ a.length <= AtomMax
    BY <2>1, ScenarioAssumption, Kinds
  <2> HIDE DEF a, type
  <2>3. MakeAtom(a) = Bad => a.kind = "word" /\ (~a.utf8 \/ a.length > AtomMax)
    <3>1. MakeAtom(a) = Bad => ~(Utf8(a) /\ (a.kind = "word" => a.length <= AtomMax))
      BY DEF MakeAtom, Bad
    <3>2. a.kind = "word" => a.length \in Nat
      BY <2>2 DEF Word
    <3> QED  BY <3>1, <3>2, LimitsAssumption DEF Utf8
  <2>4. MakePair(a) = Bad => a.kind = "word" /\ (~a.utf8 \/ a.length > AtomMax)
    <3>1. MakePair(a) = Bad => ~(Utf8(a) /\ FitsAtom(a))
      BY DEF MakePair, Bad
    <3>2. a.kind = "word" => a.length \in Nat /\ a.prefix \in Nat /\ a.prefix <= a.length
      BY <2>2 DEF Word
    <3> QED  BY <3>1, <3>2, LimitsAssumption DEF Utf8, FitsAtom
  <2>5. type \notin NumericType
    <3> SUFFICES ASSUME type \in NumericType
                 PROVE  FALSE
      OBVIOUS
    <3>1. type \in {"integer", "non-negative-integer", "fraction-digits-arg", "max-value"}
      BY DEF NumericType, UintTypes
    <3>2. \A n : [is |-> "number", of |-> n] # Bad
      BY DEF Bad
    <3>3. CASE type = "integer"
      BY <2>1, <3>2, <3>3, AcceptsNumeric, NumericTerm DEF MakeNumber
    <3>4. CASE type \in UintTypes
      BY <2>1, <3>1, <3>2, <3>4, AcceptsNumeric, NumericTerm DEF MakeNumber, ChkFractionDigits,
         UintTypes
    <3>5. CASE type = "max-value"
      <4>1. ChkMaxValue(a)
        BY <2>1, <3>5, AcceptsNumeric
      <4>2. CASE ParsesU64(a)
        BY <2>1, <3>2, <3>5, <4>2, NumericTerm DEF MakeNumber
      <4>3. CASE ~ParsesU64(a)
        <5>1. a.kind = "word" /\ a.word = "unbounded"
          BY <4>1, <4>3 DEF ChkMaxValue
        <5>2. MakeAtom(a) = Bad
          BY <2>1, <3>5, <4>3, NumericTerm
        <5>3. a.utf8 /\ a.length <= AtomMax /\ a.length \in Nat
          BY <2>2, <5>1 DEF Word
        <5> QED  BY <2>3, <5>2, <5>3, LimitsAssumption
      <4> QED  BY <4>2, <4>3
    <3> QED  BY <3>1, <3>3, <3>4, <3>5 DEF UintTypes
  <2>6. CASE type \in AtomTypes
    <3>1. ErlType(type) = "atom"
      BY <2>6 DEF ErlType
    <3>2. ArgToTerm(type, a) = MakeAtom(a)
      BY <3>1 DEF ArgToTerm
    <3> QED  BY <2>1, <2>3, <2>6, <3>2 DEF a, type
  <2>7. CASE type = "identifier-ref"
    <3>1. ErlType(type) = "identifier_ref"
      BY <2>7 DEF ErlType, AtomTypes, UintTypes
    <3>2. ArgToTerm(type, a) = IF Prefixed(a) THEN MakePair(a) ELSE MakeAtom(a)
      BY <3>1 DEF ArgToTerm
    <3> QED  BY <2>1, <2>3, <2>4, <2>7, <3>2 DEF a, type
  <2>8. CASE type \notin AtomTypes \cup NumericType \cup {"identifier-ref"}
    <3>1. ErlType(type) = "binary"
      BY <2>8 DEF ErlType, NumericType
    <3>2. ArgToTerm(type, a) = [is |-> "binary", of |-> a]
      BY <3>1 DEF ArgToTerm
    <3> QED  BY <2>1, <3>2 DEF Bad
  <2> QED  BY <2>5, <2>6, <2>7, <2>8
<1> QED  BY <1>1, Inductive, PTL

-----------------------------------------------------------------------------
(* The days of a year: one more than 365 in leap years.                    *)
LEMMA YearLength ==
  ASSUME NEW y \in Nat \ {0}
  PROVE  DaysBefore(y + 1) - DaysBefore(y) = IF LeapYear(y) THEN 366 ELSE 365
<1>1. y \div 4 - (y - 1) \div 4 = IF y % 4 = 0 THEN 1 ELSE 0
  OBVIOUS
<1>2. y \div 100 - (y - 1) \div 100 = IF y % 100 = 0 THEN 1 ELSE 0
  OBVIOUS
<1>3. y \div 400 - (y - 1) \div 400 = IF y % 400 = 0 THEN 1 ELSE 0
  OBVIOUS
<1>4. (y % 400 = 0 => y % 100 = 0) /\ (y % 100 = 0 => y % 4 = 0)
  OBVIOUS
<1> QED  BY <1>1, <1>2, <1>3, <1>4 DEF DaysBefore, LeapYear

LEMMA MonthAgrees ==
  ASSUME NEW y \in Nat \ {0}, NEW m \in 1 .. 12
  PROVE  MonthLengths(y)[m] = Days(y, m)
<1>1. DaysBefore(y + 1) - DaysBefore(y) - 337 = IF LeapYear(y) THEN 29 ELSE 28
  BY YearLength
<1> DEFINE february == DaysBefore(y + 1) - DaysBefore(y) - 337
<1>2. MonthLengths(y) = <<31, february, 31, 30, 31, 30, 31, 31, 30, 31, 30, 31>>
  BY DEF MonthLengths
<1>3. m \in {1, 2, 3, 4, 5, 6, 7, 8, 9, 10, 11, 12}
  OBVIOUS
<1>4. february = IF LeapYear(y) THEN 29 ELSE 28
  BY <1>1
<1> HIDE DEF february
<1> QED  BY <1>2, <1>3, <1>4 DEF Days

(* A date is accepted exactly if there is such a day.                      *)
THEOREM DatesAreDays == Spec => []DatesExist
<1>1. IInv => DatesExist
  <2> SUFFICES ASSUME IInv, scn.type = "date", scn.arg.kind = "date"
               PROVE  /\ phase = "done" => Exists(scn.arg)
                      /\ phase = "rejected" => ~Exists(scn.arg)
    BY DEF DatesExist
  <2> DEFINE a == scn.arg
  <2>1. a \in Date
    BY Kinds DEF IInv
  <2>2. a.year \in Nat \ {0} /\ a.month \in Nat /\ a.day \in Nat
    BY <2>1, YearAssumption DEF Date
  <2>3. Accepts(scn.type, a, scn.version) <=> ChkDate(a)
    <3>1. "date" \notin DOMAIN WordsOf
      BY DEF WordsOf
    <3> QED  BY <3>1 DEF Accepts
  <2>4. ChkDate(a) <=> Exists(a)
    <3> HIDE DEF a
    <3>1. a.month \in 1 .. 12 => MonthLengths(a.year)[a.month] = Days(a.year, a.month)
      BY <2>2, MonthAgrees
    <3>2. Days(a.year, a.month) \in 28 .. 31
      BY DEF Days
    <3>3. a.kind = "date"
      BY DEF a
    <3> QED  BY <2>2, <3>1, <3>2, <3>3 DEF ChkDate, DateMatches, Exists
  <2> QED  BY <2>3, <2>4 DEF IInv
<1> QED  BY <1>1, Inductive, PTL
=============================================================================
