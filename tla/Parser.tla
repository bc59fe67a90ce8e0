------------------------------- MODULE Parser -------------------------------
(***************************************************************************)
(* The parser of YANG files (c_src/rust_atom/src/parser.rs): yang_parse,   *)
(* parse_statement and the lexer below it, and what the NIF parse          *)
(* (c_src/rustler_yang_parser/src/lib.rs) makes of the result.             *)
(*                                                                         *)
(* A file is a sequence of characters; the buffer that holds one line is   *)
(* left out, the end of a line is the character "nl".  Two words count as  *)
(* one character each: "V" is yang-version and "W" is 1.1.                 *)
(*                                                                         *)
(* The recursion of parse_statement is the variable `stack'; what a failing*)
(* call frees is taken from `heap' while it unwinds.                       *)
(***************************************************************************)
EXTENDS Integers, Sequences, FiniteSets

CONSTANTS
  Scenario    \* the files to consider: sequences of Char, or NoFile

NoFile == <<"nofile">>

Letter == {"a", "b", "V"}
Char == Letter \cup {"1", "W", "sp", "tab", "nl", "cr", ";", "{", "}", "\"", "'", "\\",
                     "/", "*", "+", ":"}

ASSUME ScenarioAssumption == Scenario \subseteq Seq(Char) \cup {NoFile}

VARIABLES
  text,       \* the file, never changed
  pos,        \* the position in it
  phase,      \* "open", "statement", "block", "unwind", "end", "hung", "done"
  stack,      \* the statements whose block is open, innermost first
  tree,       \* the statements made so far, in the order of the file
  heap,       \* what is allocated: <<"stmt", n>>, <<"arg", n>>
  version,    \* yang_version
  ok,         \* the result of yang_parse
  errors      \* the error context, oldest first

vars == <<text, pos, phase, stack, tree, heap, version, ok, errors>>

None == <<"none">>

(* A statement: its keyword and argument are sequences of characters; at is*)
(* where it starts, which stands for its line.                             *)
Statement == [parent : Nat, prefix : Seq(Char) \cup {None}, keyword : Seq(Char),
              arg : Seq(Char) \cup {None}, at : Nat]

Error(code, p) == [code |-> code, at |-> p]
Warnings == {"ILLEGAL_ESCAPE_WARNING"}

-----------------------------------------------------------------------------
(* The lexer.                                                              *)
End == Len(text) + 1
At(p) == IF p < End THEN text[p] ELSE "eof"
FirstAt(S) == IF S = {} THEN End ELSE CHOOSE p \in S : \A q \in S : p <= q
From(p) == p .. Len(text)

Identifier1 == Letter
Identifier2 == Letter \cup {"1", "W"}
White(p) == At(p) \in {"sp", "tab", "nl"} \/ (At(p) = "cr" /\ At(p + 1) = "nl")
LineComment(p) == At(p) = "/" /\ At(p + 1) = "/"
BlockComment(p) == At(p) = "/" /\ At(p + 1) = "*"

(* looking_at_separator: the end of the file is none.                      *)
Separator(p) == White(p) \/ At(p) \in {";", "{"} \/ LineComment(p) \/ BlockComment(p)

(* skip: past white space and comments; at the end of the file readline    *)
(* fails, and unless the module is complete that is an error.              *)
AfterLine(p) ==
  LET q == FirstAt({q \in From(p) : text[q] = "nl"})
  IN  IF q = End THEN End ELSE q + 1
BlockEnd(p) ==
  LET q == FirstAt({q \in From(p) : text[q] = "*" /\ At(q + 1) = "/"})
  IN  IF q = End THEN End ELSE q + 2
(* Fault: a comment may end with the "*" that it begins with.              *)
AfterShortBlock(p) == BlockEnd(p + 1)
AfterBlock(p) == BlockEnd(p + 2)
Skip(from) ==
  LET skip[p \in 1 .. End] ==
        IF White(p) THEN skip[p + 1]
        ELSE IF LineComment(p) THEN skip[AfterLine(p)]
        ELSE IF BlockComment(p) THEN skip[AfterBlock(p)]
        ELSE p
  IN  skip[from]

(* get_keyword: an identifier, or two with a colon between.  err: the code *)
(* of the error, "none" if there is none; end: where it was noticed, or the  *)
(* position behind the keyword.                                            *)
IdentifierEnd(p) == FirstAt({q \in From(p) : text[q] \notin Identifier2})
KeywordTo(p, start, end) ==
  [err |-> IF {At(p), At(start)} \subseteq Identifier1
           THEN (IF Separator(end) THEN "none" ELSE "EXPECTED_SEPARATOR")
           ELSE "BAD_KEYWORD",
   end |-> IF At(p) \notin Identifier1 THEN p ELSE IF At(start) \notin Identifier1 THEN start ELSE end,
   prefix |-> IF start = p THEN None ELSE SubSeq(text, p, start - 2),
   keyword |-> SubSeq(text, start, end - 1)]
KeywordFrom(p, start) == KeywordTo(p, start, IdentifierEnd(start))
GetKeyword(p) ==
  KeywordFrom(p, IF At(IdentifierEnd(p)) = ":" THEN IdentifierEnd(p) + 1 ELSE p)

(* The white space removed at the beginning of a further line of a string: *)
(* up to the column behind the opening quote at q, where a tab counts as   *)
(* eight.                                                                  *)
LineStart(q) ==
  LET before == {r \in 1 .. q - 1 : text[r] = "nl"}
  IN  IF before = {} THEN 1 ELSE 1 + (CHOOSE r \in before : \A s \in before : s <= r)
Width(p) == IF text[p] = "tab" THEN 8 ELSE 1
Column(q) ==
  q - LineStart(q) + 1 + 7 * Cardinality({r \in LineStart(q) .. q : text[r] = "tab"})
AfterIndent(p, column) ==
  LET after[q \in 1 .. End] ==
        LET width == (q - p) + 7 * Cardinality({r \in p .. q - 1 : text[r] = "tab"})
        IN  IF width < column /\ At(q) \in {"sp", "tab"} THEN after[q + 1] ELSE q
  IN  after[p]

EscapeError(v) == IF v = 1 THEN "ILLEGAL_ESCAPE_WARNING" ELSE "ILLEGAL_ESCAPE"

(* The rest of a quoted string, the opening quote of which is at q.        *)
Quoted(q, v) ==
  LET quote == text[q]
      add(chars, r) == [r EXCEPT !.value = chars \o @]
      rest[p \in 1 .. End] ==
        IF p = End THEN [end |-> End, value |-> <<>>, errs |-> <<>>, closed |-> FALSE]
        ELSE IF text[p] = quote THEN [end |-> p + 1, value |-> <<>>, errs |-> <<>>, closed |-> TRUE]
        ELSE IF quote = "\"" /\ text[p] = "nl" THEN add(<<"nl">>, rest[AfterIndent(p + 1, Column(q))])
        ELSE IF quote = "\"" /\ text[p] = "\\"
             THEN IF At(p + 1) \in {"\"", "\\"} THEN add(<<text[p + 1]>>, rest[p + 2])
                  ELSE LET r == add(<<"\\">>, rest[p + 1])
                       IN  [r EXCEPT !.errs = <<Error(EscapeError(v), p)>> \o @]
        ELSE add(<<text[p]>>, rest[p + 1])
  IN  rest[q + 1]

(* get_string, at a character that is not white.  An unquoted string that  *)
(* reaches the end of the file never ends: what is read there is neither a *)
(* separator nor a quote.                                                  *)
(* Fault: a brace does not end the string.                                 *)
SeparatedEnd(p) == FirstAt({q \in From(p) : Separator(q) \/ text[q] \in {"\"", "'"}})
UnquotedEnd(p) == FirstAt({q \in From(p) : Separator(q) \/ text[q] \in {"}", "\"", "'"}})
Quotes == {"\"", "'"}

(* The result is a record: err is the code of the error or "none", end where *)
(* it was noticed or the position behind, errs the errors for escapes.      *)
StringResult(err, p, value, errs) == [err |-> err, end |-> p, value |-> value, errs |-> errs]
Concatenated(s, r) == [r EXCEPT !.value = s.value \o @, !.errs = s.errs \o @]
QuotedStrings(start, v) ==
  LET quoted[q \in 1 .. Len(text)] ==
        LET plus(s, next) ==
              IF next = End THEN StringResult("EOF", End, s.value, s.errs)
              ELSE IF text[next] \notin Quotes
                   THEN StringResult("EXPECTED_QUOTED_STRING", next, s.value, s.errs)
              ELSE Concatenated(s, quoted[next])
            closed(s, behind) ==
              IF behind = End THEN StringResult("EOF", End, s.value, s.errs)
              ELSE IF text[behind] = "+" THEN plus(s, Skip(behind + 1))
              ELSE StringResult("none", behind, s.value, s.errs)
            string(s) ==
              IF s.closed THEN closed(s, Skip(s.end)) ELSE StringResult("EOF", End, s.value, s.errs)
        IN  string(Quoted(q, v))
  IN  quoted[start]

UnquotedString(p, end) ==
  IF end = End THEN StringResult("hang", End, <<>>, <<>>)
  ELSE StringResult("none", end, SubSeq(text, p, end - 1), <<>>)

GetString(p, v) ==
  IF text[p] = "}" THEN StringResult("EXPECTED_STRING", p, <<>>, <<>>)
  ELSE IF text[p] \in Quotes THEN QuotedStrings(p, v)
  ELSE UnquotedString(p, UnquotedEnd(p))

(* The beginning of parse_statement, up to the statement it allocates.     *)
HeaderFailure(err, p) ==
  [err |-> err, end |-> p, errs |-> <<>>, at |-> p, prefix |-> None, keyword |-> <<>>, arg |-> None]
Argument(q) ==
  IF text[q] \in {"{", ";"} THEN StringResult("none", q, None, <<>>) ELSE GetString(q, version)
WithArgument(p, kw, a) ==
  [err |-> IF a.err # "none" THEN a.err ELSE IF Skip(a.end) = End THEN "EOF" ELSE "none",
   end |-> IF a.err # "none" THEN a.end ELSE Skip(a.end),
   errs |-> a.errs, at |-> p, prefix |-> kw.prefix, keyword |-> kw.keyword,
   arg |-> IF a.err # "none" THEN None ELSE a.value]
WithKeyword(p, kw) ==
  IF kw.err # "none" THEN HeaderFailure(kw.err, kw.end)
  ELSE IF Skip(kw.end) = End THEN HeaderFailure("EOF", End)
  ELSE WithArgument(p, kw, Argument(Skip(kw.end)))
Header(start) ==
  IF Skip(start) = End THEN HeaderFailure("EOF", End)
  ELSE WithKeyword(Skip(start), GetKeyword(Skip(start)))

-----------------------------------------------------------------------------
Init ==
  /\ text \in Scenario
  /\ pos = 1 /\ phase = "open" /\ stack = <<>> /\ tree = <<>> /\ heap = {}
  /\ version = 1 /\ ok = FALSE /\ errors = <<>>

(* yang_parse up to the first line.                                        *)
CannotOpen ==
  /\ phase = "open" /\ text = NoFile
  /\ errors' = <<Error("FOPEN", 0)>> /\ phase' = "done"
  /\ UNCHANGED <<text, pos, stack, tree, heap, version, ok>>

Open ==
  /\ phase = "open" /\ text # NoFile
  /\ IF text = <<>>
     THEN errors' = <<Error("EOF", End)>> /\ phase' = "done"
     ELSE phase' = "statement" /\ UNCHANGED errors
  /\ UNCHANGED <<text, pos, stack, tree, heap, version, ok>>

(* A call of parse_statement that fails before it has allocated.  An       *)
(* argument that was read already is lost, nothing refers to it.           *)
HeaderFails ==
  /\ phase = "statement"
  /\ \E h \in {Header(pos)} :
         /\ h.err \notin {"none", "hang"}
         /\ errors' = errors \o Append(h.errs, Error(h.err, h.end))
         /\ pos' = h.end
         /\ heap' = IF h.arg = None THEN heap ELSE heap \cup {<<"arg", 0>>}
  /\ phase' = "unwind"
  /\ UNCHANGED <<text, stack, tree, version, ok>>

(* get_string does not return.                                             *)
ReadPastTheEnd ==
  /\ phase = "statement" /\ Header(pos).err = "hang"
  /\ phase' = "hung"
  /\ UNCHANGED <<text, pos, stack, tree, heap, version, ok, errors>>

StillReading == phase = "hung" /\ UNCHANGED vars

(* A statement is allocated.  Its number is its place in the tree.         *)
Owned(n, arg) == {<<"stmt", n>>} \cup (IF arg = None THEN {} ELSE {<<"arg", n>>})
(* Fault: any other version sets it back.                                  *)
LastVersion(h) ==
  IF h.keyword = <<"V">> THEN (IF h.arg = <<"W">> THEN 2 ELSE 1) ELSE version
NewVersion(h) ==
  IF h.keyword = <<"V">> /\ h.arg = <<"W">> THEN 2 ELSE version

NewStatement(h) ==
  /\ h.err = "none"
  /\ tree' = Append(tree, [parent |-> IF stack = <<>> THEN 0 ELSE Head(stack),
                           prefix |-> h.prefix, keyword |-> h.keyword, arg |-> h.arg, at |-> h.at])
  /\ heap' = heap \cup Owned(Len(tree) + 1, h.arg)
  /\ version' = NewVersion(h)

Simple ==
  /\ phase = "statement"
  /\ \E h \in {Header(pos)} :
         /\ NewStatement(h) /\ text[h.end] = ";"
         /\ pos' = h.end + 1 /\ errors' = errors \o h.errs
  /\ phase' = IF stack = <<>> THEN "end" ELSE "block"
  /\ UNCHANGED <<text, stack, ok>>

OpenBlock ==
  /\ phase = "statement"
  /\ \E h \in {Header(pos)} :
         /\ NewStatement(h) /\ text[h.end] = "{"
         /\ pos' = h.end + 1 /\ errors' = errors \o h.errs
  /\ stack' = <<Len(tree) + 1>> \o stack
  /\ phase' = "block"
  /\ UNCHANGED <<text, ok>>

(* Neither ";" nor "{": the statement just allocated is to be freed.       *)
Unterminated ==
  /\ phase = "statement"
  /\ \E h \in {Header(pos)} :
         /\ NewStatement(h) /\ text[h.end] \notin {";", "{"}
         /\ pos' = h.end
         /\ errors' = errors \o Append(h.errs, Error("INCOMPLETE_STATEMENT", h.end))
  /\ stack' = <<Len(tree) + 1>> \o stack
  /\ phase' = "unwind"
  /\ UNCHANGED <<text, ok>>

(* The loop over a block.                                                  *)
EofError == <<Error("EOF", End)>>
BlockEof ==
  /\ phase = "block" /\ Skip(pos) = End
  /\ errors' = errors \o EofError
  /\ pos' = End /\ phase' = "unwind"
  /\ UNCHANGED <<text, stack, tree, heap, version, ok>>

CloseBlock ==
  /\ phase = "block" /\ At(Skip(pos)) = "}"
  /\ pos' = Skip(pos) + 1
  /\ stack' = Tail(stack)
  /\ phase' = IF Len(stack) = 1 THEN "end" ELSE "block"
  /\ UNCHANGED <<text, tree, heap, version, ok, errors>>

NextInBlock ==
  /\ phase = "block" /\ At(Skip(pos)) \notin {"}", "eof"}
  /\ pos' = Skip(pos) /\ phase' = "statement"
  /\ UNCHANGED <<text, stack, tree, heap, version, ok, errors>>

(* A failing call frees its own statement with those linked to it          *)
(* (yang_free_tree) and makes the call around it fail.                     *)
(* What comes after an open statement is in it.                            *)
(* Fault: only the statement itself is freed.                              *)
OnlyItself(n) == {n}
LinkedTo(n) == n .. Len(tree)

FreeStatement ==
  /\ phase = "unwind" /\ stack # <<>>
  /\ heap' = heap \ ({"stmt", "arg"} \X LinkedTo(Head(stack)))
  /\ stack' = Tail(stack)
  /\ UNCHANGED <<text, pos, phase, tree, version, ok, errors>>

Fail ==
  /\ phase = "unwind" /\ stack = <<>>
  /\ phase' = "done"
  /\ UNCHANGED <<text, pos, stack, tree, heap, version, ok, errors>>

(* yang_parse: nothing may follow; the end of the file is expected now.    *)
Finish ==
  /\ phase = "end"
  /\ ok' = TRUE /\ phase' = "done" /\ pos' = Skip(pos)
  /\ errors' = IF Skip(pos) = End THEN errors
               ELSE Append(errors, Error("TRAILING_GARBAGE", Skip(pos)))
  /\ UNCHANGED <<text, stack, tree, heap, version>>

Terminated == phase = "done" /\ UNCHANGED vars

Next ==
  \/ CannotOpen \/ Open
  \/ HeaderFails \/ ReadPastTheEnd \/ StillReading
  \/ Simple \/ OpenBlock \/ Unterminated
  \/ BlockEof \/ CloseBlock \/ NextInBlock
  \/ FreeStatement \/ Fail \/ Finish
  \/ Terminated

Spec == Init /\ [][Next]_vars

-----------------------------------------------------------------------------
(* The reference: the language of the files, in two passes.                *)
(* First every character gets the mode in which a reader from left to right*)
(* is before it.                                                           *)
ModeInCode(p) ==
  CASE LineComment(p) -> "line" [] BlockComment(p) -> "open"
    [] text[p] = "\"" -> "double" [] text[p] = "'" -> "single"
    [] OTHER -> "code"
ModeInDouble(p) ==
  CASE text[p] = "\"" -> "code"
    [] text[p] = "\\" /\ At(p + 1) \in {"\"", "\\"} -> "escape"
    [] OTHER -> "double"
ModeAfter(mode, p) ==
  CASE mode = "code" -> ModeInCode(p)
    [] mode = "line" -> IF text[p] = "nl" THEN "code" ELSE "line"
    [] mode = "open" -> "block"
    [] mode = "block" -> IF text[p] = "*" /\ At(p + 1) = "/" THEN "close" ELSE "block"
    [] mode = "close" -> "code"
    [] mode = "double" -> ModeInDouble(p)
    [] mode = "escape" -> "double"
    [] mode = "single" -> IF text[p] = "'" THEN "code" ELSE "single"
Mode ==
  LET m[p \in 1 .. End] == IF p = 1 THEN "code" ELSE ModeAfter(m[p - 1], p - 1)
  IN  m

(* The tokens: punctuation, quoted strings, and words, each by the         *)
(* positions of its characters.                                            *)
Punctuation == {";", "{", "}"}
Plain(mode, p) ==
  p \in 1 .. Len(text) /\ mode[p] = "code" /\ ~White(p) /\ ~LineComment(p) /\ ~BlockComment(p)
InWord(mode, p) == Plain(mode, p) /\ text[p] \notin Punctuation \cup Quotes
TokenStarts(mode) ==
  {p \in 1 .. Len(text) : Plain(mode, p) /\ (InWord(mode, p) => ~InWord(mode, p - 1))}
LastOf(mode, p) ==
  IF InWord(mode, p) THEN FirstAt({q \in From(p) : ~InWord(mode, q)}) - 1
  ELSE IF text[p] \in Quotes THEN FirstAt({q \in From(p + 1) : mode[q] = "code"}) - 1
  ELSE p
KindOf(mode, p) ==
  IF InWord(mode, p) THEN "word"
  ELSE IF text[p] \in Quotes
       THEN (IF mode[End] # "code" /\ LastOf(mode, p) = Len(text) THEN "open" ELSE "string")
  ELSE text[p]
TokenAt(mode, p) == [from |-> p, to |-> LastOf(mode, p), kind |-> KindOf(mode, p)]
Before(starts, p) == Cardinality({q \in starts : q < p})
Tokens(mode) ==
  LET starts == TokenStarts(mode)
  IN  [i \in 1 .. Cardinality(starts) |->
         TokenAt(mode, CHOOSE p \in starts : Before(starts, p) = i - 1)]

(* The value of a quoted string.                                           *)
InIndent(t, p) ==
  LET line == LineStart(p)
  IN  /\ text[t.from] = "\"" /\ line > t.from
      /\ \A q \in line .. p : text[q] \in {"sp", "tab"}
      /\ (p - line) + 7 * Cardinality({q \in line .. p - 1 : text[q] = "tab"}) < Column(t.from)
Kept(t, p, mode) == ~InIndent(t, p) /\ mode[p + 1] # "escape"
StringValue(t, mode) ==
  LET value[p \in t.from .. t.to - 1] ==
        IF p = t.from THEN <<>>
        ELSE IF Kept(t, p, mode) THEN Append(value[p - 1], text[p]) ELSE value[p - 1]
  IN  value[t.to - 1]
IllegalEscapes(t, mode) ==
  {p \in t.from + 1 .. t.to - 1 : text[t.from] = "\"" /\ text[p] = "\\"
                                 /\ mode[p] = "double" /\ mode[p + 1] = "double"}

(* Then the tokens are read by an automaton with a stack.                  *)
Ident(w) == w # <<>> /\ w[1] \in Identifier1 /\ \A i \in DOMAIN w : w[i] \in Identifier2
KeywordOf(w) ==
  LET colons == {i \in DOMAIN w : w[i] = ":"}
      c == CHOOSE i \in colons : TRUE
  IN  IF colons = {} THEN [prefix |-> None, keyword |-> w]
      ELSE [prefix |-> SubSeq(w, 1, c - 1), keyword |-> SubSeq(w, c + 1, Len(w))]
WordOf(t) == SubSeq(text, t.from, t.to)
IsKeyword(t) ==
  LET w == WordOf(t)
      k == KeywordOf(w)
  IN  t.kind = "word" /\ Separator(t.to + 1) /\ Cardinality({i \in DOMAIN w : w[i] = ":"}) <= 1
        /\ Ident(k.keyword) /\ (k.prefix # None => Ident(k.prefix))

Is11(s) == s.keyword = <<"V">> /\ s.arg = <<"W">>
VersionOf(statements) == IF \E n \in DOMAIN statements : Is11(statements[n]) THEN 2 ELSE 1
AllBut1(s) == SubSeq(s, 1, Len(s) - 1)
NewOf(r, t) ==
  [parent |-> IF r.stack = <<>> THEN 0 ELSE Head(r.stack),
   prefix |-> KeywordOf(WordOf(t)).prefix, keyword |-> KeywordOf(WordOf(t)).keyword,
   arg |-> None, at |-> t.from]
LastArg(r) == r.tree[Len(r.tree)].arg
WithLastArg(r, arg) == [r.tree EXCEPT ![Len(r.tree)].arg = arg]
ReadString(r, t, mode) ==
  [r EXCEPT !.state = "string",
            !.tree = WithLastArg(r, (IF LastArg(r) = None THEN <<>> ELSE LastArg(r)) \o StringValue(t, mode)),
            !.escapes = @ \cup {Error(EscapeError(VersionOf(AllBut1(r.tree))), p) :
                                  p \in IllegalEscapes(t, mode)}]
ReadToken(r, t, mode) ==
  CASE r.state = "keyword" /\ IsKeyword(t) ->
         [r EXCEPT !.state = "argument", !.tree = Append(@, NewOf(r, t))]
    [] r.state = "keyword" /\ t.kind = "}" /\ r.stack # <<>> ->
         [r EXCEPT !.stack = Tail(@), !.state = IF Len(r.stack) = 1 THEN "end" ELSE "keyword"]
    [] r.state = "argument" /\ t.kind = "word" ->
         [r EXCEPT !.state = "word", !.tree = WithLastArg(r, WordOf(t))]
    [] r.state \in {"argument", "plus"} /\ t.kind = "string" -> ReadString(r, t, mode)
    [] r.state = "string" /\ t.kind = "word" /\ text[t.from] = "+" /\ t.from = t.to ->
         [r EXCEPT !.state = "plus"]
    [] r.state \in {"argument", "word", "string"} /\ t.kind = ";" ->
         [r EXCEPT !.state = IF r.stack = <<>> THEN "end" ELSE "keyword"]
    [] r.state \in {"argument", "word", "string"} /\ t.kind = "{" ->
         [r EXCEPT !.state = "keyword", !.stack = <<Len(r.tree)>> \o @]
    [] r.state = "end" -> [r EXCEPT !.state = "garbage"]
    [] r.state = "garbage" -> r
    [] OTHER -> [r EXCEPT !.state = "error"]
RefStart == [state |-> "keyword", stack |-> <<>>, tree |-> <<>>, escapes |-> {}]
RefRead ==
  LET mode == Mode
      tokens == Tokens(mode)
      upto[i \in 0 .. Len(tokens)] ==
        IF i = 0 THEN RefStart ELSE ReadToken(upto[i - 1], tokens[i], mode)
  IN  upto[Len(tokens)]

-----------------------------------------------------------------------------
EscapeCodes == {"ILLEGAL_ESCAPE", "ILLEGAL_ESCAPE_WARNING"}
StopCodes == {"FOPEN", "EOF", "BAD_KEYWORD", "EXPECTED_SEPARATOR", "EXPECTED_STRING",
              "EXPECTED_QUOTED_STRING", "INCOMPLETE_STATEMENT", "TRAILING_GARBAGE"}
ParseError == [code : EscapeCodes \cup StopCodes, at : Nat]

(* Types of the variables.                                                 *)
TypeOK ==
  /\ text \in Scenario /\ pos \in Nat
  /\ phase \in {"open", "statement", "block", "unwind", "end", "hung", "done"}
  /\ stack \in Seq(Nat) /\ tree \in Seq(Statement)
  /\ heap \subseteq {"stmt", "arg"} \X Nat
  /\ version \in {1, 2} /\ ok \in BOOLEAN
  /\ errors \in Seq(ParseError)

Codes == {errors[i].code : i \in DOMAIN errors}

ParsedAs(ref) ==
  /\ ok <=> ref.state \in {"end", "garbage"}
  /\ ok => /\ tree = ref.tree
           /\ {errors[i] : i \in {i \in DOMAIN errors : errors[i].code \in EscapeCodes}} = ref.escapes
           /\ "TRAILING_GARBAGE" \in Codes <=> ref.state = "garbage"

(* There is one error besides those for escapes, and it is the last one:   *)
(* the parse stopped there.  Memory is lost only if the file ended.        *)
StoppedAtOnce ==
  /\ errors # <<>>
  /\ \A i \in DOMAIN errors : errors[i].code \notin EscapeCodes <=> i = Len(errors)
  /\ heap # {} => errors[Len(errors)].code = "EOF"

(* A file is parsed exactly when it is in the language, into the statements*)
(* with the arguments that it says, and the only errors besides are for    *)
(* escapes and for what follows the module.  (An unterminated comment after*)
(* the module goes unnoticed, since the end of the file is expected then.) *)
(* Otherwise one error, whichever call met it, says why.                   *)
ParsesExactly ==
  phase = "done" =>
    /\ text # NoFile => ParsedAs(RefRead)
    /\ ~ok => StoppedAtOnce

(* A parse that fails has freed what it allocated, each call its own; only *)
(* an argument behind which the file ends is lost.                         *)
FailureFreesAll == (phase = "done" /\ ~ok) => heap \subseteq {<<"arg", 0>>}

(* get_string returns, unless the file ends in the middle of an unquoted   *)
(* argument ...                                                            *)
ReadsToTheEnd ==
  phase = "hung" => text[Len(text)] \notin {"nl", ";", "{", "}", "\"", "'"}

(* ... where it reads on past the end of the buffer for ever, although the *)
(* end of the file in a statement is an error, "premature end of file"     *)
(* (readline), and parse returns {error, Errors} then (yang_parser.erl).   *)
NeverHangs == phase # "hung"
=============================================================================
