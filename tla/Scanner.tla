--------------------------------- MODULE Scanner ---------------------------------
(***************************************************************************)
(* The scanner (src/scanner.cpp): a cursor over the characters of a file,   *)
(* with the line and column that messages show, and advance_token, which    *)
(* moves it over one token.  peek_token, peek_next_token and a              *)
(* consume_token that does not match put the cursor back, so that the       *)
(* tokens of a file are those of a row of advance_token.                    *)
(*                                                                         *)
(* A character is a string of one, or "nl", "cr", "tab", "nul" (zero) and   *)
(* "high" (any from 0x80 on).                                               *)
(***************************************************************************)
EXTENDS Integers, Sequences, SequencesExt, FiniteSets, FiniteSetsExt, TLC

CONSTANTS
  Keywords,              \* the type of each keyword's characters
  KEYWORDS_MAX_SIZE,     \* words of this length are not looked up
  MAX_IDENT_SIZE,        \* words of this length are an error
  MAX_INT_CONST_SIZE,    \* constants may have two digits less
  WordBits               \* width of u64

VARIABLES
  file,      \* characters of the file
  cursor,    \* scanner_t: file_index, current_line, current_char
  tokens     \* what advance_token returned so far

scannerVars == <<file, cursor, tokens>>

Start == [index |-> 0, line |-> 0, char |-> 0]

--------------------------------------------------------------------------------
(* Characters.                                                                  *)

peek_char(c) == IF c.index < Len(file) THEN file[c.index + 1] ELSE "nul"

peek_next_char(c) == IF c.index + 1 < Len(file) THEN file[c.index + 2] ELSE "nul"

advance_char(c) ==
  IF c.index >= Len(file) THEN c
  ELSE IF file[c.index + 1] = "nl"
    THEN [index |-> c.index + 1, line |-> c.line + 1, char |-> 0]
    ELSE [c EXCEPT !.index = @ + 1, !.char = @ + 1]

\* Only called on a letter or a digit, never on the first column.
stepback_char(c) == [c EXCEPT !.index = @ - 1, !.char = @ - 1]

Digits == <<"0", "1", "2", "3", "4", "5", "6", "7", "8", "9">>
HexDigits == Digits \o <<"a", "b", "c", "d", "e", "f">>
Letters == {"a", "b", "c", "d", "e", "f", "i", "l", "n", "r", "s", "t", "u", "w", "x", "_", "high"}

DigitsOf(base) == {HexDigits[i] : i \in 1 .. base}

Blank == {" ", "cr", "nl", "tab"}

Singles == {".", ",", ":", ";", "[", "]", "+", "*", "%", "(", ")", "{", "}", "@", "^", "~",
            "&", "|", "-", "!", "=", "<", ">", "/"}

Pairs == <<"&", "&">> :> "&&" @@ <<"|", "|">> :> "||" @@ <<"-", ">">> :> "->"
           @@ <<"!", "=">> :> "!=" @@ <<"=", "=">> :> "==" @@ <<"<", "=">> :> "<="
           @@ <<"<", "<">> :> "<<" @@ <<">", "=">> :> ">=" @@ <<">", ">">> :> ">>"

--------------------------------------------------------------------------------
(* The cursor behind a run of characters.                                       *)

RECURSIVE SkipWhile(_, _), SkipUntil(_, _), SkipComment(_)

SkipWhile(c, set) == IF peek_char(c) \in set THEN SkipWhile(advance_char(c), set) ELSE c

SkipUntil(c, set) == IF peek_char(c) \in set THEN c ELSE SkipUntil(advance_char(c), set)

\* Up to the end of a comment or of the file.
SkipComment(c) ==
  IF peek_char(c) = "nul" \/ (peek_char(c) = "*" /\ peek_next_char(c) = "/")
    THEN c ELSE SkipComment(advance_char(c))

Slice(from, to) == SubSeq(file, from.index + 1, to.index)

--------------------------------------------------------------------------------
(* Tokens.  A result of advance_token: the token and the cursor behind it.      *)

Lexed(type, value, from, to, next) ==
  [token |-> [type |-> type, value |-> value,
              l0 |-> from.line, c0 |-> from.char, l1 |-> to.line, c1 |-> to.char],
   next |-> next]

\* The token ends where the cursor stands behind it.
Plain(type, value, from, next) == Lexed(type, value, from, next, next)

\* process_string: unterminated, it is the end of the file.
process_string(from, to) ==
  IF peek_char(to) = "nul" THEN Lexed("EOF", <<>>, from, to, to)
  ELSE Lexed("STRING", Slice(from, to), from, to, advance_char(to))

match_with_keyword(word) ==
  IF Len(word) < KEYWORDS_MAX_SIZE /\ word \in DOMAIN Keywords THEN Keywords[word] ELSE "IDENT"

WordToken(word, from, next) ==
  IF match_with_keyword(word) = "IDENT" THEN Plain("IDENT", word, from, next)
  ELSE Plain(match_with_keyword(word), <<>>, from, next)

\* process_word: next is behind the letters and digits.
process_word(from, next) ==
  IF next.index - from.index >= MAX_IDENT_SIZE
    THEN Plain("ERROR", <<>>, from,
               [next EXCEPT !.index = from.index + MAX_IDENT_SIZE,
                            !.char = from.char + MAX_IDENT_SIZE])
    ELSE WordToken(Slice(from, next), from, next)

Word == 2 ^ WordBits

RECURSIVE int_pow(_, _)
int_pow(base, n) == IF n = 0 THEN 1 ELSE (base * int_pow(base, n - 1)) % Word

DigitValue(ch) == (CHOOSE i \in DOMAIN HexDigits : HexDigits[i] = ch) - 1

\* Mutant: the powers are off by one.
parse_const_int_Shifted(digits, base) ==
  FoldLeft(LAMBDA sum, i : (sum + int_pow(base, Len(digits) - i + 1) * DigitValue(digits[i])) % Word,
           0, [i \in DOMAIN digits |-> i])

\* parse_const_int: the sum of the digits times their powers, in 64 bits.
parse_const_int(digits, base) ==
  FoldLeft(LAMBDA sum, i : (sum + int_pow(base, Len(digits) - i) * DigitValue(digits[i])) % Word,
           0, [i \in DOMAIN digits |-> i])

\* The buffer holds no more digits than that.
Buffered(from, to) ==
  SubSeq(Slice(from, to), 1, Min({to.index - from.index, MAX_INT_CONST_SIZE - 1}))

\* The digits behind the point, of a number that starts at from: both parts and
\* the number of digits the second is divided by.
Fraction(whole, from, point, to) ==
  Plain("FP", <<whole, parse_const_int(Buffered(point, to), 10), Len(Buffered(point, to))>>, from, to)

\* process_number, with the digits of the first part from begin to end.  In front
\* of a point that no digit follows the type stays what advance_token set it to,
\* the first character.
process_number(from, begin, end, base) ==
  CASE end.index - begin.index >= MAX_INT_CONST_SIZE - 1 -> Plain("ERROR", <<>>, from, end)
    [] peek_char(end) # "." ->
         Plain("INT", <<parse_const_int(Slice(begin, end), base)>>, from, end)
    [] peek_next_char(end) \notin DigitsOf(base) -> Plain(peek_char(from), <<>>, from, end)
    [] base # 10 -> Plain("ERROR", <<>>, from, end)
    [] OTHER -> Fraction(parse_const_int(Slice(begin, end), base), from, advance_char(end),
                         SkipWhile(advance_char(end), DigitsOf(10)))

Base(c) ==
  IF peek_char(c) # "0" THEN 10
  ELSE CASE peek_next_char(c) = "b" -> 2 [] peek_next_char(c) = "x" -> 16 [] OTHER -> 10

Number(from, base, begin) ==
  process_number(from, begin, SkipWhile(begin, DigitsOf(base)), base)

NumberAt(c) ==
  Number(c, Base(c), IF Base(c) = 10 THEN c ELSE advance_char(advance_char(c)))

\* Mutant: a second character is only taken if the first one is repeated.
Operator_Twice(c, pair) ==
  IF pair \in DOMAIN Pairs /\ pair[1] = pair[2]
    THEN Plain(Pairs[pair], <<>>, c, advance_char(advance_char(c)))
    ELSE Plain(pair[1], <<>>, c, advance_char(c))

\* One character or two.
Operator(c, pair) ==
  IF pair \in DOMAIN Pairs THEN Plain(Pairs[pair], <<>>, c, advance_char(advance_char(c)))
  ELSE Plain(pair[1], <<>>, c, advance_char(c))

RECURSIVE advance_token(_), TokenAt(_)

advance_token(c) == TokenAt(SkipWhile(c, Blank))

\* advance_token, behind the spaces.
TokenAt(c) ==
  CASE peek_char(c) = "nul" -> Plain("EOF", <<>>, c, c)
    [] peek_char(c) = "/" /\ peek_next_char(c) = "/" ->
         advance_token(SkipUntil(c, {"nul", "nl"}))
    [] peek_char(c) = "/" /\ peek_next_char(c) = "*" ->
         advance_token(advance_char(advance_char(SkipComment(advance_char(advance_char(c))))))
    [] peek_char(c) \in Singles -> Operator(c, <<peek_char(c), peek_next_char(c)>>)
    [] peek_char(c) = "\"" ->
         process_string(advance_char(c), SkipUntil(advance_char(c), {"\"", "nul"}))
    [] peek_char(c) \in Letters ->
         process_word(stepback_char(advance_char(c)),
                      SkipWhile(stepback_char(advance_char(c)), Letters \cup DigitsOf(10)))
    [] peek_char(c) \in DigitsOf(10) -> NumberAt(stepback_char(advance_char(c)))
    [] OTHER -> Plain("ERROR", <<>>, c, advance_char(c))

--------------------------------------------------------------------------------

(* Lines, for messages.                                                         *)

LineEnds == SetToSortSeq({i \in DOMAIN file : file[i] \in {"nl", "nul"}}, <)

\* Mutant: a line starts at the character that ends the one before.
scan_lines_AtNewline ==
  [k \in DOMAIN LineEnds |->
     [start |-> IF k = 1 THEN 0 ELSE LineEnds[k - 1] - 1, stop |-> LineEnds[k] - 1]]

\* A line that the end of the file ends is not in the list.
scan_lines ==
  [k \in DOMAIN LineEnds |->
     [start |-> IF k = 1 THEN 0 ELSE LineEnds[k - 1], stop |-> LineEnds[k] - 1]]

--------------------------------------------------------------------------------
(* Scanning a file to its end.                                                  *)

Complete == tokens # <<>> /\ Last(tokens).type = "EOF"

Takes(result) == cursor' = result.next /\ tokens' = Append(tokens, result.token)

Advance ==
  /\ ~Complete
  /\ Takes(advance_token(cursor))
  /\ UNCHANGED file

================================================================================
