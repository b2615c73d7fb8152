--------------------------------- MODULE Lexemes ---------------------------------
(***************************************************************************)
(* What the tokens of a file are, without a cursor: the shape of the text   *)
(* of each type, that a token is the longest text of any shape, and that    *)
(* nothing but spaces and comments lies between tokens.                     *)
(***************************************************************************)
EXTENDS Scanner

IsWord(s) ==
  /\ s # <<>> /\ s[1] \in Letters
  /\ Range(s) \subseteq Letters \cup DigitsOf(10)

AllDigits(s, base) == Range(s) \subseteq DigitsOf(base)

From(s, i) == SubSeq(s, i, Len(s))

BaseOf(s) ==
  CASE Len(s) > 1 /\ s[1] = "0" /\ s[2] = "x" -> 16
    [] Len(s) > 1 /\ s[1] = "0" /\ s[2] = "b" -> 2
    [] OTHER -> 10

DigitsIn(s) == IF BaseOf(s) = 10 THEN s ELSE From(s, 3)

\* A prefix without digits is a number too.
IsInteger(s) == s # <<>> /\ s[1] \in DigitsOf(10) /\ AllDigits(DigitsIn(s), BaseOf(s))

IsFloat(s) ==
  \E point \in 2 .. Len(s) - 1 :
    s[point] = "." /\ AllDigits(SubSeq(s, 1, point - 1), 10) /\ AllDigits(From(s, point + 1), 10)

IsOperator(s) == (Len(s) = 1 /\ s[1] \in Singles) \/ s \in DOMAIN Pairs

IsLexeme(s) == IsWord(s) \/ IsInteger(s) \/ IsFloat(s) \/ IsOperator(s)

\* The type of a lexeme.
TypeOf(s) ==
  CASE IsWord(s) /\ Len(s) >= MAX_IDENT_SIZE -> "ERROR"
    [] IsWord(s) /\ Len(s) < MAX_IDENT_SIZE -> IF s \in DOMAIN Keywords THEN Keywords[s] ELSE "IDENT"
    [] IsInteger(s) -> "INT"
    [] IsFloat(s) -> "FP"
    [] OTHER -> IF s \in DOMAIN Pairs THEN Pairs[s] ELSE s[1]

\* s begins with two characters.
Opens(s, a, b) == Len(s) > 1 /\ s[1] = a /\ s[2] = b

\* The comment that s begins with ends in front of its n-th character.
EndsAt(s, n) ==
  \/ Opens(s, "/", "/") /\ (n > Len(s) \/ s[n] = "nl") /\ \A i \in 3 .. n - 1 : s[i] # "nl"
  \/ /\ Opens(s, "/", "*")
     /\ n > Len(s) \/ (n > 4 /\ s[n - 2] = "*" /\ s[n - 1] = "/")
     /\ \A i \in 3 .. n - 3 : ~(s[i] = "*" /\ s[i + 1] = "/")

RECURSIVE IsGap(_)
\* Spaces and comments.
IsGap(s) ==
  \/ s = <<>>
  \/ s[1] \in Blank /\ IsGap(Tail(s))
  \/ \E n \in 3 .. Len(s) + 1 : EndsAt(s, n) /\ IsGap(From(s, n))

--------------------------------------------------------------------------------
(* Places, as messages print them: a line of scan_lines and a column.           *)

LineStart(l) ==
  CASE l < Len(scan_lines) -> scan_lines[l + 1].start
    [] l = 0 -> 0
    [] OTHER -> scan_lines[Len(scan_lines)].stop + 1

\* A string is placed between its quotes.
Opening(t) == LineStart(t.l0) + t.c0 - IF t.type = "STRING" THEN 1 ELSE 0
Closing(t) == LineStart(t.l1) + t.c1 + IF t.type = "STRING" THEN 1 ELSE 0

\* The text between two offsets.
Between(from, to) == SubSeq(file, from + 1, to)

TextOf(t) == Between(Opening(t), Closing(t))

\* A number whose point no digit follows, and what is too long or no character
\* of the language.
Unknown(t) == t.type \in DigitsOf(10) \cup {"ERROR"}

LongestHere(t) ==
  \A to \in Closing(t) + 1 .. Len(file) : ~IsLexeme(Between(Opening(t), to))

IsToken(t) ==
  CASE t.type = "STRING" ->
         TextOf(t) = <<"\"">> \o t.value \o <<"\"">> /\ "\"" \notin Range(t.value)
    [] t.type = "EOF" -> TRUE
    [] OTHER ->
         IsLexeme(TextOf(t)) /\ t.type = TypeOf(TextOf(t)) /\ LongestHere(t)

\* The value of a row of digits.
Horner(digits, base) ==
  FoldLeft(LAMBDA v, d : v * base + DigitValue(d), 0, digits)

--------------------------------------------------------------------------------

\* The latest token that comes from a file.
Scanned == IF file = <<>> \/ tokens = <<>> THEN {} ELSE {Len(tokens)}

OpensString(s) == s # <<>> /\ Last(s) = "\"" /\ IsGap(Front(s))

EndBefore(i) == IF i = 1 THEN 0 ELSE Closing(tokens[i - 1])

(* Every token is a lexeme, of the type its text has, and no longer lexeme begins
   where it does.  The text is what a message would show: the line of scan_lines
   and the columns of the token.  Between one token and the next, and behind the
   last one, there is nothing but spaces and comments, however many lines those
   have: no character of the program is passed over, and a file ends early only at
   a zero or in a string that is not closed (src/scanner.cpp advance_token).      *)
TokensAreLexemes ==
  \A i \in Scanned :
    /\ Unknown(tokens[i]) \/ IsToken(tokens[i])
    /\ \/ /\ IsGap(Between(EndBefore(i), Opening(tokens[i])))
          /\ tokens[i].type = "EOF" =>
               Opening(tokens[i]) >= Len(file) \/ file[Opening(tokens[i]) + 1] = "nul"
       \/ tokens[i].type = "EOF" /\ OpensString(Between(EndBefore(i), Opening(tokens[i])))

(* A constant has the value of its digits modulo the width of a word, in each base:
   constants that are too large wrap without a message (parse_const_int).         *)
ConstantsHaveTheirValue ==
  \A i \in Scanned :
    tokens[i].type = "INT" =>
      tokens[i].value
        = <<Horner(DigitsIn(TextOf(tokens[i])), BaseOf(TextOf(tokens[i]))) % Word>>

================================================================================
