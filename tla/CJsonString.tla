----------------------------- MODULE CJsonString -----------------------------
(***************************************************************************)
(* The text functions of cJSON (utility/cJSON/cJSON.c) on bytes: strings in *)
(* and out of their quotes, UTF-16 escapes to UTF-8, numbers, blanks and    *)
(* cJSON_Minify.  A text is a sequence of bytes; an offset counts from 0,   *)
(* as in the code.                                                          *)
(***************************************************************************)
EXTENDS Integers, SequencesExt

Quote == 34     Backslash == 92   Slash == 47    Star == 42
Comma == 44     Colon == 58       Minus == 45
OpenList == 91  CloseList == 93   OpenMap == 123 CloseMap == 125
Tab == 9        Newline == 10     Blank == 32    LetterU == 117

Digits == 48..57

Byte(text, i) == text[i + 1]

Readable(text, off, i) == off + i < Len(text) \* can_access_at_index

\* strncmp of a literal that still fits in the buffer
StartsWith(text, off, word) ==
  /\ off + Len(word) <= Len(text)
  /\ SubSeq(text, off + 1, off + Len(word)) = word

\* A C string ends at its first zero byte.
CString(s) ==
  LET zeros == {i \in 1..Len(s) : s[i] = 0}
  IN IF zeros = {} THEN s
     ELSE SubSeq(s, 1, (CHOOSE i \in zeros : \A j \in zeros : i <= j) - 1)

-----------------------------------------------------------------------------
(* Blanks and the byte order mark.                                          *)

\* Where the bytes of a kind that begin at off end.
EndOfRun(text, off, kind) ==
  CHOOSE i \in off..Len(text) :
    /\ i < Len(text) => Byte(text, i) \notin kind
    /\ \A j \in off..(i - 1) : Byte(text, j) \in kind

\* buffer_skip_whitespace: the terminating zero counts as a blank, so at the
\* end the offset steps back onto the last byte.
SkipBlanks(text, off) ==
  LET end == EndOfRun(text, off, 0..Blank)
  IN IF off < Len(text) /\ end = Len(text) THEN end - 1 ELSE end

SkipBom(text) ==
  IF Readable(text, 0, 4) /\ StartsWith(text, 0, <<239, 187, 191>>) THEN 3
  ELSE 0

-----------------------------------------------------------------------------
(* Strings.                                                                 *)

HexDigits == Digits \cup (65..70) \cup (97..102)

\* mutant: capital letters are read as small ones
HexSmall(c) == IF c \in Digits THEN c - 48 ELSE c - 87

Hex(c) == IF c \in Digits THEN c - 48
          ELSE IF c \in 65..70 THEN c - 55 ELSE c - 87

\* parse_hex4: 0 when a digit is not one
Hex4(text, off) ==
  IF \E i \in 0..3 : Byte(text, off + i) \notin HexDigits THEN 0
  ELSE LET h(i) == Hex(Byte(text, off + i))
       IN ((h(0) * 16 + h(1)) * 16 + h(2)) * 16 + h(3)

\* A code point in one to four bytes: the low six bits go to the last byte.
Utf8(code) ==
  LET tail(c) == 128 + (c % 64)
  IN IF code < 128 THEN <<code>>
     ELSE IF code < 2048 THEN <<192 + (code \div 64), tail(code)>>
     ELSE IF code < 65536
          THEN <<224 + (code \div 4096), tail(code \div 64), tail(code)>>
     ELSE <<240 + (code \div 262144), tail(code \div 4096),
            tail(code \div 64), tail(code)>>

Invalid == [length |-> 0, bytes |-> <<>>]

High == 55296..56319  \* 0xD800..0xDBFF
Low == 56320..57343   \* 0xDC00..0xDFFF

\* utf16_literal_to_utf8: \uXXXX, or two of them for a surrogate pair
Utf16Literal(text, i, end) ==
  LET first == Hex4(text, i + 2)
      second == Hex4(text, i + 8)
  IN IF end - i < 6 \/ first \in Low THEN Invalid
     ELSE IF first \notin High THEN [length |-> 6, bytes |-> Utf8(first)]
     ELSE IF \/ end - i < 12
             \/ Byte(text, i + 6) # Backslash \/ Byte(text, i + 7) # LetterU
             \/ second \notin Low
          THEN Invalid
     ELSE [length |-> 12,
           bytes |-> Utf8(65536 + (first % 1024) * 1024 + (second % 1024))]

ShortEscapes == << <<98, 8>>, <<102, 12>>, <<110, 10>>, <<114, 13>>,
                   <<116, 9>>, <<Quote, Quote>>, <<Backslash, Backslash>>,
                   <<Slash, Slash>> >>

\* One character of a string literal: the bytes it takes and those it means.
Character(text, i, end) ==
  LET c == Byte(text, i + 1)
      short == {k \in DOMAIN ShortEscapes : ShortEscapes[k][1] = c}
  IN IF Byte(text, i) # Backslash
     THEN [length |-> 1, bytes |-> <<Byte(text, i)>>]
     ELSE IF c = LetterU THEN Utf16Literal(text, i, end)
     ELSE IF short = {} THEN Invalid
     ELSE [length |-> 2,
           bytes |-> <<ShortEscapes[CHOOSE k \in short : TRUE][2]>>]

\* The closing quote behind off, or Len(text); skipped counts the escapes.
ClosingQuote(text, off) ==
  LET none == [at |-> Len(text), skipped |-> 0]
      scan[i \in off..Len(text)] ==
        IF i = Len(text) THEN none
        ELSE IF Byte(text, i) = Quote THEN [at |-> i, skipped |-> 0]
        ELSE IF Byte(text, i) # Backslash THEN scan[i + 1]
        ELSE IF i + 1 = Len(text) THEN none
        ELSE [at |-> scan[i + 2].at, skipped |-> scan[i + 2].skipped + 1]
  IN scan[off]

\* mutant: the terminating zero is forgotten
RoomForBytes(off, end, skipped) == end - off - 1 - skipped

\* The block parse_string asks for: what is between the quotes without the
\* backslashes, a byte more, and a zero.
Room(off, end, skipped) == end - off - skipped + 1

\* parse_string at off: either the string, its end and the block it was given,
\* or where it went wrong.  needs tells whether memory is asked for at all.
\* Behind a \uXXXX whose digits are none the two passes see other escapes, so
\* that the last one may take the closing quote along.
StringAt(text, off) ==
  LET end == ClosingQuote(text, off + 1)
      copy[i \in (off + 1)..(end.at + 1)] ==
        IF i >= end.at THEN [ok |-> TRUE, off |-> end.at + 1, bytes |-> <<>>]
        ELSE LET c == Character(text, i, end.at)
                 rest == copy[i + c.length]
             IN IF c.length = 0 THEN [ok |-> FALSE, off |-> i, bytes |-> <<>>]
                ELSE [ok |-> rest.ok, off |-> rest.off,
                      bytes |-> c.bytes \o rest.bytes]
      lost == [ok |-> FALSE, off |-> off + 1, bytes |-> <<>>]
      needs == Byte(text, off) = Quote /\ end.at < Len(text)
      got == IF needs THEN copy[off + 1] ELSE lost
  IN [ok |-> got.ok, off |-> got.off, str |-> got.bytes, needs |-> needs,
      room |-> IF needs THEN Room(off, end.at, end.skipped) ELSE 0]

HexDigit(n) == IF n < 10 THEN 48 + n ELSE 87 + n

\* mutant: quotes and backslashes are printed as they are
ControlsOnly == 1..5

PrintedShort == 1..7 \* a slash is printed as it is

If(P, bytes) == IF P THEN bytes ELSE <<>>

\* print_string_ptr: a quote, a backslash and what is below a blank are escaped
Escaped(s) ==
  LET one(c) ==
        LET short == {k \in PrintedShort : ShortEscapes[k][2] = c}
        IN IF short # {}
           THEN <<Backslash, ShortEscapes[CHOOSE k \in short : TRUE][1]>>
           ELSE IF c >= Blank THEN <<c>>
           ELSE <<Backslash, LetterU, 48, 48, HexDigit(c \div 16),
                  HexDigit(c % 16)>>
  IN <<Quote>> \o FlattenSeq([i \in DOMAIN CString(s) |-> one(s[i])])
     \o <<Quote>>

-----------------------------------------------------------------------------
(* Numbers.  The texts in question hold whole numbers.                      *)

\* parse_number: what looks like a number is copied, strtod takes the part of
\* it that is one; no digit, no number.
NumberAt(text, off) ==
  LET sign == IF Byte(text, off) = Minus THEN 1 ELSE 0
      first == off + sign
      stop == EndOfRun(text, first, Digits)
      value[i \in first..stop] ==
        IF i = first THEN 0 ELSE value[i - 1] * 10 + Byte(text, i - 1) - 48
  IN [ok |-> stop > first, off |-> stop,
      num |-> IF sign = 1 THEN -value[stop] ELSE value[stop]]

\* print_number: "%d" of valueint when it is exact, else the double's digits
Decimal(num, int) ==
  LET n == IF num = int THEN int ELSE num
      size == IF n < 0 THEN -n ELSE n
      digits[k \in 0..size] ==
        IF k < 10 THEN <<48 + k>> ELSE Append(digits[k \div 10], 48 + (k % 10))
  IN If(n < 0, <<Minus>>) \o digits[size]

-----------------------------------------------------------------------------
(* cJSON_Minify, on a text that ends with a zero.                           *)

\* The end of a comment or of a string from i on, as the code finds it: in a
\* string an escaped quote is passed, an escaped backslash is not noticed.
LineEnd(text, i) ==
  LET go[j \in i..Len(text)] ==
        IF Byte(text, j) = 0 THEN j
        ELSE IF Byte(text, j) = Newline THEN j + 1 ELSE go[j + 1]
  IN go[i]

CommentEnd(text, i) ==
  LET go[j \in i..Len(text)] ==
        IF Byte(text, j) = 0 THEN j
        ELSE IF Byte(text, j) = Star /\ Byte(text, j + 1) = Slash THEN j + 2
        ELSE go[j + 1]
  IN go[i]

\* mutant: an escaped quote ends the string
QuoteEndPlain(text, i) ==
  LET go[j \in i..Len(text)] ==
        IF Byte(text, j) = 0 THEN j
        ELSE IF Byte(text, j) = Quote THEN j + 1 ELSE go[j + 1]
  IN go[i]

QuoteEnd(text, i) ==
  LET go[j \in i..Len(text)] ==
        IF Byte(text, j) = 0 THEN j
        ELSE IF Byte(text, j) = Quote THEN j + 1
        ELSE IF Byte(text, j) = Backslash /\ Byte(text, j + 1) = Quote
             THEN go[j + 2]
        ELSE go[j + 1]
  IN go[i]

Minified(text) ==
  LET go[i \in 0..Len(text)] ==
        LET c == Byte(text, i)
            end == QuoteEnd(text, i + 1)
        IN IF c = 0 THEN <<0>>
           ELSE IF c \in {Blank, Tab, 13, Newline} THEN go[i + 1]
           ELSE IF c = Slash
                THEN IF Byte(text, i + 1) = Slash THEN go[LineEnd(text, i + 2)]
                     ELSE IF Byte(text, i + 1) = Star
                          THEN go[CommentEnd(text, i + 2)]
                     ELSE go[i + 1]
           ELSE IF c = Quote THEN SubSeq(text, i + 1, end) \o go[end]
           ELSE <<c>> \o go[i + 1]
  IN go[0]
=============================================================================
