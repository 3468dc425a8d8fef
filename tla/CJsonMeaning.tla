---------------------------- MODULE CJsonMeaning ----------------------------
(***************************************************************************)
(* What the texts mean.  JSON is defined here a second time, with none of   *)
(* the functions of the parser: a text is split into tokens, and the tokens *)
(* reduce to one value.  Parser, printer, cJSON_Compare and cJSON_Minify    *)
(* are measured by it.                                                      *)
(***************************************************************************)
EXTENDS CJsonText

CONSTANT Others \* items to compare with

-----------------------------------------------------------------------------
(* cJSON_Compare, on items that are not the same item.                      *)

Lower(key) == [i \in DOMAIN key |-> IF key[i] \in 65..90 THEN key[i] + 32
                                    ELSE key[i]]

\* mutant: the case is never ignored
SameKeyExact(k, l, exact) == CString(k) = CString(l)

SameKey(k, l, exact) ==
  IF exact THEN CString(k) = CString(l)
  ELSE Lower(CString(k)) = Lower(CString(l))

RECURSIVE Compare(_, _, _)
Compare(a, b, exact) ==
  LET found(x, key) ==
        {i \in DOMAIN x.kids : SameKey(x.kids[i].key, key, exact)}
      first(x, key) == x.kids[CHOOSE i \in found(x, key) :
                                \A j \in found(x, key) : i <= j]
      within(x, y) ==
        \A i \in DOMAIN x.kids :
          /\ found(y, x.kids[i].key) # {}
          /\ Compare(x.kids[i], first(y, x.kids[i].key), exact)
  IN /\ a.type = b.type
     /\ CASE a.type = "number" -> a.num = b.num
          [] a.type = "string" -> CString(a.str) = CString(b.str)
          [] a.type = "array" ->
               /\ Len(a.kids) = Len(b.kids)
               /\ \A i \in DOMAIN a.kids : Compare(a.kids[i], b.kids[i], exact)
          [] a.type = "object" -> within(a, b) /\ within(b, a)
          [] OTHER -> TRUE

-----------------------------------------------------------------------------
(* JSON, as RFC 8259 defines it, but for liberties that cJSON takes on       *)
(* purpose: any byte up to 32 is a blank, a string may hold control          *)
(* characters unescaped, and a number may begin with zeros.  Numbers are     *)
(* whole.                                                                    *)

Token(t, n, s) == [t |-> t, n |-> n, s |-> s]
Mark(c) == Token("mark", c, <<>>)

Marks == {Comma, Colon, OpenList, CloseList, OpenMap, CloseMap}

Words == [null |-> <<110, 117, 108, 108>>, true |-> <<116, 114, 117, 101>>,
          false |-> <<102, 97, 108, 115, 101>>]

EscapeMeans == (34 :> 34) @@ (47 :> 47) @@ (92 :> 92) @@ (98 :> 8)
               @@ (102 :> 12) @@ (110 :> 10) @@ (114 :> 13) @@ (116 :> 9)

\* The value of a hexadecimal digit, if the byte is one.
HexMeans(c) ==
  {v \in 0..15 : c \in IF v < 10 THEN {48 + v} ELSE {55 + v, 87 + v}}

\* The number that \uXXXX at position i spells, if it does.
Spelled(t, i) ==
  IF i + 5 > Len(t) \/ SubSeq(t, i, i + 1) # <<Backslash, LetterU>> THEN {}
  ELSE {a * 4096 + b * 256 + c * 16 + d :
          a \in HexMeans(t[i + 2]), b \in HexMeans(t[i + 3]),
          c \in HexMeans(t[i + 4]), d \in HexMeans(t[i + 5])}

\* The halves of a character beyond 16 bits carry ten bits each.
HighHalves == 54 * 1024 .. 55 * 1024 - 1
LowHalves  == 55 * 1024 .. 56 * 1024 - 1

\* A character in UTF-8: n bytes, of which all but the first carry six bits.
InUtf8(code) ==
  LET n == 1 + Cardinality({limit \in {128, 2048, 65536} : code >= limit})
      mark(k) == IF k = 1 THEN 256 - 2 ^ (8 - n) ELSE 128
  IN IF n = 1 THEN <<code>>
     ELSE [k \in 1..n |-> mark(k) + ((code \div 64 ^ (n - k)) % 64)]

\* What may stand in a string at position i, and the bytes it means.
Characters(t, i) ==
  LET char(n, bytes) == [size |-> n, bytes |-> bytes]
      next == {t[j] : j \in {i + 1} \cap 1..Len(t)}
  IN IF t[i] # Backslash THEN {char(1, <<t[i]>>)}
     ELSE {char(2, <<EscapeMeans[c]>>) : c \in next \cap DOMAIN EscapeMeans}
          \cup {char(6, InUtf8(u)) :
                  u \in Spelled(t, i) \ (HighHalves \cup LowHalves)}
          \cup {char(12, InUtf8(65536 + (h % 1024) * 1024 + (l % 1024))) :
                  h \in Spelled(t, i) \cap HighHalves,
                  l \in Spelled(t, i + 6) \cap LowHalves}

\* The string whose characters begin at position i, if it ends.
RECURSIVE StringFrom(_, _)
StringFrom(t, i) ==
  IF i > Len(t) THEN {}
  ELSE IF t[i] = Quote THEN {[end |-> i, bytes |-> <<>>]}
  ELSE UNION {{[end |-> rest.end, bytes |-> c.bytes \o rest.bytes] :
                 rest \in StringFrom(t, i + c.size)} : c \in Characters(t, i)}

\* The whole number at position i, if there is one: all the digits there are.
NumberFrom(t, i) ==
  LET first == IF t[i] = Minus THEN i + 1 ELSE i
      others == {j \in first..Len(t) : t[j] \notin Digits}
      last == Min(others \cup {Len(t) + 1}) - 1
      number == MapThenSumSet(LAMBDA j : (t[j] - 48) * 10 ^ (last - j),
                              first..last)
  IN IF last < first THEN {}
     ELSE {[end |-> last, num |-> IF t[i] = Minus THEN -number ELSE number]}

\* The token that begins at position i, if there is one, and its last byte.
TokenAt(t, i) ==
  LET found(token, end) == [token |-> token, end |-> end]
      here(w) == /\ i + Len(Words[w]) - 1 <= Len(t)
                 /\ SubSeq(t, i, i + Len(Words[w]) - 1) = Words[w]
  IN {found(Mark(c), i) : c \in {t[i]} \cap Marks}
     \cup {found(Token("number", n.num, <<>>), n.end) : n \in NumberFrom(t, i)}
     \cup {found(Token(w, 0, <<>>), i + Len(Words[w]) - 1) :
             w \in {v \in DOMAIN Words : here(v)}}
     \cup (IF t[i] # Quote THEN {}
           ELSE {found(Token("string", 0, s.bytes), s.end) :
                   s \in StringFrom(t, i + 1)})

\* The tokens of a text behind its first bytes, as far as it has any.
RECURSIVE Lex(_, _)
Lex(t, from) ==
  LET visible == {i \in (from + 1)..Len(t) : t[i] > Blank}
      found == IF visible = {} THEN {} ELSE TokenAt(t, Min(visible))
  IN IF found = {} THEN <<>>
     ELSE LET first == CHOOSE f \in found : TRUE
          IN <<first>> \o Lex(t, first.end)

\* A byte order mark is passed over, unless less than two bytes follow it.
Beginning(t) ==
  IF Len(t) > 4 /\ SubSeq(t, 1, 3) = <<239, 187, 191>> THEN 3 ELSE 0

\* \u before four bytes that are not all hexadecimal digits: no JSON, but
\* parse_hex4 returns 0 for them, as if they were zeros.
HasBadEscape(t) ==
  \E i \in 1..(Len(t) - 5) :
    SubSeq(t, i, i + 1) = <<Backslash, LetterU>> /\ Spelled(t, i) = {}

\* The tokens of an item.
RECURSIVE Tokens(_, _)
Tokens(item, cut) ==
  LET bytes(s) == IF cut THEN CString(s) ELSE s
      list(open, close, one(_)) ==
        <<Mark(open)>>
        \o FlattenSeq([i \in DOMAIN item.kids |->
             If(i > 1, <<Mark(Comma)>>) \o one(item.kids[i])])
        \o <<Mark(close)>>
  IN CASE item.type = "number" -> <<Token("number", item.num, <<>>)>>
       [] item.type = "string" -> <<Token("string", 0, bytes(item.str))>>
       [] item.type = "array" ->
            list(OpenList, CloseList, LAMBDA kid : Tokens(kid, cut))
       [] item.type = "object" ->
            list(OpenMap, CloseMap, LAMBDA kid :
                   <<Token("string", 0, bytes(kid.key)), Mark(Colon)>>
                   \o Tokens(kid, cut))
       [] OTHER -> <<Token(item.type, 0, <<>>)>>

\* Tokens that are one value: a scalar, or brackets around values, which are
\* reduced from the inside out.
Kind(token) == IF token.t = "mark" THEN token.n
               ELSE IF token.t = "string" THEN 1 ELSE 2

IsList(ks) ==
  /\ Head(ks) = OpenList /\ Last(ks) = CloseList
  /\ Len(ks) = 2 \/ Len(ks) % 2 = 1
  /\ \A i \in 2..(Len(ks) - 1) : IF i % 2 = 0 THEN ks[i] \in {1, 2}
                                 ELSE ks[i] = Comma

IsMap(ks) ==
  /\ Head(ks) = OpenMap /\ Last(ks) = CloseMap
  /\ Len(ks) = 2 \/ (Len(ks) - 1) % 4 = 0
  /\ \A i \in 2..(Len(ks) - 1) :
       CASE i % 4 = 2 -> ks[i] = 1
         [] i % 4 = 3 -> ks[i] = Colon
         [] i % 4 = 0 -> ks[i] \in {1, 2}
         [] i % 4 = 1 -> ks[i] = Comma

RECURSIVE IsValue(_)
IsValue(ks) ==
  LET closed == SelectInSeq(ks, LAMBDA k : k \in {CloseList, CloseMap})
      open == SelectLastInSubSeq(ks, 1, closed,
                                 LAMBDA k : k \in {OpenList, OpenMap})
      inner == SubSeq(ks, open, closed)
  IN IF closed = 0 THEN Len(ks) = 1 /\ ks[1] \in {1, 2}
     ELSE /\ open > 0
          /\ IsList(inner) \/ IsMap(inner)
          /\ IsValue(SubSeq(ks, 1, open - 1) \o <<2>>
                       \o SubSeq(ks, closed + 1, Len(ks)))

Nesting(ks) ==
  LET open(i) == Cardinality({j \in 1..i : ks[j] \in {OpenList, OpenMap}})
                 - Cardinality({j \in 1..i : ks[j] \in {CloseList, CloseMap}})
  IN CHOOSE n \in 0..Len(ks) : /\ \A i \in 1..Len(ks) : open(i) <= n
                               /\ n = 0 \/ \E i \in 1..Len(ks) : open(i) = n

Plain(lexed) == [i \in DOMAIN lexed |-> lexed[i].token]
Kinds(lexed) == [i \in DOMAIN lexed |-> Kind(lexed[i].token)]

\* How many tokens of the text are its value; 0 if it has none.
ValueTokens(lexed) ==
  LET ks == Kinds(lexed)
      good == {n \in 1..Len(ks) : IsValue(SubSeq(ks, 1, n))}
  IN IF good = {} THEN 0 ELSE CHOOSE n \in good : \A m \in good : n <= m

\* Behind the value there are only blanks, and the last byte is a zero.
EndsThere(t, from) ==
  /\ from < Len(t)
  /\ \A i \in (from + 1)..Len(t) : t[i] <= Blank
  /\ Last(t) = 0

-----------------------------------------------------------------------------
(* Properties.                                                              *)

\* With memory enough, a text is accepted exactly when it begins with a value
\* (and, if asked, ends with it) nested no deeper than the limit, and the item
\* holds that value.  The code accepts one kind of text that is no JSON: what it
\* read holds a \u without four digits, which cJSON.c:681 calls invalid.
ParseIsRight ==
  mode \in {"ok", "failed"} /\ printing = "idle" =>
    \E lexed \in {Lex(text, Beginning(text))} :
      \E n \in {ValueTokens(lexed)} :
        LET good == /\ n > 0
                    /\ Nesting(SubSeq(Kinds(lexed), 1, n)) <= NestingLimit
                    /\ toEnd => EndsThere(text, lexed[n].end)
        IN IF mode = "ok"
           THEN \/ good /\ Tokens(value, FALSE) = SubSeq(Plain(lexed), 1, n)
                \/ HasBadEscape(SubSeq(text, 1, off))
           ELSE noMemory \/ ~good

\* What is printed reads back as what was parsed, formatted or not, however the
\* buffer grew on the way; a string is cut where it holds a zero byte.
PrintIsRight ==
  printing = "done" =>
    LET lexed == Lex(out, 0)
    IN Plain(lexed) = Tokens(value, TRUE) /\ IsValue(Kinds(lexed))

\* "to be safe allocate 5 bytes more than you actually need" (cJSON.h:168): with
\* that much a caller's buffer is never refused.
RECURSIVE Printed(_, _)
Printed(js, f) ==
  IF js = <<>> THEN <<>>
  ELSE IF Head(js).op = "chunk" THEN Head(js).bytes \o Printed(Tail(js), f)
  ELSE Printed(JobsOf(Head(js).item, Head(js).depth, f) \o Tail(js), f)

FiveMoreSuffice ==
  way = "preallocated" /\ printing = "failed" =>
    size < Len(Printed(<<Value(value, 0)>>, format)) + 5

\* Two items without duplicate keys are equal for cJSON_Compare just when they
\* have the same type and the same values, by position or by key.
RECURSIVE Meaning(_, _)
Meaning(item, exact) ==
  LET name(k) == IF exact THEN CString(k) ELSE Lower(CString(k))
  IN <<item.type, item.num, CString(item.str),
       IF item.type = "object"
       THEN {<<name(item.kids[i].key), Meaning(item.kids[i], exact)>> :
               i \in DOMAIN item.kids}
       ELSE {<<i, Meaning(item.kids[i], exact)>> : i \in DOMAIN item.kids}>>

RECURSIVE KeysOnce(_, _)
KeysOnce(item, exact) ==
  /\ item.type = "object" =>
       \A i, j \in DOMAIN item.kids :
         SameKey(item.kids[i].key, item.kids[j].key, exact) => i = j
  /\ \A i \in DOMAIN item.kids : KeysOnce(item.kids[i], exact)

CompareIsRight ==
  mode = "ok" /\ printing = "idle" =>
    \A other \in Others, exact \in BOOLEAN :
      KeysOnce(value, exact) /\ KeysOnce(other, exact) =>
        (Compare(value, other, exact)
           <=> Meaning(value, exact) = Meaning(other, exact))

\* What may stand between tokens: a blank, and two comments that hold a quote.
Gaps == { <<Blank>>, <<Slash, Star, Quote, Star, Slash>>,
          <<Slash, Slash, Quote, Newline>> }

\* cJSON_Minify takes blanks and comments away and leaves the tokens, unless a
\* string holds an escaped backslash: then minify_string may take the quote
\* behind it for an escaped one (cJSON.c:2901).
MinifyKeepsTokens ==
  mode = "start" /\ Len(text) > 0 /\ Last(text) = 0 =>
    \A lexed \in {Lex(text, 0)} :
      \A n \in {ValueTokens(lexed)} :
        /\ n > 0 /\ EndsThere(text, lexed[n].end)
        /\ \A i \in 1..(Len(text) - 1) :
             text[i] # Backslash \/ text[i + 1] # Backslash
        => /\ Plain(Lex(Minified(text), 0)) = SubSeq(Plain(lexed), 1, n)
           /\ \A i \in 0..n, gap \in Gaps :
                LET end == IF i = 0 THEN 0 ELSE lexed[i].end
                IN Minified(SubSeq(text, 1, end) \o gap
                              \o SubSeq(text, end + 1, Len(text)))
                     = Minified(text)
=============================================================================
