------------------------------- MODULE MCText -------------------------------
(* CJsonMeaning for TLC: every short text over the bytes that JSON is made   *)
(* of, and documents with one byte changed, removed, or the rest cut off;    *)
(* each with and without the terminating zero that cJSON_Parse counts in.    *)
EXTENDS CJsonMeaning

Alphabet == {Quote, Backslash, LetterU, 49, Comma, Colon, Minus, OpenList,
             CloseList, OpenMap, CloseMap, Blank}

Documents == <<
  \* {"a":[1,-2]}
  <<123, 34, 97, 34, 58, 91, 49, 44, 45, 50, 93, 125>>,
  \* ["\u0041\n",null]
  <<91, 34, 92, 117, 48, 48, 52, 49, 92, 110, 34, 44, 110, 117, 108, 108,
    93>>,
  \* [ [ ] , { } ]
  <<91, 32, 91, 32, 93, 32, 44, 32, 123, 32, 125, 32, 93>>,
  \* "\uD83D\uDe00"
  <<34, 92, 117, 68, 56, 51, 68, 92, 117, 68, 101, 48, 48, 34>>,
  \* {"a":1,"A":true}
  <<123, 34, 97, 34, 58, 49, 44, 34, 65, 34, 58, 116, 114, 117, 101, 125>>,
  \* a byte order mark and [1]
  <<239, 187, 191, 91, 49, 93>>,
  \* "\u0000x"
  <<34, 92, 117, 48, 48, 48, 48, 120, 34>>,
  \* {"b":{"c":[2]}}
  <<123, 34, 98, 34, 58, 123, 34, 99, 34, 58, 91, 50, 93, 125, 125>>,
  \* {"A":1}
  <<123, 34, 65, 34, 58, 49, 125>>,
  \* [ " \" ", "\\" ]
  <<91, 32, 34, 32, 92, 34, 32, 34, 44, 32, 34, 92, 92, 34, 32, 93>>,
  \* "\u123\\", whose last escape takes the closing quote along
  <<34, 92, 117, 49, 50, 51, 92, 92, 34>>,
  \* [-01,"x"], where a byte 1 is a blank and x is a byte 1
  <<91, 1, 45, 48, 49, 44, 34, 1, 34, 93>>
>>

Edits(d) ==
  {d} \cup {SubSeq(d, 1, i) : i \in 1..Len(d)}
      \cup {RemoveAt(d, i) : i \in 1..Len(d)}
      \cup {ReplaceAt(d, i, b) : i \in 1..Len(d), b \in Alphabet}

Short == UNION {[1..n -> Alphabet] : n \in 0..2}

MCTexts ==
  LET texts == Short \cup UNION {Edits(Documents[k]) : k \in DOMAIN Documents}
  IN texts \cup {Append(t, 0) : t \in texts}

MCOthers ==
  LET leaf(type, num, str) == Item(type, num, str, <<>>)
      named(item, key) == [item EXCEPT !.key = key]
      one == leaf("number", 1, <<>>)
      true == leaf("true", 0, <<>>)
  IN {one, leaf("number", 2, <<>>), leaf("null", 0, <<>>),
      leaf("string", 0, <<>>),
      Item("array", 0, <<>>, <<>>), Item("object", 0, <<>>, <<>>),
      Item("array", 0, <<>>, <<one>>),
      Item("object", 0, <<>>, <<named(true, <<65>>), named(one, <<97>>)>>),
      Item("object", 0, <<>>, <<named(one, <<97>>)>>),
      Item("object", 0, <<>>, <<named(one, <<97>>), named(one, <<98>>)>>)}
=============================================================================
