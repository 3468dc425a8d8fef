------------------------------ MODULE CJsonText ------------------------------
(***************************************************************************)
(* Text in and text out: a text is parsed (CJsonParse), and what it gave is *)
(* printed (CJsonPrint), with every allocation of both failing in turn.     *)
(* What the texts mean is in CJsonMeaning.                                  *)
(***************************************************************************)
EXTENDS CJsonParse, CJsonPrint

CONSTANTS Texts,     \* the texts to parse
          Sizes      \* buffer lengths a caller may ask for

ASSUME TextsAssumption == Texts \subseteq Seq(0..255)

ASSUME SizesAssumption == Sizes \subseteq Nat

VARIABLE format

vars == <<parseVars, printVars, format>>

Init ==
  /\ ParseInit(Texts)
  /\ PrintInit
  /\ format \in BOOLEAN

Parse == ParseNext /\ UNCHANGED <<printVars, format>>

BeginPrint ==
  /\ mode = "ok"
  /\ \/ Begin(value, "print", DefaultSize)
     \/ \E n \in Sizes, w \in {"buffered", "preallocated"} : Begin(value, w, n)
  /\ UNCHANGED <<parseVars, format>>

Print1 == PrintNext(format) /\ UNCHANGED <<parseVars, format>>

Done ==
  /\ mode = "failed" \/ printing \in {"done", "failed"}
  /\ UNCHANGED vars

Next == Parse \/ BeginPrint \/ Print1 \/ Done

Spec == Init /\ [][Next]_vars

-----------------------------------------------------------------------------
(* Properties.                                                              *)

\* The parser reads inside the text: the two places that read a byte without
\* looking (parse_string's opening quote, cJSON.c:826, and the step behind a
\* comma) are reached with a byte to read, and so is the place of the error.  It
\* writes inside its blocks: no string outgrows what parse_string estimates for
\* it from the quotes and backslashes (cJSON.c:857-858).
StaysInside ==
  /\ off <= Len(text) /\ depth <= NestingLimit
  /\ mode \in {"item", "key"} => off < Len(text)
  /\ mode = "failed" /\ Len(text) > 0 => error \in 0..(Len(text) - 1)
  /\ mode \in {"value", "key"} /\ At(off, Quote) =>
       LET got == StringAt(text, off) IN got.ok => Len(got.str) + 1 <= got.room

\* A parse that fails, at whatever byte or allocation, has freed all it took;
\* one that succeeds keeps just what its item owns.  A call that fails to print
\* leaves no buffer behind and has freed none twice.
FailureFreesAll ==
  /\ mode = "failed" => blocks = 0
  /\ mode = "ok" => blocks = 1 + below
  /\ printing = "failed" => buffers = 0
  /\ printing = "done" => buffers = IF noalloc THEN 0 ELSE 1
=============================================================================
