----------------------------- MODULE CJsonParse -----------------------------
(***************************************************************************)
(* The parser of cJSON (cJSON_ParseWithLengthOpts and the functions it      *)
(* calls).  parse_value, parse_array and parse_object call each other; the  *)
(* calls under way are the stack, one frame for each open array or object   *)
(* with the items of its list.  Every allocation may fail.                  *)
(***************************************************************************)
EXTENDS CJsonString

CONSTANT NestingLimit \* CJSON_NESTING_LIMIT

ASSUME LimitAssumption == NestingLimit \in Nat

VARIABLES text,     \* the bytes the caller passes
          toEnd,    \* require_null_terminated
          mode,     \* what the parser does next
          off,      \* input_buffer->offset
          depth,    \* input_buffer->depth
          stack,    \* the open arrays and objects, innermost last
          value,    \* the item parsed last
          below,    \* memory blocks below that item
          blocks,   \* memory blocks that are allocated
          noMemory, \* history: an allocation has failed
          error     \* global_error.position, -1 when reset

parseVars == <<text, toEnd, mode, off, depth, stack, value, below, blocks,
               noMemory, error>>

\* An item as a reader sees it; key is <<>> outside objects.
Item(type, num, str, kids) ==
  [type |-> type, num |-> num, str |-> str, kids |-> kids, key |-> <<>>]

NoItem == Item("invalid", 0, <<>>, <<>>)

Literals == << <<"null", <<110, 117, 108, 108>>, 4>>,
               <<"false", <<102, 97, 108, 115, 101>>, 5>>,
               <<"true", <<116, 114, 117, 101>>, 4>> >>

ParseInit(texts) ==
  /\ text \in texts
  /\ toEnd \in BOOLEAN
  /\ mode = "start"
  /\ off = 0 /\ depth = 0
  /\ stack = <<>> /\ value = NoItem
  /\ below = 0 /\ blocks = 0 /\ noMemory = FALSE
  /\ error = -1

Fixed == UNCHANGED <<text, toEnd>>

At(i, c) == Readable(text, i, 0) /\ Byte(text, i) = c

Fail(o) == mode' = "fail" /\ off' = o

OutOfMemory(o) == Fail(o) /\ noMemory' = TRUE

InFrame(n) == [stack EXCEPT ![Len(stack)].owns = @ + n]

-----------------------------------------------------------------------------
\* cJSON_New_Item for the root, the byte order mark and leading blanks
Start ==
  /\ mode = "start"
  /\ \/ /\ Len(text) > 0
        /\ blocks' = 1
        /\ mode' = "value"
        /\ off' = SkipBlanks(text, SkipBom(text))
        /\ UNCHANGED noMemory
     \/ /\ Len(text) = 0
        /\ mode' = "no root"
        /\ UNCHANGED <<off, blocks, noMemory>>
     \/ /\ mode' = "no root"
        /\ noMemory' = TRUE
        /\ UNCHANGED <<off, blocks>>
  /\ Fixed /\ UNCHANGED <<depth, stack, value, below, error>>

\* parse_value: null, false and true
ParseLiteral ==
  /\ mode = "value"
  /\ \E k \in DOMAIN Literals :
       /\ StartsWith(text, off, Literals[k][2])
       /\ value' = Item(Literals[k][1], 0, <<>>, <<>>)
       /\ off' = off + Literals[k][3]
  /\ mode' = "parsed"
  /\ below' = 0
  /\ Fixed /\ UNCHANGED <<depth, stack, blocks, noMemory, error>>

\* parse_string for a value; a string that goes wrong is freed
ParseString ==
  /\ mode = "value"
  /\ At(off, Quote)
  /\ LET got == StringAt(text, off)
     IN \/ /\ got.ok
           /\ value' = Item("string", 0, got.str, <<>>)
           /\ off' = got.off
           /\ mode' = "parsed"
           /\ below' = 1 /\ blocks' = blocks + 1
           /\ UNCHANGED noMemory
        \/ /\ ~got.ok
           /\ Fail(got.off)
           /\ UNCHANGED <<value, below, blocks, noMemory>>
        \/ /\ got.needs
           /\ OutOfMemory(off + 1)
           /\ UNCHANGED <<value, below, blocks>>
  /\ Fixed /\ UNCHANGED <<depth, stack, error>>

\* parse_number: its copy of the digits is freed on every path
ParseNumber ==
  /\ mode = "value"
  /\ Readable(text, off, 0) /\ Byte(text, off) \in Digits \cup {Minus}
  /\ LET got == NumberAt(text, off)
     IN \/ /\ got.ok
           /\ value' = Item("number", got.num, <<>>, <<>>)
           /\ off' = got.off
           /\ mode' = "parsed"
           /\ below' = 0
           /\ UNCHANGED noMemory
        \/ ~got.ok /\ Fail(off) /\ UNCHANGED <<value, below, noMemory>>
        \/ OutOfMemory(off) /\ UNCHANGED <<value, below>>
  /\ Fixed /\ UNCHANGED <<depth, stack, blocks, error>>

TooDeep == depth >= NestingLimit

\* parse_array and parse_object up to their first item
Open(kind, open, close) ==
  /\ mode = "value"
  /\ At(off, open)
  /\ LET next == SkipBlanks(text, off + 1)
     IN \/ TooDeep /\ Fail(off) /\ UNCHANGED <<depth, stack, value, below>>
        \/ /\ ~TooDeep
           /\ At(next, close)
           /\ value' = Item(kind, 0, <<>>, <<>>)
           /\ below' = 0
           /\ off' = next + 1
           /\ mode' = "parsed"
           /\ UNCHANGED <<depth, stack>>
        \/ /\ ~TooDeep
           /\ depth' = depth + 1
           /\ ~Readable(text, next, 0)
           /\ Fail(next - 1)
           /\ UNCHANGED <<stack, value, below>>
        \/ /\ ~TooDeep
           /\ depth' = depth + 1
           /\ Readable(text, next, 0) /\ ~At(next, close)
           /\ off' = next - 1
           /\ mode' = "item"
           /\ stack' = Append(stack, [kind |-> kind, close |-> close,
                                      kids |-> <<>>, key |-> <<>>, owns |-> 0])
           /\ UNCHANGED <<value, below>>
  /\ Fixed /\ UNCHANGED <<blocks, noMemory, error>>

ParseArray == Open("array", OpenList, CloseList)

ParseObject == Open("object", OpenMap, CloseMap)

\* parse_value when nothing fits
ParseNothing ==
  /\ mode = "value"
  /\ \A k \in DOMAIN Literals : ~StartsWith(text, off, Literals[k][2])
  /\ \A c \in {Quote, Minus, OpenList, OpenMap} \cup Digits : ~At(off, c)
  /\ Fail(off)
  /\ Fixed /\ UNCHANGED <<depth, stack, value, below, blocks, noMemory, error>>

\* The top of the loop: a new item for the list, behind the bracket or comma.
NextItem ==
  /\ mode = "item"
  /\ \/ /\ blocks' = blocks + 1
        /\ stack' = InFrame(1)
        /\ IF Last(stack).kind = "array"
           THEN mode' = "value" /\ off' = SkipBlanks(text, off + 1)
           ELSE IF ~Readable(text, off, 1) THEN Fail(off)
           ELSE mode' = "key" /\ off' = SkipBlanks(text, off + 1)
        /\ UNCHANGED noMemory
     \/ OutOfMemory(off) /\ UNCHANGED <<stack, blocks>>
  /\ Fixed /\ UNCHANGED <<depth, value, below, error>>

\* parse_object: the name and the colon
ParseKey ==
  /\ mode = "key"
  /\ LET got == StringAt(text, off)
         colon == SkipBlanks(text, got.off)
     IN \/ /\ got.ok
           /\ blocks' = blocks + 1
           /\ stack' = [InFrame(1) EXCEPT ![Len(stack)].key = got.str]
           /\ IF At(colon, Colon)
              THEN mode' = "value" /\ off' = SkipBlanks(text, colon + 1)
              ELSE Fail(colon)
           /\ UNCHANGED noMemory
        \/ ~got.ok /\ Fail(got.off) /\ UNCHANGED <<stack, blocks, noMemory>>
        \/ got.needs /\ OutOfMemory(off + 1) /\ UNCHANGED <<stack, blocks>>
  /\ Fixed /\ UNCHANGED <<depth, value, below, error>>

\* The item of the innermost list has its value: a comma, the end of the list,
\* or neither.
Parsed ==
  /\ mode = "parsed"
  /\ stack # <<>>
  /\ LET frame == Last(stack)
         next == SkipBlanks(text, off)
         kids == Append(frame.kids, [value EXCEPT !.key = frame.key])
         owns == frame.owns + below
     IN \/ /\ At(next, Comma)
           /\ mode' = "item" /\ off' = next
           /\ stack' = [stack EXCEPT ![Len(stack)].kids = kids,
                                     ![Len(stack)].owns = owns]
           /\ UNCHANGED <<depth, value, below>>
        \/ /\ At(next, frame.close)
           /\ mode' = "parsed" /\ off' = next + 1
           /\ depth' = depth - 1
           /\ value' = Item(frame.kind, 0, <<>>, kids)
           /\ below' = owns
           /\ stack' = Front(stack)
        \/ /\ ~At(next, Comma) /\ ~At(next, frame.close)
           /\ Fail(next)
           /\ stack' = [stack EXCEPT ![Len(stack)].owns = owns]
           /\ UNCHANGED <<depth, value, below>>
  /\ Fixed /\ UNCHANGED <<blocks, noMemory, error>>

\* cJSON_ParseWithLengthOpts after parse_value has returned true
Finish ==
  /\ mode = "parsed"
  /\ stack = <<>>
  /\ IF ~toEnd THEN mode' = "ok" /\ UNCHANGED off
     ELSE LET next == SkipBlanks(text, off)
          IN /\ off' = next
             /\ mode' = IF At(next, 0) THEN "ok" ELSE "bad end"
  /\ Fixed /\ UNCHANGED <<depth, stack, value, below, blocks, noMemory, error>>

\* mutant
FreedNothing == 0

FreedList == Last(stack).owns

\* Each call that fails deletes its list and fails its caller.
Unwind ==
  /\ mode = "fail"
  /\ stack # <<>>
  /\ blocks' = blocks - FreedList
  /\ stack' = Front(stack)
  /\ Fixed /\ UNCHANGED <<mode, off, depth, value, below, noMemory, error>>

\* The root is deleted, with what has been parsed if only the end was wrong;
\* the error is where the parser stood, or the last byte.
GiveUp ==
  /\ \/ mode = "no root" /\ UNCHANGED blocks
     \/ mode = "fail" /\ stack = <<>> /\ blocks' = blocks - 1
     \/ mode = "bad end" /\ blocks' = blocks - 1 - below
  /\ mode' = "failed"
  /\ error' = IF off < Len(text) THEN off
              ELSE IF Len(text) > 0 THEN Len(text) - 1 ELSE 0
  /\ Fixed /\ UNCHANGED <<off, depth, stack, value, below, noMemory>>

ParseNext ==
  \/ Start \/ ParseLiteral \/ ParseString \/ ParseNumber \/ ParseArray
  \/ ParseObject \/ ParseNothing \/ NextItem \/ ParseKey \/ Parsed \/ Finish
  \/ Unwind \/ GiveUp
=============================================================================
