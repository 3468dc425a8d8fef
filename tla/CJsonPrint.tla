----------------------------- MODULE CJsonPrint -----------------------------
(***************************************************************************)
(* The printer of cJSON: print_value and the functions it calls, and the    *)
(* three ways to print (cJSON_Print and PrintUnformatted, PrintBuffered,    *)
(* PrintPreallocated).  The calls under way are a list of jobs: a chunk to  *)
(* write, or a value to take apart into jobs of its own.                    *)
(***************************************************************************)
EXTENDS PrintBuffer, CJsonString

CONSTANT DefaultSize \* the 256 bytes print() starts with

ASSUME DefaultSizeAssumption == DefaultSize \in Nat

VARIABLES way,      \* "print", "buffered" or "preallocated"; "" before
          size,     \* the length that was asked for
          jobs,     \* what is still to print, the next one first
          out,      \* the bytes printed so far
          printing, \* "idle", "busy", "done" or "failed"
          buffers   \* blocks the printer has allocated

printVars == <<length, offset, noalloc, held, reach, way, size, jobs, out,
               printing, buffers>>

Chunk(bytes, zero, needed) ==
  [op |-> "chunk", bytes |-> bytes, zero |-> zero, needed |-> needed,
   item |-> <<>>, depth |-> 0]

Value(item, depth) ==
  [op |-> "value", bytes |-> <<>>, zero |-> 0, needed |-> 0,
   item |-> item, depth |-> depth]

\* a chunk that asks for its bytes and a terminating zero
Ended(bytes) == Chunk(bytes, 1, Len(bytes) + 1)

Tabs(n) == [i \in 1..n |-> Tab]

\* INT_MIN is -IntMax - 1
Saturated(n) ==
  IF n >= IntMax THEN IntMax ELSE IF n <= -IntMax - 1 THEN -IntMax - 1 ELSE n

Constants == [null |-> <<110, 117, 108, 108>>, true |-> <<116, 114, 117, 101>>,
              false |-> <<102, 97, 108, 115, 101>>]

\* print_array; the opening bracket is not followed by a zero
ArrayJobs(kids, depth, format) ==
  <<Chunk(<<OpenList>>, 0, 1)>>
  \o FlattenSeq([i \in DOMAIN kids |->
       <<Value(kids[i], depth + 1)>>
       \o If(i < Len(kids), <<Ended(<<Comma>> \o If(format, <<Blank>>))>>)])
  \o <<Ended(<<CloseList>>)>>

\* the comma and the line end behind a member
MemberEnd(last, format) ==
  Ended(If(~last, <<Comma>>) \o If(format, <<Newline>>))

\* print_object; formatted, every member has a line, indented by its depth
ObjectJobs(kids, depth, format) ==
  LET open == <<OpenMap>> \o If(format, <<Newline>>)
      colon == <<Colon>> \o If(format, <<Tab>>)
  IN <<Chunk(open, 0, Len(open) + 1)>>
     \o FlattenSeq([i \in DOMAIN kids |->
          If(format, <<Chunk(Tabs(depth + 1), 0, depth + 1)>>)
          \o <<Ended(Escaped(kids[i].key)), Chunk(colon, 0, Len(colon)),
               Value(kids[i], depth + 1), MemberEnd(i = Len(kids), format)>>])
     \o <<Ended(If(format, Tabs(depth)) \o <<CloseMap>>)>>

\* print_value
JobsOf(item, depth, format) ==
  CASE item.type \in DOMAIN Constants -> <<Ended(Constants[item.type])>>
    [] item.type = "number" -> <<Ended(Decimal(item.num, Saturated(item.num)))>>
    [] item.type = "string" -> <<Ended(Escaped(item.str))>>
    [] item.type = "array" -> ArrayJobs(item.kids, depth, format)
    [] item.type = "object" -> ObjectJobs(item.kids, depth, format)

PrintInit ==
  /\ length = 0 /\ offset = 0 /\ noalloc = FALSE /\ held = FALSE /\ reach = 0
  /\ way = "" /\ size = 0
  /\ jobs = <<>> /\ out = <<>>
  /\ printing = "idle"
  /\ buffers = 0

\* The first buffer: malloc may fail, unless it is the caller's.
Begin(item, w, n) ==
  /\ printing = "idle"
  /\ way' = w /\ size' = n
  /\ noalloc' = (w = "preallocated")
  /\ \/ /\ printing' = "busy"
        /\ length' = n /\ held' = TRUE
        /\ jobs' = <<Value(item, 0)>>
        /\ buffers' = IF w = "preallocated" THEN 0 ELSE 1
     \/ /\ w # "preallocated"
        /\ printing' = "failed"
        /\ UNCHANGED <<length, held, jobs, buffers>>
  /\ UNCHANGED <<offset, reach, out>>

TakeApart(format) ==
  /\ printing = "busy" /\ jobs # <<>>
  /\ Head(jobs).op = "value"
  /\ jobs' = JobsOf(Head(jobs).item, Head(jobs).depth, format) \o Tail(jobs)
  /\ UNCHANGED <<length, offset, noalloc, held, reach, way, size, out, printing,
                 buffers>>

WriteChunk ==
  /\ printing = "busy" /\ jobs # <<>>
  /\ LET job == Head(jobs)
     IN /\ job.op = "chunk"
        /\ Put(Len(job.bytes), job.zero, job.needed)
        /\ out' = out \o job.bytes
  /\ jobs' = Tail(jobs)
  /\ UNCHANGED <<way, size, printing, buffers>>

\* The buffer a failed call gives back: none when realloc has failed, for
\* ensure has freed it, and none when it is the caller's.
FreeBuffer == IF noalloc \/ ~held THEN buffers ELSE buffers - 1

\* ensure finds no room: every call returns false and the buffer is freed
NoRoom ==
  /\ printing = "busy" /\ jobs # <<>>
  /\ Head(jobs).op = "chunk" /\ Refuses(Head(jobs).needed)
  /\ printing' = "failed"
  /\ jobs' = <<>>
  /\ buffers' = FreeBuffer
  /\ held' = FALSE
  /\ UNCHANGED <<length, offset, noalloc, reach, way, size, out>>

\* ensure cannot grow the buffer and frees it: the next call finds none
LoseBuffer ==
  /\ printing = "busy" /\ jobs # <<>>
  /\ Head(jobs).op = "chunk"
  /\ Lose(Head(jobs).needed)
  /\ buffers' = buffers - 1
  /\ UNCHANGED <<way, size, jobs, out, printing>>

\* print() shrinks its buffer to the text; if it cannot, it frees it
EndPrint ==
  /\ printing = "busy" /\ jobs = <<>>
  /\ \/ printing' = "done" /\ UNCHANGED buffers
     \/ way = "print" /\ printing' = "failed" /\ buffers' = FreeBuffer
  /\ UNCHANGED <<length, offset, noalloc, held, reach, way, size, jobs, out>>

PrintNext(format) ==
  \/ TakeApart(format) \/ WriteChunk \/ NoRoom \/ LoseBuffer \/ EndPrint
=============================================================================
