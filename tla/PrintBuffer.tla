----------------------------- MODULE PrintBuffer -----------------------------
(***************************************************************************)
(* The buffer cJSON prints into (printbuffer, ensure and update_offset in   *)
(* utility/cJSON/cJSON.c): the caller's own, of a fixed length, or one that *)
(* is reallocated as it fills.  A chunk is printed in three moves: ask for  *)
(* room, write, advance the offset.                                         *)
(***************************************************************************)
EXTENDS Integers

CONSTANT IntMax \* INT_MAX

ASSUME IntMaxAssumption == IntMax \in Nat

VARIABLES length,   \* size of the buffer, 0 when it is gone
          offset,   \* where the next chunk goes
          noalloc,  \* the buffer is the caller's and must not be reallocated
          held,     \* there is a buffer
          reach     \* history: one past the last byte written so far

bufferVars == <<length, offset, noalloc, held, reach>>

BufferInit ==
  /\ length \in Nat
  /\ offset = 0
  /\ noalloc \in BOOLEAN
  /\ held = TRUE
  /\ reach = 0

\* mutant: no byte more
NeededShort(needed) == needed + offset

\* mutant: the offset is counted twice
NeededTwice(needed) == needed + 2 * offset + 1

\* ensure asks for one byte more than its caller
Needed(needed) == needed + offset + 1

OffsetValid == length = 0 \/ offset < length

Fits(needed) == Needed(needed) <= length

NewSize(needed) ==
  IF Needed(needed) > IntMax \div 2 THEN IntMax ELSE Needed(needed) * 2

MayGrow(needed) == ~noalloc /\ Needed(needed) <= IntMax

\* ensure gives NULL: no buffer, a stale offset, a size beyond int, or no more
\* room in the caller's buffer
Refuses(needed) ==
  \/ ~held \/ ~OffsetValid
  \/ needed > IntMax
  \/ ~Fits(needed) /\ ~MayGrow(needed)

Grants(needed) == ~Refuses(needed)

\* realloc may fail, and then the old buffer is freed
Lose(needed) ==
  /\ Grants(needed) /\ ~Fits(needed)
  /\ held' = FALSE /\ length' = 0
  /\ UNCHANGED <<offset, noalloc, reach>>

\* A chunk of n bytes and z zero bytes behind it (0 or 1), for which the code
\* asks for needed bytes: the offset moves behind the chunk but not behind its
\* zero.
Put(n, z, needed) ==
  /\ Grants(needed)
  /\ length' = IF Fits(needed) THEN length ELSE NewSize(needed)
  /\ offset' = offset + n
  /\ reach' = offset + n + z
  /\ UNCHANGED <<noalloc, held>>

\* What every caller of ensure keeps to: it writes no more than it asks for.
Honest(n, z, needed) == n + z <= needed

BufferNext ==
  \E n \in Nat, z \in {0, 1}, needed \in Nat :
    Honest(n, z, needed) /\ (Put(n, z, needed) \/ Lose(needed))

BufferSpec == BufferInit /\ [][BufferNext]_bufferVars

-----------------------------------------------------------------------------
(* Properties.                                                              *)

\* Nothing is ever written past the buffer, whether it is the caller's or has
\* grown, and the next offset still lies inside it.
WritesFit == held => reach <= length /\ (reach > 0 => offset < length)
=============================================================================
