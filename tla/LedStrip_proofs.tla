--------------------------- MODULE LedStrip_proofs ---------------------------
(***************************************************************************)
(* LedStrip for every number of LEDs, every length of a byte and every size *)
(* of the channel's memory.                                                 *)
(***************************************************************************)
EXTENDS LedStrip, SequenceTheorems, TLAPS

-----------------------------------------------------------------------------
(* Creation.                                                                *)

Parts == {"strip", "channel", "encoder", "bytes", "copy"}

\* What has been allocated when each part is asked for.
MadeSoFar ==
    /\ pc = "strip" => made = {}
    /\ pc = "channel" => made = {"strip"}
    /\ pc = "encoder" => made = {"strip", "channel"}
    /\ pc = "bytes" => made = {"strip", "channel", "encoder"}
    /\ pc = "copy" => made = {"strip", "channel", "encoder", "bytes"}
    /\ pc \in {"clear", "enable", "full", "half", "sent", "blink"} =>
           made = Parts
    /\ pc = "failed" => made \in {{}, Parts}

\* The order of the allocations, as the provers need it.
LEMMA OrderIs ==
  /\ DOMAIN Order = {1, 2, 3, 4, 5} /\ Len(Order) = 5
  /\ Order[1] = "strip" /\ Order[2] = "channel" /\ Order[3] = "encoder"
  /\ Order[4] = "bytes" /\ Order[5] = "copy"
BY DEF Order

\* One allocation, or the way back through both error paths.
LEMMA MakeStep ==
  ASSUME MadeSoFar, NEW k \in DOMAIN Order, Make(k)
  PROVE  MadeSoFar'
<1>1. CASE k = 1
  BY <1>1, OrderIs
     DEF Make, MadeSoFar, Parts, DeviceUndone, EncoderUndone, EncoderParts
<1>2. CASE k = 2
  BY <1>2, OrderIs
     DEF Make, MadeSoFar, Parts, DeviceUndone, EncoderUndone, EncoderParts
<1>3. CASE k = 3
  BY <1>3, OrderIs
     DEF Make, MadeSoFar, Parts, DeviceUndone, EncoderUndone, EncoderParts
<1>4. CASE k = 4
  BY <1>4, OrderIs
     DEF Make, MadeSoFar, Parts, DeviceUndone, EncoderUndone, EncoderParts
<1>5. CASE k = 5
  BY <1>5, OrderIs
     DEF Make, MadeSoFar, Parts, DeviceUndone, EncoderUndone, EncoderParts
<1> QED BY <1>1, <1>2, <1>3, <1>4, <1>5, OrderIs

\* A strip that could not be created leaves nothing allocated, on either level.
THEOREM NothingIsLeft == Spec => []AllOrNothing
<1>1. Init => MadeSoFar
  BY DEF Init, MadeSoFar
<1>2. MadeSoFar /\ [Next]_vars => MadeSoFar'
  <2> SUFFICES ASSUME MadeSoFar, [Next]_vars PROVE MadeSoFar'
    OBVIOUS
  <2>1. ASSUME NEW k \in DOMAIN Order, Make(k) PROVE MadeSoFar'
    BY <2>1, MakeStep
  <2>2. CASE Clear \/ SetPixel \/ Transmit
    BY <2>2 DEF Clear, SetPixel, Transmit, MadeSoFar
  <2>3. ASSUME NEW room, Encode(room), pc \in {"full", "half"} PROVE MadeSoFar'
    BY <2>3 DEF Encode, MadeSoFar
  <2>4. CASE Disable \/ RmtFails \/ Reset
    BY <2>4 DEF Disable, RmtFails, Reset, MadeSoFar
  <2>5. CASE UNCHANGED vars
    BY <2>5 DEF vars, MadeSoFar
  <2> QED BY <2>1, <2>2, <2>3, <2>4, <2>5 DEF Next, EncodeFirst, EncodeMore
<1>3. MadeSoFar => AllOrNothing
  <2>1. {Order[k] : k \in DOMAIN Order} = Parts
    BY OrderIs DEF Parts
  <2> QED BY <2>1 DEF MadeSoFar, AllOrNothing
<1> QED BY <1>1, <1>2, <1>3, PTL DEF Spec

-----------------------------------------------------------------------------
(* Sending.                                                                 *)

Levels == {pixel_buf[i] : i \in Int} \union {ResetCode}

Pixels == Data(0, Symbols)
Frame == Pixels \o <<ResetCode>>

\* The data of a refresh is a finite row of levels.
LEMMA DataIsASequence ==
  ASSUME NEW from \in Nat, NEW n \in Nat
  PROVE  /\ Data(from, n) \in Seq(Levels)
         /\ Len(Data(from, n)) = n
         /\ \A s \in 1..n :
              Data(from, n)[s] = pixel_buf[(from + s - 1) \div Bits + 1]
<1>1. \A s \in 1..n : (from + s - 1) \div Bits + 1 \in Int
  BY LedAssumption
<1>2. Data(from, n) \in [1..n -> Levels]
  BY <1>1 DEF Data, Levels
<1>3. Data(from, n) \in Seq(Levels)
  BY <1>2
<1>4. Len(Data(from, n)) = n
  BY <1>2, <1>3
<1> QED BY <1>3, <1>4 DEF Data

LEMMA SymbolsType == Symbols \in Nat
BY LedAssumption DEF Symbols, Size, BytesPerPixel

\* A piece of the data is a piece of the whole.
LEMMA DataIsAPiece ==
  ASSUME NEW from \in Nat, NEW n \in Nat, from + n <= Symbols
  PROVE  Data(from, n) = SubSeq(Pixels, from + 1, from + n)
<1> DEFINE piece == SubSeq(Pixels, from + 1, from + n)
<1>1. /\ Pixels \in Seq(Levels) /\ Len(Pixels) = Symbols
      /\ \A s \in 1..Symbols : Pixels[s] = pixel_buf[(0 + s - 1) \div Bits + 1]
  BY DataIsASequence, SymbolsType DEF Pixels
<1>2. \A i \in (from + 1)..(from + n) : Pixels[i] \in Levels
  BY <1>1, SymbolsType, ElementOfSeq
<1>3. /\ piece \in Seq(Levels) /\ Len(piece) = n
      /\ \A i \in 1..n : piece[i] = Pixels[from + i]
  <2>1. from + 1 \in Int /\ from + n \in Int
    OBVIOUS
  <2> HIDE DEF Pixels
  <2>2. /\ piece \in Seq(Levels)
        /\ Len(piece) = IF from + 1 <= from + n THEN from + n - (from + 1) + 1
                        ELSE 0
        /\ \A i \in 1..(from + n - (from + 1) + 1) :
             piece[i] = Pixels[from + 1 + i - 1]
    BY <1>2, <2>1, SubSeqProperties
  <2> QED BY <2>2
<1>4. ASSUME NEW i \in 1..n PROVE Data(from, n)[i] = piece[i]
  <2>1. from + i \in 1..Symbols
    BY SymbolsType
  <2>2. Pixels[from + i] = pixel_buf[(0 + (from + i) - 1) \div Bits + 1]
    BY <1>1, <2>1
  <2>3. 0 + (from + i) - 1 = from + i - 1
    OBVIOUS
  <2> QED BY <1>3, <2>2, <2>3, DataIsASequence
<1>5. /\ Data(from, n) \in Seq(Levels) /\ Len(Data(from, n)) = n
  BY DataIsASequence
<1> HIDE DEF piece
<1>6. Data(from, n) = piece
  BY <1>3, <1>4, <1>5, SeqEqual
<1> QED BY <1>6 DEF piece

\* Where the encoder stands, and what the channel has sent by then.
Progress ==
    /\ memory \in Memories
    /\ state \in {0, 1} /\ index \in 0..Symbols
    /\ pc # "half" => state = 0 /\ index = 0
    /\ pc = "full" => wave = <<>>
    /\ pc = "half" /\ state = 0 => wave = SubSeq(Pixels, 1, index)
    /\ pc = "half" /\ state = 1 => wave = Pixels /\ index = 0
    /\ pc = "sent" => wave = Frame

\* Between two calls of the encoder the next piece continues the last.
LEMMA PiecesJoin ==
  ASSUME NEW i \in 0..Symbols, NEW n \in Nat, i + n <= Symbols
  PROVE  SubSeq(Pixels, 1, i) \o Data(i, n) = SubSeq(Pixels, 1, i + n)
<1>1. Pixels \in Seq(Levels) /\ Len(Pixels) = Symbols
  BY DataIsASequence, SymbolsType DEF Pixels
<1>2. Data(i, n) = SubSeq(Pixels, i + 1, i + n)
  BY DataIsAPiece, SymbolsType
<1>3. 1 \in 1..(Len(Pixels) + 1) /\ i \in (1 - 1)..Len(Pixels)
      /\ i + n \in i..Len(Pixels)
  BY <1>1, SymbolsType
<1> HIDE DEF Pixels
<1>4. SubSeq(Pixels, 1, i) \o SubSeq(Pixels, i + 1, i + n)
        = SubSeq(Pixels, 1, i + n)
  BY <1>1, <1>3, ConcatAdjacentSubSeq
<1> QED BY <1>2, <1>4

LEMMA WholePiece ==
  /\ SubSeq(Pixels, 1, Symbols) = Pixels
  /\ SubSeq(Pixels, 1, 0) = <<>>
  /\ Data(0, 0) = <<>>
  /\ Pixels \o <<>> = Pixels
<1>1. Pixels \in Seq(Levels) /\ Len(Pixels) = Symbols
  BY DataIsASequence, SymbolsType DEF Pixels
<1>2. Data(0, 0) \in Seq(Levels) /\ Len(Data(0, 0)) = 0
  BY DataIsASequence
<1> HIDE DEF Pixels
<1>3. SubSeq(Pixels, 1, Symbols) = Pixels
  BY <1>1, SubSeqFull
<1>4. SubSeq(Pixels, 1, 0) = <<>>
  BY SubSeqEmpty
<1>5. Data(0, 0) = <<>>
  BY <1>2, EmptySeq
<1>6. Pixels \o <<>> = Pixels
  BY <1>1, ConcatEmptySeq
<1> QED BY <1>3, <1>4, <1>5, <1>6

LEMMA NothingMore ==
  ASSUME NEW i \in 0..Symbols
  PROVE  SubSeq(Pixels, 1, i) \o <<>> = SubSeq(Pixels, 1, i)
<1>1. Pixels \in Seq(Levels) /\ Len(Pixels) = Symbols
  BY DataIsASequence, SymbolsType DEF Pixels
<1> HIDE DEF Pixels
<1>2. \A j \in 1..i : Pixels[j] \in Levels
  BY <1>1, ElementOfSeq, SymbolsType
<1>3. SubSeq(Pixels, 1, i) \in Seq(Levels)
  BY <1>2, SubSeqProperties, SymbolsType
<1> QED BY <1>3, ConcatEmptySeq

\* Where a call of the encoder leaves off, by how much room it had.
LEMMA EncodeCases ==
  ASSUME NEW room \in Nat, index \in 0..Symbols, state \in {0, 1}, Encode(room)
  PROVE  LET rest == Symbols - index
         IN /\ state = 0 /\ room < rest =>
                 /\ wave' = (wave \o Data(index, room)) \o <<>>
                 /\ index' = index + room /\ state' = 0 /\ pc' = "half"
            /\ state = 0 /\ room = rest =>
                 /\ wave' = (wave \o Data(index, rest)) \o <<>>
                 /\ index' = 0 /\ state' = 1 /\ pc' = "half"
            /\ state = 0 /\ room > rest =>
                 /\ wave' = (wave \o Data(index, rest)) \o <<ResetCode>>
                 /\ index' = 0 /\ state' = 0 /\ pc' = "sent"
            /\ state = 1 =>
                 /\ wave' = (wave \o Data(index, 0)) \o <<ResetCode>>
                 /\ index' = 0 /\ state' = 0 /\ pc' = "sent"
<1> DEFINE rest == Symbols - index
           n == IF state = 1 THEN 0 ELSE IF room < rest THEN room ELSE rest
           ends == state = 1 \/ rest <= room
           full == state = 0 /\ room <= rest
<1>1. /\ wave' = (wave \o Data(index, n)) \o (IF full THEN <<>> ELSE <<ResetCode>>)
      /\ index' = IF ends THEN 0 ELSE index + n
      /\ state' = NextState(ends, full)
      /\ pc' = IF full THEN "half" ELSE "sent"
  BY Zenon DEF Encode
<1>2. rest \in Nat
  BY SymbolsType
<1>3. CASE state = 1
  <2>1. n = 0 /\ ends /\ ~full /\ ~(state = 0)
    BY <1>3
  <2> HIDE DEF n, ends, full
  <2> QED BY <1>1, <1>3, <2>1, Zenon DEF NextState
<1>4. CASE state = 0 /\ room < rest
  <2>1. n = room /\ ~ends /\ full /\ ~(room = rest) /\ ~(room > rest)
    BY <1>2, <1>4
  <2> HIDE DEF n, ends, full
  <2> QED BY <1>1, <1>4, <2>1 DEF NextState
<1>5. CASE state = 0 /\ room = rest
  <2>1. n = rest /\ ends /\ full /\ ~(room < rest) /\ ~(room > rest)
    BY <1>2, <1>5
  <2> HIDE DEF n, ends, full
  <2> QED BY <1>1, <1>5, <2>1 DEF NextState
<1>6. CASE state = 0 /\ room > rest
  <2>1. n = rest /\ ends /\ ~full /\ ~(room < rest) /\ ~(room = rest)
    BY <1>2, <1>6
  <2> HIDE DEF n, ends, full
  <2> QED BY <1>1, <1>6, <2>1 DEF NextState
<1> QED BY <1>2, <1>3, <1>4, <1>5, <1>6

\* One call of the encoder, wherever the memory fills up.
LEMMA EncodeStep ==
  ASSUME Progress, NEW room \in Nat, pc \in {"full", "half"}, Encode(room)
  PROVE  Progress'
<1> DEFINE rest == Symbols - index
<1>1. Pixels' = Pixels /\ Frame' = Frame /\ Symbols' = Symbols
      /\ memory' = memory
  BY DEF Encode, Pixels, Frame, Data, Symbols, Size
<1>2. /\ memory' \in Memories /\ index \in 0..Symbols /\ state \in {0, 1}
      /\ rest \in Nat /\ index + rest = Symbols
  BY <1>1, SymbolsType DEF Progress
<1> HIDE DEF Pixels, Frame, rest, Symbols
<1>a. ASSUME state' = 0, index' = 0, pc' = "sent", wave' = Frame PROVE Progress'
  BY <1>1, <1>2, <1>a, SymbolsType DEF Progress
<1>b. ASSUME state' = 1, index' = 0, pc' = "half", wave' = Pixels PROVE Progress'
  BY <1>1, <1>2, <1>b, SymbolsType DEF Progress
<1>3. CASE state = 0
  <2>1. wave = SubSeq(Pixels, 1, index)
    BY <1>3, WholePiece, Zenon DEF Progress
  <2>2. CASE room < rest
    <3>1. /\ wave' = (wave \o Data(index, room)) \o <<>>
          /\ index' = index + room /\ state' = 0 /\ pc' = "half"
      BY <1>2, <1>3, <2>2, EncodeCases DEF rest
    <3>2. index + room \in 0..Symbols /\ index + room <= Symbols
      BY <1>2, <2>2, SymbolsType
    <3>3. wave' = SubSeq(Pixels, 1, index + room)
      BY <1>2, <2>1, <3>1, <3>2, PiecesJoin, NothingMore, Zenon
    <3>4. wave' = SubSeq(Pixels', 1, index') /\ index' \in 0..Symbols'
      BY <1>1, <3>1, <3>2, <3>3, Zenon
    <3>5. state' \in {0, 1} /\ state' # 1 /\ pc' # "full" /\ pc' # "sent"
      BY <3>1
    <3> QED BY <1>2, <3>1, <3>4, <3>5, Zenon DEF Progress
  <2>3. CASE room = rest
    <3>1. /\ wave' = (wave \o Data(index, rest)) \o <<>>
          /\ index' = 0 /\ state' = 1 /\ pc' = "half"
      BY <1>2, <1>3, <2>3, EncodeCases DEF rest
    <3>2. index + rest \in 0..Symbols /\ index + rest <= Symbols
      BY <1>2, SymbolsType
    <3>3. wave' = SubSeq(Pixels, 1, index + rest)
      BY <1>2, <2>1, <3>1, <3>2, PiecesJoin, NothingMore, Zenon
    <3>4. wave' = Pixels
      BY <1>2, <3>3, WholePiece, Zenon
    <3> QED BY <1>b, <3>1, <3>4
  <2>4. CASE room > rest
    <3>1. /\ wave' = (wave \o Data(index, rest)) \o <<ResetCode>>
          /\ index' = 0 /\ state' = 0 /\ pc' = "sent"
      BY <1>2, <1>3, <2>4, EncodeCases DEF rest
    <3>2. index + rest <= Symbols
      BY <1>2, SymbolsType
    <3>3. wave \o Data(index, rest) = Pixels
      BY <1>2, <2>1, <3>2, PiecesJoin, WholePiece, Zenon
    <3>4. wave' = Frame
      BY <3>1, <3>3, Zenon DEF Frame
    <3> QED BY <1>a, <3>1, <3>4
  <2> QED BY <1>2, <2>2, <2>3, <2>4
<1>4. CASE state = 1
  <2>1. wave = Pixels /\ index = 0
    BY <1>4 DEF Progress
  <2>2. wave' = (wave \o Data(index, 0)) \o <<ResetCode>>
        /\ index' = 0 /\ state' = 0 /\ pc' = "sent"
    BY <1>2, <1>4, EncodeCases
  <2>3. wave' = Frame
    BY <2>1, <2>2, WholePiece, Zenon DEF Frame
  <2> QED BY <1>a, <2>2, <2>3
<1> QED BY <1>2, <1>3, <1>4

\* The channel's room is a number of symbols.
LEMMA RoomType ==
  ASSUME memory \in Memories
  PROVE  memory \in Nat /\ memory \div 2 \in Nat
BY LedAssumption

\* A part of the frame is what the channel has sent, and the frame at last.
LEMMA FrameIsKept ==
  ASSUME Progress
  PROVE  WholeFrames
<1>1. /\ Pixels \in Seq(Levels) /\ Len(Pixels) = Symbols
      /\ <<ResetCode>> \in Seq(Levels) /\ Len(<<ResetCode>>) = 1
  <2>1. /\ Pixels \in Seq(Levels) /\ Len(Pixels) = Symbols
    BY DataIsASequence, SymbolsType DEF Pixels
  <2>2. ResetCode \in Levels
    BY DEF Levels
  <2> HIDE DEF Pixels, Levels
  <2>3. <<ResetCode>> \in Seq(Levels) /\ Len(<<ResetCode>>) = 1
    BY <2>2
  <2> QED BY <2>1, <2>3
<1>2. Frame \in Seq(Levels) /\ Len(Frame) = Symbols + 1
  <2> HIDE DEF Pixels
  <2> QED BY <1>1, ConcatProperties DEF Frame
<1>3. SubSeq(Frame, 1, Symbols + 1) = Frame
  <2> HIDE DEF Frame
  <2> QED BY <1>2, SubSeqFull
<1>4. ASSUME NEW i \in 0..Symbols
      PROVE  /\ SubSeq(Frame, 1, i) = SubSeq(Pixels, 1, i)
             /\ Len(SubSeq(Pixels, 1, i)) = i
  <2>1. CASE i = 0
    <3>1. SubSeq(Frame, 1, 0) = <<>> /\ SubSeq(Pixels, 1, 0) = <<>>
      BY SubSeqEmpty
    <3> QED BY <2>1, <3>1
  <2>2. CASE i # 0
    <3>1. 1 \in 1..Len(Pixels) /\ i \in 1..Len(Pixels)
      BY <1>1, <2>2, SymbolsType
    <3> HIDE DEF Pixels
    <3>2. SubSeq(Frame, 1, i) = SubSeq(Pixels, 1, i)
      BY <1>1, <3>1, SubSeqOfConcat1 DEF Frame
    <3>3. \A j \in 1..i : Pixels[j] \in Levels
      BY <1>1, <3>1, ElementOfSeq
    <3>4. Len(SubSeq(Pixels, 1, i)) = IF 1 <= i THEN i - 1 + 1 ELSE 0
      BY <3>3, SubSeqProperties
    <3> QED BY <2>2, <3>2, <3>4, SymbolsType
  <2> QED BY <2>1, <2>2
<1>5. pc = "half" => /\ Len(wave) <= Len(Frame)
                     /\ wave = SubSeq(Frame, 1, Len(wave))
  <2> SUFFICES ASSUME pc = "half"
               PROVE  Len(wave) <= Len(Frame) /\ wave = SubSeq(Frame, 1, Len(wave))
    OBVIOUS
  <2>1. PICK i \in 0..Symbols : wave = SubSeq(Pixels, 1, i)
    <3>1. CASE state = 0
      BY <3>1 DEF Progress
    <3>2. CASE state = 1
      BY <3>2, WholePiece, SymbolsType DEF Progress
    <3> QED BY <3>1, <3>2 DEF Progress
  <2>2. Len(wave) = i /\ SubSeq(Frame, 1, i) = wave
    BY <1>4, <2>1
  <2> QED BY <1>2, <2>2, SymbolsType
<1>6. pc = "sent" => /\ wave = Frame /\ state = 0 /\ index = 0
                     /\ Len(wave) <= Len(Frame)
                     /\ wave = SubSeq(Frame, 1, Len(wave))
  BY <1>2, <1>3, SymbolsType DEF Progress
<1> QED BY <1>5, <1>6 DEF WholeFrames, Frame, Pixels

\* A refresh sends every bit of every pixel once and in order, then one reset
\* code, wherever the memory of the channel fills up.
THEOREM FramesAreWhole == Spec => []WholeFrames
<1>1. Init => Progress
  BY SymbolsType DEF Init, Progress
<1>2. Progress /\ [Next]_vars => Progress'
  <2> SUFFICES ASSUME Progress, [Next]_vars PROVE Progress'
    OBVIOUS
  <2>1. ASSUME pc # "half", pc' \notin {"half", "sent"}, pc' = "full" => wave' = <<>>,
               state' = 0, index' = 0, memory' = memory
        PROVE  Progress'
    BY <2>1, SymbolsType DEF Progress, Symbols, Size
  <2>2. ASSUME NEW k \in DOMAIN Order, Make(k) PROVE Progress'
    BY <2>1, <2>2, OrderIs DEF Make, Progress
  <2>3. CASE Clear \/ SetPixel \/ Transmit \/ Reset
    BY <2>1, <2>3 DEF Clear, SetPixel, Transmit, Reset, Progress
  <2>4. CASE Disable \/ RmtFails
    BY <2>1, <2>4 DEF Disable, RmtFails, Progress
  <2>5. CASE EncodeFirst
    BY <2>5, EncodeStep, RoomType DEF EncodeFirst, Progress
  <2>6. CASE EncodeMore
    BY <2>6, EncodeStep, RoomType DEF EncodeMore, Progress
  <2>7. CASE UNCHANGED vars
    BY <2>7 DEF vars, Progress, Frame, Pixels, Data, Symbols, Size
  <2> QED BY <2>2, <2>3, <2>4, <2>5, <2>6, <2>7 DEF Next
<1>3. Progress => WholeFrames
  BY FrameIsKept
<1> QED BY <1>1, <1>2, <1>3, PTL DEF Spec
=============================================================================
