------------------------------ MODULE LedStrip ------------------------------
(***************************************************************************)
(* The LED: app/led_control on the led_strip component, whose RMT device    *)
(* keeps the pixels and whose encoder (led_strip_rmt_encoder.c) turns them  *)
(* into symbols as the channel's memory has room: the data, then one reset  *)
(* code.  The RMT driver and its two encoders, for bytes and for a copy,    *)
(* are external.                                                            *)
(***************************************************************************)
EXTENDS Integers, Sequences

CONSTANTS
    MaxLeds,    \* max_leds, 1 in led_control_init
    Bits,       \* symbols of a byte
    Memories    \* sizes of the channel's memory, in symbols (48)

ASSUME LedAssumption ==
    /\ MaxLeds \in Nat \ {0} /\ Bits \in Nat \ {0}
    /\ \A m \in Memories : m \in Nat \ {0} /\ m % 2 = 0

VARIABLES
    memory,     \* the size of the channel's memory
    pc,         \* what led_control does next
    made,       \* what has been allocated for the strip
    pixel_buf,  \* a byte is 0 or 255: all its bits are alike
    colour,     \* the colour the task shows next
    state,      \* led_encoder->state: 0 data, 1 reset code
    index,      \* external: symbols the bytes encoder has given so far
    wave        \* external: what the channel has sent since rmt_transmit

vars == <<memory, pc, made, pixel_buf, colour, state, index, wave>>

BytesPerPixel == 3
Size == MaxLeds * BytesPerPixel
Symbols == Size * Bits

\* LED_STRIP_COLOR_COMPONENT_FMT_GRB
Position == [red |-> 2, green |-> 1, blue |-> 3]

Dark == [b \in 1..Size |-> 0]

\* The first pixel in a colour (set_pixel), the others as they were
Painted(buf, c) ==
    [b \in 1..Size |-> IF b > BytesPerPixel THEN buf[b]
                       ELSE IF b = Position[c] THEN 255 ELSE 0]

Init ==
    /\ memory \in Memories
    /\ pc = "strip"
    /\ made = {} /\ pixel_buf = Dark /\ colour = "red"
    /\ state = 0 /\ index = 0 /\ wave = <<>>

-----------------------------------------------------------------------------
(* led_control_init: led_strip_new_rmt_device and the encoder it asks for.  *)

Order == <<"strip", "channel", "encoder", "bytes", "copy">>

EncoderParts == {"encoder", "bytes", "copy"}

\* mutant: the encoder's own allocation is forgotten on its error path
UndoneParts(parts) == parts \ {"bytes", "copy"}

\* the label err of rmt_new_led_strip_encoder
EncoderUndone(parts) == parts \ EncoderParts

\* the label err of led_strip_new_rmt_device, which has no encoder then
DeviceUndone(parts) == parts \ {"channel", "strip"}

\* One allocation, or the error paths, inner and outer; ESP_ERROR_CHECK aborts.
Make(k) ==
    /\ pc = Order[k]
    /\ \/ /\ made' = made \cup {Order[k]}
          /\ pc' = IF k < Len(Order) THEN Order[k + 1] ELSE "clear"
       \/ /\ made' = DeviceUndone(IF Order[k] \in EncoderParts
                                  THEN EncoderUndone(made) ELSE made)
          /\ pc' = "failed"
    /\ UNCHANGED <<memory, pixel_buf, colour, state, index, wave>>

\* led_strip_clear
Clear ==
    /\ pc = "clear"
    /\ pixel_buf' = Dark
    /\ pc' = "enable"
    /\ UNCHANGED <<memory, made, colour, state, index, wave>>

-----------------------------------------------------------------------------
(* red_blue_quick_blink, for ever.                                          *)

SetPixel ==
    /\ pc = "blink"
    /\ pixel_buf' = Painted(pixel_buf, colour)
    /\ colour' = IF colour = "red" THEN "blue" ELSE "red"
    /\ pc' = "enable"
    /\ UNCHANGED <<memory, made, state, index, wave>>

\* led_strip_refresh: rmt_enable, rmt_transmit
Transmit ==
    /\ pc = "enable"
    /\ pc' = "full"
    /\ wave' = <<>>
    /\ UNCHANGED <<memory, made, pixel_buf, colour, state, index>>

\* What a byte looks like on the wire, symbol by symbol
Data(from, n) == [s \in 1..n |-> pixel_buf[(from + s - 1) \div Bits + 1]]

ResetCode == -1

\* mutant: full memory is looked at before the end of the data
StateIfRoom(ends, full) == IF full THEN state ELSE 0

\* The end of the data leads to the reset code, also when just then the memory
\* is full, and the reset code back to the data.
NextState(ends, full) == IF full THEN IF ends THEN 1 ELSE state ELSE 0

\* rmt_encode_led_strip with room for some symbols: data in state 0, and the
\* reset code in state 1, which the first falls through to unless the memory is
\* full.  The channel asks again, half of its memory at a time, until the
\* reset code is in it.
Encode(room) ==
    LET rest == Symbols - index
        n == IF state = 1 THEN 0 ELSE IF room < rest THEN room ELSE rest
        ends == state = 1 \/ rest <= room
        full == state = 0 /\ room <= rest
    IN /\ wave' = wave \o Data(index, n) \o (IF full THEN <<>> ELSE <<ResetCode>>)
       /\ index' = IF ends THEN 0 ELSE index + n
       /\ state' = NextState(ends, full)
       /\ pc' = IF full THEN "half" ELSE "sent"
       /\ UNCHANGED <<memory, made, pixel_buf, colour>>

EncodeFirst == pc = "full" /\ Encode(memory)
EncodeMore == pc = "half" /\ Encode(memory \div 2)

\* rmt_tx_wait_all_done, rmt_disable; vTaskDelay
Disable ==
    /\ pc = "sent"
    /\ pc' = "blink"
    /\ UNCHANGED <<memory, made, pixel_buf, colour, state, index, wave>>

\* An RMT call fails: ESP_ERROR_CHECK aborts.
RmtFails ==
    /\ pc \in {"enable", "sent"}
    /\ pc' = "failed"
    /\ UNCHANGED <<memory, made, pixel_buf, colour, state, index, wave>>

\* abort: the chip restarts
Reset ==
    /\ pc = "failed"
    /\ pc' = "strip"
    /\ made' = {} /\ pixel_buf' = Dark /\ colour' = "red"
    /\ state' = 0 /\ index' = 0 /\ wave' = <<>>
    /\ UNCHANGED memory

Next ==
    \/ \E k \in DOMAIN Order : Make(k)
    \/ Clear \/ SetPixel \/ Transmit \/ EncodeFirst \/ EncodeMore \/ Disable
    \/ RmtFails \/ Reset

Spec == Init /\ [][Next]_vars

-----------------------------------------------------------------------------
(* Properties.                                                              *)

\* Whatever the memory of the channel and wherever it fills up, a refresh sends
\* every bit of every pixel once, in order, then one reset code, and leaves the
\* encoder ready for the next.
WholeFrames ==
    LET frame == Data(0, Symbols) \o <<ResetCode>>
    IN /\ pc \in {"half", "sent"} =>
              Len(wave) <= Len(frame) /\ wave = SubSeq(frame, 1, Len(wave))
       /\ pc = "sent" => wave = frame /\ state = 0 /\ index = 0

\* A strip that could not be created has freed all it had allocated, on both
\* levels; else it has all it needs.
AllOrNothing ==
    /\ pc = "failed" => made \in {{}, {Order[k] : k \in DOMAIN Order}}
    /\ pc \in {"clear", "enable", "full", "half", "sent", "blink"} =>
           made = {Order[k] : k \in DOMAIN Order}
=============================================================================
