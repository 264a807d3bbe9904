---------------------------- MODULE SampleFormat ----------------------------
(***************************************************************************)
(* Integer samples between the engine and the pcm (core/tinyalsaAudio.cpp, *)
(* initLowLevelAudioStruct(), fromFloatToRaw(), fromRawToFloat()).  Four   *)
(* neighbouring samples are scaled, clipped, truncated and laid out byte   *)
(* by byte in the raw buffer; what the device then delivers, here the same *)
(* bytes, is put together again and its sign extended.  Four is what NEON  *)
(* converts at a time; the other code does the same one by one.            *)
(*                                                                         *)
(* Two sizes rule the places of the bytes: bps, of which a sample is made, *)
(* and physBps, which the library says it takes in memory.  The library    *)
(* that is linked does not know every format that LDSP offers: where the   *)
(* two differ the bytes may fall outside the buffer.                       *)
(*                                                                         *)
(* A byte has Base values.  A scaled sample, the float a sample has become *)
(* after its multiplication by maxVal, is a number of halves.  Left out:   *)
(* the rounding of that multiplication, and the float formats, which are   *)
(* copied.  The state has names of its own, which do not meet those of     *)
(* CpuGovernor, the other part of the engine.                              *)
(***************************************************************************)
EXTENDS Integers

CONSTANTS
  Base,           \* values of a byte (256)
  Format,         \* the integer formats
  BigEndian,      \* those that prepareForFormat() finds to be big endian
  Packed24,       \* S24_3LE and S24_3BE
  Padded24,       \* S24_LE and S24_BE: "24-bit (32-bit in memory)"
  StorageBytes,   \* pcm_format_to_bits(format) / 8
  Neon,           \* is the code built with NEON_AUDIO_FORMAT?
  Others          \* halves that the neighbours of a sample may be

ASSUME SampleFormatAssumption ==
  /\ Base \in Nat /\ Base >= 2 /\ Base % 2 = 0
  /\ BigEndian \subseteq Format
  /\ Packed24 \subseteq Format /\ Padded24 \subseteq Format
  /\ StorageBytes \in [Format -> 1 .. 4]
  /\ Neon \subseteq BOOLEAN
  /\ Others \subseteq Int

VARIABLES
  format, neon,  \* chosen when the engine starts
  scaled,        \* four scaled samples, in halves
  value,         \* the integers they are converted to
  rawBuffer,     \* the bytes of the four samples
  conversion,    \* the conversion that is made
  byte,          \* the byte of every sample that is next
  captured       \* the integers the bytes are converted to

sampleVars == <<format, neon, scaled, value, rawBuffer, conversion, byte, captured>>

Lane == 0 .. 3

\* Base^n: what a unit of byte n is worth.
Weight(n) ==
  CASE n = 0 -> 1
    [] n = 1 -> Base
    [] n = 2 -> Base * Base
    [] n = 3 -> Base * (Base * Base)
    [] n = 4 -> Base * (Base * (Base * Base))

\* 2^32, for an int of four bytes.
IntRange == Weight(4)

physBps == StorageBytes[format]

\* "these vars span 32 bits, but only 24 are actually used! -> 3 bytes": the
\* condition names the formats that are packed.
bps == IF format \in Packed24 THEN 3 ELSE physBps

\* Not so of S24_3BE when the library takes it for a format of 16 bits.
SizesAgree == bps = physBps

maxVal == Weight(bps) \div 2 - 1
minVal == -(maxVal + 1)

\* A float holds three bytes exactly: (float)maxVal of four bytes is rounded up.
FloatExact == Weight(3)
maxValFloat == IF maxVal > FloatExact THEN maxVal + 1 ELSE maxVal

\* Halves that a float can hold.
IsFloat(halves) ==
  LET size == IF halves < 0 THEN -halves ELSE halves
  IN  /\ size > FloatExact => halves % 2 = 0
      /\ size > 2 * FloatExact => halves % 4 = 0

SampleTypeOK ==
  /\ format \in Format /\ neon \in Neon
  /\ scaled \in [Lane -> Int]
  /\ value \in [Lane -> minVal .. maxVal]
  /\ rawBuffer \in [0 .. 4 * physBps - 1 -> 0 .. Base - 1]
  /\ conversion \in {"convert", "split", "combine", "extend", "done", "undefined"}
  /\ byte \in 0 .. 4
  /\ captured \in [Lane -> -(IntRange \div 2) .. IntRange \div 2 - 1]

\* Below minVal to above maxVal, for one of the four.
SampleInit ==
  /\ format \in Format /\ neon \in Neon
  /\ \E k \in Lane, one \in 2 * minVal - 4 .. 2 * maxVal + 4, other \in Others :
       /\ IsFloat(one)
       /\ scaled = [j \in Lane |-> IF j = k THEN one ELSE other]
  /\ value = [j \in Lane |-> 0]
  /\ rawBuffer = [i \in 0 .. 4 * physBps - 1 |-> 0]
  /\ conversion = "convert" /\ byte = 0
  /\ captured = [j \in Lane |-> 0]

-----------------------------------------------------------------------------
(* Playback                                                                 *)

\* (int): towards zero.
Truncated(halves) == IF halves >= 0 THEN halves \div 2 ELSE -((-halves) \div 2)

\* Mutant of Converted: truncated only.
Unclipped(halves) == {Truncated(halves)}

(* Clipped and truncated.  A scaled value of maxVal + 1 is not above        *)
(* (float)maxVal: NEON's conversion and ARM's stop at maxVal, C leaves it   *)
(* undefined and x86 makes it minVal.                                       *)
Converted(halves) ==
  IF halves > 2 * maxValFloat THEN {maxVal}
  ELSE IF halves < 2 * minVal THEN {minVal}
  ELSE IF Truncated(halves) <= maxVal THEN {Truncated(halves)}
  ELSE IF neon THEN {maxVal} ELSE {maxVal, minVal}

Convert ==
  /\ conversion = "convert"
  /\ value' \in {v \in [Lane -> UNION {Converted(scaled[k]) : k \in Lane}] :
                   \A k \in Lane : v[k] \in Converted(scaled[k])}
  /\ conversion' = "split"
  /\ UNCHANGED <<format, neon, scaled, rawBuffer, byte, captured>>

\* Where byte i of sample k is, for the code that writes it.
SplitPlace(k, i) ==
  IF format \in BigEndian THEN physBps - 1 + k * bps - i ELSE k * bps + i

\* (value >> i * 8) & 0xff
ByteOf(v, i) == (v \div Weight(i)) % Base

\* No sample has its byte outside the buffer.
InBuffer == \A k \in Lane : SplitPlace(k, byte) \in DOMAIN rawBuffer

\* Mutant of Split: the low byte first in every format.
SplitLittle ==
  /\ conversion = "split" /\ byte < bps /\ InBuffer
  /\ rawBuffer' =
       [p \in DOMAIN rawBuffer |->
          IF \E k \in Lane : p = k * bps + byte
          THEN ByteOf(value[CHOOSE k \in Lane : p = k * bps + byte], byte)
          ELSE rawBuffer[p]]
  /\ byte' = byte + 1
  /\ UNCHANGED <<format, neon, scaled, value, conversion, captured>>

Split ==
  /\ conversion = "split" /\ byte < bps /\ InBuffer
  /\ rawBuffer' =
       [p \in DOMAIN rawBuffer |->
          IF \E k \in Lane : p = SplitPlace(k, byte)
          THEN ByteOf(value[CHOOSE k \in Lane : p = SplitPlace(k, byte)], byte)
          ELSE rawBuffer[p]]
  /\ byte' = byte + 1
  /\ UNCHANGED <<format, neon, scaled, value, conversion, captured>>

\* A byte is written before the buffer or behind it: anything may follow.
SplitOutside ==
  /\ conversion = "split" /\ byte < bps /\ ~InBuffer
  /\ conversion' = "undefined"
  /\ UNCHANGED <<format, neon, scaled, value, rawBuffer, byte, captured>>

\* The device plays the bytes, and delivers the same ones.
Played ==
  /\ conversion = "split" /\ byte = bps
  /\ conversion' = "combine"
  /\ byte' = 0
  /\ UNCHANGED <<format, neon, scaled, value, rawBuffer, captured>>

-----------------------------------------------------------------------------
(* Capture                                                                  *)

\* An int of four bytes.
Int32(v) ==
  LET low == v % IntRange
  IN  IF low >= IntRange \div 2 THEN low - IntRange ELSE low

\* Where byte i of sample k is, for the code that reads it.
CombinePlace(k, i) ==
  LET size == IF neon THEN physBps ELSE bps
  IN  IF format \in BigEndian THEN k * size + physBps - 1 - i ELSE k * size + i

\* Bytes that are read of a sample.
ReadBytes == IF neon /\ format \notin BigEndian THEN physBps ELSE bps

Combine ==
  /\ conversion = "combine" /\ byte < ReadBytes
  /\ captured' =
       [k \in Lane |->
          Int32(captured[k] + rawBuffer[CombinePlace(k, byte)] * Weight(byte))]
  /\ byte' = byte + 1
  /\ UNCHANGED <<format, neon, scaled, value, rawBuffer, conversion>>

Combined ==
  /\ conversion = "combine" /\ byte = ReadBytes
  /\ conversion' = "extend"
  /\ UNCHANGED <<format, neon, scaled, value, rawBuffer, byte, captured>>

\* Above maxVal, unsigned in NEON's comparison.
Negative(v) == IF neon THEN v % IntRange > maxVal ELSE v > maxVal

\* v | captureMask: ones before the bytes of the format, if there is room.
Masked(v) == IF bps < 4 THEN (v % Weight(bps)) - Weight(bps) ELSE v

\* Mutant of ExtendSign: maxVal itself is taken for a negative number.
ExtendSignFrom ==
  /\ conversion = "extend"
  /\ captured' =
       [k \in Lane |->
          IF captured[k] >= maxVal THEN Masked(captured[k]) ELSE captured[k]]
  /\ conversion' = "done"
  /\ UNCHANGED <<format, neon, scaled, value, rawBuffer, byte>>

ExtendSign ==
  /\ conversion = "extend"
  /\ captured' =
       [k \in Lane |->
          IF Negative(captured[k]) THEN Masked(captured[k]) ELSE captured[k]]
  /\ conversion' = "done"
  /\ UNCHANGED <<format, neon, scaled, value, rawBuffer, byte>>

SampleNext ==
  \/ Convert \/ Split \/ SplitOutside \/ Played
  \/ Combine \/ Combined \/ ExtendSign

SampleSpec == SampleInit /\ [][SampleNext]_sampleVars

-----------------------------------------------------------------------------
(* What is wanted of a scaled sample: the nearest integer towards zero that *)
(* the format has.                                                          *)
Clipped(halves) ==
  CHOOSE v \in minVal .. maxVal :
    \/ v = Truncated(halves)
    \/ Truncated(halves) > maxVal /\ v = maxVal
    \/ Truncated(halves) < minVal /\ v = minVal

\* Four bytes, not NEON: the conversion of maxVal + 1 is undefined.
Undefined(halves) == ~neon /\ Truncated(halves) > maxVal /\ halves <= 2 * maxValFloat

(* In every format whose two sizes agree, with NEON and without, the bytes  *)
(* stay in the buffer, and those of the device give back the sample that    *)
(* was played, clipped to the format: the sign is extended right, from the  *)
(* right byte, and no byte of a sample falls into its neighbour.  It is not *)
(* said that the device understands the bytes: see README.md.               *)
PlayedIsCaptured ==
  SizesAgree =>
    /\ conversion # "undefined"
    /\ conversion = "done" =>
         \A k \in Lane : Undefined(scaled[k]) \/ captured[k] = Clipped(scaled[k])

\* The first n bytes of every sample are where they belong.
Laid(n) ==
  \A k \in Lane : \A m \in 0 .. n - 1 :
    rawBuffer[SplitPlace(k, m)] = ByteOf(value[k], m)

\* The first n bytes of every sample have been put together, as an int.
Gathered(n) == \A k \in Lane : captured[k] = Int32(value[k] % Weight(n))

(* Whatever the sizes, a conversion that is made of more bytes than there   *)
(* is room for does not get as far as the last of them.                     *)
SizesInv ==
  /\ conversion = "convert" => byte = 0
  /\ conversion = "split" => byte <= bps /\ (bps > physBps => byte < bps)
  /\ conversion = "combine" => bps <= physBps /\ byte <= ReadBytes

(* On the way, in fromFloatToRaw and fromRawToFloat: the bytes before byte  *)
(* are laid out, all of them when they are read back, and what has been     *)
(* read of a sample is its remainder.                                       *)
OnTheWay ==
  /\ conversion # "undefined"
  /\ conversion # "convert" => \A k \in Lane : value[k] \in Converted(scaled[k])
  /\ conversion \in {"convert", "split"} => captured = [k \in Lane |-> 0]
  /\ conversion = "split" => Laid(byte)
  /\ conversion = "combine" => Laid(bps) /\ Gathered(byte)
  /\ conversion = "extend" => Gathered(bps)
  /\ conversion = "done" => captured = value

BytesInv == SizesAgree => OnTheWay

-----------------------------------------------------------------------------
(* "Signed, 24-bit (32-bit in memory)", include/tinyalsaAudio.h:134, and    *)
(* "these vars span 32 bits, but only 24 are actually used! -> 3 bytes",    *)
(* core/tinyalsaAudio.cpp:568: a sample of such a format is a number of     *)
(* three bytes.  Not so of S24_LE.                                          *)
PaddedSamplesFit ==
  format \in Padded24 =>
    \A k \in Lane : value[k] \in -(Weight(3) \div 2) .. Weight(3) \div 2 - 1

(* "size in bytes of the format var type used to store sample"              *)
(* (core/tinyalsaAudio.cpp:566) is physBps, by which the buffer is          *)
(* allocated: a sample stays in it.  Not so of S24_3BE: the linked library  *)
(* answers 16 bits, and the third byte of a sample comes before its first.  *)
StaysInBuffer == conversion # "undefined"
=============================================================================
