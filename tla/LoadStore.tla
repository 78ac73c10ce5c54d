------------------------------ MODULE LoadStore -----------------------------
(***************************************************************************)
(* load_store_unit.sv between a register and a word-wide memory, with the  *)
(* size and the misalignment test of tdrv32_pipeline.sv.  A word is four   *)
(* byte lanes.  The memory is one of the two the tests attach: behind the  *)
(* native port it writes the lanes of the strobes, behind AHB-Lite those   *)
(* that HSIZE and HADDR name.  Both read whole words.                      *)
(***************************************************************************)
EXTENDS Integers

CONSTANTS Radix,      \* a byte is 0 .. Radix - 1
          NumWords    \* the memory holds NumWords words

ASSUME RadixAssumption == Radix \in Nat /\ Radix > 1
ASSUME SizeAssumption  == NumWords \in Nat /\ NumWords > 0

Byte    == 0 .. Radix - 1
Lane    == 0 .. 3
Word    == [Lane -> Byte]
Address == 0 .. 4 * NumWords - 1

StoreType == {"BYTE", "HALF", "WORD"}            \* i_mem_type, without the
LoadType  == StoreType \cup {"BYTE_U", "HALF_U"}  \* values decode never emits

VARIABLES
  bus,      \* the slave behind the port: "native" or "ahb"
  mem,      \* its memory
  value,    \* the register an access loads or stores
  trapped   \* the last access raised data_addr_misaligned

vars == <<bus, mem, value, trapped>>

-----------------------------------------------------------------------------
Offset(a)   == a % 4
WordBase(a) == a - Offset(a)

o_dmem_size(type) == CASE type = "WORD" -> 2
                       [] type \in {"HALF", "HALF_U"} -> 1
                       [] OTHER -> 0

data_addr_misaligned(type, a) == CASE type \in {"HALF", "HALF_U"} -> a % 2 # 0
                                   [] type = "WORD" -> a % 4 # 0
                                   [] OTHER -> FALSE

Zero == [k \in Lane |-> 0]

\* Fault: the fill is one bit too wide.
SignByteWide(b) == IF b >= Radix \div 2 THEN Radix ELSE 0

\* The byte that repeats the sign bit of b.
SignByte(b) == IF b >= Radix \div 2 THEN Radix - 1 ELSE 0

\* The word of width bytes from lane on, and above them the fill byte.
Extended(word, lane, width, fill) ==
  [k \in Lane |-> IF k < width THEN word[lane + k] ELSE fill]

HalfLane(offset) == 2 * (offset \div 2)    \* selected by i_byte_offset[1]

\* Fault: a signed halfword takes the sign of its lower byte.
LoadDataLowSign(type, offset, word) ==
  LET half == HalfLane(offset)
  IN  CASE type = "BYTE"   -> Extended(word, offset, 1, SignByte(word[offset]))
        [] type = "HALF"   -> Extended(word, half, 2, SignByte(word[half]))
        [] type = "WORD"   -> word
        [] type = "BYTE_U" -> Extended(word, offset, 1, 0)
        [] type = "HALF_U" -> Extended(word, half, 2, 0)

o_load_data(type, offset, word) ==
  LET half == HalfLane(offset)
  IN  CASE type = "BYTE"   -> Extended(word, offset, 1, SignByte(word[offset]))
        [] type = "HALF"   -> Extended(word, half, 2, SignByte(word[half + 1]))
        [] type = "WORD"   -> word
        [] type = "BYTE_U" -> Extended(word, offset, 1, 0)
        [] type = "HALF_U" -> Extended(word, half, 2, 0)

o_store_data(type, offset, v) ==
  CASE type = "BYTE" -> [Zero EXCEPT ![offset] = v[0]]
    [] type = "HALF" -> [Zero EXCEPT ![HalfLane(offset)] = v[0], ![HalfLane(offset) + 1] = v[1]]
    [] type = "WORD" -> v

o_byte_enable(type, offset) ==
  CASE type = "BYTE" -> {offset}
    [] type = "HALF" -> {HalfLane(offset), HalfLane(offset) + 1}
    [] type = "WORD" -> Lane

-----------------------------------------------------------------------------
(* The two slaves.                                                         *)

ReadWord(a) == [k \in Lane |-> mem[WordBase(a) + k]]

\* The native slave writes the strobed lanes of the word.
NativeWrite(a, data, strobes) ==
  [x \in Address |-> IF WordBase(x) = WordBase(a) /\ Offset(x) \in strobes
                     THEN data[Offset(x)] ELSE mem[x]]

\* The AHB slave writes 2^HSIZE bytes from HADDR on, each from its lane.
AhbWrite(a, data, size) ==
  [x \in Address |-> IF x \in a .. a + 2^size - 1 THEN data[Offset(x)] ELSE mem[x]]

-----------------------------------------------------------------------------
Init == /\ bus \in {"native", "ahb"}
        /\ mem \in [Address -> Byte]
        /\ value \in Word
        /\ trapped = FALSE

Load == \E type \in LoadType, a \in Address :
          /\ ~data_addr_misaligned(type, a)
          /\ value' = o_load_data(type, Offset(a), ReadWord(a))
          /\ trapped' = FALSE
          /\ UNCHANGED <<bus, mem>>

Store == \E type \in StoreType, a \in Address :
           LET data == o_store_data(type, Offset(a), value)
           IN  /\ ~data_addr_misaligned(type, a)
               /\ mem' = IF bus = "native"
                         THEN NativeWrite(a, data, o_byte_enable(type, Offset(a)))
                         ELSE AhbWrite(a, data, o_dmem_size(type))
               /\ trapped' = FALSE
               /\ UNCHANGED <<bus, value>>

\* A misaligned access traps in EX and never reaches the unit.
Misaligned == \E type \in LoadType, a \in Address :
                /\ data_addr_misaligned(type, a)
                /\ trapped' = TRUE
                /\ UNCHANGED <<bus, mem, value>>

Next == Load \/ Store \/ Misaligned

Spec == Init /\ [][Next]_vars

-----------------------------------------------------------------------------
(* Properties.                                                             *)

\* Every variable stays within its type: no lane ever holds more than a byte.
TypeOK == /\ bus \in {"native", "ahb"}
          /\ mem \in [Address -> Byte]
          /\ value \in Word
          /\ trapped \in BOOLEAN

\* Through either slave, every load and store moves exactly the bytes the
\* byte-addressed memory says, into and out of the right lanes: placement,
\* strobes, HSIZE and extension agree with each other at every offset.
Bytewise == INSTANCE ByteMemory

ImplementsByteMemory == Bytewise!Spec
=============================================================================
