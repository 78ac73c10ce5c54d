----------------------------- MODULE ByteMemory -----------------------------
(***************************************************************************)
(* What loads and stores promise: a little-endian memory of bytes.  An     *)
(* access of n bytes at a multiple of n moves exactly those n bytes, a     *)
(* load extends them to a register with their sign or with zeros; at any   *)
(* other address the access traps and nothing changes.                     *)
(***************************************************************************)
EXTENDS Integers

CONSTANTS Radix,      \* a byte is 0 .. Radix - 1, negative from Radix \div 2 on
          NumWords    \* the memory holds NumWords words of four bytes

Byte    == 0 .. Radix - 1
Lane    == 0 .. 3
Address == 0 .. 4 * NumWords - 1

VARIABLES mem,      \* the memory
          value,    \* the register last loaded, and stored by the next store
          trapped   \* the last access was misaligned

vars == <<mem, value, trapped>>

Bytes(type) == CASE type \in {"BYTE", "BYTE_U"} -> 1
                 [] type \in {"HALF", "HALF_U"} -> 2
                 [] type = "WORD" -> 4

Aligned(type, a) == a % Bytes(type) = 0

\* The byte that fills a register above the n bytes loaded from a.
Fill(type, a) ==
  IF type \in {"BYTE", "HALF"} /\ mem[a + Bytes(type) - 1] >= Radix \div 2 THEN Radix - 1 ELSE 0

Init == /\ mem \in [Address -> Byte]
        /\ value \in [Lane -> Byte]
        /\ trapped = FALSE

Load(type, a) == /\ Aligned(type, a)
                 /\ value' = [k \in Lane |-> IF k < Bytes(type) THEN mem[a + k] ELSE Fill(type, a)]
                 /\ trapped' = FALSE
                 /\ UNCHANGED mem

Store(type, a) == /\ Aligned(type, a)
                  /\ mem' = [x \in Address |-> IF x \in a .. a + Bytes(type) - 1
                                               THEN value[x - a] ELSE mem[x]]
                  /\ trapped' = FALSE
                  /\ UNCHANGED value

Trap(type, a) == /\ ~Aligned(type, a)
                 /\ trapped' = TRUE
                 /\ UNCHANGED <<mem, value>>

Next == \E a \in Address :
          \/ \E type \in {"BYTE", "HALF", "WORD", "BYTE_U", "HALF_U"} : Load(type, a) \/ Trap(type, a)
          \/ \E type \in {"BYTE", "HALF", "WORD"} : Store(type, a)

Spec == Init /\ [][Next]_vars
=============================================================================
