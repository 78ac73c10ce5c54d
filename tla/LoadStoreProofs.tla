-------------------------- MODULE LoadStoreProofs ---------------------------
(***************************************************************************)
(* The load/store unit with either slave implements the byte-addressed     *)
(* memory, for every size of the memory and every width of a byte.         *)
(***************************************************************************)
EXTENDS LoadStore, TLAPS

\* An address is a lane of a word that lies in the memory as a whole.
LEMMA AddressSplit ==
  ASSUME NEW a \in Address
  PROVE  /\ Offset(a) \in Lane /\ WordBase(a) \in Nat
         /\ a = WordBase(a) + Offset(a)
         /\ \A k \in Lane : WordBase(a) + k \in Address
<1>1. a \in Nat /\ a < 4 * NumWords /\ NumWords \in Nat
  BY SizeAssumption DEF Address
<1>2. PICK q \in Nat : a = 4 * q + (a % 4) /\ a % 4 \in 0 .. 3
  <2>1. a \div 4 \in Nat /\ a = 4 * (a \div 4) + (a % 4) /\ a % 4 \in 0 .. 3
    BY <1>1
  <2> QED  BY <2>1
<1>3. q < NumWords
  BY <1>1, <1>2
<1> QED
  BY <1>1, <1>2, <1>3 DEF Offset, WordBase, Lane, Address

\* Two addresses of one word differ by their lanes only; an address is in the
\* word of a exactly when it is one of the four from its base on.
LEMMA SameWord ==
  ASSUME NEW a \in Address, NEW x \in Address
  PROVE  (WordBase(x) = WordBase(a)) <=> (x \in WordBase(a) .. WordBase(a) + 3)
<1>1. a \in Nat /\ x \in Nat
  BY SizeAssumption DEF Address
<1>2. PICK p \in Nat : a = 4 * p + (a % 4) /\ a % 4 \in 0 .. 3
  <2>1. a \div 4 \in Nat /\ a = 4 * (a \div 4) + (a % 4) /\ a % 4 \in 0 .. 3
    BY <1>1
  <2> QED  BY <2>1
<1>3. PICK q \in Nat : x = 4 * q + (x % 4) /\ x % 4 \in 0 .. 3
  <2>1. x \div 4 \in Nat /\ x = 4 * (x \div 4) + (x % 4) /\ x % 4 \in 0 .. 3
    BY <1>1
  <2> QED  BY <2>1
<1>4. WordBase(a) = 4 * p /\ WordBase(x) = 4 * q
  BY <1>1, <1>2, <1>3 DEF WordBase, Offset
<1> QED
  BY <1>1, <1>2, <1>3, <1>4

\* An aligned halfword starts in lane 0 or 2, an aligned word in lane 0.
LEMMA AlignedLanes ==
  ASSUME NEW a \in Address
  PROVE  /\ a % 2 = 0 => Offset(a) \in {0, 2} /\ HalfLane(Offset(a)) = Offset(a)
         /\ a % 4 = 0 => Offset(a) = 0
<1>1. a \in Nat
  BY SizeAssumption DEF Address
<1>2. a % 2 = 0 => a % 4 \in {0, 2}
  BY <1>1
<1>3. \A o \in {0, 2} : 2 * (o \div 2) = o
  OBVIOUS
<1> QED
  BY <1>2, <1>3 DEF Offset, HalfLane

-----------------------------------------------------------------------------
(* Type correctness.                                                       *)

\* Sign bytes are bytes.
LEMMA SignByteType == \A b \in Byte : SignByte(b) \in Byte
BY RadixAssumption DEF SignByte, Byte

\* A word read from the memory is a word of its bytes.
LEMMA ReadWordType ==
  ASSUME TypeOK, NEW a \in Address
  PROVE  ReadWord(a) \in Word /\ \A k \in Lane : ReadWord(a)[k] = mem[WordBase(a) + k]
BY AddressSplit DEF TypeOK, ReadWord, Word

\* Zero is a byte.
LEMMA ZeroByte == 0 \in Byte
BY RadixAssumption DEF Byte

\* A load that is not misaligned delivers a word.
LEMMA LoadDataType ==
  ASSUME NEW type \in LoadType, NEW offset \in Lane, NEW word \in Word,
         type \in {"HALF", "HALF_U"} => offset \in {0, 2} /\ HalfLane(offset) = offset
  PROVE  o_load_data(type, offset, word) \in Word
<1>1. \A k \in Lane : word[k] \in Byte
  BY DEF Word
<1>2. CASE type \in {"BYTE", "BYTE_U"}
  BY <1>1, <1>2, SignByteType, ZeroByte DEF o_load_data, Extended, Word, Lane
<1>3. CASE type \in {"HALF", "HALF_U"}
  <2>1. offset + 1 \in Lane /\ offset + 0 \in Lane
    BY <1>3 DEF Lane
  <2>2. \A k \in Lane : k < 2 => offset + k \in Lane
    BY <1>3 DEF Lane
  <2> QED
    BY <1>1, <1>3, <2>1, <2>2, SignByteType, ZeroByte DEF o_load_data, Extended, Word
<1>4. CASE type = "WORD"
  BY <1>4 DEF o_load_data
<1> QED
  BY <1>2, <1>3, <1>4 DEF LoadType, StoreType

\* The lanes placed for a store hold bytes.
LEMMA StoreDataType ==
  ASSUME NEW type \in StoreType, NEW offset \in Lane, NEW v \in Word
  PROVE  o_store_data(type, offset, v) \in Word
<1>1. \A k \in Lane : v[k] \in Byte
  BY DEF Word
<1>2. Zero \in Word /\ 0 \in Lane /\ 1 \in Lane
  BY ZeroByte DEF Zero, Word, Lane
<1> QED
  BY <1>1, <1>2 DEF o_store_data, Word, StoreType

\* Every step keeps the types.
LEMMA TypeStep == TypeOK /\ [Next]_vars => TypeOK'
<1> SUFFICES ASSUME TypeOK, [Next]_vars PROVE TypeOK'
  OBVIOUS
<1>1. CASE Load
  <2>1. PICK type \in LoadType, a \in Address :
          /\ ~data_addr_misaligned(type, a)
          /\ value' = o_load_data(type, Offset(a), ReadWord(a))
          /\ trapped' = FALSE /\ UNCHANGED <<bus, mem>>
    BY <1>1 DEF Load
  <2>2. type \in {"HALF", "HALF_U"} =>
          Offset(a) \in {0, 2} /\ HalfLane(Offset(a)) = Offset(a)
    BY <2>1, AlignedLanes DEF data_addr_misaligned
  <2>3. value' \in Word
    BY <2>1, <2>2, LoadDataType, ReadWordType, AddressSplit
  <2> QED
    BY <2>1, <2>3 DEF TypeOK
<1>2. CASE Store
  <2>1. PICK type \in StoreType, a \in Address :
          /\ mem' = IF bus = "native"
                    THEN NativeWrite(a, o_store_data(type, Offset(a), value),
                                     o_byte_enable(type, Offset(a)))
                    ELSE AhbWrite(a, o_store_data(type, Offset(a), value), o_dmem_size(type))
          /\ trapped' = FALSE /\ UNCHANGED <<bus, value>>
    BY <1>2 DEF Store
  <2>2. o_store_data(type, Offset(a), value) \in Word
    BY StoreDataType, AddressSplit DEF TypeOK
  <2>3. \A x \in Address : o_store_data(type, Offset(a), value)[Offset(x)] \in Byte
    BY <2>2, AddressSplit DEF Word
  <2>4. mem' \in [Address -> Byte]
    BY <2>1, <2>3 DEF NativeWrite, AhbWrite, TypeOK
  <2> QED
    BY <2>1, <2>4 DEF TypeOK
<1>3. CASE Misaligned
  BY <1>3 DEF Misaligned, TypeOK
<1>4. CASE UNCHANGED vars
  BY <1>4 DEF vars, TypeOK
<1> QED
  BY <1>1, <1>2, <1>3, <1>4 DEF Next

\* Every variable of the unit and its memory keeps its type: what is written
\* into a lane is a byte.
THEOREM TypeCorrect == Spec => []TypeOK
<1>1. Init => TypeOK
  BY DEF Init, TypeOK
<1> QED
  BY <1>1, TypeStep, PTL DEF Spec

-----------------------------------------------------------------------------
(* The refinement.                                                         *)

\* Where an access that does not trap lies: its bytes are lanes of one word,
\* a multiple of its width.
LEMMA AlignedAccess ==
  ASSUME NEW type \in LoadType, NEW a \in Address, ~data_addr_misaligned(type, a)
  PROVE  /\ Bytewise!Bytes(type) \in {1, 2, 4}
         /\ Bytewise!Bytes(type) = 2 => Offset(a) \in {0, 2} /\ HalfLane(Offset(a)) = Offset(a)
         /\ Bytewise!Bytes(type) = 4 => Offset(a) = 0
         /\ Bytewise!Aligned(type, a)
         /\ \A k \in Lane : k < Bytewise!Bytes(type) =>
              Offset(a) + k \in Lane /\ a + k = WordBase(a) + (Offset(a) + k) /\ a + k \in Address
<1>1. a \in Nat /\ a % 1 = 0
  BY SizeAssumption DEF Address
<1>2. CASE type \in {"BYTE", "BYTE_U"}
  <2>1. Bytewise!Bytes(type) = 1
    BY <1>2 DEF Bytewise!Bytes
  <2> QED
    BY <1>1, <2>1, AddressSplit DEF Bytewise!Aligned, Lane
<1>3. CASE type \in {"HALF", "HALF_U"}
  <2>1. Bytewise!Bytes(type) = 2
    BY <1>3 DEF Bytewise!Bytes
  <2>2. a % 2 = 0
    BY <1>3 DEF data_addr_misaligned
  <2> QED
    BY <1>1, <2>1, <2>2, AddressSplit, AlignedLanes DEF Bytewise!Aligned, Lane
<1>4. CASE type = "WORD"
  <2>1. Bytewise!Bytes(type) = 4
    BY <1>4 DEF Bytewise!Bytes
  <2>2. a % 4 = 0
    BY <1>4 DEF data_addr_misaligned
  <2> QED
    BY <1>1, <2>1, <2>2, AddressSplit, AlignedLanes DEF Bytewise!Aligned, Lane
<1> QED
  BY <1>2, <1>3, <1>4 DEF LoadType, StoreType

\* A load that does not trap delivers the bytes at its address and their
\* extension.
LEMMA LoadBytes ==
  ASSUME TypeOK, NEW type \in LoadType, NEW a \in Address, ~data_addr_misaligned(type, a)
  PROVE  o_load_data(type, Offset(a), ReadWord(a)) =
           [k \in Lane |-> IF k < Bytewise!Bytes(type) THEN mem[a + k] ELSE Bytewise!Fill(type, a)]
<1> DEFINE W == ReadWord(a)
           o == Offset(a)
<1>1. \A k \in Lane : k < Bytewise!Bytes(type) => W[o + k] = mem[a + k]
  BY AlignedAccess, ReadWordType
<1>2. o \in Lane /\ a \in Nat
  BY AddressSplit, SizeAssumption DEF Address
<1> HIDE DEF W, o
<1>3. CASE type = "BYTE"
  <2>1. Bytewise!Bytes(type) = 1 /\ o_load_data(type, o, W) = Extended(W, o, 1, SignByte(W[o]))
    BY <1>3 DEF Bytewise!Bytes, o_load_data
  <2>2. W[o + 0] = mem[a + 0] /\ o + 0 = o /\ a + 0 = a
    BY <1>1, <1>2, <2>1 DEF Lane
  <2>3. Bytewise!Fill(type, a) = SignByte(W[o])
    BY <1>2, <1>3, <2>1, <2>2 DEF Bytewise!Fill, SignByte
  <2> QED
    BY <1>1, <2>1, <2>3 DEF Extended, o, W
<1>4. CASE type = "BYTE_U"
  <2>1. Bytewise!Bytes(type) = 1 /\ o_load_data(type, o, W) = Extended(W, o, 1, 0)
    BY <1>4 DEF Bytewise!Bytes, o_load_data
  <2>2. Bytewise!Fill(type, a) = 0
    BY <1>4 DEF Bytewise!Fill
  <2> QED
    BY <1>1, <2>1, <2>2 DEF Extended, o, W
<1>5. CASE type \in {"HALF", "HALF_U"}
  <2>1. Bytewise!Bytes(type) = 2 /\ HalfLane(o) = o
    BY <1>5, AlignedAccess DEF Bytewise!Bytes, o
  <2>2. W[o + 1] = mem[a + 1] /\ a + 2 - 1 = a + 1
    BY <1>1, <1>2, <2>1 DEF Lane
  <2>3. CASE type = "HALF"
    <3>1. o_load_data(type, o, W) = Extended(W, o, 2, SignByte(W[o + 1]))
      BY <2>1, <2>3 DEF o_load_data
    <3>2. Bytewise!Fill(type, a) = SignByte(W[o + 1])
      BY <2>1, <2>2, <2>3 DEF Bytewise!Fill, SignByte
    <3> QED
      BY <1>1, <2>1, <3>1, <3>2 DEF Extended, o, W
  <2>4. CASE type = "HALF_U"
    <3>1. o_load_data(type, o, W) = Extended(W, o, 2, 0)
      BY <2>1, <2>4 DEF o_load_data
    <3>2. Bytewise!Fill(type, a) = 0
      BY <2>4 DEF Bytewise!Fill
    <3> QED
      BY <1>1, <2>1, <3>1, <3>2 DEF Extended, o, W
  <2> QED
    BY <1>5, <2>3, <2>4
<1>6. CASE type = "WORD"
  <2>1. Bytewise!Bytes(type) = 4 /\ o_load_data(type, o, W) = W
    BY <1>6 DEF Bytewise!Bytes, o_load_data
  <2>2. o = 0
    BY <2>1, AlignedAccess DEF o
  <2>3. \A k \in Lane : k < 4 /\ W[k] = mem[a + k]
    BY <1>1, <2>1, <2>2 DEF Lane
  <2>4. W = [k \in Lane |-> W[k]]
    BY DEF W, ReadWord
  <2> QED
    BY <2>1, <2>3, <2>4 DEF o, W
<1> QED
  BY <1>3, <1>4, <1>5, <1>6 DEF LoadType, StoreType

\* What an address and its word are to each other decides the lanes of the
\* addresses that follow it.
LEMMA LaneOf ==
  ASSUME NEW a \in Address, NEW x \in Address
  PROVE  WordBase(x) = WordBase(a) <=> Offset(x) - Offset(a) = x - a
<1>1. /\ a \in Nat /\ x \in Nat
      /\ WordBase(a) \in Nat /\ WordBase(x) \in Nat /\ Offset(a) \in Nat /\ Offset(x) \in Nat
      /\ a = WordBase(a) + Offset(a) /\ x = WordBase(x) + Offset(x)
  <2>1. \A y \in Address : Offset(y) \in Lane /\ WordBase(y) \in Nat /\ y = WordBase(y) + Offset(y)
    BY AddressSplit
  <2>2. (\A y \in Address : y \in Nat) /\ (\A k \in Lane : k \in Nat)
    BY SizeAssumption DEF Address, Lane
  <2> QED
    BY <2>1, <2>2, Zenon
<1> HIDE DEF WordBase, Offset
<1> QED
  BY <1>1

\* An address that lies less than n above a, with n lanes left in the word of a,
\* is in that word.
LEMMA WithinWord ==
  ASSUME NEW a \in Address, NEW x \in Address, NEW k \in Lane,
         x = a + k, Offset(a) + k \in Lane
  PROVE  Offset(x) = Offset(a) + k /\ WordBase(x) = WordBase(a)
<1> DEFINE o == Offset(a)
           w == WordBase(a)
<1>1. w \in Nat /\ o \in Lane /\ a = w + o
  BY AddressSplit
<1> HIDE DEF o, w
<1>2. x \in w .. w + 3
  <2>1. x = w + (o + k) /\ o + k \in Lane
    BY <1>1 DEF o, Lane
  <2> QED
    BY <1>1, <2>1 DEF Lane
<1>3. WordBase(x) = WordBase(a)
  BY <1>2, SameWord DEF w
<1>4. Offset(x) - o = x - a /\ Offset(x) \in Lane
  BY <1>3, LaneOf, AddressSplit DEF o
<1>5. Offset(x) = o + k
  BY <1>1, <1>4 DEF Lane
<1> QED
  BY <1>3, <1>5 DEF o

\* The lanes of a store are the n from the offset on, and lane k above the
\* offset carries byte k of the register.
LEMMA StoreLanes ==
  ASSUME NEW type \in StoreType, NEW a \in Address, NEW v \in Word,
         ~data_addr_misaligned(type, a)
  PROVE  /\ o_byte_enable(type, Offset(a)) =
              {l \in Lane : Offset(a) =< l /\ l < Offset(a) + Bytewise!Bytes(type)}
         /\ \A k \in Lane : k < Bytewise!Bytes(type) =>
              o_store_data(type, Offset(a), v)[Offset(a) + k] = v[k]
<1>1. type \in LoadType /\ Offset(a) \in Lane
  BY AddressSplit DEF LoadType
<1> DEFINE o == Offset(a)
<1>2. CASE type = "BYTE"
  <2>1. Bytewise!Bytes(type) = 1 /\ o_byte_enable(type, o) = {o}
    BY <1>2 DEF Bytewise!Bytes, o_byte_enable
  <2>2. o_store_data(type, o, v) = [Zero EXCEPT ![o] = v[0]]
    BY <1>2 DEF o_store_data
  <2> QED
    BY <1>1, <2>1, <2>2 DEF Lane, Zero
<1>3. CASE type = "HALF"
  <2>1. Bytewise!Bytes(type) = 2 /\ HalfLane(o) = o /\ o \in {0, 2}
    BY <1>1, <1>3, AlignedAccess DEF Bytewise!Bytes
  <2>2. o_byte_enable(type, o) = {o, o + 1}
    BY <1>3, <2>1 DEF o_byte_enable
  <2>3. o_store_data(type, o, v) = [Zero EXCEPT ![o] = v[0], ![o + 1] = v[1]]
    BY <1>3, <2>1 DEF o_store_data
  <2> HIDE DEF o
  <2>4. o_byte_enable(type, o) = {l \in Lane : o =< l /\ l < o + 2}
    BY <2>1, <2>2 DEF Lane
  <2>5. o_store_data(type, o, v)[o] = v[0] /\ o_store_data(type, o, v)[o + 1] = v[1]
    BY <2>1, <2>3 DEF Lane, Zero
  <2>6. \A k \in Lane : k < 2 => k = 0 \/ k = 1
    BY DEF Lane
  <2> QED
    BY <2>1, <2>4, <2>5, <2>6 DEF o
<1>4. CASE type = "WORD"
  <2>1. Bytewise!Bytes(type) = 4 /\ o_byte_enable(type, o) = Lane /\ o_store_data(type, o, v) = v
    BY <1>4 DEF Bytewise!Bytes, o_byte_enable, o_store_data
  <2>2. o = 0
    BY <1>1, <2>1, AlignedAccess
  <2> HIDE DEF o
  <2> QED
    BY <2>1, <2>2 DEF Lane, o
<1> QED
  BY <1>2, <1>3, <1>4 DEF StoreType

\* What an aligned store of the register leaves at an address.
LEMMA StoreBytes ==
  ASSUME TypeOK, NEW type \in StoreType, NEW a \in Address, ~data_addr_misaligned(type, a),
         NEW x \in Address
  PROVE  LET data == o_store_data(type, Offset(a), value)
             n    == Bytewise!Bytes(type)
         IN  /\ x \in a .. a + n - 1 => data[Offset(x)] = value[x - a]
             /\ x \in a .. a + n - 1 <=>
                  WordBase(x) = WordBase(a) /\ Offset(x) \in o_byte_enable(type, Offset(a))
<1> DEFINE data == o_store_data(type, Offset(a), value)
           n    == Bytewise!Bytes(type)
<1>1. type \in LoadType /\ n \in {1, 2, 4} /\ a \in Nat /\ x \in Nat
  BY AlignedAccess, SizeAssumption DEF LoadType, Address
<1>2. /\ Offset(a) \in Lane /\ Offset(x) \in Lane /\ value \in Word
      /\ \A k \in Lane : k < n => Offset(a) + k \in Lane
  BY <1>1, AddressSplit, AlignedAccess DEF TypeOK
<1>3. /\ o_byte_enable(type, Offset(a)) = {l \in Lane : Offset(a) =< l /\ l < Offset(a) + n}
      /\ \A k \in Lane : k < n => data[Offset(a) + k] = value[k]
  BY <1>2, StoreLanes
<1> HIDE DEF data, n
<1>4. ASSUME x \in a .. a + n - 1
      PROVE  /\ WordBase(x) = WordBase(a) /\ Offset(x) \in o_byte_enable(type, Offset(a))
             /\ data[Offset(x)] = value[x - a]
  <2> DEFINE k == x - a
  <2>1. k \in Lane /\ k < n /\ x = a + k
    BY <1>1, <1>4 DEF Lane
  <2> HIDE DEF k
  <2>2. Offset(x) = Offset(a) + k /\ WordBase(x) = WordBase(a)
    BY <1>2, <2>1, WithinWord
  <2>3. Offset(x) \in o_byte_enable(type, Offset(a))
    BY <1>1, <1>2, <1>3, <2>1, <2>2 DEF Lane
  <2>4. data[Offset(x)] = value[k]
    BY <1>3, <2>1, <2>2
  <2> QED
    BY <2>2, <2>3, <2>4 DEF k
<1>5. ASSUME WordBase(x) = WordBase(a), Offset(x) \in o_byte_enable(type, Offset(a))
      PROVE  x \in a .. a + n - 1
  <2>1. Offset(x) - Offset(a) = x - a
    BY <1>5, LaneOf
  <2>2. Offset(a) =< Offset(x) /\ Offset(x) < Offset(a) + n
    BY <1>3, <1>5
  <2>3. Offset(a) \in Nat /\ Offset(x) \in Nat
    BY <1>2 DEF Lane
  <2> QED
    BY <1>1, <2>1, <2>2, <2>3
<1> QED
  BY <1>4, <1>5 DEF data, n

\* Either slave turns an aligned store into the same change of the memory.
LEMMA StoreEffect ==
  ASSUME TypeOK, NEW type \in StoreType, NEW a \in Address, ~data_addr_misaligned(type, a)
  PROVE  LET data == o_store_data(type, Offset(a), value)
             new  == [x \in Address |-> IF x \in a .. a + Bytewise!Bytes(type) - 1
                                        THEN value[x - a] ELSE mem[x]]
         IN  /\ NativeWrite(a, data, o_byte_enable(type, Offset(a))) = new
             /\ AhbWrite(a, data, o_dmem_size(type)) = new
<1>1. 2^o_dmem_size(type) = Bytewise!Bytes(type)
  <2>1. 2^0 = 1 /\ 2^1 = 2 /\ 2^2 = 4
    OBVIOUS
  <2>2. CASE type = "BYTE"
    BY <2>1, <2>2 DEF o_dmem_size, Bytewise!Bytes
  <2>3. CASE type = "HALF"
    BY <2>1, <2>3 DEF o_dmem_size, Bytewise!Bytes
  <2>4. CASE type = "WORD"
    BY <2>1, <2>4 DEF o_dmem_size, Bytewise!Bytes
  <2> QED
    BY <2>2, <2>3, <2>4 DEF StoreType
<1> QED
  BY <1>1, StoreBytes DEF NativeWrite, AhbWrite

\* Every step of the unit is a step of the byte-addressed memory.
LEMMA RefinementStep == TypeOK /\ [Next]_vars => [Bytewise!Next]_Bytewise!vars
<1> SUFFICES ASSUME TypeOK, [Next]_vars PROVE [Bytewise!Next]_Bytewise!vars
  OBVIOUS
<1>1. Bytewise!Address = Address /\ Bytewise!Lane = Lane
  BY DEF Bytewise!Address, Bytewise!Lane, Address, Lane
<1>2. CASE Load
  <2>1. PICK type \in LoadType, a \in Address :
          /\ ~data_addr_misaligned(type, a)
          /\ value' = o_load_data(type, Offset(a), ReadWord(a))
          /\ trapped' = FALSE /\ UNCHANGED <<bus, mem>>
    BY <1>2 DEF Load
  <2>2. value' = [k \in Lane |-> IF k < Bytewise!Bytes(type) THEN mem[a + k]
                                                           ELSE Bytewise!Fill(type, a)]
    BY <2>1, LoadBytes
  <2>3. Bytewise!Load(type, a)
    BY <1>1, <2>1, <2>2, AlignedAccess DEF Bytewise!Load
  <2> QED
    BY <1>1, <2>3 DEF Bytewise!Next, LoadType, StoreType
<1>3. CASE Store
  <2>1. PICK type \in StoreType, a \in Address :
          /\ ~data_addr_misaligned(type, a)
          /\ mem' = IF bus = "native"
                    THEN NativeWrite(a, o_store_data(type, Offset(a), value),
                                     o_byte_enable(type, Offset(a)))
                    ELSE AhbWrite(a, o_store_data(type, Offset(a), value), o_dmem_size(type))
          /\ trapped' = FALSE /\ UNCHANGED <<bus, value>>
    BY <1>3 DEF Store
  <2>2. mem' = [x \in Address |-> IF x \in a .. a + Bytewise!Bytes(type) - 1
                                  THEN value[x - a] ELSE mem[x]]
    BY <2>1, StoreEffect
  <2>3. Bytewise!Store(type, a)
    BY <1>1, <2>1, <2>2, AlignedAccess DEF Bytewise!Store, LoadType
  <2> QED
    BY <1>1, <2>3 DEF Bytewise!Next, StoreType
<1>4. CASE Misaligned
  <2>1. PICK type \in LoadType, a \in Address :
          /\ data_addr_misaligned(type, a)
          /\ trapped' = TRUE /\ UNCHANGED <<bus, mem, value>>
    BY <1>4 DEF Misaligned
  <2>2. ~Bytewise!Aligned(type, a)
    <3>1. CASE type \in {"HALF", "HALF_U"}
      BY <2>1, <3>1 DEF data_addr_misaligned, Bytewise!Aligned, Bytewise!Bytes
    <3>2. CASE type = "WORD"
      BY <2>1, <3>2 DEF data_addr_misaligned, Bytewise!Aligned, Bytewise!Bytes
    <3>3. type \notin {"BYTE", "BYTE_U"}
      BY <2>1 DEF data_addr_misaligned
    <3> QED
      BY <3>1, <3>2, <3>3 DEF LoadType, StoreType
  <2>3. Bytewise!Trap(type, a)
    BY <2>1, <2>2 DEF Bytewise!Trap
  <2> QED
    BY <1>1, <2>3 DEF Bytewise!Next, LoadType, StoreType
<1>5. CASE UNCHANGED vars
  BY <1>5 DEF vars, Bytewise!vars
<1> QED
  BY <1>2, <1>3, <1>4, <1>5 DEF Next

\* Whatever the sizes, the load/store unit and either memory behind it are a
\* byte-addressed little-endian memory that traps on misaligned accesses.
THEOREM Refinement == Spec => ImplementsByteMemory
<1>1. Init => Bytewise!Init
  BY DEF Init, Bytewise!Init, Word, Lane, Address, Byte, Bytewise!Lane, Bytewise!Address,
         Bytewise!Byte
<1> QED
  BY <1>1, TypeCorrect, RefinementStep, PTL DEF Spec, ImplementsByteMemory, Bytewise!Spec
=============================================================================
