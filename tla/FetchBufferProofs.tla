-------------------------- MODULE FetchBufferProofs -------------------------
(***************************************************************************)
(* Proofs about FetchBuffer, for every even size of the address space and  *)
(* every program: type correctness, the observability rule of the unreset  *)
(* payload flops, the read count, and the refinement of FetchPort.         *)
(***************************************************************************)
EXTENDS FetchBuffer, TLAPS

IInv == TypeOK /\ PayloadBelongsToPc /\ NoDuplicateReads

\* The instruction the program has at the PC.
Wanted == IF wide[pc] THEN <<Parcel(pc), Parcel((pc + 1) % Halfwords)>> ELSE <<Parcel(pc)>>

-----------------------------------------------------------------------------
(* Addresses.                                                              *)

\* The PC stays among the halfword addresses.
LEMMA Wraps == \A a \in Nat : a % Halfwords \in Pc
BY HalfwordsAssumption DEF Pc

\* The word of an even PC lies inside the address space.
LEMMA LowerWord ==
  ASSUME NEW a \in Pc, a % 2 = 0
  PROVE  a + 1 \in Pc /\ (a + 1) % Halfwords = a + 1 /\ a - (a % 2) = a
<1>1. a + 1 < Halfwords
  BY HalfwordsAssumption DEF Pc
<1> QED
  BY <1>1, HalfwordsAssumption DEF Pc

\* The word behind the one of an odd PC starts at the next parcel.
LEMMA UpperWord ==
  ASSUME NEW a \in Pc, a % 2 = 1
  PROVE  /\ a - (a % 2) \in Pc /\ a - (a % 2) + 1 = a
         /\ (a - (a % 2) + 2) % Halfwords = (a + 1) % Halfwords
         /\ (a + 1) % Halfwords \in Pc /\ ((a + 1) % Halfwords) + 1 \in Pc
<1>1. a - (a % 2) + 2 = a + 1
  BY DEF Pc
<1>2. (a + 1) % Halfwords \in Pc /\ ((a + 1) % Halfwords) + 1 \in Pc
  <2>1. CASE a + 1 = Halfwords
    <3>1. (a + 1) % Halfwords = 0
      BY <2>1, HalfwordsAssumption
    <3> QED
      BY <3>1, HalfwordsAssumption DEF Pc
  <2>2. CASE a + 1 < Halfwords
    <3>1. (a + 1) % Halfwords = a + 1
      BY <2>2, HalfwordsAssumption DEF Pc
    <3>2. a + 2 < Halfwords
      BY <2>2, HalfwordsAssumption DEF Pc
    <3> QED
      BY <3>1, <3>2, HalfwordsAssumption DEF Pc
  <2> QED
    BY <2>1, <2>2, HalfwordsAssumption DEF Pc
<1> QED
  BY <1>1, <1>2, HalfwordsAssumption DEF Pc

\* The bus address is an aligned word of the address space.
LEMMA BusAddress ==
  ASSUME TypeOK
  PROVE  /\ Upper \in {0, 1}
         /\ Upper = 0 => pc - Upper = pc /\ pc \in Pc /\ pc + 1 \in Pc
                         /\ (pc + 1) % Halfwords = pc + 1
         /\ Upper = 1 => pc - Upper \in Pc /\ pc - Upper + 1 = pc
                         /\ (pc - Upper + 2) % Halfwords = (pc + 1) % Halfwords
                         /\ (pc + 1) % Halfwords \in Pc /\ ((pc + 1) % Halfwords) + 1 \in Pc
<1>1. pc \in Pc
  BY DEF TypeOK
<1>2. Upper \in {0, 1}
  BY <1>1, HalfwordsAssumption DEF Pc, Upper
<1> QED
  BY <1>1, <1>2, LowerWord, UpperWord DEF Upper

\* A parcel at an address is a parcel.
LEMMA ParcelIsParcel ==
  ASSUME TypeOK, NEW a \in Pc
  PROVE  Parcel(a) \in ParcelType
BY DEF TypeOK, Parcel, ParcelType

\* Without a pending half the bus returns the word of the PC, with one the
\* word behind it.
LEMMA ResponseIs ==
  ASSUME TypeOK, PayloadBelongsToPc
  PROVE  /\ Response \in ParcelType \X ParcelType
         /\ ~cross_pending_q /\ Upper = 0 =>
              Response = <<Parcel(pc), Parcel((pc + 1) % Halfwords)>>
         /\ ~cross_pending_q /\ Upper = 1 => Response[2] = Parcel(pc)
         /\ cross_pending_q => Response[1] = Parcel((pc + 1) % Halfwords)
<1>1. CASE cross_pending_q
  <2>1. Upper = 1
    BY <1>1 DEF PayloadBelongsToPc
  <2>2. o_bus_addr = (pc + 1) % Halfwords /\ o_bus_addr \in Pc /\ o_bus_addr + 1 \in Pc
    BY <1>1, <2>1, BusAddress DEF o_bus_addr
  <2> QED
    BY <1>1, <2>2, ParcelIsParcel DEF Response, Word
<1>2. CASE ~cross_pending_q /\ Upper = 0
  <2>1. o_bus_addr = pc /\ pc \in Pc /\ pc + 1 \in Pc /\ pc + 1 = (pc + 1) % Halfwords
    BY <1>2, BusAddress DEF o_bus_addr
  <2> QED
    BY <1>2, <2>1, ParcelIsParcel DEF Response, Word
<1>3. CASE ~cross_pending_q /\ Upper = 1
  <2>1. o_bus_addr \in Pc /\ o_bus_addr + 1 = pc /\ pc \in Pc
    BY <1>3, BusAddress DEF o_bus_addr, TypeOK
  <2> QED
    BY <1>3, <2>1, ParcelIsParcel DEF Response, Word
<1> QED
  BY <1>1, <1>2, <1>3, BusAddress

\* A parcel knows whether it is wide.
LEMMA WideParcel == \A a : IsWide(Parcel(a)) = wide[a]
BY DEF IsWide, Parcel

\* The instruction at the PC, out of a response that holds all of it.
LEMMA ExtractIs ==
  ASSUME TypeOK, PayloadBelongsToPc, ~cross_pending_q, ~StartsCrossWord
  PROVE  Extract(Response) = Wanted
<1>1. CASE Upper = 0
  <2>1. Response = <<Parcel(pc), Parcel((pc + 1) % Halfwords)>>
    BY <1>1, ResponseIs
  <2>2. Response[Upper + 1] = Parcel(pc)
    BY <1>1, <2>1
  <2> QED
    BY <2>1, <2>2, WideParcel DEF Extract, Wanted
<1>2. CASE Upper = 1
  <2>1. Response[2] = Parcel(pc) /\ Response[Upper + 1] = Parcel(pc)
    BY <1>2, ResponseIs
  <2>2. ~wide[pc]
    BY <1>2, <2>1, WideParcel DEF StartsCrossWord
  <2> QED
    BY <2>1, <2>2, WideParcel DEF Extract, Wanted
<1> QED
  BY <1>1, <1>2, BusAddress

\* Whatever the buffer shows as complete and sound is the program's.
LEMMA ShowsWanted ==
  ASSUME TypeOK, PayloadBelongsToPc, NEW valid \in BOOLEAN, NEW error \in BOOLEAN,
         Shows(valid, error).complete, ~Shows(valid, error).fault
  PROVE  Shows(valid, error).instruction = Wanted
<1>1. CASE response_held_q
  <2>1. Shows(valid, error) = Shows(FALSE, FALSE) /\ ~held_error_q
    BY <1>1 DEF Shows
  <2> QED
    BY <1>1, <2>1 DEF PayloadBelongsToPc, Wanted
<1>2. CASE ~response_held_q /\ valid /\ cross_pending_q
  <2>1. Shows(valid, error).instruction = <<first_half_q, Response[1]>>
    BY <1>2 DEF Shows
  <2> QED
    BY <1>2, <2>1, ResponseIs DEF PayloadBelongsToPc, Wanted
<1>3. CASE ~response_held_q /\ valid /\ ~cross_pending_q
  <2>1. ~StartsCrossWord /\ Shows(valid, error).instruction = Extract(Response)
    BY <1>3 DEF Shows
  <2> QED
    BY <1>3, <2>1, ExtractIs
<1>4. CASE ~response_held_q /\ ~valid
  BY <1>4 DEF Shows
<1> QED
  BY <1>1, <1>2, <1>3, <1>4

\* What the buffer shows is a payload, and its flags are Booleans.
LEMMA ShowsType ==
  ASSUME TypeOK, PayloadBelongsToPc, NEW valid \in BOOLEAN, NEW error \in BOOLEAN
  PROVE  /\ Shows(valid, error).complete \in BOOLEAN
         /\ Shows(valid, error).fault \in BOOLEAN
         /\ Shows(valid, error).complete => Shows(valid, error).instruction \in Payload
<1>1. Shows(valid, error).complete \in BOOLEAN /\ Shows(valid, error).fault \in BOOLEAN
  BY DEF Shows, TypeOK
<1>2. pc \in Pc /\ (pc + 1) % Halfwords \in Pc
  BY Wraps DEF TypeOK, Pc
<1>3. Wanted \in Payload
  BY <1>2, ParcelIsParcel DEF Wanted, Payload
<1>4. ASSUME Shows(valid, error).complete, Shows(valid, error).fault
      PROVE  Shows(valid, error).instruction \in Payload
  <2>1. CASE response_held_q
    <3>1. held_error_q /\ Shows(valid, error).instruction = Nop
      BY <1>4, <2>1 DEF Shows
    <3> QED
      BY <3>1 DEF Payload
  <2>2. CASE ~response_held_q /\ valid /\ cross_pending_q
    <3>1. Shows(valid, error).instruction = <<first_half_q, Response[1]>>
      BY <2>2 DEF Shows
    <3>2. first_half_q \in ParcelType
      BY <1>2, <2>2, ParcelIsParcel DEF PayloadBelongsToPc
    <3>3. Response[1] \in ParcelType
      BY ResponseIs
    <3> QED
      BY <3>1, <3>2, <3>3 DEF Payload
  <2>3. CASE ~response_held_q /\ ~cross_pending_q
    <3>1. Shows(valid, error).instruction = Nop
      BY <1>4, <2>3 DEF Shows
    <3> QED
      BY <3>1 DEF Payload
  <2>4. CASE ~response_held_q /\ cross_pending_q /\ ~valid
    BY <1>4, <2>4 DEF Shows
  <2> QED
    BY <2>1, <2>2, <2>3, <2>4
<1> QED
  BY <1>1, <1>3, <1>4, ShowsWanted

\* The flops of the buffer keep their types.
LEMMA FlopsType ==
  ASSUME TypeOK, PayloadBelongsToPc, NEW flush \in BOOLEAN, NEW consume \in BOOLEAN,
         NEW valid \in BOOLEAN, NEW error \in BOOLEAN,
         BufferEdge(flush, consume, valid, error), PayloadEdge(flush, consume, valid, error)
  PROVE  /\ {cross_pending_q', response_held_q', held_cross_q', held_error_q'} \subseteq BOOLEAN
         /\ first_half_q' \in {Nop} \cup ParcelType
         /\ held_response_q' \in Payload
<1>1. {cross_pending_q', response_held_q', held_cross_q', held_error_q'} \subseteq BOOLEAN
  BY ShowsType DEF BufferEdge, TypeOK, control
<1>2. first_half_q' \in {Nop} \cup ParcelType
  BY ResponseIs DEF PayloadEdge, TypeOK
<1>3. held_response_q' \in Payload
  <2>1. Response \in Payload /\ Response[1] \in ParcelType
    BY ResponseIs DEF Payload
  <2>2. cross_pending_q => first_half_q \in ParcelType
    BY ParcelIsParcel DEF PayloadBelongsToPc, TypeOK
  <2>3. cross_pending_q => <<first_half_q, Response[1]>> \in Payload
    BY <2>1, <2>2 DEF Payload
  <2> QED
    BY <2>1, <2>3 DEF PayloadEdge, TypeOK
<1> QED
  BY <1>1, <1>2, <1>3

-----------------------------------------------------------------------------
(* The steps.                                                              *)

\* Where the three steps with a response come from.
LEMMA NextSteps ==
  ASSUME Next
  PROVE  \/ Wake
         \/ ~core_sleep /\ \E valid, error \in BOOLEAN :
              /\ valid => imem_valid
              /\ Hold(valid, error) \/ Consume(valid, error) \/ Flush(valid, error)
BY DEF Next, HoldEdge, ConsumeEdge, FlushEdge, WithResponse

\* A step that empties the buffer establishes the invariant for any PC.
LEMMA EmptyBuffer ==
  ASSUME IInv, ~cross_pending_q', ~response_held_q', reads' = 0
  PROVE  PayloadBelongsToPc' /\ NoDuplicateReads' /\ reads' \in 0 .. 2
<1>1. PayloadBelongsToPc'
  BY Zenon DEF PayloadBelongsToPc
<1>2. NoDuplicateReads'
  BY DEF NoDuplicateReads
<1> QED
  BY <1>1, <1>2

\* A consumed instruction leaves an empty buffer.
LEMMA ConsumeStep ==
  ASSUME IInv, NEW valid \in BOOLEAN, NEW error \in BOOLEAN, valid => imem_valid,
         Consume(valid, error)
  PROVE  IInv'
<1> USE DEF IInv
<1>1. Shows(valid, error).complete
  BY DEF Consume
<1>2. BufferEdge(FALSE, TRUE, valid, error) /\ PayloadEdge(FALSE, TRUE, valid, error)
  BY DEF Consume
<1>3. ~cross_pending_q' /\ ~response_held_q'
  <2>1. CASE response_held_q
    BY <1>2, <2>1 DEF BufferEdge, PayloadBelongsToPc
  <2>2. CASE ~response_held_q
    <3>1. valid
      BY <1>1, <2>2 DEF Shows
    <3>2. ~(~error /\ StartsCrossWord)
      BY <1>1, <2>2, <3>1 DEF Shows, StartsCrossWord
    <3> QED
      BY <1>2, <2>2, <3>1, <3>2 DEF BufferEdge
  <2> QED
    BY <2>1, <2>2
<1>4. pc' \in Pc
  <2>1. pc' = PcSequential(Shows(valid, error))
    BY DEF Consume
  <2>2. pc + 1 \in Nat /\ pc + 2 \in Nat
    BY DEF TypeOK, Pc
  <2> QED
    BY <2>1, <2>2, Wraps DEF PcSequential
<1>5. out' \in [pc : Pc, fault : BOOLEAN, instruction : Payload]
  BY <1>1, ShowsType DEF Consume, TypeOK
<1>6. reads' = 0 /\ wide' = wide /\ core_sleep' = core_sleep
  BY DEF Consume, ReadsEdge
<1> QED
  BY <1>2, <1>3, <1>4, <1>5, <1>6, EmptyBuffer, FlopsType DEF TypeOK

\* So does an accepted redirect.
LEMMA FlushStep ==
  ASSUME IInv, NEW valid \in BOOLEAN, NEW error \in BOOLEAN, Flush(valid, error)
  PROVE  IInv'
<1> USE DEF IInv
<1>1. BufferEdge(TRUE, FALSE, valid, error) /\ PayloadEdge(TRUE, FALSE, valid, error)
  BY DEF Flush
<1>2. ~cross_pending_q' /\ ~response_held_q'
  BY <1>1 DEF BufferEdge
<1>3. pc' \in Pc /\ core_sleep' \in BOOLEAN /\ reads' = 0 /\ wide' = wide /\ out' = out
  BY DEF Flush, ReadsEdge
<1> QED
  BY <1>1, <1>2, <1>3, EmptyBuffer, FlopsType DEF TypeOK

\* A held pipeline: the buffer keeps what it has, or keeps the response.
LEMMA HoldStep ==
  ASSUME IInv, NEW valid \in BOOLEAN, NEW error \in BOOLEAN, valid => imem_valid,
         Hold(valid, error)
  PROVE  IInv'
<1> USE DEF IInv
<1>1. /\ BufferEdge(FALSE, FALSE, valid, error) /\ PayloadEdge(FALSE, FALSE, valid, error)
      /\ ReadsEdge(FALSE, valid)
      /\ wide' = wide /\ pc' = pc /\ core_sleep' = core_sleep /\ out' = out
  BY DEF Hold
<1>2. Wanted' = Wanted
  BY <1>1 DEF Wanted, Parcel
<1>3. CASE response_held_q \/ ~valid
  <2>1. UNCHANGED control /\ UNCHANGED payload
    BY <1>1, <1>3 DEF BufferEdge, PayloadEdge, payload
  <2>2. reads' = reads
    BY <1>1, <1>3 DEF ReadsEdge, imem_valid, o_request_valid
  <2> QED
    BY <1>1, <2>1, <2>2 DEF control, payload, TypeOK, PayloadBelongsToPc, NoDuplicateReads,
                            Shows, Extract, IsWide, Upper, Parcel
<1>4. CASE ~response_held_q /\ valid /\ ~error /\ StartsCrossWord
  <2>1. ~cross_pending_q /\ Upper = 1 /\ Response[2] = Parcel(pc) /\ wide[pc]
    BY <1>4, ResponseIs, WideParcel DEF StartsCrossWord
  <2>2. /\ cross_pending_q' /\ ~response_held_q'
        /\ first_half_q' = Parcel(pc)
    BY <1>1, <1>4, <2>1 DEF BufferEdge, PayloadEdge
  <2>3. reads' = 1
    BY <1>1, <1>4, <2>1 DEF ReadsEdge, NoDuplicateReads
  <2>4. ~core_sleep
    BY <1>4 DEF imem_valid
  <2>5. PayloadBelongsToPc'
    BY <1>1, <2>1, <2>2, <2>4 DEF PayloadBelongsToPc, Parcel, Upper
  <2>6. NoDuplicateReads'
    BY <2>2, <2>3 DEF NoDuplicateReads
  <2>7. reads' \in 0 .. 2
    BY <2>3
  <2>8. TypeOK'
    BY <1>1, <2>7, FlopsType DEF TypeOK
  <2> QED
    BY <2>5, <2>6, <2>8
<1>5. CASE ~response_held_q /\ valid /\ ~(~error /\ StartsCrossWord)
  <2>1. /\ ~cross_pending_q' /\ response_held_q'
        /\ held_cross_q' = cross_pending_q
        /\ held_error_q' = Shows(valid, error).fault
    BY <1>1, <1>5 DEF BufferEdge
  <2>2. held_response_q' = IF cross_pending_q THEN <<first_half_q, Response[1]>> ELSE Response
    BY <1>1, <1>5 DEF PayloadEdge
  <2>3. reads' = IF held_cross_q' THEN 2 ELSE 1
    BY <1>1, <1>5, <2>1 DEF ReadsEdge, NoDuplicateReads
  <2>4. ~core_sleep
    BY <1>5 DEF imem_valid
  <2>5. ASSUME ~held_error_q' PROVE Shows(FALSE, FALSE)'.instruction = Wanted
    <3>1. Shows(FALSE, FALSE)'.instruction =
            IF held_cross_q' THEN held_response_q' ELSE Extract(Response)
      BY <1>1, <2>1, <2>2, <2>5 DEF Shows, Extract, IsWide, Upper
    <3>2. CASE cross_pending_q
      BY <2>1, <2>2, <3>1, <3>2, ResponseIs DEF PayloadBelongsToPc, Wanted
    <3>3. CASE ~cross_pending_q
      <4>1. ~error
        BY <1>5, <2>1, <2>5, <3>3 DEF Shows
      <4> QED
        BY <1>5, <2>1, <3>1, <3>3, <4>1, ExtractIs
    <3> QED
      BY <3>2, <3>3
  <2>6. PayloadBelongsToPc'
    BY <1>1, <1>2, <2>1, <2>4, <2>5 DEF PayloadBelongsToPc, Wanted
  <2>7. NoDuplicateReads' /\ reads' \in 0 .. 2
    BY <2>1, <2>3 DEF NoDuplicateReads
  <2> QED
    BY <1>1, <2>6, <2>7, FlopsType DEF TypeOK
<1> QED
  BY <1>3, <1>4, <1>5

\* Reset satisfies the inductive invariant.
LEMMA InitEstablishes == Init => IInv
<1> SUFFICES ASSUME Init PROVE IInv
  OBVIOUS
<1>1. 0 \in Pc /\ Nop \in Payload
  BY HalfwordsAssumption DEF Pc, Payload
<1>2. {core_sleep, cross_pending_q, response_held_q, held_cross_q, held_error_q}
        \subseteq BOOLEAN
  BY DEF Init
<1>3. out \in [pc : Pc, fault : BOOLEAN, instruction : Payload]
  BY <1>1 DEF Init
<1>4. TypeOK
  BY <1>1, <1>2, <1>3 DEF Init, TypeOK
<1>5. PayloadBelongsToPc /\ NoDuplicateReads
  BY DEF Init, PayloadBelongsToPc, NoDuplicateReads
<1> QED
  BY <1>4, <1>5 DEF IInv

\* Every step preserves it.
LEMMA StepPreserves == IInv /\ [Next]_vars => IInv'
<1> SUFFICES ASSUME IInv, [Next]_vars PROVE IInv'
  OBVIOUS
<1>1. CASE Wake
  <2>1. ~cross_pending_q' /\ ~response_held_q' /\ ~core_sleep' /\ reads' = 0
    BY <1>1 DEF Wake, IInv, PayloadBelongsToPc, NoDuplicateReads, control
  <2>2. TypeOK'
    BY <1>1, <2>1 DEF IInv, Wake, TypeOK, control, payload
  <2> QED
    BY <2>1, <2>2, EmptyBuffer DEF IInv
<1>2. CASE Next /\ ~Wake
  <2>1. PICK valid \in BOOLEAN, error \in BOOLEAN :
          /\ valid => imem_valid
          /\ Hold(valid, error) \/ Consume(valid, error) \/ Flush(valid, error)
    BY <1>2, NextSteps
  <2> QED
    BY <2>1, HoldStep, ConsumeStep, FlushStep
<1>3. CASE UNCHANGED vars
  BY <1>3 DEF vars, control, payload, IInv, TypeOK, PayloadBelongsToPc, NoDuplicateReads,
              Shows, Extract, IsWide, Upper, Parcel, Response, Word, o_bus_addr, StartsCrossWord
<1> QED
  BY <1>1, <1>2, <1>3

\* The inductive invariant holds in every reachable state.
LEMMA Inductive == Spec => []IInv
BY InitEstablishes, StepPreserves, PTL DEF Spec

-----------------------------------------------------------------------------
(* The theorems.                                                           *)

\* Every flop of the buffer keeps its type.
THEOREM TypeCorrect == Spec => []TypeOK
BY Inductive, PTL DEF IInv

\* A pending half or a held word is never shown for another instruction than
\* the one at the PC: no reset of the payload flops is needed.
THEOREM PayloadBelongsToPcHolds == Spec => []PayloadBelongsToPc
BY Inductive, PTL DEF IInv

\* No bus read is repeated, and no second one issued without need.
THEOREM NoDuplicateReadsHolds == Spec => []NoDuplicateReads
BY Inductive, PTL DEF IInv

-----------------------------------------------------------------------------
(* The refinement of FetchPort.                                            *)

\* What the abstract port sees of out.
Seen == [pc |-> out.pc, fault |-> out.fault,
         instruction |-> IF out.fault THEN Nop ELSE out.instruction]

\* Wanted is the port's instruction at the PC, and has its length.
LEMMA WantedIs ==
  /\ Wanted = Port!InstructionAt(pc)
  /\ Len(Wanted) = IF wide[pc] THEN 2 ELSE 1
BY DEF Wanted, Parcel, Port!InstructionAt, Port!Parcel

\* A step that delivers nothing leaves the abstract port alone, or redirects it.
LEMMA QuietStep ==
  ASSUME wide' = wide, out' = out, pc' \in Pc
  PROVE  Port!Redirect
BY DEF Port!Redirect, Port!Pc, Pc

\* A failed fetch counts as a wide instruction.
LEMMA FaultLength ==
  ASSUME TypeOK, NEW valid \in BOOLEAN, NEW error \in BOOLEAN,
         Shows(valid, error).complete, Shows(valid, error).fault
  PROVE  PcSequential(Shows(valid, error)) = (pc + 2) % Halfwords
<1>1. Shows(valid, error).instruction \in {Nop, <<first_half_q, Response[1]>>}
  BY DEF Shows
<1>2. Len(Nop) # 1 /\ Len(<<first_half_q, Response[1]>>) # 1
  BY DEF Nop
<1>3. Len(Shows(valid, error).instruction) # 1
  BY <1>1, <1>2, Zenon
<1> QED
  BY <1>3 DEF PcSequential

\* A consumed instruction is delivered, whole or marked as failed.
LEMMA ConsumeDelivers ==
  ASSUME IInv, NEW valid \in BOOLEAN, NEW error \in BOOLEAN, Consume(valid, error)
  PROVE  Port!Next
<1> DEFINE shows == Shows(valid, error)
<1>1. /\ shows.complete /\ wide' = wide
      /\ out' = [pc |-> pc, fault |-> shows.fault, instruction |-> shows.instruction]
      /\ pc' = PcSequential(shows)
  BY DEF Consume
<1>2. CASE shows.fault
  <2>1. pc' = (pc + 2) % Halfwords
    BY <1>1, <1>2, FaultLength DEF IInv
  <2>2. Seen' = [pc |-> pc, fault |-> TRUE, instruction |-> <<>>]
    <3>1. shows.fault = TRUE
      BY <1>2, ShowsType DEF IInv
    <3>2. out' = [pc |-> pc, fault |-> TRUE, instruction |-> shows.instruction]
      BY <1>1, <3>1
    <3> HIDE DEF shows
    <3> QED
      BY <3>2 DEF Seen, Nop
  <2>3. Port!DeliverFault
    BY <1>1, <2>1, <2>2 DEF Port!DeliverFault, Seen
  <2> QED
    BY <2>3 DEF Port!Next
<1>3. CASE ~shows.fault
  <2>1. shows.instruction = Wanted /\ shows.fault = FALSE
    BY <1>1, <1>3, ShowsWanted, ShowsType DEF IInv
  <2>2. pc' = (pc + IF wide[pc] THEN 2 ELSE 1) % Halfwords
    BY <1>1, <2>1, WantedIs DEF PcSequential
  <2>3. Seen' = [pc |-> pc, fault |-> FALSE, instruction |-> Port!InstructionAt(pc)]
    BY <1>1, <2>1, WantedIs DEF Seen
  <2>4. Port!Deliver
    BY <1>1, <2>2, <2>3 DEF Port!Deliver, Seen
  <2> QED
    BY <2>4 DEF Port!Next
<1> QED
  BY <1>2, <1>3

\* Fetch delivers exactly the program, for every number of wait states.
THEOREM Refinement == Spec => ImplementsFetchPort
<1>1. Init => Port!Init
  BY DEF Init, Port!Init, Pc, Port!Pc, Nop
<1>2. IInv /\ [Next]_vars => [Port!Next]_Port!vars
  <2> SUFFICES ASSUME IInv, [Next]_vars PROVE [Port!Next]_<<wide, pc, Seen>>
    BY DEF Port!vars, Seen
  <2>1. CASE Wake
    BY <2>1 DEF Wake, Seen
  <2>2. CASE Next /\ ~Wake
    <3>1. PICK valid \in BOOLEAN, error \in BOOLEAN :
            Hold(valid, error) \/ Consume(valid, error) \/ Flush(valid, error)
      BY <2>2, NextSteps
    <3>2. CASE Hold(valid, error)
      BY <3>2 DEF Hold, Seen
    <3>3. CASE Consume(valid, error)
      BY <3>3, ConsumeDelivers
    <3>4. CASE Flush(valid, error)
      <4>1. Port!Redirect
        BY <3>4, QuietStep DEF Flush
      <4> QED
        BY <4>1 DEF Port!Next
    <3> QED
      BY <3>1, <3>2, <3>3, <3>4
  <2>3. CASE UNCHANGED vars
    BY <2>3 DEF vars, Seen
  <2> QED
    BY <2>1, <2>2, <2>3
<1> QED
  BY <1>1, <1>2, Inductive, PTL DEF Spec, ImplementsFetchPort, Port!Spec
=============================================================================
