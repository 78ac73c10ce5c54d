----------------------------- MODULE FetchBuffer ----------------------------
(***************************************************************************)
(* rv32c_fetch_buffer.sv with the program counter it serves and the native *)
(* instruction port it reads: aligned two-parcel words come back after any *)
(* number of wait states, possibly in error, and instructions of one or    *)
(* two parcels go out, a wide one starting in the upper half of a word     *)
(* being assembled from two reads.                                         *)
(*                                                                         *)
(* One step is one rising edge.  What the rest of the pipeline contributes *)
(* to that edge (advance, stall_if_id, a redirect and its target) is       *)
(* chosen in the step, under the constraints the pipeline puts on it.      *)
(***************************************************************************)
EXTENDS Naturals, Sequences

CONSTANT Halfwords

ASSUME HalfwordsAssumption == Halfwords \in Nat /\ Halfwords % 2 = 0 /\ Halfwords > 2

Pc == 0 .. Halfwords - 1

VARIABLES
  wide,             \* the program: does the parcel at an address start a wide instruction
  pc,               \* if_pc_current
  core_sleep,
  cross_pending_q, first_half_q,
  response_held_q, held_cross_q, held_error_q, held_response_q,
  out,              \* the last instruction IF/ID took
  reads             \* bus responses received for the instruction at pc

control == <<cross_pending_q, response_held_q, held_cross_q, held_error_q>>
payload == <<first_half_q, held_response_q>>
vars == <<wide, pc, core_sleep, control, payload, out, reads>>

-----------------------------------------------------------------------------
(* A parcel is its address and whether it starts a wide instruction; a bus *)
(* word is the pair of parcels of an aligned address.                      *)

Parcel(a) == <<a, wide[a]>>
IsWide(parcel) == parcel[2]
Word(a) == <<Parcel(a), Parcel(a + 1)>>

Nop == <<>>     \* 32'h13, what the buffer shows when it has nothing to show

Upper == pc % 2           \* i_pc[1]

\* Fault: the request is not withdrawn while a response is held.
RequestAlways == TRUE

o_request_valid == ~response_held_q
imem_valid      == ~core_sleep /\ o_request_valid

o_bus_addr == IF cross_pending_q THEN (pc - Upper + 2) % Halfwords
              ELSE pc - Upper

Response == Word(o_bus_addr)        \* i_response_data, when a response is valid

\* Fault: a second half may start another cross-word instruction.
StartsCrossWordAgain == Upper = 1 /\ IsWide(Response[2])

StartsCrossWord == ~cross_pending_q /\ Upper = 1 /\ IsWide(Response[2])

\* Fault: the lower half is taken whatever PC[1] says.
ExtractLower(word) == IF IsWide(word[1]) THEN word ELSE <<word[1]>>

\* The instruction at pc out of a word that holds all of it.
Extract(word) == LET parcel == word[Upper + 1]
                 IN  IF IsWide(parcel) THEN word ELSE <<parcel>>

\* {o_complete, o_access_fault, o_instruction} in a cycle with (valid) or
\* without a response.
Shows(valid, error) ==
  IF response_held_q
  THEN [complete |-> TRUE, fault |-> held_error_q,
        instruction |-> IF held_error_q THEN Nop
                        ELSE IF held_cross_q THEN held_response_q
                        ELSE Extract(held_response_q)]
  ELSE IF valid /\ cross_pending_q
  THEN [complete |-> TRUE, fault |-> error,
        instruction |-> <<first_half_q, Response[1]>>]
  ELSE IF valid /\ error
  THEN [complete |-> TRUE, fault |-> TRUE, instruction |-> Nop]
  ELSE IF valid /\ ~StartsCrossWord
  THEN [complete |-> TRUE, fault |-> FALSE, instruction |-> Extract(Response)]
  ELSE [complete |-> FALSE, fault |-> FALSE, instruction |-> Nop]

\* Fault: the PC does not wrap.
PcUnwrapped(shows) == pc + IF Len(shows.instruction) = 1 THEN 1 ELSE 2

PcSequential(shows) ==
  (pc + IF Len(shows.instruction) = 1 THEN 1 ELSE 2) % Halfwords

-----------------------------------------------------------------------------
Init == /\ wide \in [Pc -> BOOLEAN]
        /\ pc = 0
        /\ core_sleep = FALSE
        /\ cross_pending_q = FALSE
        /\ response_held_q = FALSE
        /\ held_cross_q = FALSE
        /\ held_error_q = FALSE
        /\ first_half_q = Nop        \* not reset: garbage, which no parcel equals
        /\ held_response_q = Nop
        /\ out = [pc |-> 0, fault |-> FALSE, instruction |-> Nop]
        /\ reads = 0

\* The control flops, in the priority of the always_ff block.
BufferEdge(flush, consume, valid, error) ==
  IF flush \/ (response_held_q /\ consume)
  THEN /\ cross_pending_q' = (cross_pending_q /\ ~flush)
       /\ response_held_q' = FALSE
       /\ held_cross_q' = FALSE
       /\ held_error_q' = FALSE
  ELSE IF response_held_q \/ ~valid
  THEN UNCHANGED control
  ELSE IF ~error /\ StartsCrossWord
  THEN /\ cross_pending_q' = TRUE
       /\ UNCHANGED <<response_held_q, held_cross_q, held_error_q>>
  ELSE /\ cross_pending_q' = FALSE
       /\ IF consume
          THEN UNCHANGED <<response_held_q, held_cross_q, held_error_q>>
          ELSE /\ response_held_q' = TRUE
               /\ held_cross_q' = cross_pending_q
               /\ held_error_q' = Shows(valid, error).fault

\* The payload flops, which no reset reaches.
PayloadEdge(flush, consume, valid, error) ==
  LET loads == ~flush /\ ~response_held_q /\ valid
      first == ~error /\ StartsCrossWord
  IN  /\ first_half_q' = IF loads /\ first THEN Response[2] ELSE first_half_q
      /\ held_response_q' = IF loads /\ ~first /\ ~consume
                            THEN IF cross_pending_q
                                 THEN <<first_half_q, Response[1]>> ELSE Response
                            ELSE held_response_q

ReadsEdge(restart, valid) ==
  reads' = IF restart THEN 0 ELSE IF valid THEN reads + 1 ELSE reads

\* The pipeline is held: imem_wait, or a stall of a later stage.
Hold(valid, error) ==
  /\ BufferEdge(FALSE, FALSE, valid, error)
  /\ PayloadEdge(FALSE, FALSE, valid, error)
  /\ ReadsEdge(FALSE, valid)
  /\ UNCHANGED <<wide, pc, core_sleep, out>>

\* A complete instruction moves into IF/ID and the PC moves past it.
Consume(valid, error) ==
  LET shows == Shows(valid, error)
  IN  /\ shows.complete
      /\ BufferEdge(FALSE, TRUE, valid, error)
      /\ PayloadEdge(FALSE, TRUE, valid, error)
      /\ ReadsEdge(TRUE, valid)
      /\ out' = [pc |-> pc, fault |-> shows.fault, instruction |-> shows.instruction]
      /\ pc' = PcSequential(shows)
      /\ UNCHANGED <<wide, core_sleep>>

\* A redirect is accepted: only in a cycle the pipeline advances, hence with a
\* complete instruction, which is dropped.  WFI redirects and goes to sleep.
Flush(valid, error) ==
  /\ Shows(valid, error).complete
  /\ BufferEdge(TRUE, FALSE, valid, error)
  /\ PayloadEdge(TRUE, FALSE, valid, error)
  /\ ReadsEdge(TRUE, valid)
  /\ pc' \in Pc
  /\ core_sleep' \in BOOLEAN
  /\ UNCHANGED <<wide, out>>

\* No request leaves a sleeping core, and its PC is held.
Wake == /\ core_sleep
        /\ core_sleep' = FALSE
        /\ UNCHANGED <<wide, pc, control, payload, out, reads>>

WithResponse(Step(_, _)) ==
  /\ ~core_sleep
  /\ \/ Step(FALSE, FALSE)
     \/ imem_valid /\ \E error \in BOOLEAN : Step(TRUE, error)

HoldEdge    == WithResponse(Hold)
ConsumeEdge == WithResponse(Consume)
FlushEdge   == WithResponse(Flush)

Next == HoldEdge \/ ConsumeEdge \/ FlushEdge \/ Wake
Spec == Init /\ [][Next]_vars

-----------------------------------------------------------------------------
(* Properties.                                                             *)

ParcelType == {<<a, w>> : a \in Pc, w \in BOOLEAN}
Payload == {Nop} \cup {<<p>> : p \in ParcelType} \cup (ParcelType \X ParcelType)

\* Every variable stays within its type.
TypeOK == /\ wide \in [Pc -> BOOLEAN]
          /\ pc \in Pc
          /\ {core_sleep, cross_pending_q, response_held_q, held_cross_q, held_error_q}
               \subseteq BOOLEAN
          /\ first_half_q \in {Nop} \cup ParcelType
          /\ held_response_q \in Payload
          /\ out \in [pc : Pc, fault : BOOLEAN, instruction : Payload]
          /\ reads \in 0 .. 2

\* The buffer never remembers two things at once, a sleeping core remembers
\* nothing, and what it remembers belongs to the instruction at the PC: a
\* pending first half is the parcel at the PC and a held word holds the whole
\* instruction (the observability rule of the unreset payload flops).
PayloadBelongsToPc ==
  /\ ~(cross_pending_q /\ response_held_q)
  /\ core_sleep => ~cross_pending_q /\ ~response_held_q
  /\ cross_pending_q => first_half_q = Parcel(pc) /\ wide[pc] /\ Upper = 1
  /\ response_held_q /\ ~held_error_q =>
       Shows(FALSE, FALSE).instruction =
         IF wide[pc] THEN <<Parcel(pc), Parcel((pc + 1) % Halfwords)>> ELSE <<Parcel(pc)>>

\* An instruction costs exactly the bus reads it needs: none is repeated
\* because IF/ID could not take the response (the one-entry hold), and the
\* second one is issued only after the first.
NoDuplicateReads ==
  reads = IF cross_pending_q THEN 1
          ELSE IF ~response_held_q THEN 0
          ELSE IF held_cross_q THEN 2 ELSE 1

\* Fetch delivers exactly the program: FetchPort, with what it says of a
\* failed fetch (no instruction) hiding the parcels a failed second read shows.
Port == INSTANCE FetchPort WITH
          out <- [pc |-> out.pc, fault |-> out.fault,
                  instruction |-> IF out.fault THEN Nop ELSE out.instruction]
ImplementsFetchPort == Port!Spec
=============================================================================
