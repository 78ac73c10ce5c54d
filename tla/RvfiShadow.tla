----------------------------- MODULE RvfiShadow -----------------------------
(***************************************************************************)
(* tdrv32_rvfi_shadow.sv beside the pipeline: the valid bits it mirrors,   *)
(* the trap packet it keeps until the channel is free, and the packet it   *)
(* puts on the RVFI channel in each cycle.  A packet is identified by the  *)
(* PC of its instruction; operands and memory fields are left out.         *)
(***************************************************************************)
EXTENDS Pipeline

VARIABLES mem_valid_shadow, wb_valid_shadow, trap_pending, trap_pc_q,
          wb_pc_q,       \* i_wb_pc: the PC payload of MEM/WB
          packet         \* what o_rvfi_* showed in the last cycle, or NoPacket

rvfi == <<mem_valid_shadow, wb_valid_shadow, trap_pending, trap_pc_q, wb_pc_q, packet>>
rvfiVars == <<vars, rvfi>>

NoPacket == [valid |-> FALSE, trap |-> FALSE, pc |-> 0]

commit_valid(in) == memwb.valid /\ pipeline_advance(in) /\ wb_valid_shadow
trap_event(in)   == ex_sync_trap(in) \/ data_access_exception(in)

\* Fault: the shadow of MEM does not see a trap.
ValidUntrapped(in) == idex.valid
EnteringMem(in) == idex.valid /\ ~trap_enter(in)

\* Fault: showing the packet of a trap does not end it.
PendingForever(in) == trap_event(in) \/ trap_pending
StillPending(in) == trap_event(in) \/ (trap_pending /\ commit_valid(in))

CommitPacket == [valid |-> TRUE, trap |-> FALSE, pc |-> wb_pc_q]
TrapPacket   == [valid |-> TRUE, trap |-> TRUE, pc |-> trap_pc_q]

\* Fault: the trap packet does not wait for the channel.
TrapFirst(in) == IF trap_pending THEN TrapPacket
                 ELSE IF commit_valid(in) THEN CommitPacket ELSE NoPacket
Shown(in) == IF commit_valid(in) THEN CommitPacket
             ELSE IF trap_pending THEN TrapPacket ELSE NoPacket

ShadowEdge(in) ==
  /\ mem_valid_shadow' = IF pipeline_stall(in) THEN mem_valid_shadow
                         ELSE EnteringMem(in)
  /\ wb_valid_shadow' = IF pipeline_stall(in) THEN wb_valid_shadow
                        ELSE mem_valid_shadow /\ ~data_access_exception(in)
  /\ wb_pc_q' = IF pipeline_stall(in) THEN wb_pc_q ELSE exmem.pc
  /\ trap_pending' = StillPending(in)
  /\ trap_pc_q' = IF trap_event(in) THEN trap_pc(in) ELSE trap_pc_q
  /\ packet' = Shown(in)

RvfiInit == /\ Init
            /\ mem_valid_shadow = FALSE
            /\ wb_valid_shadow = FALSE
            /\ trap_pending = FALSE
            /\ trap_pc_q = 0
            /\ wb_pc_q = 0
            /\ packet = NoPacket

RvfiNext == \E in \in Inputs : Edge(in) /\ ShadowEdge(in)

RvfiSpec == RvfiInit /\ [][RvfiNext]_rvfiVars

-----------------------------------------------------------------------------
(* Properties.                                                             *)

\* The shadow's valid bits are those of the stages they mirror.
ShadowMatches == mem_valid_shadow = exmem.valid /\ wb_valid_shadow = memwb.valid

\* No trap packet is overwritten by a second trap before it was shown.
NoTrapPacketLost ==
  [][trap_pending /\ trap_pending' => trap_pc_q' = trap_pc_q /\ ~packet'.trap]_rvfiVars

\* When the packet of a trapped instruction is shown, no instruction in front
\* of it still has to show its own (MEM and WB then only hold older
\* instructions, the trap has emptied the rest).
InOrder == packet'.trap => ~memwb.valid

\* The channel is in order.
InOrderChannel == [][InOrder]_rvfiVars
=============================================================================
