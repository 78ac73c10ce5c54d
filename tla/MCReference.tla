----------------------------- MODULE MCReference -----------------------------
(* The models the unit tests compare the core with, for TLC.  A behaviour is *)
(* one bench: a single parcel, a single word, or a generated program.        *)
EXTENDS ReferenceProgram, Decompressor

CONSTANT TestWords       \* the words looked at alone

ASSUME WordsAssumption == TestWords \subseteq InstructionWord

VARIABLES bench, parcel, word

Idle == /\ phase = "idle" /\ left = 0
        /\ words = <<>> /\ expected_writes = <<>> /\ registers = <<>> /\ memory = <<>>

ParcelBench == bench = "parcel" /\ parcel \in Parcel /\ word = Nop /\ Idle

\* Every opcode of the core and two others, every funct3, and in the other
\* fields every value a decoder looks at, with both ends of the field.
MCWord == [funct7: {0, 1, 8, 24, 32, 64, 95, 127}, rs2: {0, 1, 2, 5, 31}, rs1: {0, 1, 31},
           funct3: 0 .. 7, rd: {0, 1, 30, 31},
           opcode: {OP[o] : o \in DOMAIN OP} \cup {0, 127}]
WordBench == bench = "word" /\ word \in TestWords /\ parcel = 0 /\ Idle

ProgramBench == bench = "program" /\ Init /\ parcel = 0 /\ word = Nop

MCInit == ParcelBench \/ WordBench \/ ProgramBench

\* The ends of the range an immediate is drawn from, and both signs of one.
MCImmediates == {-2048, -1, 1, 2047}

\* Every instruction of the loop alone; loads and stores two at a time.
Body == IF left = 1 /\ Len(words) = 1 + 2 * Cardinality(Seeded)
        THEN Alu \/ Immediate \/ M \/ Load \/ Store ELSE Load \/ Store

MCNext == (Seed \/ Body \/ Finish) /\ UNCHANGED <<bench, parcel, word>>

MCSpec == MCInit /\ [][MCNext]_<<vars, bench, parcel, word>>

-----------------------------------------------------------------------------
(* Properties.                                                             *)

\* The RTL and the oracle agree on every parcel: on what is reserved, and bit
\* by bit on the expansion.
DecompressorMatchesOracle ==
  bench = "parcel" =>
    LET rtl == Decompress(parcel)
        oracle == decompress_rv32c(parcel)
    IN  rtl.illegal = oracle.illegal /\ rtl.instruction = oracle.instruction

\* What a mnemonic of the oracle abbreviates.
Abbreviates(mnemonic) ==
  CASE mnemonic \in {"c.nop", "c.addi", "c.addi4spn", "c.addi16sp", "c.li", "hint.c.lui.rd0"} -> "addi"
    [] mnemonic \in {"c.lw", "c.lwsp"} -> "lw"
    [] mnemonic \in {"c.sw", "c.swsp"} -> "sw"
    [] mnemonic \in {"c.j", "c.jal"}   -> "jal"
    [] mnemonic \in {"c.jr", "c.jalr"} -> "jalr"
    [] mnemonic \in {"c.mv", "c.add"}  -> "add"
    [] mnemonic = "c.lui"  -> "lui"      [] mnemonic = "c.beqz" -> "beq"
    [] mnemonic = "c.bnez" -> "bne"      [] mnemonic = "c.slli" -> "slli"
    [] mnemonic = "c.srli" -> "srli"     [] mnemonic = "c.srai" -> "srai"
    [] mnemonic = "c.andi" -> "andi"     [] mnemonic = "c.sub"  -> "sub"
    [] mnemonic = "c.xor"  -> "xor"      [] mnemonic = "c.or"   -> "or"
    [] mnemonic = "c.and"  -> "and"      [] mnemonic = "c.ebreak" -> "ebreak"

\* An accepted parcel reaches the pipeline as a word the control unit accepts
\* and the coverage monitor names as the instruction the parcel abbreviates;
\* and the four compressed encoders assemble exactly the parcels they stand
\* for, and refuse to assemble none but hints (parcels that write x0).
ExpansionsExecutable ==
  bench = "parcel" =>
    LET w == Decompress(parcel).instruction
        mnemonic == decompress_rv32c(parcel).coverage_bin
    IN  ~Decompress(parcel).illegal =>
          /\ instruction_is_legal(w)
          /\ decode_instruction(w) = Abbreviates(mnemonic)
          /\ (w.rd = 0
                \/ CASE mnemonic \in {"c.addi", "c.li"} -> CEncodableImmediate(mnemonic, w.rd, o_imm(w))
                     [] mnemonic \in {"c.mv", "c.add"}  -> CEncodableRegister(w.rd, w.rs2)
                     [] OTHER -> TRUE)
          /\ CASE mnemonic \in {"c.addi", "c.nop"} -> parcel = c_addi(w.rd, o_imm(w))
               [] mnemonic = "c.li"  -> parcel = c_li(w.rd, o_imm(w))
               [] mnemonic = "c.mv"  -> parcel = c_mv(w.rd, w.rs2)
               [] mnemonic = "c.add" -> parcel = c_add(w.rd, w.rs2)
               [] OTHER -> TRUE

\* The arguments to assemble a word with, as the core decodes them.
Disassembled(w) ==
  LET m == decode_instruction(w)
  IN  Insn(m, w.rd, w.rs1, w.rs2, CASE m \in DOMAIN ShiftType -> w.rs2
                                    [] m \in DOMAIN UType     -> UpperBits(w)
                                    [] m \in DOMAIN CsrType   -> 2^5 * w.funct7 + w.rs2
                                    [] OTHER                  -> o_imm(w))

\* Legality, naming, immediates and the test encoders agree: a word the
\* control unit accepts has a name, and assembling that name with the
\* immediate the core generates for it gives the word back, so the tests can
\* write every legal word they name and the core reads what they wrote.
LegalWordsReassemble ==
  bench = "word" /\ instruction_is_legal(word) =>
    LET i == Disassembled(word)
    IN  \/ i.m = "None" /\ word.opcode = OP.MISC_MEM /\ word.funct3 = 0     \* FENCE
        \/ i.m \in {"csrrc", "ebreak", "fence.i"}                           \* not in riscv.py
        \/ Encodable(i) /\ Encode(i) = word

\* The instruction of the pipeline model a named word behaves as.
Model == INSTANCE Instructions WITH Words <- 4, NumRegs <- 4
PipelineOp(m) ==
  CASE m \in DOMAIN IType \cup DOMAIN ShiftType -> "addi"
    [] m \in DOMAIN RType      -> "add"
    [] m \in DOMAIN MType      -> "mul"
    [] m \in DOMAIN LoadType   -> "lw"
    [] m \in DOMAIN StoreType  -> "sw"
    [] m \in DOMAIN BranchType -> "beq"
    [] m = "fence.i"           -> "fence_i"
    [] m = "None"              -> "fence"       \* the monitor names no other legal word so
    [] OTHER                   -> m

\* Every legal word is one of the pipeline model's instructions, and that model
\* raises for it exactly the controls the control unit raises for the word:
\* those that write, read, forward, stall, redirect and access a CSR.
ControlsAsModelled ==
  bench = "word" /\ instruction_is_legal(word) =>
    LET c == Controls(word)
        i == [op |-> PipelineOp(decode_instruction(word))]
      IN    /\ i.op \in Model!Op \ {"illegal", "none"}
          /\ c.reg_write = Model!RegWrite(i)
          /\ c.mem_read = Model!MemRead(i) /\ c.mem_write = Model!MemWrite(i)
          /\ c.wb_sel = Model!WbSel(i)
          /\ c.rs1_read = Model!Rs1Read(i) /\ c.rs2_read = Model!Rs2Read(i)
          /\ c.csr_en = Model!CsrEn(i) /\ c.csr_imm = Model!CsrImm(i)
          /\ c.csr_op = Model!CsrOp(i)
          /\ c.jal = (i.op = "jal") /\ c.jalr = (i.op = "jalr")
          /\ c.branch_en = (i.op = "beq") /\ c.fence_i = (i.op = "fence_i")
          /\ c.system = {i.op} \cap DOMAIN SystemWords
=============================================================================
