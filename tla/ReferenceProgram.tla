-------------------------- MODULE ReferenceProgram --------------------------
(***************************************************************************)
(* reference_model.py: the generator of random straight-line programs,     *)
(* which computes the architectural outcome while it emits the words, and  *)
(* the datapath of the core that has to reproduce it: decode, the ALU and  *)
(* its operand multiplexers, the RV32M values (MCMdu) and write-back, one  *)
(* instruction at a time (Pipeline covers their overlap).                  *)
(*                                                                         *)
(* Instruction words are exact; data words have N bits, as the RTL's       *)
(* parameter allows.  One step is one iteration of the generator's loop,   *)
(* its random choices are nondeterministic.                                *)
(***************************************************************************)
EXTENDS WordArithmetic, Decode, FiniteSets

CONSTANTS Seeded,        \* the registers given an initial value, 1 .. 12 in the source
          SeedValues,    \* the values they may get
          Sources, Destinations,   \* the registers chosen from
          Immediates, Shifts, Offsets,
          Lengths         \* instruction_count

Registers == 0 .. 31
Base == 2^10             \* x31, the data-memory base
Marker == 1370           \* 0x55A

\* What rng draws from: x31 keeps the base.
ASSUME ChoiceAssumption ==
  /\ Seeded \subseteq Registers \ {0, 31} /\ SeedValues \subseteq Operand
  /\ Sources \subseteq Registers /\ Destinations \subseteq Registers \ {31}
  /\ Immediates \subseteq -(2^11) .. 2^11 - 1 /\ Shifts \subseteq 0 .. 31

\* The data are words behind the program: the memory of the test bench is one
\* array, from which both are read.
ASSUME AddressAssumption ==
  /\ Offsets \subseteq 0 .. 2^11 - 1
  /\ \A offset \in Offsets : offset % 4 = 0 /\ Base + offset < Modulus
  /\ Lengths \subseteq Nat
  /\ \A l \in Lengths : 4 * (2 * Cardinality(Seeded) + l + 3) <= Base

\* LUI and ADDI cover a word, and LUI drops what is above it.
ASSUME ImmediateAssumption == N \in 12 .. 32 /\ 2^20 % 2^(N - 12) = 0

VARIABLES phase,         \* "seed", "body" or "done"
          left,          \* iterations of the loop left
          words, expected_writes, registers, memory    \* the _Builder

vars == <<phase, left, words, expected_writes, registers, memory>>

-----------------------------------------------------------------------------
(* _Builder.                                                               *)

\* Everything the builder has, and one more word that writes rd.
Emit(b, i, value) ==
  LET v == u32(value)
  IN  [b EXCEPT !.words = Append(@, Encode(i)),
                !.writes = IF i.rd = 0 THEN @ ELSE Append(@, <<4 * Len(b.words), i.rd, v>>),
                !.registers = [@ EXCEPT ![i.rd] = IF i.rd = 0 THEN 0 ELSE v]]

Builder == [words |-> words, writes |-> expected_writes, registers |-> registers]

Becomes(b) == /\ words' = b.words
              /\ expected_writes' = b.writes
              /\ registers' = b.registers

Insn(m, rd, rs1, rs2, imm) == [m |-> m, rd |-> rd, rs1 |-> rs1, rs2 |-> rs2, imm |-> imm]

-----------------------------------------------------------------------------
(* generate_random_program.                                                *)

Init == /\ phase = "seed"
        /\ left \in Lengths
        /\ memory = [a \in {} |-> 0]
        /\ LET empty == [words |-> <<>>, writes |-> <<>>, registers |-> [r \in Registers |-> 0]]
               based == Emit(empty, Insn("addi", 31, 0, 0, Base), Base)
           IN  words = based.words /\ expected_writes = based.writes
                 /\ registers = based.registers

\* Fault: the upper part is not rounded for the sign of the lower one.
UpperWithoutCarry(value) == (value \div 2^12) % 2^20

UpperPart(value) == ((value + 2^11) \div 2^12) % 2^20
LowerPart(value) == LET lower == value % 2^12 IN IF lower >= 2^11 THEN lower - 2^12 ELSE lower

\* LUI and ADDI of a random value, once for each register.
Seed == /\ phase = "seed"
        /\ \E rd \in Seeded, value \in SeedValues :
             /\ Len(words) = 1 + 2 * Cardinality({r \in Seeded : r < rd})
             /\ LET high == Emit(Builder, Insn("lui", rd, 0, 0, UpperPart(value)),
                                 2^12 * UpperPart(value))
                IN  Becomes(Emit(high, Insn("addi", rd, rd, 0, LowerPart(value)), value))
             /\ phase' = IF Len(words') = 1 + 2 * Cardinality(Seeded) THEN "body" ELSE "seed"
        /\ UNCHANGED <<left, memory>>

\* Iterations of the loop: the value is computed on unbounded integers.
Iterates == phase = "body" /\ left > 0 /\ left' = left - 1 /\ UNCHANGED phase

\* Bit by bit, on words; Number is the word with the given bits.
Number(bits) ==
  LET sum[n \in 0 .. N] == IF n = 0 THEN 0 ELSE sum[n - 1] + 2^(n - 1) * bits[n - 1]
  IN  sum[N]
BitAnd(a, b) == Number([i \in 0 .. N - 1 |-> Bits(a, i, i) * Bits(b, i, i)])
BitOr(a, b)  == Number([i \in 0 .. N - 1 |-> IF Bits(a, i, i) = 1 THEN 1 ELSE Bits(b, i, i)])
BitXor(a, b) == Number([i \in 0 .. N - 1 |-> (Bits(a, i, i) + Bits(b, i, i)) % 2])

ShiftLeft(a, n)  == IF n < N THEN (a * 2^n) % Modulus ELSE 0
ShiftRight(a, n) == IF n < N THEN a \div 2^n ELSE IF a < 0 THEN -1 ELSE 0

AluValue(op, a, b) ==
  LET shift == b % 2^5
  IN  CASE op = "add"  -> a + b
        [] op = "sub"  -> a - b
        [] op = "sll"  -> ShiftLeft(a, shift)
        [] op = "slt"  -> IF s32(a) < s32(b) THEN 1 ELSE 0
        [] op = "sltu" -> IF a < b THEN 1 ELSE 0
        [] op = "xor"  -> BitXor(a, b)
        [] op = "srl"  -> ShiftRight(a, shift)
        [] op = "sra"  -> ShiftRight(s32(a), shift)
        [] op = "or"   -> BitOr(a, b)
        [] op = "and"  -> BitAnd(a, b)

Alu == /\ Iterates
       /\ \E op \in DOMAIN RType, rd \in Destinations, rs1, rs2 \in Sources :
            Becomes(Emit(Builder, Insn(op, rd, rs1, rs2, 0),
                         AluValue(op, registers[rs1], registers[rs2])))
       /\ UNCHANGED memory

ImmediateValue(op, a, immediate) ==
  CASE op = "addi"  -> a + immediate
    [] op = "slti"  -> IF s32(a) < immediate THEN 1 ELSE 0
    [] op = "sltiu" -> IF a < u32(immediate) THEN 1 ELSE 0
    [] op = "xori"  -> BitXor(a, u32(immediate))
    [] op = "ori"   -> BitOr(a, u32(immediate))
    [] op = "andi"  -> BitAnd(a, u32(immediate))
    [] op = "slli"  -> ShiftLeft(a, immediate)
    [] op = "srli"  -> ShiftRight(a, immediate)
    [] op = "srai"  -> ShiftRight(s32(a), immediate)

Immediate == /\ Iterates
             /\ \E op \in DOMAIN IType \cup DOMAIN ShiftType, rd \in Destinations, rs1 \in Sources :
                  \E immediate \in IF op \in DOMAIN ShiftType THEN Shifts ELSE Immediates :
                    Becomes(Emit(Builder, Insn(op, rd, rs1, 0, immediate),
                                 ImmediateValue(op, registers[rs1], immediate)))
             /\ UNCHANGED memory

M == /\ Iterates
     /\ \E op \in DOMAIN MType, rd \in Destinations, rs1, rs2 \in Sources :
          Becomes(Emit(Builder, Insn(op, rd, rs1, rs2, 0),
                       MValue(op, registers[rs1], registers[rs2])))
     /\ UNCHANGED memory

\* A load of a word no store has written yet returns 0.
Load == /\ Iterates
        /\ \E rd \in Destinations, offset \in Offsets :
             Becomes(Emit(Builder, Insn("lw", rd, 31, 0, offset),
                          IF Base + offset \in DOMAIN memory THEN memory[Base + offset] ELSE 0))
        /\ UNCHANGED memory

Store == /\ Iterates
         /\ \E source \in Sources, offset \in Offsets :
              /\ words' = Append(words, Encode(Insn("sw", 0, 31, source, offset)))
              /\ memory' = [a \in {Base + offset} \cup DOMAIN memory |->
                              IF a = Base + offset THEN registers[source] ELSE memory[a]]
         /\ UNCHANGED <<expected_writes, registers>>

\* The completion marker, and a jump to itself.
Finish == /\ phase = "body" /\ left = 0
          /\ phase' = "done"
          /\ LET marked == Emit(Builder, Insn("addi", 30, 0, 0, Marker), Marker)
             IN  Becomes([marked EXCEPT !.words = Append(@, Encode(Insn("jal", 0, 0, 0, 0)))])
          /\ UNCHANGED <<left, memory>>

Next == Seed \/ Alu \/ Immediate \/ M \/ Load \/ Store \/ Finish

Spec == Init /\ [][Next]_vars

-----------------------------------------------------------------------------
(* The datapath.                                                           *)

\* alu_unit.sv: ALU_SRA fills with the sign bit.
alu_result(ctrl, a, b) ==
  LET shamt == b % 2^5
  IN  CASE ctrl = "ADD"  -> (a + b) % Modulus
        [] ctrl = "SUB"  -> (a + (Modulus - b)) % Modulus
        [] ctrl = "AND"  -> BitAnd(a, b)
        [] ctrl = "OR"   -> BitOr(a, b)
        [] ctrl = "XOR"  -> BitXor(a, b)
        [] ctrl = "SLT"  -> IF Negative(a) = Negative(b) THEN IF a < b THEN 1 ELSE 0
                            ELSE IF Negative(a) THEN 1 ELSE 0
        [] ctrl = "SLTU" -> IF a < b THEN 1 ELSE 0
        [] ctrl = "SLL"  -> ShiftLeft(a, shamt)
        [] ctrl = "SRL"  -> ShiftRight(a, shamt)
        [] ctrl = "SRA"  -> IF ~Negative(a) THEN ShiftRight(a, shamt)
                            ELSE Modulus - 1 - ShiftRight(Modulus - 1 - a, shamt)
        [] OTHER         -> 0

\* What the execute stage computes: the multiply/divide unit takes over for
\* the words it claims.
ex_result(w, pc, a, b) ==
  LET c == Controls(w)
      left_operand  == IF c.alu_a_sel THEN pc ELSE a
      right_operand == IF c.alu_src THEN u32(o_imm(w)) ELSE b
  IN  IF w.opcode = OP.REG /\ w.funct7 = 1
      THEN u32(MValue(CHOOSE op \in DOMAIN MType : MType[op] = w.funct3, a, b))
      ELSE alu_result(c.alu_ctrl, left_operand, right_operand)

\* One word from fetch to write-back.
Execute(m, w) ==
  LET c == Controls(w)
      result == ex_result(w, m.pc, m.registers[w.rs1], m.registers[w.rs2])
      value == CASE c.wb_sel = "MEM" -> m.memory[result]
                 [] c.wb_sel = "PC4" -> u32(m.pc + 4)
                 [] c.wb_sel = "IMM" -> u32(o_imm(w))
                 [] c.wb_sel = "ALU" -> result
      writes == c.reg_write /\ w.rd # 0
  IN  [pc |-> IF c.jal THEN u32(m.pc + o_imm(w)) ELSE u32(m.pc + 4),
       registers |-> IF writes THEN [m.registers EXCEPT ![w.rd] = value] ELSE m.registers,
       memory |-> IF c.mem_write THEN [m.memory EXCEPT ![result] = m.registers[w.rs2]]
                  ELSE m.memory,
       commits |-> IF writes THEN Append(m.commits, <<m.pc, w.rd, value>>) ELSE m.commits]

DataAddress == {Base + offset : offset \in Offsets}

Reset == [pc |-> 0, registers |-> [r \in Registers |-> 0],
          memory |-> [a \in DataAddress |-> 0], commits |-> <<>>]

\* The core after the words of a program.
Executed(program) ==
  LET after[n \in 0 .. Len(program)] ==
        IF n = 0 THEN Reset ELSE Execute(after[n - 1], program[n])
  IN  after[Len(program)]

Outcome == Executed(words)

-----------------------------------------------------------------------------
(* Properties.                                                             *)

\* The scoreboard of the random test never raises a false alarm: executed by
\* the datapath, a generated program commits exactly the register writes the
\* generator recorded, in order and at their PCs, leaves in memory what it
\* recorded, and ends in the jump to itself.
ExpectedOutcome ==
  phase = "done" =>
    /\ Outcome.commits = expected_writes
    /\ \A a \in DOMAIN memory : Outcome.memory[a] = memory[a]
    /\ Outcome.pc = 4 * (Len(words) - 1)
=============================================================================
