-------------------------------- MODULE Isa ----------------------------------
(***************************************************************************)
(* What the simulated machine is to do, one instruction after the other.   *)
(* Branches have no delay slot.  The system call ExitCode ends the         *)
(* program.  Instructions behind it in the pipeline may still leave traces *)
(* in HI, LO and memory, but none in the registers.                        *)
(***************************************************************************)
EXTENDS Instructions

CONSTANTS Programs, InitialRegs, InitialHiLo, InitialMemory

VARIABLES
  program,  \* the instruction in each word of the text
  next,     \* the address of the next instruction, or Halted
  regs, hilo, memory

vars == <<program, next, regs, hilo, memory>>

Halted == -1

Init ==
  /\ program \in Programs
  /\ next = 0
  /\ regs \in InitialRegs
  /\ hilo = InitialHiLo
  /\ memory = InitialMemory

\* Register 0 reads as 0 and is not written.
Read(r) == IF r = 0 THEN 0 ELSE regs[r]
Writes(r, v) == regs' = IF r = 0 THEN regs ELSE [regs EXCEPT ![r] = v]

\* Operations of format SPECIAL without a result write 0 to the register of rd.
Compute(i, a, b) ==
  \/ /\ i.op = "alu"
     /\ Writes(i.rd, Result[i.fn, a, b, i.imm])
     /\ UNCHANGED <<hilo, memory>>
  \/ /\ i.op = "imm"
     /\ Writes(i.rt, Result[i.fn, a, 0, i.imm])
     /\ UNCHANGED <<hilo, memory>>
  \/ /\ i.op = "muldiv"
     /\ hilo' = Product[i.fn, a, b]
     /\ Writes(i.rd, 0)
     /\ UNCHANGED memory
  \/ /\ \/ i.op = "mfhi" /\ Writes(i.rd, hilo.hi)
        \/ i.op = "mflo" /\ Writes(i.rd, hilo.lo)
     /\ UNCHANGED <<hilo, memory>>
  \/ /\ \/ i.op = "mthi" /\ hilo' = [hilo EXCEPT !.hi = a]
        \/ i.op = "mtlo" /\ hilo' = [hilo EXCEPT !.lo = a]
     /\ Writes(i.rd, 0)
     /\ UNCHANGED memory
  \/ i.op = "other" /\ UNCHANGED <<regs, hilo, memory>>

Access(i, a, b) ==
  \/ /\ i.op = "load"
     /\ LET address == Plus(a, i.imm)
        IN  Writes(i.rt, Part[i.fn, memory[WordOf(address)], address])
     /\ UNCHANGED <<hilo, memory>>
  \/ /\ i.op = "store"
     /\ LET address == Plus(a, i.imm)
        IN  memory' = [memory EXCEPT ![WordOf(address)] = Patched[i.fn, @, b, address]]
     /\ UNCHANGED <<regs, hilo>>

\* A branch that links does so whether it is taken or not.
Jump(i, a, b) ==
  /\ \/ /\ i.op = "jr"
        /\ next' = a
        /\ Writes(i.rd, Following(next))
     \/ /\ i.op \in {"j", "jal"}
        /\ next' = i.imm
        /\ IF i.op = "jal" THEN Writes(Link, Following(next)) ELSE UNCHANGED regs
     \/ /\ i.op \in {"branch", "brspec"}
        /\ next' = IF Taken[i.fn, a, b] THEN Plus(Following(next), i.imm) ELSE Following(next)
        /\ IF i.op = "brspec" /\ i.link THEN Writes(Link, Following(next)) ELSE UNCHANGED regs
  /\ UNCHANGED <<hilo, memory>>

Syscall(i) ==
  /\ i.op = "syscall"
  /\ next' = IF regs[V0] = ExitCode THEN Halted ELSE Following(next)
  /\ Writes(i.rd, 0)
  /\ UNCHANGED <<hilo, memory>>

Execute ==
  /\ next # Halted
  /\ LET i == program[WordOf(next)]
         a == Read(i.rs)
         b == Read(i.rt)
     IN  \/ (Compute(i, a, b) \/ Access(i, a, b)) /\ next' = Following(next)
         \/ Jump(i, a, b)
         \/ Syscall(i)
  /\ UNCHANGED program

\* What an instruction behind the exit may do.
Trace ==
  /\ next = Halted
  /\ \/ hilo' \in HiLo /\ UNCHANGED memory
     \/ /\ \E x \in WordAddresses, v \in Words : memory' = [memory EXCEPT ![x] = v]
        /\ UNCHANGED hilo
  /\ UNCHANGED <<program, next, regs>>

Next == Execute \/ Trace

\* What a user may do between two instructions: set a register, HI or LO.
UserSets ==
  /\ \E v \in Words :
       \/ \E r \in Regs : regs' = [regs EXCEPT ![r] = v] /\ UNCHANGED hilo
       \/ \E half \in {"hi", "lo"} : hilo' = [hilo EXCEPT ![half] = v] /\ UNCHANGED regs
  /\ UNCHANGED <<program, next, memory>>

Spec == Init /\ [][Next]_vars
=============================================================================
