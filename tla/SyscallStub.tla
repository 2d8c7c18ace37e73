---------------------------- MODULE SyscallStub ----------------------------
(***************************************************************************)
(* int_80_stub of kernel/src/interrupts.rs: what the registers of ring 3   *)
(* hold after `int 0x80`, and what syscall_handler() gets to see of them.  *)
(* A machine is its registers and the words of the ring-0 stack, the       *)
(* newest first.                                                           *)
(***************************************************************************)
EXTENDS Integers, SequencesExt

Regs == {"rax", "rbx", "rcx", "rdx", "rsi", "rdi", "rbp",
         "r8", "r9", "r10", "r11", "r12", "r13", "r14", "r15"}

\* What the C calling convention lets syscall_handler() destroy.
CallerSaved == {"rax", "rcx", "rdx", "rsi", "rdi", "r8", "r9", "r10", "r11"}

Pushes == <<"rax", "rbx", "rcx", "rdx", "rsi", "rdi", "rbp", "r8", "r9",
            "r10", "r11", "r12", "r13", "r14", "r15">>

\* The order of the pops, and the same with two of them swapped.
Pops_Swapped == <<"r15", "r14", "r13", "r12", "r11", "r10", "r9", "r8", "rbp",
                  "rsi", "rdi", "rdx", "rcx", "rbx", "rax">>
Pops == <<"r15", "r14", "r13", "r12", "r11", "r10", "r9", "r8", "rbp",
          "rdi", "rsi", "rdx", "rcx", "rbx", "rax">>

Clobbered == -1

Push(m, r) == [regs |-> m.regs, stack |-> Cons(m.regs[r], m.stack)]
Pop(m, r) == [regs |-> [m.regs EXCEPT ![r] = Head(m.stack)], stack |-> Tail(m.stack)]
Slot(m, i) == m.stack[i + 1]  \* [rsp + i*8]

\* The CPU pushed ss, rsp, rflags, cs and rip; then the stub saves the rest.
Entry(regs) ==
  FoldLeft(Push, [regs |-> regs, stack |-> <<"rip", "cs", "rflags", "rsp", "ss">>],
           Pushes)

\* num, a, b and c of syscall_handler(): its two other parameters are unused.
HandlerArguments(regs) ==
  LET m == Entry(regs)
  IN [num |-> m.regs["rax"], a |-> Slot(m, 5), b |-> Slot(m, 4), c |-> Slot(m, 3)]

\* The machine that iretq leaves to ring 3: the result is stored over [rsp],
\* then everything is popped.
Return(regs, result) ==
  LET m == Entry(regs)
      clobbered == [r \in Regs |-> IF r \in CallerSaved THEN Clobbered ELSE m.regs[r]]
  IN FoldLeft(Pop, [regs |-> clobbered, stack |-> Cons(result, Tail(m.stack))], Pops)

(***************************************************************************)
(* "rdi, rsi, rdx, r10, r8, r9 = up to 6 arguments, return value in rax"   *)
(* (interrupts.rs:135; the same words are in userspace/src/syscall.rs:5).  *)
(***************************************************************************)
AbiArguments(regs) == [num |-> regs["rax"], a |-> regs["rdi"],
                       b |-> regs["rsi"], c |-> regs["rdx"]]

\* syscall_raw(num, a, b, c, 0, 0, 0): the compiler loads these registers
\* before `int 0x80`; what the other ones hold is the application's affair.
SyscallRaw(regs, num, a, b, c) ==
  [regs EXCEPT !["rax"] = num, !["rdi"] = a, !["rsi"] = b, !["rdx"] = c,
               !["r10"] = 0, !["r8"] = 0, !["r9"] = 0]

=============================================================================
