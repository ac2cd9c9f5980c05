------------------------------ MODULE Assembled ------------------------------
(***************************************************************************)
(* Whole programs as the compiler leaves them: the intermediate code that  *)
(* Translate emits is assembled by asm_generate (src/src/asm.c) and run on *)
(* the machine, one instruction at a time, from the jal that enters main   *)
(* to the jr that leaves it, and compared with what the program means.     *)
(*                                                                         *)
(* Registers, but for sp and ra, and the words of the stack hold Junk when *)
(* the program starts.  Memory is counted in words, the stack below the    *)
(* .data words.                                                            *)
(***************************************************************************)
EXTENDS Translate, Meaning, AsmRewrite, TLC

CONSTANTS
  Programs,  \* for each program its functions, the order in which the source
             \* defines them, and what it may be given to read
  StackSize  \* bound: words of stack; a program that needs more is stuck

ASSUME AssembledAssumption ==
  /\ StackSize \in Nat
  /\ \A n \in DOMAIN Programs :
       /\ Range(Programs[n].order) = DOMAIN Programs[n].functions
       /\ "main" \in DOMAIN Programs[n].functions
       /\ Programs[n].inputs # {}

VARIABLES
  codes,    \* the intermediate code that is not yet assembled
  nvars,    \* how many variables it has
  gen,      \* the state of the generator
  text,     \* the instructions, with the labels between them
  meaning,  \* what the program should write and return for each input
  given,    \* what it was given to read
  status,   \* "generating", "ready", "running" or "halted"
  pc,       \* the next instruction
  reg, mem, \* the registers and the memory
  inp,      \* what is left of what was given
  out       \* what was written

machine == <<given, pc, reg, mem, inp, out>>

vars == <<codes, nvars, gen, text, meaning, status, machine>>

\* What stays as it is while the program runs.
program == <<codes, nvars, gen, text, meaning, given>>

-----------------------------------------------------------------------------
(* asm_generate *)

\* The names of new_label; functions keep theirs.
LabelName(l) == "l" \o ToString(l)

\* The strings of printHeader, before the variables.
Prompt == -1
Newline == 0

Syscall == <<[i |-> "syscall"]>>
Routines ==
     Place("read") \o Li(V0, 4) \o La(A0, Prompt) \o Syscall \o Li(V0, 5) \o Syscall \o Jr(RA)
  \o Place("write") \o Li(V0, 1) \o Syscall \o Li(V0, 4) \o La(A0, Newline) \o Syscall
     \o Li(V0, 0) \o Jr(RA)

\* The state of the generator: what is printed, how many registers get_reg
\* has handed out, and is_incall.
Printed(a, instrs, taken) == [a EXCEPT !.text = @ \o instrs, !.taken = (@ + taken) % TempRegs]
InCall(a, incall) == [a EXCEPT !.incall = incall]

\* The registers that prepare_call takes.
Saving(a, n) == IF a.incall THEN 0 ELSE LoopTakes(n)

CallText(a, code, n) ==
  PrepareCall(n, a.incall, a.taken) \o Jal(code.func)
    \o RewriteCallTail(n, code.target, a.taken + Saving(a, n))

\* Mutant: is_incall is not reset after the call.
RewriteNeverEndsCall(a, code, n) ==
  InCall(Printed(a, CallText(a, code, n), Saving(a, n) + LoopTakes(n) + 3), TRUE)

RewriteCall(a, code, n) ==
  InCall(Printed(a, CallText(a, code, n), Saving(a, n) + LoopTakes(n) + 3), FALSE)

RewriteRet(a, code, n) == Printed(a, RewriteReturn(code.ret, a.taken), Taken(code.ret))

Rewrite(a, code, n) ==
  CASE code.op = "Label"  -> Printed(a, Place(LabelName(code.label)), 0)
    [] code.op = "Func"   -> Printed(a, Place(code.func), 0)
    [] code.op = "Assign" -> Printed(a, RewriteAssign(code.left, code.right, a.taken),
                                     1 + Taken(code.left) + Taken(code.right))
    [] code.op \in ArithKinds ->
         Printed(a, RewriteArith(code.op, code.target, code.op1, code.op2, a.taken),
                 5 + Taken(code.op1) + Taken(code.op2))
    [] code.op = "Goto"   -> Printed(a, J(LabelName(code.label)), 0)
    [] code.op = "Branch" ->
         Printed(a, RewriteBranch(code.relop, code.op1, code.op2, LabelName(code.label), a.taken),
                 2 + Taken(code.op1) + Taken(code.op2))
    [] code.op = "Return" -> RewriteRet(a, code, n)
    [] code.op = "Dec"    -> Printed(a, RewriteDec(code.var, code.size, a.taken), 3)
    [] code.op = "Arg"    -> InCall(Printed(a, RewriteArg(n, a.incall, code.arg, a.taken),
                                            Saving(a, n) + 1 + Taken(code.arg)), TRUE)
    [] code.op = "Call"   -> RewriteCall(a, code, n)
    [] code.op = "Param"  -> Printed(a, RewriteParam(code.param, a.taken), 3)
    [] code.op = "Read"   -> Printed(a, RewriteRead(code.read, Jal("read"), a.taken), 2)
    [] code.op = "Write"  -> Printed(a, RewriteWrite(code.write, Jal("write"), a.taken),
                                     1 + Taken(code.write))

\* printHeader, and nothing else yet.
Header == [text |-> Routines, taken |-> 0, incall |-> FALSE]

-----------------------------------------------------------------------------
(* The machine. *)

Junk == -9999

\* Where main returns to.
Exit == 0

AddressOf(x) == StackSize + 1 + x

\* An instruction, or nothing behind the last one.
Here == IF pc \in DOMAIN text THEN text[pc] ELSE [i |-> "end"]

Places(name) == {k \in DOMAIN text : text[k].i = "label" /\ text[k].label = name}
PlaceOf(name) == CHOOSE k \in Places(name) : TRUE

\* st is the translator at the end of the program.
Translated(p, st) ==
  /\ st.ok
  /\ codes = st.code
  /\ nvars = st.vars
  /\ mem = [a \in 0 .. AddressOf(st.vars) |-> IF a > AddressOf(Newline) THEN 0 ELSE Junk]
  /\ meaning = [i \in p.inputs |-> MeaningOf(p.functions, i)]

Init ==
  /\ \E n \in DOMAIN Programs :
       Translated(Programs[n], ir_translate(Programs[n].order, Programs[n].functions))
  /\ status = "generating"
  /\ gen = Header /\ text = << >>
  /\ given = << >> /\ inp = << >> /\ out = << >>
  /\ pc = Exit
  /\ reg = [r \in 0 .. 31 |-> IF r = SP THEN StackSize ELSE Junk]

\* The loop of asm_generate: the next code is assembled.
Generate ==
  /\ status = "generating" /\ codes # << >>
  /\ gen' = Rewrite(gen, Head(codes), nvars)
  /\ codes' = Tail(codes)
  /\ UNCHANGED <<nvars, text, meaning, status, machine>>

GenerateEnds ==
  /\ status = "generating" /\ codes = << >>
  /\ text' = gen.text
  /\ gen' = Header
  /\ status' = "ready"
  /\ UNCHANGED <<codes, nvars, meaning, machine>>

\* The loader calls main.
Begin ==
  /\ status = "ready" /\ status' = "running"
  /\ \E i \in DOMAIN meaning : given' = i /\ inp' = i
  /\ pc' = PlaceOf("main")
  /\ reg' = [reg EXCEPT ![RA] = Exit]
  /\ UNCHANGED <<codes, nvars, gen, text, meaning, mem, out>>

\* What the machine can execute.
Executable ==
  /\ Here.i # "end"
  /\ Here.i \in {"lw", "sw"} => reg[Here.rs] \in DOMAIN mem
  /\ Here.i = "Div" => reg[Here.rt] # 0
  /\ Here.i \in {"j", "jal", "branch"} => Cardinality(Places(Here.label)) = 1
  /\ Here.i = "jr" => reg[Here.rs] \in DOMAIN text \cup {Exit}
  /\ Here.i = "syscall" => reg[V0] \in {1, 4, 5} /\ (reg[V0] = 5 => inp # << >>)

At(kinds) == status = "running" /\ Here.i \in kinds /\ Executable

SetReg(r, w) == reg' = [reg EXCEPT ![r] = w]
Advance == pc' = pc + 1 /\ UNCHANGED <<program, status>>

RunLabel ==
  /\ At({"label"})
  /\ Advance
  /\ UNCHANGED <<reg, mem, inp, out>>

\* Instructions that compute from registers and constants.
Result ==
  CASE Here.i = "li"   -> Here.imm
    [] Here.i = "la"   -> AddressOf(Here.var)
    [] Here.i = "move" -> reg[Here.rs]
    [] Here.i = "addi" -> reg[Here.rs] + Here.imm
    [] OTHER           -> Arith(Here.i, reg[Here.rs], reg[Here.rt])

RunCompute ==
  /\ At({"li", "la", "move", "addi"} \cup ArithKinds)
  /\ SetReg(Here.rd, Result)
  /\ Advance
  /\ UNCHANGED <<mem, inp, out>>

RunLoad ==
  /\ At({"lw"})
  /\ SetReg(Here.rd, mem[reg[Here.rs]])
  /\ Advance
  /\ UNCHANGED <<mem, inp, out>>

RunStore ==
  /\ At({"sw"})
  /\ mem' = [mem EXCEPT ![reg[Here.rs]] = reg[Here.rd]]
  /\ Advance
  /\ UNCHANGED <<reg, inp, out>>

RunJump ==
  /\ At({"j"})
  /\ pc' = PlaceOf(Here.label)
  /\ UNCHANGED <<program, status, reg, mem, inp, out>>

RunBranch ==
  /\ At({"branch"})
  /\ pc' = IF Relation(Here.relop, reg[Here.rs], reg[Here.rt]) THEN PlaceOf(Here.label) ELSE pc + 1
  /\ UNCHANGED <<program, status, reg, mem, inp, out>>

RunJal ==
  /\ At({"jal"})
  /\ SetReg(RA, pc + 1)
  /\ pc' = PlaceOf(Here.label)
  /\ UNCHANGED <<program, status, mem, inp, out>>

RunJr ==
  /\ At({"jr"})
  /\ pc' = reg[Here.rs]
  /\ status' = IF pc' = Exit THEN "halted" ELSE status
  /\ UNCHANGED <<program, reg, mem, inp, out>>

\* print_int, print_string and read_int.
RunSyscall ==
  /\ At({"syscall"})
  /\ out' = IF reg[V0] = 1 THEN Append(out, reg[A0]) ELSE out
  /\ reg' = IF reg[V0] = 5 THEN [reg EXCEPT ![V0] = Head(inp)] ELSE reg
  /\ inp' = IF reg[V0] = 5 THEN Tail(inp) ELSE inp
  /\ Advance
  /\ UNCHANGED mem

Step ==
  \/ RunLabel \/ RunCompute \/ RunLoad \/ RunStore \/ RunJump \/ RunBranch
  \/ RunJal \/ RunJr \/ RunSyscall

Stop ==
  /\ status = "halted"
  /\ UNCHANGED vars

Next == Generate \/ GenerateEnds \/ Begin \/ Step \/ Stop

\* Somebody starts the program, and the machine executes instruction after
\* instruction for as long as it can.
Spec == Init /\ [][Next]_vars /\ WF_vars(Begin \/ Step)

-----------------------------------------------------------------------------
(* Properties. *)

\* sp stays inside the stack, and every word is one.
TypeOK ==
  /\ status \in {"generating", "ready", "running", "halted"}
  /\ pc \in 0 .. Len(text) + 1
  /\ reg[SP] \in 0 .. StackSize
  /\ \A r \in DOMAIN reg : reg[r] \in Int
  /\ \A a \in DOMAIN mem : mem[a] \in Int
  /\ inp \in Seq(Int) /\ out \in Seq(Int)

\* The machine does what the program means, whatever the registers and the
\* stack held before: what it has written is what the program writes first,
\* when it is back from main it has written everything and the result is in
\* v0, and until then it can always go on (asm.c, asm_generate).
ComputesMeaning ==
  /\ status = "running" => Executable /\ IsPrefix(out, meaning[given].out)
  /\ status = "halted" => out = meaning[given].out /\ reg[V0] = meaning[given].result

\* The name of the function or routine that k is in.
Entries == {"read", "write"} \cup {text[k].label : k \in {j \in DOMAIN text : text[j].i = "jal"}}
Owner(k) ==
  text[CHOOSE j \in DOMAIN text :
         /\ j <= k /\ text[j].i = "label" /\ text[j].label \in Entries \cup {"main"}
         /\ \A i \in j + 1 .. k : text[i].i = "label" => text[i].label \notin Entries \cup {"main"}].label

\* A routine returns behind a jal that calls it, and main to the loader:
\* every call and every read and write gives ra back before the caller
\* returns (asm.c, 398-452, 460-479).
ReturnsToItsCaller ==
  status = "running" /\ Here.i = "jr" =>
    \/ reg[RA] = Exit /\ Owner(pc) = "main"
    \/ reg[RA] - 1 \in DOMAIN text /\ text[reg[RA] - 1] = Jal(Owner(pc))[1]

\* Every program that the runs contain leaves main in the end: no jump, call
\* or return leads back to where it came from (asm.c, rewrite_Goto,
\* rewrite_Branch, rewrite_Call).
Terminates == status = "ready" ~> status = "halted"
=============================================================================
