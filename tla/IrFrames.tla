------------------------------ MODULE IrFrames ------------------------------
(***************************************************************************)
(* What an IR program means, whatever machine runs it: every activation of *)
(* a function has variables of its own, a call leaves the variables of the *)
(* caller alone except for the one that receives the result, arguments     *)
(* arrive in the order in which the callee takes them, and a DEC block     *)
(* belongs to the activation that declared it and dies with it.  This is   *)
(* the meaning the repository's own IR simulator gives to the code         *)
(* (src/test/ir/irsim/irsim.cc).                                           *)
(*                                                                         *)
(* Control flow inside a function is not modelled: any code of Program may *)
(* come next.  The behaviours include those of every program made of these *)
(* codes that                                                              *)
(*   - puts the ARG codes of a call right before its CALL  (ir.c, 890-908),*)
(*   - takes in a function as many PARAMs as its callers pass arguments    *)
(*     (the type check of a call, semantics.c),                            *)
(*   - dereferences only addresses of blocks that are still alive, and     *)
(*   - leaves every function through a RETURN.                             *)
(***************************************************************************)
EXTENDS IrCode, Sequences, FiniteSets

CONSTANT Addr  \* the addresses there are

VARIABLES
  env,      \* the variables of the current activation
  mem,      \* the contents of the live blocks
  live,     \* the addresses of the live blocks
  frames,   \* the suspended activations, the oldest first
  args,     \* the arguments passed and not yet taken
  ctl,      \* what kind of code comes next
  result    \* the value of the last RETURN, until the caller has it

vars == <<env, mem, live, frames, args, ctl, result>>

None == 0

Frame == [env : [Vars -> Int], live : SUBSET Addr, site : Sites]

TypeOK ==
  /\ env \in [Vars -> Int]
  /\ live \subseteq Addr
  /\ mem \in [live -> Int]
  /\ frames \in Seq(Frame)
  /\ args \in Seq(Int)
  /\ ctl \in {"code", "incall", "entry", "returned", "halted"}
  /\ result \in Int

Init ==
  /\ env \in [Vars -> Int]
  /\ mem = << >>
  /\ live = {}
  /\ frames = << >>
  /\ args = << >>
  /\ ctl = "code"
  /\ result = None

Top == frames[Len(frames)]

Eval(op) == Value(op, env, mem)

Readable(op) == InBounds(op, env, live)

-----------------------------------------------------------------------------
(* Codes that stay inside the current activation. *)

Assign(left, right) ==
  /\ ctl = "code"
  /\ Readable(left) /\ Readable(right)
  /\ IF left.kind = "Deref"
     THEN mem' = [mem EXCEPT ![env[left.var]] = Eval(right)] /\ env' = env
     ELSE env' = [env EXCEPT ![left.var] = Eval(right)] /\ mem' = mem
  /\ UNCHANGED <<live, frames, args, ctl, result>>

BinOp(kind, x, op1, op2) ==
  /\ ctl = "code"
  /\ Readable(op1) /\ Readable(op2)
  /\ kind = "Div" => Eval(op2) # 0
  /\ Arith(kind, Eval(op1), Eval(op2)) \in Words
  /\ env' = [env EXCEPT ![x] = Arith(kind, Eval(op1), Eval(op2))]
  /\ UNCHANGED <<mem, live, frames, args, ctl, result>>

Read(x, i) ==
  /\ ctl = "code"
  /\ env' = [env EXCEPT ![x] = i]
  /\ UNCHANGED <<mem, live, frames, args, ctl, result>>

Write(op) ==
  /\ ctl = "code"
  /\ Readable(op)
  /\ UNCHANGED vars

\* A fresh block: disjoint from every block that is alive, with any contents.
\* An empty block may be anywhere.
Dec(x, size) ==
  /\ ctl = "code"
  /\ LET base == env'[x] IN
       /\ base \in Int
       /\ base .. base + size - 1 \subseteq Addr \ live
       /\ live' = live \cup (base .. base + size - 1)
       /\ env' = [env EXCEPT ![x] = base]
  /\ mem' \in [live' -> Int]
  /\ \A a \in live : mem'[a] = mem[a]
  /\ UNCHANGED <<frames, args, ctl, result>>

-----------------------------------------------------------------------------
(* Calls. *)

Arg(op) ==
  /\ ctl \in {"code", "incall"}
  /\ Readable(op)
  /\ args' = Append(args, Eval(op))
  /\ ctl' = "incall"
  /\ UNCHANGED <<env, mem, live, frames, result>>

\* The callee's variables start with arbitrary values.
Call(site) ==
  /\ ctl \in {"code", "incall"}
  /\ frames' = Append(frames, [env |-> env, live |-> live, site |-> site])
  /\ env' \in [Vars -> Int]
  /\ ctl' = IF args = << >> THEN "code" ELSE "entry"
  /\ UNCHANGED <<mem, live, args, result>>

\* The first PARAM takes the argument that was passed last.
Param(x) ==
  /\ ctl = "entry"
  /\ env' = [env EXCEPT ![x] = args[Len(args)]]
  /\ args' = SubSeq(args, 1, Len(args) - 1)
  /\ ctl' = IF args' = << >> THEN "code" ELSE "entry"
  /\ UNCHANGED <<mem, live, frames, result>>

Return(op) ==
  /\ ctl = "code"
  /\ Readable(op)
  /\ result' = Eval(op)
  /\ ctl' = IF frames = << >> THEN "halted" ELSE "returned"
  /\ UNCHANGED <<env, mem, live, frames, args>>

\* The caller goes on with its own variables and the result.
Resume ==
  /\ ctl = "returned"
  /\ env' = [Top.env EXCEPT ![ResultOf[Top.site]] = result]
  /\ live' = Top.live
  /\ mem' = [a \in Top.live |-> mem[a]]
  /\ frames' = SubSeq(frames, 1, Len(frames) - 1)
  /\ ctl' = "code"
  /\ result' = None
  /\ UNCHANGED args

Execute(c) ==
  \/ c.op = "Assign" /\ Assign(c.left, c.right)
  \/ c.op \in ArithKinds /\ BinOp(c.op, c.target, c.op1, c.op2)
  \/ c.op = "Return" /\ Return(c.ret)
  \/ c.op = "Dec" /\ Dec(c.var, c.size)
  \/ c.op = "Arg" /\ Arg(c.arg)
  \/ c.op = "Call" /\ Call(c.site)
  \/ c.op = "Param" /\ Param(c.param)
  \/ c.op = "Read" /\ \E i \in Inputs : Read(c.read, i)
  \/ c.op = "Write" /\ Write(c.write)

Next == Resume \/ \E c \in Program : Execute(c)

Spec == Init /\ [][Next]_vars
=============================================================================
