-------------------------------- MODULE Lua ---------------------------------
(***************************************************************************)
(* Lua::Leanify (lua.cpp): the functions of a compiled Lua program are     *)
(* gone through as they are nested, and what is only there for debugging   *)
(* is left out.                                                            *)
(*                                                                         *)
(* A file is <<"lua">> and a function.  <<"int", n>> is a number of four   *)
(* bytes: a length, a count, or a line.                                    *)
(***************************************************************************)
EXTENDS Format, SequencesExt

VARIABLES
  p_write,
  stack      \* the prototypes still to come of the functions that are open

locals == <<p_write, stack>>
vars == <<call, mem, p_read, pc, size, locals>>

U32(n) == <<"int", n>>

(***************************************************************************)
(* The dump of a program (lua.h and ldump.c of Lua 5.1).  A program is a   *)
(* sequence of functions, the first one is the main function, and each     *)
(* names its prototypes, which come later in the sequence.  constants are  *)
(* types, and locals and upvalues lengths of names.                        *)
(***************************************************************************)
Some(what, n) == [k \in 1..n |-> <<what, k>>]
Text(n) == <<U32(n)>> \o Some("char", n)
List(items) == <<U32(Len(items))>> \o FlattenSeq(items)

Constant(type) ==
  <<<<"type", type>>>> \o CASE type = "nil" -> <<>>
                            [] type = "boolean" -> Some("boolean", 1)
                            [] type = "number" -> Some("number", 1)
                            [] type = "string" -> Text(2)

Dump(program, debug) ==
  LET Each(s, Op(_)) == [k \in DOMAIN s |-> Op(s[k])]
      Local(n) == Text(n) \o <<U32(1), U32(9)>>
      f[i \in DOMAIN program] ==
        LET p == program[i]
            Proto(j) == f[j]
        IN  (IF debug THEN Text(p.source) \o <<U32(i), U32(9)>>
                      ELSE <<U32(0), U32(0), U32(0)>>)
              \o <<<<"params", i>>>>
              \o <<U32(p.code)>> \o Some("instruction", p.code)
              \o List(Each(p.constants, Constant))
              \o List(Each(p.prototypes, Proto))
              \o (IF debug THEN <<U32(p.code)>> \o Some("line", p.code)
                                \o List(Each(p.locals, Local)) \o List(Each(p.upvalues, Text))
                           ELSE <<U32(0), U32(0), U32(0)>>)
  IN  <<<<"lua">>>> \o f[1]

(* The code relies on files that the compiler wrote.                       *)
IsConsidered(c) == c[1] = Dump(c[2].program, TRUE)

-----------------------------------------------------------------------------
Start == p_write = fp_w /\ stack = <<>>
Init == Called /\ Start

(* The header is skipped; it is not moved.                                 *)
SkipHeader ==
  /\ pc = "start"
  /\ p_read' = p_read + 1
  /\ p_write' = p_write + 1
  /\ pc' = "function"
  /\ UNCHANGED <<call, mem, size, stack>>

N(p) == mem[p][2]

Step(read, write, next) ==
  /\ p_read' = read /\ p_write' = write /\ pc' = next
  /\ UNCHANGED <<call, size>>

(* Source name and lines become zeros, before what is behind them is read. *)
FunctionHeader ==
  LET lines == p_read + 1 + N(p_read)
      cleared == MemSet(mem, p_write, U32(0), 3)
  IN  /\ pc = "function"
      /\ mem' = Put(cleared, p_write + 3, <<cleared[lines + 2]>>)
      /\ Step(lines + 3, p_write + 4, "instructions")
      /\ UNCHANGED stack

Instructions ==
  LET n == 1 + N(p_read)
  IN  /\ pc = "instructions"
      /\ mem' = MemMove(mem, p_write, p_read, n)
      /\ Step(p_read + n, p_write + n, "constants")
      /\ UNCHANGED stack

(* Behind a list at p of texts that have n cells behind them.              *)
AfterTexts(p, n) ==
  LET q[k \in 0 .. N(p)] == IF k = 0 THEN p + 1 ELSE q[k - 1] + 1 + N(q[k - 1]) + n
  IN  q[N(p)]

(* Behind the list of constants at p.                                      *)
AfterConstants(p) ==
  LET data(x) == CASE mem[x] = <<"type", "nil">> -> 0
                   [] mem[x] = <<"type", "string">> -> 1 + N(x + 1)
                   [] OTHER -> 1
      q[k \in 0 .. N(p)] == IF k = 0 THEN p + 1 ELSE q[k - 1] + 1 + data(q[k - 1])
  IN  q[N(p)]

Constants ==
  LET prototypes == AfterConstants(p_read)
      n == prototypes + 1 - p_read
  IN  /\ pc = "constants"
      /\ mem' = MemMove(mem, p_write, p_read, n)
      /\ stack' = Append(stack, N(prototypes))
      /\ Step(p_read + n, p_write + n, "prototypes")

NextPrototype ==
  /\ pc = "prototypes" /\ Last(stack) > 0
  /\ stack' = [stack EXCEPT ![Len(stack)] = @ - 1]
  /\ pc' = "function"
  /\ UNCHANGED <<call, mem, p_read, size, p_write>>

AfterLines(p) == p + 1 + N(p)

(* Behind the lines, the locals and the upvalues at p.                     *)
AfterDebug(p) == AfterTexts(AfterTexts(AfterLines(p), 2), 0)

(* fault: one of the lists is forgotten.                                   *)
NoDebug_TwoLists(m) == MemSet(m, p_write, U32(0), 2)

(* Zeros take the place of the lists.                                      *)
NoDebug(m) == MemSet(m, p_write, U32(0), 3)

StripDebug ==
  /\ pc = "prototypes" /\ Last(stack) = 0
  /\ mem' = NoDebug(mem)
  /\ stack' = Front(stack)
  /\ Step(AfterDebug(p_read), p_write + 3, IF stack' = <<>> THEN "end" ELSE "prototypes")

Finish ==
  /\ pc = "end"
  /\ size' = p_write - fp_w
  /\ pc' = "done"
  /\ UNCHANGED <<call, mem, p_read, locals>>

Next == \/ SkipHeader \/ FunctionHeader \/ Instructions \/ Constants
        \/ NextPrototype \/ StripDebug \/ Finish

Spec == Init /\ [][Next]_vars

-----------------------------------------------------------------------------
(* Properties.                                                             *)

(* README.md:4, README.md:117-126, lua.cpp:9-89: the result is the dump of *)
(* the same program without what is for debugging.                         *)
SameProgram ==
  pc = "done" => Cells(mem, fp_w, size) = Dump(setting.program, FALSE)
=============================================================================
