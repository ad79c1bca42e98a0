------------------------------- MODULE Memory -------------------------------
(***************************************************************************)
(* The buffer that the container formats work in.  A container reads its   *)
(* records at one place of the buffer and writes them at another, in front *)
(* of it, and lets LeanifyFile move the files inside it (leanify.cpp:138). *)
(*                                                                         *)
(* A buffer is a function from addresses to cells.  memcpy, memmove and    *)
(* memset are external and modelled by what they do.                       *)
(***************************************************************************)
EXTENDS Integers, Sequences

CONSTANT Junk   \* a cell with whatever a callee left in it

(* The n cells at p.                                                       *)
Cells(m, p, n) == [k \in 1..n |-> m[p + k - 1]]

(* The buffer after the sequence s is written at p.                        *)
Put(m, p, s) ==
  [x \in DOMAIN m |-> IF x \in p .. p + Len(s) - 1 THEN s[x - p + 1] ELSE m[x]]

(* memmove(dst, src, n).                                                   *)
MemMove(m, dst, src, n) ==
  [x \in DOMAIN m |-> IF x \in dst .. dst + n - 1 THEN m[x - dst + src] ELSE m[x]]

(* memset(p, c, n).                                                        *)
MemSet(m, p, c, n) == [x \in DOMAIN m |-> IF x \in p .. p + n - 1 THEN c ELSE m[x]]

(* What LeanifyFile may do to the file of n cells at p when it has room    *)
(* for slack cells in front of it (leanify.cpp:138-142): its result s is   *)
(* at p - slack, the rest of the file and of the room is not to be relied  *)
(* on, and nothing else is touched.                                        *)
Leanified(m, p, n, slack, s) ==
  [x \in DOMAIN m |-> IF x \in p - slack .. p + n - 1
                      THEN IF x < p - slack + Len(s) THEN s[x - p + slack + 1] ELSE Junk
                      ELSE m[x]]

(* The contract of a format's Leanify for its own callers: it was given    *)
(* the n cells at p of buffer b with room for slack cells, left buffer m   *)
(* and returned size.                                                      *)
KeepsToItsRegion(b, m, p, n, slack, size) ==
  /\ size \in 0..n
  /\ \A x \in DOMAIN b : x \notin p - slack .. p + n - 1 => m[x] = b[x]
=============================================================================
