-------------------------------- MODULE Json --------------------------------
(***************************************************************************)
(* Json::Leanify (json.cpp): a document is parsed and printed again without*)
(* comments and spaces; floating-point numbers become integers or get      *)
(* fewer digits where that changes them by no more than the tolerance.     *)
(*                                                                         *)
(* A cell is a member with its key: a number <<"float", key, n>>, which is *)
(* n hundredths, <<"int", key, k>> or <<"token", key, t>>; a <<"comment">> *)
(* or a <<"space">>; <<"garbage">> cannot be parsed.  setting.tolerance is *)
(* in percent.  nlohmann::json is external: an object is a map, with its   *)
(* keys in order, and of two members with the same key keeps the last.     *)
(***************************************************************************)
EXTENDS Format, Functions

CONSTANT IntMax     \* INT64_MAX

VARIABLES
  doc,     \* the document, cell by cell
  nodes    \* how many of its cells are done

locals == <<doc, nodes>>
vars == <<call, mem, p_read, pc, size, locals>>

One == 100      \* hundredths of 1

(* The numbers whose characters are counted right: those below 100.        *)
IsConsidered(f) ==
  \A k \in DOMAIN f :
    f[k][1] = "float" => /\ f[k] = <<"float", f[k][2], f[k][3]>>
                         /\ f[k][3] \in 1 - 100 * One .. 100 * One - 1

Start == doc = <<>> /\ nodes = 0
Init == Called /\ Start

IsJson == \A k \in DOMAIN file : file[k] # <<"garbage">>

Members(s) == {k \in DOMAIN s : Len(s[k]) > 1}
Key(c) == c[2]
Value(c) == c[3]

IsLast(s, k) == \A l \in Members(s) : Key(s[l]) = Key(s[k]) => l <= k

(* fault: of the members with the same key the first one is kept.          *)
Kept_First(s) ==
  {k \in Members(s) : \A l \in Members(s) : Key(s[l]) = Key(s[k]) => k <= l}

Kept(s) == {k \in Members(s) : IsLast(s, k)}

(* The document that s is parsed to, the only one with its keys in order.  *)
Parsed(s) ==
  {[j \in DOMAIN p |-> s[p[j]]] :
     p \in {p \in UNION {Bijection(1..n, Kept(s)) : n \in 0 .. Len(s)} :
             \A i, j \in DOMAIN p : i < j => Key(s[p[i]]) < Key(s[p[j]])}}

NotJson ==
  /\ pc = "start" /\ ~ IsJson
  /\ MovedAsItIs /\ UNCHANGED locals

Parse ==
  /\ pc = "start" /\ IsJson
  /\ doc' \in Parsed(file)
  /\ pc' = "numbers"
  /\ UNCHANGED <<call, mem, p_read, size, nodes>>

-----------------------------------------------------------------------------
(* The numbers.                                                            *)
Abs(n) == IF n < 0 THEN -n ELSE n
Larger(n, m) == IF Abs(n) > Abs(m) THEN Abs(n) ELSE Abs(m)

(* The error is no more than the tolerance allows.                         *)
IsNear(n, m) == 100 * Abs(n - m) <= setting.tolerance * Larger(n, m)

(* std::round rounds a half away from 0.                                   *)
Round(n) == IF n < 0 THEN -((One \div 2 - n) \div One) ELSE (n + One \div 2) \div One

(* INT64_MAX is not a double, and what the integer is compared with is the *)
(* next power of two.                                                      *)
Fits(k) == k >= -(IntMax + 1) /\ k <= IntMax + 1

(* A cast that does not fit is undefined: x86 makes the smallest integer   *)
(* of it, and ARM the largest.                                             *)
Cast(k) == IF k <= IntMax THEN {k} ELSE {-(IntMax + 1), IntMax}

(* n with one, two, ... significant digits; a half may go either way.      *)
Digits(n) == IF Abs(n) >= 1000 THEN 4 ELSE IF Abs(n) >= 100 THEN 3 ELSE IF Abs(n) >= 10 THEN 2 ELSE 1
WithDigits(n, prec) ==
  LET unit == IF prec >= Digits(n) THEN 1 ELSE 10 ^ (Digits(n) - prec)
      below == (n \div unit) * unit
  IN  {m \in {below, below + unit} : 2 * Abs(n - m) <= unit}

(* How many characters n hundredths are.                                   *)
Length(n) ==
  (IF n < 0 THEN 1 ELSE 0) + (IF Abs(n) >= 10 * One THEN 2 ELSE 1)
    + (IF n % 10 = 0 THEN 2 ELSE 3)

(* What becomes of n when m, which has fewer digits, is near it.           *)
Shortened(n, m) == IF Length(m) <= Length(n) THEN {m} ELSE {n}

IsInteger(n) == IsNear(n, One * Round(n)) /\ Fits(Round(n))

(* With the fewest digits that are near n.                                 *)
FewerDigits(n) ==
  UNION {Shortened(n, m) : m \in
    UNION {{m \in WithDigits(n, prec) : IsNear(n, m)} : prec \in
      {prec \in 1..4 : \A fewer \in 1 .. prec - 1 :
                         \E m \in WithDigits(n, fewer) : ~ IsNear(n, m)}}}

(* TryShortenFloat.                                                        *)
Shorten(c) ==
  IF IsInteger(Value(c)) THEN {<<"int", Key(c), k>> : k \in Cast(Round(Value(c)))}
  ELSE {<<"float", Key(c), m>> : m \in FewerDigits(Value(c))}

ShortenNumber ==
  /\ pc = "numbers" /\ nodes < Len(doc)
  /\ \E c \in IF doc[nodes + 1][1] = "float" THEN Shorten(doc[nodes + 1]) ELSE {doc[nodes + 1]} :
       doc' = [doc EXCEPT ![nodes + 1] = c]
  /\ nodes' = nodes + 1
  /\ UNCHANGED <<call, mem, p_read, pc, size>>

-----------------------------------------------------------------------------
NumbersDone == pc = "numbers" /\ nodes = Len(doc)

(* It depends also on how the file was written which one is smaller.       *)
Save ==
  /\ NumbersDone
  /\ mem' = Put(mem, fp_w, doc)
  /\ size' = Len(doc)
  /\ pc' = "done"
  /\ UNCHANGED <<call, p_read, locals>>

NotSmaller ==
  /\ NumbersDone
  /\ MovedAsItIs /\ UNCHANGED locals

Next == NotJson \/ Parse \/ ShortenNumber \/ Save \/ NotSmaller

Spec == Init /\ [][Next]_vars

-----------------------------------------------------------------------------
(* Properties.                                                             *)

Hundredths(c) == IF c[1] = "int" THEN One * Value(c) ELSE Value(c)

(* README.md:86-95, json.cpp:56-106: the document is the same but for      *)
(* comments and spaces.  No number is further from what it was than the    *)
(* tolerance says, so that without one none is changed, nor is one longer. *)
SameNumbers ==
  pc = "done" =>
    LET new == Cells(mem, fp_w, size)
        At(s, key) == s[CHOOSE k \in Members(s) : Key(s[k]) = key /\ IsLast(s, k)]
        Keys(s) == {Key(s[k]) : k \in Members(s)}
    IN  /\ Keys(new) = Keys(file)
        /\ \A key \in Keys(file) :
             \/ At(new, key) = At(file, key)
             \/ LET n == Value(At(file, key))
                    m == Hundredths(At(new, key))
                IN  /\ At(file, key)[1] = "float" /\ At(new, key)[1] \in {"int", "float"}
                    /\ 100 * Abs(n - m) <= setting.tolerance * Larger(n, m)
                    /\ Length(m) - (IF At(new, key)[1] = "int" THEN 2 ELSE 0) <= Length(n)
=============================================================================
