---------------------------- MODULE EntryProofs -----------------------------
(***************************************************************************)
(* What LeanifyFile keeps of the files that list what is inside them: the  *)
(* members of a JSON object, the images of an icon and the files of an RDB *)
(* archive; and that it keeps Flash films, which are tags behind each      *)
(* other, to their place.  The invariants are about the steps of a format  *)
(* among the steps of LeanifyFile.                                         *)
(***************************************************************************)
EXTENDS LeanifyFile, SequenceTheorems, WellFoundedInduction, TLAPS

(* Every nonempty set of numbers has a least one, ...                      *)
LEMMA LeastNat ==
  ASSUME NEW T \in SUBSET Nat, T # {}
  PROVE  \E x \in T : \A y \in T : x <= y
<1> DEFINE R == OpToRel(<, Nat)
<1>1. \A x \in Nat, y \in Nat : <<y, x>> \in R <=> y < x
  BY DEF OpToRel
<1>2. IsWellFoundedOn(R, Nat)
  BY NatLessThanWellFounded
<1> HIDE DEF R
<1>3. PICK x \in T : \A y \in T : ~ (<<y, x>> \in R)
  BY <1>2, WFMin
<1>4. \A y \in T : ~ (y < x)
  BY <1>1, <1>3, Zenon
<1> QED  BY <1>4

(* ... and one that is bounded a greatest one.                             *)
LEMMA GreatestNat ==
  ASSUME NEW n \in Nat, NEW T \in SUBSET (0 .. n), T # {}
  PROVE  \E x \in T : \A y \in T : y <= x
<1> DEFINE S == {d \in Nat : n - d \in T}
<1>1. S # {} /\ S \in SUBSET Nat
  <2>1. PICK y \in T : TRUE
    OBVIOUS
  <2>2. n - y \in Nat /\ n - (n - y) = y
    BY <2>1
  <2> QED  BY <2>1, <2>2
<1>2. PICK d \in S : \A e \in S : d <= e
  <2> HIDE DEF S
  <2> QED  BY <1>1, LeastNat
<1>3. ASSUME NEW y \in T
      PROVE  y <= n - d
  <2>1. n - y \in Nat /\ n - (n - y) = y
    OBVIOUS
  <2>2. d <= n - y
    BY <1>2, <2>1
  <2> QED  BY <2>1, <2>2
<1> QED  BY <1>2, <1>3

-----------------------------------------------------------------------------
(* What all calls have in common.                                          *)
LEMMA CallMade ==
  ASSUME Init
  PROVE  /\ fp \in Nat /\ Len(file) \in Nat \ {0} /\ DOMAIN file = 1 .. Len(file)
         /\ file = Cells(file, 1, Len(file))
         /\ mem = Before /\ pc = "start" /\ p_read = fp /\ size = Len(file)
<1>1. PICK c \in Calls : file = c[1] /\ setting = c[2]
  BY DEF Init, Called
<1>2. fp \in Nat /\ Len(file) \in Nat \ {0} /\ file = Cells(file, 1, Len(file))
  BY <1>1, LeanifyFileAssumption DEF fp
<1>3. DOMAIN Cells(file, 1, Len(file)) = 1 .. Len(file)
  BY DEF Cells
<1>4. DOMAIN file = 1 .. Len(file)
  BY <1>2, <1>3, Zenon
<1> QED  BY <1>2, <1>4 DEF Init, Called

(* The file in the buffer.                                                 *)
LEMMA FileThere ==
  ASSUME fp \in Nat, Len(file) \in Nat, NEW k \in 1 .. Len(file)
  PROVE  fp + k - 1 \in 0 .. End /\ Before[fp + k - 1] = file[k]
<1>1. /\ fp + k - 1 \in 0 .. End /\ fp + k - 1 \in fp .. End - 1
      /\ (fp + k - 1) - fp + 1 = k
  BY DEF End
<1> QED  BY <1>1 DEF Before

(* The first h cells of the file, moved to the front.                      *)
LEMMA FrontMoved ==
  ASSUME fp \in Nat, Len(file) \in Nat, mem = Before,
         NEW h \in 0 .. Len(file), NEW m, m = MemMove(mem, fp_w, fp, h)
  PROVE  /\ DOMAIN m = 0 .. End
         /\ \A k \in 1 .. h : m[k - 1] = file[k]
         /\ \A k \in h + 1 .. Len(file) : m[fp + k - 1] = file[k]
         /\ m[End] = Before[End]
<1>1. DOMAIN mem = 0 .. End /\ DOMAIN m = 0 .. End /\ fp_w = 0
  BY DEF Before, MemMove, fp_w
<1>2. End = fp + Len(file)
  BY DEF End
<1>3. ASSUME NEW k \in 1 .. h
      PROVE  m[k - 1] = file[k]
  <2> DEFINE x == k - 1
             y == fp + k - 1
  <2>1. x \in 0 .. End /\ x \in 0 .. 0 + h - 1 /\ y = x - 0 + fp
    BY <1>2
  <2>2. mem[y] = file[k]
    BY FileThere
  <2> HIDE DEF x, y
  <2>3. m[x] = mem[y]
    BY <1>1, <2>1 DEF MemMove
  <2> QED  BY <2>2, <2>3 DEF x
<1>4. ASSUME NEW k \in h + 1 .. Len(file)
      PROVE  m[fp + k - 1] = file[k]
  <2> DEFINE x == fp + k - 1
  <2>1. x \in 0 .. End /\ x \notin 0 .. 0 + h - 1
    BY <1>2
  <2>2. mem[x] = file[k]
    BY FileThere
  <2> HIDE DEF x
  <2>3. m[x] = mem[x]
    BY <1>1, <2>1 DEF MemMove
  <2> QED  BY <2>2, <2>3 DEF x
<1>5. m[End] = Before[End]
  <2>1. End \in 0 .. End /\ End \notin 0 .. 0 + h - 1
    BY <1>2
  <2> QED  BY <1>1, <2>1 DEF MemMove
<1> QED  BY <1>1, <1>3, <1>4, <1>5


(* The cells that are taken out of a buffer.                               *)
LEMMA CellsAre ==
  ASSUME NEW m, NEW p, NEW n \in Nat
  PROVE  /\ Len(Cells(m, p, n)) = n /\ DOMAIN Cells(m, p, n) = 1 .. n
         /\ \A k \in 1 .. n : Cells(m, p, n)[k] = m[p + k - 1]
<1>1. \A g : Len([k \in 1 .. n |-> g[k]]) = n
  OBVIOUS
<1>2. Cells(m, p, n) = [k \in 1 .. n |-> Cells(m, p, n)[k]]
  BY DEF Cells
<1> QED  BY <1>1, <1>2 DEF Cells

-----------------------------------------------------------------------------
(* JSON.  The numbers of a document can be cast to an integer, or are not  *)
(* near one, see README.md.                                                *)
NumbersFit ==
  \A c \in Calls : c[2].ext = "Json" =>
    \A k \in DOMAIN c[1] : c[1][k][1] = "float" => Json!Round(Json!Value(c[1][k])) <= IntMax

(* What a number may become.                                               *)
IsShortened(new, old) ==
  LET n == Json!Value(old)
      m == Json!Hundredths(new)
  IN  /\ old[1] = "float" /\ new[1] \in {"int", "float"} /\ Len(new) > 1
      /\ Json!Key(new) = Json!Key(old)
      /\ 100 * Json!Abs(n - m) <= setting.tolerance * Json!Larger(n, m)
      /\ Json!Length(m) - (IF new[1] = "int" THEN 2 ELSE 0) <= Json!Length(n)

(* The members of the document are those that are kept of the file.        *)
Kept == Json!Kept(file)
IsDocument(n, p) ==
  /\ n \in 0 .. Len(file) /\ p \in [1..n -> Kept]
  /\ \A a, b \in 1..n : p[a] = p[b] => a = b
  /\ \A k \in Kept : \E j \in 1..n : p[j] = k
  /\ DOMAIN doc = 1..n /\ Len(doc) = n /\ nodes \in 0..n
  /\ \A j \in 1..n : doc[j] = file[p[j]] \/ (j <= nodes /\ IsShortened(doc[j], file[p[j]]))

(* What is left in the end.                                                *)
IsAsItWas == size = Len(file) /\ \A k \in 1 .. Len(file) : mem[k - 1] = file[k]
IsSaved ==
  \E n, p : IsDocument(n, p) /\ size = n /\ \A j \in 1..n : mem[j - 1] = doc[j]

JsonInv ==
  format = "Json" =>
    /\ fp \in Nat /\ Len(file) \in Nat /\ DOMAIN file = 1 .. Len(file)
    /\ Json!IsConsidered(file)
    /\ \A k \in DOMAIN file :
         file[k][1] = "float" => Json!Round(Json!Value(file[k])) <= IntMax
    /\ pc \in {"start", "numbers", "done"}
    /\ pc # "done" => mem = Before /\ size = Len(file)
    /\ pc = "start" => nodes = 0
    /\ pc = "numbers" => \E n, p : IsDocument(n, p)
    /\ pc = "done" => IsAsItWas \/ IsSaved
    /\ size \in 0 .. Len(file) /\ mem[End] = Before[End]

LEMMA JsonInit == ASSUME NumbersFit, Init, format = "Json" PROVE JsonInv
<1>1. PICK c \in Calls : file = c[1] /\ setting = c[2]
  BY DEF Init, Called
<1>2. setting.ext = "Json"
  BY DEF Init, Made, GetType, Magic
<1>3. /\ Json!IsConsidered(file)
      /\ \A k \in DOMAIN file :
           file[k][1] = "float" => Json!Round(Json!Value(file[k])) <= IntMax
  BY <1>1, <1>2, LeanifyFileAssumption DEF NumbersFit
<1>4. nodes = 0
  BY DEF Init, Json!Start
<1>5. size \in 0 .. Len(file) /\ mem[End] = Before[End]
  BY CallMade
<1> QED  BY <1>3, <1>4, <1>5, CallMade DEF JsonInv

LEMMA JsonSteps ==
  ASSUME format = "Json", Next
  PROVE  Json!NotJson \/ Json!Parse \/ Json!ShortenNumber \/ Json!Save \/ Json!NotSmaller
BY DEF Next, Leanify, NotSupported, NotGft, LeanifyGft, Json!Next

(* std::round is off by a half at most.                                    *)
LEMMA RoundRight ==
  ASSUME NEW n \in Int, NEW k, k = Json!Round(n)
  PROVE  k \in Int /\ (n < 0 => k <= 0) /\ (n >= 0 => k >= 0)
         /\ 2 * (100 * k - n) <= 100 /\ 2 * (n - 100 * k) <= 100
<1>1. k = IF n < 0 THEN -((50 - n) \div 100) ELSE (n + 50) \div 100
  BY DEF Json!Round, Json!One
<1> QED  BY <1>1

(* An integer is no longer than the number that it is rounded from.        *)
LEMMA RoundedLength ==
  ASSUME NEW n \in Int, NEW k \in Int, n < 0 => k <= 0, n >= 0 => k >= 0,
         2 * (100 * k - n) <= 100, 2 * (n - 100 * k) <= 100
  PROVE  Json!Length(100 * k) - 2 <= Json!Length(n)
BY SMTT(30) DEF Json!Length, Json!Abs, Json!One

(* TryShortenFloat keeps to the tolerance and to the length.               *)
LEMMA ShortenRight ==
  ASSUME NEW key, NEW n \in 1 - 100 * Json!One .. 100 * Json!One - 1,
         NEW old, old = <<"float", key, n>>, Json!Round(n) <= IntMax,
         NEW new \in Json!Shorten(old)
  PROVE  new = old \/ IsShortened(new, old)
<1>1. /\ old[1] = "float" /\ Json!Value(old) = n /\ Json!Key(old) = key
      /\ n \in Int /\ -9999 <= n /\ n <= 9999
  <2>1. old[1] = "float" /\ old[2] = key /\ old[3] = n
    OBVIOUS
  <2>2. n \in Int /\ -9999 <= n /\ n <= 9999
    BY DEF Json!One
  <2> QED  BY <2>1, <2>2 DEF Json!Value, Json!Key
<1>2. CASE Json!IsInteger(n)
  <2> DEFINE k == Json!Round(n)
  <2>1. new = <<"int", key, k>>
    BY <1>1, <1>2 DEF Json!Shorten, Json!Cast
  <2>2. k \in Int /\ (n < 0 => k <= 0) /\ (n >= 0 => k >= 0)
        /\ 2 * (100 * k - n) <= 100 /\ 2 * (n - 100 * k) <= 100
    BY SMTT(30), <1>1, RoundRight
  <2>3. new[1] = "int" /\ Len(new) > 1 /\ Json!Key(new) = key /\ Json!Hundredths(new) = 100 * k
    BY <2>1 DEF Json!Hundredths, Json!Value, Json!Key, Json!One
  <2>4. 100 * Json!Abs(n - 100 * k) <= setting.tolerance * Json!Larger(n, 100 * k)
    BY <1>2 DEF Json!IsInteger, Json!IsNear, Json!One
  <2>5. Json!Length(100 * k) - 2 <= Json!Length(n)
    <3> HIDE DEF k
    <3> QED  BY <1>1, <2>2, RoundedLength
  <2> HIDE DEF k
  <2>6. IsShortened(new, old)
    BY <1>1, <2>3, <2>4, <2>5 DEF IsShortened
  <2> QED  BY <2>6
<1>3. CASE ~ Json!IsInteger(n)
  <2>1. PICK m \in Json!FewerDigits(n) : new = <<"float", key, m>>
    BY <1>1, <1>3 DEF Json!Shorten
  <2>2. PICK l : Json!IsNear(n, l) /\ m \in Json!Shortened(n, l)
    BY <2>1 DEF Json!FewerDigits
  <2>3. CASE m = n
    BY <2>1, <2>3
  <2>4. CASE m # n
    <3>1. m = l /\ Json!Length(m) <= Json!Length(n)
      BY <2>2, <2>4 DEF Json!Shortened
    <3>2. /\ new[1] = "float" /\ Len(new) > 1 /\ Json!Key(new) = key
          /\ Json!Hundredths(new) = m
      BY <2>1 DEF Json!Key, Json!Hundredths, Json!Value
    <3>3. Json!Length(m) - (IF new[1] = "int" THEN 2 ELSE 0) <= Json!Length(n)
      <4>1. Json!Length(m) \in Int /\ new[1] # "int"
        BY <3>2 DEF Json!Length
      <4> QED  BY <3>1, <4>1
    <3>4. 100 * Json!Abs(n - m) <= setting.tolerance * Json!Larger(n, m)
      BY <2>2, <3>1 DEF Json!IsNear
    <3> QED  BY <1>1, <3>2, <3>3, <3>4 DEF IsShortened
  <2> QED  BY <2>3, <2>4
<1> QED  BY <1>2, <1>3

LEMMA ParseStep == ASSUME JsonInv, format = "Json", Json!Parse, UNCHANGED format PROVE JsonInv'
<1>1. /\ pc = "start" /\ pc' = "numbers" /\ doc' \in Json!Parsed(file)
      /\ UNCHANGED <<file, setting, mem, size, nodes, fp, End, Before>>
  BY DEF Json!Parse, Json!call, fp, End, Before
<1>2. PICK n \in 0 .. Len(file) : \E p \in Json!Bijection(1..n, Json!Kept(file)) :
        doc' = [j \in DOMAIN p |-> file[p[j]]]
  BY <1>1 DEF Json!Parsed
<1> PICK p \in Json!Bijection(1..n, Json!Kept(file)) : doc' = [j \in DOMAIN p |-> file[p[j]]]
  BY <1>2
<1>3. /\ p \in [1..n -> Kept]
      /\ \A a, b \in 1..n : p[a] = p[b] => a = b
      /\ \A k \in Kept : \E j \in 1..n : p[j] = k
  BY DEF Json!Bijection, Json!Injection, Json!IsInjective, Json!Surjection, Kept
<1>4. doc' = [j \in 1..n |-> file[p[j]]]
  BY <1>2, <1>3
<1>5. Len(doc') = n /\ DOMAIN doc' = 1..n /\ n \in Nat
  <2>1. n \in Nat /\ \A g : Len([j \in 1..n |-> g[j]]) = n
    BY DEF JsonInv
  <2>2. doc' = [j \in 1..n |-> doc'[j]]
    BY <1>4
  <2> QED  BY <1>4, <2>1, <2>2
<1>6. IsDocument(n, p)'
  <2>1. file' = file /\ Kept' = Kept /\ nodes' = 0 /\ 0 \in 0..n
    BY <1>1, <1>5 DEF Kept, JsonInv
  <2>2. \A j \in 1..n : doc'[j] = file[p[j]]
    BY <1>4
  <2> QED  BY <1>3, <1>5, <2>1, <2>2 DEF IsDocument
<1> QED  BY <1>1, <1>6 DEF JsonInv

LEMMA ShortenStep ==
  ASSUME JsonInv, format = "Json", Json!ShortenNumber, UNCHANGED format
  PROVE  JsonInv'
<1>1. /\ pc = "numbers" /\ pc' = "numbers" /\ nodes < Len(doc) /\ nodes' = nodes + 1
      /\ UNCHANGED <<file, setting, mem, size, fp, End, Before>>
  BY DEF Json!ShortenNumber, Json!call, fp, End, Before
<1>2. PICK new \in IF doc[nodes + 1][1] = "float" THEN Json!Shorten(doc[nodes + 1])
                   ELSE {doc[nodes + 1]} :
        doc' = [doc EXCEPT ![nodes + 1] = new]
  BY DEF Json!ShortenNumber
<1>3. PICK n, p : IsDocument(n, p)
  BY <1>1 DEF JsonInv
<1> DEFINE k == nodes + 1
<1>4. k \in 1..n /\ nodes' = k /\ n \in Nat /\ nodes \in Nat
  BY <1>1, <1>3 DEF IsDocument, JsonInv
<1>5. doc[k] = file[p[k]] /\ p[k] \in DOMAIN file
  BY <1>3, <1>4 DEF IsDocument, Kept, Json!Kept, Json!Members
<1>6. new = file[p[k]] \/ IsShortened(new, file[p[k]])
  <2>1. CASE doc[k][1] = "float"
    <3> DEFINE old == file[p[k]]
    <3>1. /\ old = <<"float", old[2], old[3]>> /\ Json!Round(Json!Value(old)) <= IntMax
          /\ old[3] \in 1 - 100 * Json!One .. 100 * Json!One - 1
      BY <1>5, <2>1 DEF JsonInv, Json!IsConsidered
    <3>2. new \in Json!Shorten(old)
      BY <1>2, <1>5, <2>1
    <3> HIDE DEF old
    <3>3. \E key, m : /\ old = <<"float", key, m>> /\ Json!Round(m) <= IntMax
                      /\ m \in 1 - 100 * Json!One .. 100 * Json!One - 1
      BY <3>1 DEF Json!Value
    <3>4. new = old \/ IsShortened(new, old)
      BY <3>2, <3>3, ShortenRight
    <3> QED  BY <3>4 DEF old
  <2>2. CASE doc[k][1] # "float"
    BY <1>2, <1>5, <2>2
  <2> QED  BY <2>1, <2>2
<1>7. IsDocument(n, p)'
  <2>1. DOMAIN doc' = 1..n /\ Len(doc') = n
    <3>1. DOMAIN doc' = 1..n /\ doc' = [j \in 1..n |-> doc'[j]]
      BY <1>2, <1>3 DEF IsDocument
    <3>2. \A g : Len([j \in 1..n |-> g[j]]) = n
      BY <1>4
    <3> QED  BY <3>1, <3>2
  <2>2. ASSUME NEW j \in 1..n
        PROVE  doc'[j] = file[p[j]] \/ (j <= k /\ IsShortened(doc'[j], file[p[j]]))
    <3>1. CASE j = k
      <4>1. doc'[j] = new /\ j <= k
        BY <1>2, <1>3, <1>4, <3>1 DEF IsDocument
      <4> QED  BY <1>6, <3>1, <4>1
    <3>2. CASE j # k
      <4>1. doc'[j] = doc[j]
        BY <1>2, <1>3, <3>2 DEF IsDocument
      <4>2. j <= nodes => j <= k
        BY <1>4
      <4> QED  BY <1>3, <4>1, <4>2 DEF IsDocument
    <3> QED  BY <3>1, <3>2
  <2>3. \A j \in 1..n : IsShortened(doc[j], file[p[j]])' <=> IsShortened(doc'[j], file[p[j]])
    BY <1>1 DEF IsShortened
  <2>4. Kept' = Kept /\ file' = file /\ nodes' \in 0..n
    BY <1>1, <1>4 DEF Kept
  <2> QED  BY <1>3, <1>4, <2>1, <2>2, <2>3, <2>4 DEF IsDocument
<1> QED  BY <1>1, <1>7 DEF JsonInv

(* Of the members with the same key there is a last one.                   *)
LEMMA LastThere ==
  ASSUME Len(file) \in Nat, DOMAIN file = 1 .. Len(file), NEW l \in Json!Members(file)
  PROVE  \E k \in Kept : Json!Key(file[k]) = Json!Key(file[l])
<1> DEFINE T == {k \in Json!Members(file) : Json!Key(file[k]) = Json!Key(file[l])}
<1>1. T # {} /\ T \in SUBSET (0 .. Len(file))
  BY DEF Json!Members
<1>2. PICK k \in T : \A m \in T : m <= k
  <2> HIDE DEF T
  <2> QED  BY <1>1, GreatestNat
<1> QED  BY <1>2 DEF Kept, Json!Kept, Json!IsLast

LEMMA SaveRight ==
  ASSUME Len(file) \in Nat, DOMAIN file = 1 .. Len(file), NEW n, NEW p, IsDocument(n, p),
         size = n, \A j \in 1..n : mem[j - 1] = doc[j]
  PROVE  Json!SameNumbers
<1> DEFINE new == Json!Cells(mem, Json!fp_w, size)
           At(s, key) == s[CHOOSE k \in Json!Members(s) : Json!Key(s[k]) = key /\ Json!IsLast(s, k)]
           Keys(s) == {Json!Key(s[k]) : k \in Json!Members(s)}
<1>1. n \in Nat /\ DOMAIN new = 1..n /\ \A j \in 1..n : new[j] = doc[j]
  <2>1. n \in Nat
    BY DEF IsDocument
  <2>2. \A j \in 1..n : 0 + j - 1 = j - 1
    BY <2>1
  <2> QED  BY <2>1, <2>2 DEF Json!Cells, Json!fp_w
<1>2. ASSUME NEW j \in 1..n
      PROVE  /\ p[j] \in Kept /\ p[j] \in Json!Members(file)
             /\ new[j] = file[p[j]] \/ IsShortened(new[j], file[p[j]])
             /\ Len(new[j]) > 1 /\ Json!Key(new[j]) = Json!Key(file[p[j]])
  <2>1. p[j] \in Kept /\ p[j] \in Json!Members(file) /\ Len(file[p[j]]) > 1
    BY DEF IsDocument, Kept, Json!Kept, Json!Members
  <2>2. new[j] = file[p[j]] \/ IsShortened(new[j], file[p[j]])
    BY <1>1 DEF IsDocument
  <2> QED  BY <2>1, <2>2 DEF IsShortened
<1>3. Json!Members(new) = 1..n
  BY <1>1, <1>2 DEF Json!Members
<1>4. \A k, l \in Kept : Json!Key(file[k]) = Json!Key(file[l]) => k = l
  <2>1. \A k \in Kept : k \in Nat
    BY DEF Kept, Json!Kept, Json!Members
  <2> QED  BY <2>1 DEF Kept, Json!Kept, Json!IsLast
<1>5. ASSUME NEW j \in 1..n
      PROVE  At(new, Json!Key(new[j])) = new[j] /\ At(file, Json!Key(new[j])) = file[p[j]]
  <2>1. \A l \in 1..n : Json!Key(new[l]) = Json!Key(new[j]) => l = j
    BY <1>2, <1>4 DEF IsDocument
  <2>2. j \in Json!Members(new) /\ Json!IsLast(new, j)
    BY <1>1, <1>3, <2>1 DEF Json!IsLast
  <2>3. \A l \in Json!Members(new) : Json!Key(new[l]) = Json!Key(new[j]) => l = j
    BY <1>3, <2>1
  <2>4. At(new, Json!Key(new[j])) = new[j]
    <3> HIDE DEF new
    <3> QED  BY <2>2, <2>3
  <2>5. \A l \in Json!Members(file) :
          Json!Key(file[l]) = Json!Key(new[j]) /\ Json!IsLast(file, l) => l = p[j]
    BY <1>2, <1>4 DEF Kept, Json!Kept
  <2>6. Json!IsLast(file, p[j]) /\ Json!Key(file[p[j]]) = Json!Key(new[j])
    BY <1>2 DEF Kept, Json!Kept
  <2>7. At(file, Json!Key(new[j])) = file[p[j]]
    <3> HIDE DEF new
    <3> QED  BY <1>2, <2>5, <2>6
  <2> QED  BY <2>4, <2>7
<1>6. Keys(new) = Keys(file)
  <2>1. ASSUME NEW l \in Json!Members(file)
        PROVE  \E j \in 1..n : Json!Key(new[j]) = Json!Key(file[l])
    <3>1. PICK k \in Kept : Json!Key(file[k]) = Json!Key(file[l])
      BY LastThere
    <3>2. PICK j \in 1..n : p[j] = k
      BY DEF IsDocument
    <3> QED  BY <1>2, <3>1, <3>2
  <2> HIDE DEF new
  <2> QED  BY <1>2, <1>3, <2>1
<1>7. ASSUME NEW key \in Keys(file)
      PROVE  \/ At(new, key) = At(file, key)
             \/ LET a == Json!Value(At(file, key))
                    b == Json!Hundredths(At(new, key))
                IN  /\ At(file, key)[1] = "float" /\ At(new, key)[1] \in {"int", "float"}
                    /\ 100 * Json!Abs(a - b) <= setting.tolerance * Json!Larger(a, b)
                    /\ Json!Length(b) - (IF At(new, key)[1] = "int" THEN 2 ELSE 0) <= Json!Length(a)
  <2>1. PICK j \in 1..n : Json!Key(new[j]) = key
    <3> HIDE DEF new
    <3> QED  BY <1>3, <1>6
  <2>2. At(new, key) = new[j] /\ At(file, key) = file[p[j]]
    BY <1>5, <2>1
  <2> HIDE DEF new, At
  <2> QED  BY <1>2, <2>2 DEF IsShortened
<1> QED  BY <1>6, <1>7 DEF Json!SameNumbers

(* A result of n cells in front of the rest.                               *)
LEMMA PutThere ==
  ASSUME fp \in Nat, Len(file) \in Nat, mem = Before, NEW s, NEW n \in 0 .. Len(file),
         Len(s) = n, NEW m, m = Put(mem, fp_w, s)
  PROVE  /\ \A j \in 1..n : m[j - 1] = s[j]
         /\ m[End] = Before[End]
<1>1. DOMAIN mem = 0 .. End /\ fp_w = 0 /\ End = fp + Len(file)
  BY DEF Before, fp_w, End
<1>2. ASSUME NEW j \in 1..n
      PROVE  m[j - 1] = s[j]
  <2> DEFINE x == j - 1
  <2>1. x \in 0 .. End /\ x \in 0 .. 0 + n - 1 /\ x - 0 + 1 = j
    BY <1>1
  <2> HIDE DEF x
  <2>2. m[x] = s[j]
    BY <1>1, <2>1 DEF Put
  <2> QED  BY <2>2 DEF x
<1>3. End \in 0 .. End /\ End \notin 0 .. 0 + n - 1
  BY <1>1
<1>4. m[End] = Before[End]
  BY <1>1, <1>3 DEF Put
<1> QED  BY <1>2, <1>4

LEMMA SaveStep == ASSUME JsonInv, format = "Json", Json!Save, UNCHANGED format PROVE JsonInv'
<1>1. /\ pc = "numbers" /\ pc' = "done" /\ size' = Len(doc) /\ mem' = Put(mem, fp_w, doc)
      /\ UNCHANGED <<file, setting, doc, nodes, fp, End, Before>>
  BY DEF Json!Save, Json!NumbersDone, Json!call, Json!locals, Json!Put, Put, Json!fp_w, fp_w,
         fp, End, Before
<1>2. PICK n, p : IsDocument(n, p)
  BY <1>1 DEF JsonInv
<1>3. n \in 0 .. Len(file) /\ Len(doc) = n
  BY <1>2 DEF IsDocument
<1>4. (\A j \in 1..n : mem'[j - 1] = doc[j]) /\ mem'[End] = Before[End]
  BY <1>1, <1>3, PutThere DEF JsonInv
<1>5. IsDocument(n, p)'
  <2>1. /\ Kept' = Kept
        /\ \A j \in 1..n : IsShortened(doc[j], file[p[j]])' <=> IsShortened(doc[j], file[p[j]])
    BY <1>1 DEF Kept, IsShortened
  <2> QED  BY <1>1, <1>2, <2>1 DEF IsDocument
<1>6. IsSaved'
  <2>1. file' = file /\ size' = n /\ \A j \in 1..n : mem'[j - 1] = doc'[j]
    BY <1>1, <1>3, <1>4
  <2> QED  BY <1>5, <2>1 DEF IsSaved
<1>7. mem'[End'] = Before'[End']
  BY <1>1, <1>4
<1> QED  BY <1>1, <1>3, <1>6, <1>7 DEF JsonInv

LEMMA AsItWasStep ==
  ASSUME JsonInv, format = "Json", Json!NotJson \/ Json!NotSmaller, UNCHANGED format
  PROVE  JsonInv'
<1>1. /\ pc # "done" /\ pc' = "done" /\ mem' = MemMove(mem, fp_w, fp, size)
      /\ UNCHANGED <<file, setting, size, fp, End, Before>>
  BY DEF Json!NotJson, Json!NotSmaller, Json!NumbersDone, Json!MovedAsItIs, Json!call,
         Json!MemMove, MemMove, Json!fp_w, fp_w, Json!fp, fp, End, Before
<1>2. size = Len(file) /\ mem = Before
  BY <1>1 DEF JsonInv
<1>3. (\A k \in 1 .. Len(file) : mem'[k - 1] = file[k]) /\ mem'[End] = Before[End]
  BY <1>1, <1>2, FrontMoved DEF JsonInv
<1> QED  BY <1>1, <1>2, <1>3 DEF JsonInv, IsAsItWas

LEMMA JsonInvariance == ASSUME NumbersFit PROVE Spec => []JsonInv
<1>1. Init => JsonInv
  BY JsonInit DEF JsonInv
<1>2. ASSUME JsonInv, [Next]_vars
      PROVE  JsonInv'
  <2>1. CASE Next /\ format = "Json"
    <3>1. UNCHANGED format
      BY <2>1 DEF Next
    <3> QED  BY <1>2, <2>1, <3>1, JsonSteps, ParseStep, ShortenStep, SaveStep, AsItWasStep
  <2>2. CASE format # "Json"
    BY <1>2, <2>2 DEF Next, vars, JsonInv
  <2>3. CASE UNCHANGED vars
    <3>1. /\ UNCHANGED <<file, setting, format, mem, pc, size, doc, nodes, fp, End, Before, Kept>>
      BY <2>3 DEF vars, locals, trees, call, fp, End, Before, Kept
    <3>2. \A n, p : IsDocument(n, p)' <=> IsDocument(n, p)
      BY <3>1 DEF IsDocument, IsShortened
    <3> QED  BY <1>2, <3>1, <3>2 DEF JsonInv, IsAsItWas, IsSaved
  <2> QED  BY <1>2, <2>1, <2>2, <2>3
<1> QED  BY <1>1, <1>2, PTL DEF Spec

LEMMA AsItWasRight ==
  ASSUME Len(file) \in Nat, DOMAIN file = 1 .. Len(file), IsAsItWas
  PROVE  Json!SameNumbers
<1> DEFINE new == Json!Cells(mem, Json!fp_w, size)
<1>1. DOMAIN new = DOMAIN file /\ \A k \in DOMAIN file : new[k] = file[k]
  <2>1. \A k \in 1 .. Len(file) : 0 + k - 1 = k - 1
    OBVIOUS
  <2> QED  BY <2>1 DEF Json!Cells, Json!fp_w, IsAsItWas
<1> HIDE DEF new
<1>2. \A k : k \in Json!Members(new) <=> k \in Json!Members(file)
  BY <1>1 DEF Json!Members
<1>3. \A k \in Json!Members(file) :
        new[k] = file[k] /\ (Json!IsLast(new, k) <=> Json!IsLast(file, k))
  BY <1>1, <1>2 DEF Json!Members, Json!IsLast
<1>4. ASSUME NEW l \in Json!Members(file)
      PROVE  \E k \in Json!Members(file) :
               /\ Json!Key(file[k]) = Json!Key(file[l])
               /\ k = CHOOSE x \in Json!Members(file) :
                        Json!Key(file[x]) = Json!Key(file[l]) /\ Json!IsLast(file, x)
               /\ k = CHOOSE x \in Json!Members(new) :
                        Json!Key(new[x]) = Json!Key(file[l]) /\ Json!IsLast(new, x)
  <2>1. PICK k \in Kept : Json!Key(file[k]) = Json!Key(file[l])
    BY LastThere
  <2>2. k \in Json!Members(file) /\ Json!IsLast(file, k)
    BY DEF Kept, Json!Kept
  <2>3. \A x \in Json!Members(file) :
          Json!Key(file[x]) = Json!Key(file[l]) /\ Json!IsLast(file, x) => x = k
    <3>1. \A x \in Json!Members(file) : x \in Nat
      BY DEF Json!Members
    <3> QED  BY <2>1, <2>2, <3>1 DEF Json!IsLast
  <2>4. \A x \in Json!Members(new) :
          Json!Key(new[x]) = Json!Key(file[l]) /\ Json!IsLast(new, x) => x = k
    BY <1>2, <1>3, <2>3
  <2>5. k \in Json!Members(new) /\ Json!Key(new[k]) = Json!Key(file[l]) /\ Json!IsLast(new, k)
    BY <1>2, <1>3, <2>1, <2>2
  <2> QED  BY <2>1, <2>2, <2>3, <2>4, <2>5
<1>5. {Json!Key(new[k]) : k \in Json!Members(new)} = {Json!Key(file[k]) : k \in Json!Members(file)}
  BY <1>2, <1>3
<1> DEFINE At(s, key) == s[CHOOSE k \in Json!Members(s) : Json!Key(s[k]) = key /\ Json!IsLast(s, k)]
<1>6. ASSUME NEW l \in Json!Members(file)
      PROVE  At(new, Json!Key(file[l])) = At(file, Json!Key(file[l]))
  BY <1>3, <1>4
<1>7. \A key \in {Json!Key(file[k]) : k \in Json!Members(file)} : At(new, key) = At(file, key)
  <2> HIDE DEF At
  <2> QED  BY <1>6
<1> QED  BY <1>5, <1>7 DEF Json!SameNumbers, new

(* README.md:86-95, json.cpp:56-163: of a document that LeanifyFile is     *)
(* given every member stays, the last of those with the same key; a number *)
(* is no further from what it was than the tolerance says, and no longer.  *)
THEOREM DocumentsKeepNumbers == ASSUME NumbersFit PROVE Spec => []SameNumbers
<1>1. JsonInv => SameNumbers
  <2> SUFFICES ASSUME JsonInv, format = "Json" PROVE Json!SameNumbers
    BY DEF SameNumbers
  <2>1. CASE pc # "done"
    BY <2>1 DEF Json!SameNumbers
  <2>2. CASE pc = "done" /\ IsAsItWas
    BY <2>2, AsItWasRight DEF JsonInv
  <2>3. CASE pc = "done" /\ IsSaved
    BY <2>3, SaveRight DEF JsonInv, IsSaved
  <2> QED  BY <2>1, <2>2, <2>3 DEF JsonInv
<1> QED  BY <1>1, JsonInvariance, PTL

(* Whatever its numbers are, a document does not become longer.            *)
JsonFits ==
  format = "Json" =>
    /\ fp \in Nat /\ Len(file) \in Nat
    /\ pc # "done" => mem = Before /\ size = Len(file)
    /\ pc = "numbers" => DOMAIN doc = 1 .. Len(doc) /\ Len(doc) \in 0 .. Len(file)
    /\ pc \in {"start", "numbers", "done"}
    /\ size \in 0 .. Len(file) /\ mem[End] = Before[End]

LEMMA JsonFitsInvariance == Spec => []JsonFits
<1>1. Init => JsonFits
  BY CallMade DEF JsonFits
<1>2. ASSUME JsonFits, [Next]_vars
      PROVE  JsonFits'
  <2> SUFFICES ASSUME format = "Json", UNCHANGED format PROVE JsonFits'
    BY <1>2 DEF Next, vars, JsonFits
  <2>1. CASE Json!Parse
    <3>1. /\ pc = "start" /\ pc' = "numbers" /\ doc' \in Json!Parsed(file)
          /\ UNCHANGED <<file, mem, size, fp, End, Before>>
      BY <2>1 DEF Json!Parse, Json!call, fp, End, Before
    <3>2. PICK n \in 0 .. Len(file) : \E p \in Json!Bijection(1..n, Json!Kept(file)) :
            doc' = [j \in DOMAIN p |-> file[p[j]]]
      BY <3>1 DEF Json!Parsed
    <3>3. PICK p \in Json!Bijection(1..n, Json!Kept(file)) : doc' = [j \in DOMAIN p |-> file[p[j]]]
      BY <3>2
    <3>4. DOMAIN p = 1..n /\ n \in Nat
      BY <1>2 DEF Json!Bijection, Json!Injection, JsonFits
    <3>5. DOMAIN doc' = 1..n /\ Len(doc') = n
      <4>1. \A g : Len([j \in 1..n |-> g[j]]) = n
        BY <3>4
      <4>2. doc' = [j \in 1..n |-> doc'[j]]
        BY <3>3, <3>4
      <4> QED  BY <4>1, <4>2
    <3> QED  BY <1>2, <3>1, <3>5 DEF JsonFits
  <2>2. CASE Json!ShortenNumber
    <3>1. pc = "numbers" /\ pc' = "numbers" /\ UNCHANGED <<file, mem, size, fp, End, Before>>
      BY <2>2 DEF Json!ShortenNumber, Json!call, fp, End, Before
    <3>2. PICK c : doc' = [doc EXCEPT ![nodes + 1] = c]
      BY <2>2 DEF Json!ShortenNumber
    <3>3. DOMAIN doc = 1 .. Len(doc) /\ Len(doc) \in 0 .. Len(file) /\ Len(file) \in Nat
      BY <1>2, <3>1 DEF JsonFits
    <3>4. DOMAIN doc' = 1 .. Len(doc) /\ Len(doc') = Len(doc)
      <4>1. \A n \in Nat : \A g : Len([j \in 1..n |-> g[j]]) = n
        OBVIOUS
      <4>2. DOMAIN doc' = 1 .. Len(doc) /\ doc' = [j \in 1 .. Len(doc) |-> doc'[j]]
        BY <3>2, <3>3
      <4> QED  BY <3>3, <4>1, <4>2
    <3> QED  BY <1>2, <3>1, <3>3, <3>4 DEF JsonFits
  <2>3. CASE Json!Save
    <3>1. /\ pc = "numbers" /\ pc' = "done" /\ size' = Len(doc) /\ mem' = Put(mem, fp_w, doc)
          /\ UNCHANGED <<file, fp, End, Before>>
      BY <2>3 DEF Json!Save, Json!NumbersDone, Json!call, Json!Put, Put, Json!fp_w, fp_w,
             fp, End, Before
    <3>2. Len(doc) \in 0 .. Len(file) /\ mem = Before
      BY <1>2, <3>1 DEF JsonFits
    <3>3. mem'[End] = Before[End]
      BY <1>2, <3>1, <3>2, PutThere DEF JsonFits
    <3>4. mem'[End'] = Before'[End']
      BY <3>1, <3>3
    <3> QED  BY <1>2, <3>1, <3>2, <3>4 DEF JsonFits
  <2>4. CASE Json!NotJson \/ Json!NotSmaller
    <3>1. /\ pc # "done" /\ pc' = "done" /\ mem' = MemMove(mem, fp_w, fp, size)
          /\ UNCHANGED <<file, size, fp, End, Before>>
      BY <2>4 DEF Json!NotJson, Json!NotSmaller, Json!NumbersDone, Json!MovedAsItIs, Json!call,
             Json!MemMove, MemMove, Json!fp_w, fp_w, Json!fp, fp, End, Before
    <3>2. size = Len(file) /\ mem = Before
      BY <1>2, <3>1 DEF JsonFits
    <3>3. mem'[End] = Before[End]
      BY <1>2, <3>1, <3>2, FrontMoved DEF JsonFits
    <3>4. mem'[End'] = Before'[End']
      BY <3>1, <3>3
    <3> QED  BY <1>2, <3>1, <3>2, <3>4 DEF JsonFits
  <2>5. CASE UNCHANGED vars
    <3>1. UNCHANGED <<file, format, mem, pc, size, doc, fp, End, Before>>
      BY <2>5 DEF vars, locals, trees, call, fp, End, Before
    <3> QED  BY <1>2, <3>1 DEF JsonFits
  <2> QED  BY <1>2, <2>1, <2>2, <2>3, <2>4, <2>5, JsonSteps
<1> QED  BY <1>1, <1>2, PTL DEF Spec

LEMMA JsonContract == JsonFits /\ format = "Json" => InItsRegion /\ UnreadIntact
<1> SUFFICES ASSUME JsonFits, format = "Json" PROVE InItsRegion /\ UnreadIntact
  OBVIOUS
<1>1. InItsRegion
  <2>1. \A x \in DOMAIN Before : x \notin fp - fp .. fp + Len(file) - 1 => x = End
    BY DEF JsonFits, Before, End
  <2> QED  BY <2>1 DEF JsonFits, InItsRegion, KeepsToItsRegion
<1>2. UnreadIntact
  BY DEF JsonFits, UnreadIntact
<1> QED  BY <1>1, <1>2

-----------------------------------------------------------------------------
(* Icons.  The n images of the file in the order they lie in, ...          *)
IcoEntries(s) ==
  LET n == Ico!num_of_img
  IN  /\ n \in Nat \ {0} /\ n + 1 < Len(file)
      /\ s \in Ico!Orders /\ Ico!AreApart(s) /\ DOMAIN s = 1..n
      /\ \A k \in 1..n :
           /\ s[k] \in [name : {s[k].name}, offset : Nat, bytes : Nat \ {0}, is_256 : BOOLEAN]
           /\ s[k].offset > n

(* ... and the k-th of them where its entry says now.                      *)
OldImage(s, k) == Cells(file, s[k].offset + 1, s[k].bytes)
NewImage(k) == Cells(mem, entries[k].offset, entries[k].bytes)

IsImageOf(new, old, is_256) ==
  \/ new = old
  \/ old[1][1] = "png" /\ IsLeanOf(new, old)
  \/ old[1][1] = "dib" /\ is_256 /\ new = Ico!Converted(old[1][2], Len(new))

IsPlaced(s, k) ==
  /\ [entries[k] EXCEPT !.offset = s[k].offset, !.bytes = s[k].bytes] = s[k]
  /\ entries[k].offset \in Nat /\ entries[k].bytes \in Nat
  /\ entries[k].offset > Ico!num_of_img
  /\ entries[k].offset + entries[k].bytes <= Ico!NewOffset
  /\ Ico!NewOffset <= Len(file)
  /\ IsImageOf(NewImage(k), OldImage(s, k), s[k].is_256)

(* The first i images are done, and what comes behind them is as it was.   *)
ImagesDone(s) ==
  LET n == Ico!num_of_img
  IN  /\ IcoEntries(s)
      /\ i \in 0..n /\ DOMAIN entries = 1..n
      /\ \A k \in i + 1 .. n : entries[k] = s[k]
      /\ \A k \in 1..i : IsPlaced(s, k)
      /\ Ico!NewOffset \in Nat /\ Ico!NewOffset > n
      /\ i < n => Ico!NewOffset <= s[i + 1].offset /\ p_read = fp + s[i + 1].offset
      /\ i = n => Ico!NewOffset <= Len(file) /\ p_read = End

IconWritten(s) ==
  LET n == Ico!num_of_img
  IN  /\ IcoEntries(s) /\ size = Ico!NewOffset /\ n < size /\ DOMAIN entries = 1..n
      /\ \A k \in 1..n : IsPlaced(s, k)
      /\ mem[0] = <<"ico", n>>
      /\ \A k \in 1..n : mem[k] = <<"entry", entries[k]>>

IcoInv ==
  format = "Ico" =>
    /\ fp \in Nat /\ Len(file) \in Nat /\ file = Cells(file, 1, Len(file))
    /\ Ico!IsConsidered(file)
    /\ pc \in {"start", "images", "done"}
    /\ pc = "start" => mem = Before /\ i = 0
    /\ pc # "done" => size = Len(file)
    /\ pc = "images" => \E s : ImagesDone(s)
    /\ pc = "done" => (~ Ico!IsIcon /\ IsAsItWas) \/ \E s : IconWritten(s)
    /\ DOMAIN mem = 0 .. End /\ size \in 0 .. Len(file) /\ mem[End] = Before[End]
    /\ UnreadIntact

LEMMA IcoInit == ASSUME Init, format = "Ico" PROVE IcoInv
<1>1. PICK c \in Calls : file = c[1] /\ setting = c[2]
  BY DEF Init, Called
<1>2. file[1][1] = "ico"
  <2>1. GetType = "Ico"
    BY DEF Init, Made
  <2>2. file[1][1] \in DOMAIN Magic /\ Magic[file[1][1]] = "Ico"
    BY <2>1 DEF GetType
  <2> QED  BY <2>2 DEF Magic
<1>3. Ico!IsConsidered(file)
  BY <1>1, <1>2, LeanifyFileAssumption
<1>4. i = 0
  BY DEF Init, Ico!Start
<1>5. DOMAIN mem = 0 .. End
  BY CallMade DEF Before
<1>6. UnreadIntact /\ size \in 0 .. Len(file) /\ mem[End] = Before[End]
  BY CallMade DEF UnreadIntact
<1> QED  BY <1>3, <1>4, <1>5, <1>6, CallMade DEF IcoInv

(* Steps of Ico, in terms of what all formats do.                          *)
LEMMA IcoSteps ==
  ASSUME format = "Ico", Next
  PROVE  \/ Ico!NotAnIcon \/ Ico!SortEntries \/ Ico!MoveImage \/ Ico!WriteDirectory
         \/ \E r \in 1 .. Len(file) : Ico!LeanifyPng(r) \/ Ico!ConvertBitmap(r)
BY DEF Next, Leanify, NotSupported, NotGft, LeanifyGft, Ico!Next

(* The images of an icon are sorted and do not overlap.                    *)
LEMMA OrdersAre ==
  ASSUME Len(file) \in Nat, Ico!IsConsidered(file), Ico!IsIcon,
         NEW s \in Ico!Orders, Ico!AreApart(s)
  PROVE  IcoEntries(s)
<1> DEFINE n == Ico!num_of_img
           dir == Ico!Directory(file)
<1>1. n \in Nat \ {0} /\ n + 1 < Len(file)
  BY DEF Ico!IsIcon, Ico!IsConsidered, Ico!num_of_img, Ico!HeaderSize
<1>2. PICK p \in Ico!Bijection(1..n, 1..n) : s = [k \in 1..n |-> dir[p[k]]]
  BY DEF Ico!Orders
<1>3. p \in [1..n -> 1..n]
  BY DEF Ico!Bijection, Ico!Injection
<1>4. ASSUME NEW k \in 1..n
      PROVE  /\ s[k] \in [name : {s[k].name}, offset : Nat, bytes : Nat \ {0}, is_256 : BOOLEAN]
             /\ s[k].offset > n
  <2>1. p[k] \in 1..n
    BY <1>3
  <2>2. s[k] = file[p[k] + 1][2]
    BY <1>2, <2>1 DEF Ico!Directory, Ico!num_of_img
  <2>3. n < Len(file)
    BY <1>1
  <2> QED  BY <2>1, <2>2, <2>3 DEF Ico!IsConsidered, Ico!num_of_img
<1> QED  BY <1>1, <1>2, <1>4 DEF IcoEntries

LEMMA SortEntriesStep ==
  ASSUME IcoInv, format = "Ico", Ico!SortEntries, UNCHANGED format
  PROVE  IcoInv'
<1> DEFINE n == Ico!num_of_img
<1> PICK s : s = entries'
  OBVIOUS
<1>1. /\ pc = "start" /\ pc' = "images" /\ Ico!IsIcon /\ s \in Ico!Orders /\ Ico!AreApart(s)
      /\ p_read' = fp + s[1].offset
      /\ UNCHANGED <<file, setting, mem, size, i, fp, End, Before, n, Ico!Orders>>
  BY DEF Ico!SortEntries, Ico!call, Ico!fp, fp, End, Before, Ico!num_of_img, Ico!Orders,
         Ico!Directory
<1>2. i = 0 /\ mem = Before /\ size = Len(file) /\ fp \in Nat /\ Len(file) \in Nat
  BY <1>1 DEF IcoInv
<1>3. IcoEntries(s)
  BY <1>1, OrdersAre DEF IcoInv
<1>4. n \in Nat \ {0} /\ DOMAIN s = 1..n /\ s[1].offset \in Nat /\ s[1].offset > n
  BY <1>3 DEF IcoEntries
<1>5. IcoEntries(s)'
  BY <1>1, <1>3 DEF IcoEntries, Ico!AreApart
<1>6. ImagesDone(s)'
  <2>1. Ico!NewOffset' = n + 1 /\ i' = 0
    BY <1>1, <1>2, <1>4 DEF Ico!NewOffset, Ico!HeaderSize
  <2>2. n + 1 <= s[1].offset /\ 0 \in 0..n /\ 1..0 = {} /\ n # 0
    BY <1>4
  <2> QED  BY <1>1, <1>4, <1>5, <2>1, <2>2 DEF ImagesDone
<1>7. UnreadIntact'
  BY <1>1, <1>2 DEF UnreadIntact
<1> QED  BY <1>1, <1>2, <1>6, <1>7 DEF IcoInv, Ico!IsConsidered

LEMMA NotAnIconStep ==
  ASSUME IcoInv, format = "Ico", Ico!NotAnIcon, UNCHANGED format
  PROVE  IcoInv'
<1>1. /\ pc = "start" /\ pc' = "done" /\ ~ Ico!IsIcon /\ mem' = MemMove(mem, fp_w, fp, size)
      /\ UNCHANGED <<file, setting, size, fp, End, Before, Ico!IsIcon>>
  <2>1. /\ pc = "start" /\ pc' = "done" /\ ~ Ico!IsIcon /\ mem' = MemMove(mem, fp_w, fp, size)
        /\ UNCHANGED <<file, size, call>>
    BY DEF Ico!NotAnIcon, Ico!MovedAsItIs, Ico!call, call, Ico!MemMove, MemMove, Ico!fp_w, fp_w,
           Ico!fp, fp
  <2>2. UNCHANGED <<setting, fp, End, Before>>
    BY <2>1 DEF call, fp, End, Before
  <2>3. UNCHANGED Ico!IsIcon
    BY <2>1 DEF Ico!IsIcon, Ico!num_of_img, Ico!HeaderSize, Ico!Orders, Ico!Directory,
                Ico!AreApart
  <2> QED  BY <2>1, <2>2, <2>3
<1>2. size = Len(file) /\ mem = Before
  BY <1>1 DEF IcoInv
<1>3. /\ \A k \in 1 .. Len(file) : mem'[k - 1] = file[k]
      /\ mem'[End] = Before[End] /\ DOMAIN mem' = 0 .. End
  BY <1>1, <1>2, FrontMoved DEF IcoInv
<1> QED  BY <1>1, <1>2, <1>3 DEF IcoInv, IsAsItWas, UnreadIntact, Ico!IsConsidered

-----------------------------------------------------------------------------
(* No image ends behind the file.                                          *)
LEMMA ImagesFit ==
  ASSUME Len(file) \in Nat, NEW s, IcoEntries(s), NEW k \in 1 .. Ico!num_of_img
  PROVE  s[k].offset \in Nat /\ s[k].bytes \in Nat /\ s[k].offset + s[k].bytes <= Len(file)
<1> DEFINE n == Ico!num_of_img
<1>0. n \in Nat \ {0} /\ s[k].offset \in Nat /\ s[k].bytes \in Nat
  BY DEF IcoEntries
<1> DEFINE T == {d \in 0 .. n : n - d \in 1..n /\ ~ (s[n - d].offset + s[n - d].bytes <= Len(file))}
<1> SUFFICES ASSUME T # {} PROVE FALSE
  <2>1. T = {}
    OBVIOUS
  <2>2. n - k \in 0 .. n /\ n - (n - k) = k
    BY <1>0
  <2>3. n - k \notin T
    BY <2>1
  <2> QED  BY <1>0, <2>2, <2>3
<1>1. PICK d \in T : \A c \in T : d <= c
  <2>1. T \in SUBSET Nat
    BY <1>0
  <2> HIDE DEF T
  <2> QED  BY <2>1, LeastNat
<1> DEFINE x == n - d
<1>2. x \in 1..n /\ ~ (s[x].offset + s[x].bytes <= Len(file)) /\ d \in Nat
  BY <1>1
<1>3. x # n
  BY <1>2 DEF IcoEntries, Ico!AreApart
<1>4. /\ d - 1 \in 0..n /\ n - (d - 1) = x + 1 /\ ~ (d <= d - 1)
      /\ x + 1 \in 1..n /\ x + 1 \in 2..n /\ (x + 1) - 1 = x
  <2>1. n \in Nat /\ d \in Nat /\ x = n - d /\ x >= 1 /\ x <= n
    BY <1>0, <1>2
  <2> HIDE DEF x
  <2>2. x < n
    BY <1>3, <2>1
  <2> HIDE DEF n
  <2> QED  BY <2>1, <2>2
<1>5. d - 1 \notin T
  BY <1>1, <1>4
<1>6. s[x + 1].offset + s[x + 1].bytes <= Len(file)
  BY <1>4, <1>5
<1>7. s[x].offset + s[x].bytes <= s[x + 1].offset
  BY <1>4 DEF IcoEntries, Ico!AreApart
<1>8. /\ s[x].offset \in Nat /\ s[x].bytes \in Nat
      /\ s[x + 1].offset \in Nat /\ s[x + 1].bytes \in Nat
  BY <1>2, <1>4 DEF IcoEntries
<1>9. Len(file) \in Nat /\ ~ (s[x].offset + s[x].bytes <= Len(file))
  BY <1>2
<1> DEFINE a == s[x].offset
           b == s[x].bytes
           c == s[x + 1].offset
           g == s[x + 1].bytes
<1>10. a \in Nat /\ b \in Nat /\ c \in Nat /\ g \in Nat /\ a + b <= c /\ c + g <= Len(file)
       /\ ~ (a + b <= Len(file))
  BY <1>6, <1>7, <1>8, <1>9
<1> HIDE DEF a, b, c, g
<1> QED  BY <1>9, <1>10

(* The next image is in the buffer as it was in the file.                  *)
LEMMA ImageThere ==
  ASSUME IcoInv, format = "Ico", pc = "images", i < Ico!num_of_img, NEW s, ImagesDone(s)
  PROVE  LET e == s[i + 1]
         IN  /\ i + 1 \in 1 .. Ico!num_of_img /\ entries[i + 1] = e /\ Ico!Bytes = e.bytes
             /\ e.bytes \in Nat \ {0} /\ e.offset \in Nat /\ e.offset + e.bytes <= Len(file)
             /\ p_read = fp + e.offset /\ p_read + e.bytes <= End
             /\ Ico!NewOffset \in Nat /\ Ico!NewOffset <= e.offset
             /\ Cells(mem, p_read, e.bytes) = OldImage(s, i + 1)
             /\ mem[p_read] = OldImage(s, i + 1)[1]
<1> DEFINE n == Ico!num_of_img
           e == s[i + 1]
<1>1. /\ i \in 0..n /\ n \in Nat /\ entries[i + 1] = e /\ i + 1 \in 1..n
      /\ e.bytes \in Nat \ {0} /\ e.offset \in Nat /\ p_read = fp + e.offset
      /\ Ico!NewOffset \in Nat /\ Ico!NewOffset <= e.offset
  BY DEF ImagesDone, IcoEntries
<1>2. Ico!Bytes = e.bytes
  BY <1>1 DEF Ico!Bytes
<1>3. \A k \in 1..n : s[k].offset + s[k].bytes <= Len(file)
  BY ImagesFit DEF ImagesDone, IcoInv
<1>4. e.offset + e.bytes <= Len(file) /\ p_read + e.bytes <= End
  <2>1. e.offset + e.bytes <= Len(file)
    BY <1>1, <1>3
  <2> DEFINE o == e.offset
             b == e.bytes
  <2>2. /\ o \in Nat /\ b \in Nat /\ p_read = fp + o /\ o + b <= Len(file) /\ fp \in Nat
        /\ Len(file) \in Nat /\ End = fp + Len(file)
    BY <1>1, <2>1 DEF IcoInv, End
  <2> HIDE DEF e, o, b
  <2>3. o + b <= Len(file) /\ p_read + b <= End
    BY <2>2
  <2> QED  BY <2>3 DEF o, b
<1>5. ASSUME NEW k \in 1 .. e.bytes
      PROVE  mem[p_read + k - 1] = file[(e.offset + 1) + k - 1]
  <2> DEFINE x == p_read + k - 1
             o == e.offset
             b == e.bytes
  <2>1. /\ x \in p_read .. End /\ e.offset + k \in 1 .. Len(file)
        /\ x = fp + (e.offset + k) - 1 /\ (e.offset + 1) + k - 1 = e.offset + k
    <3>1. /\ o \in Nat /\ b \in Nat /\ k \in 1 .. b /\ p_read = fp + o /\ o + b <= Len(file)
          /\ fp \in Nat /\ Len(file) \in Nat /\ End = fp + Len(file)
      BY <1>1, <1>4 DEF IcoInv, End
    <3> HIDE DEF e, o, b
    <3>2. /\ p_read + k - 1 \in p_read .. End /\ o + k \in 1 .. Len(file)
          /\ p_read + k - 1 = fp + (o + k) - 1 /\ (o + 1) + k - 1 = o + k
      BY <3>1
    <3> QED  BY <3>2 DEF o
  <2>2. mem[x] = Before[x]
    BY <2>1 DEF IcoInv, UnreadIntact
  <2>3. Before[fp + (e.offset + k) - 1] = file[e.offset + k]
    BY <2>1, FileThere DEF IcoInv
  <2> QED  BY <2>1, <2>2, <2>3
<1>6. Cells(mem, p_read, e.bytes) = OldImage(s, i + 1)
  BY <1>5 DEF Cells, OldImage
<1>7. mem[p_read] = OldImage(s, i + 1)[1]
  <2> HIDE DEF e
  <2>1. p_read + 1 - 1 = p_read /\ 1 \in 1 .. e.bytes
    BY <1>1 DEF IcoInv
  <2>2. Cells(mem, p_read, e.bytes)[1] = mem[p_read]
    BY <2>1 DEF Cells
  <2> QED  BY <1>6, <2>2
<1> QED  BY <1>1, <1>2, <1>4, <1>6, <1>7

(* The steps that leave the next image with r cells.                       *)
LEMMA ImageStep ==
  ASSUME IcoInv, format = "Ico", pc = "images", i < Ico!num_of_img, UNCHANGED format,
         NEW s, ImagesDone(s), NEW r \in 1 .. s[i + 1].bytes, Ico!NextImage(r),
         DOMAIN mem' = 0 .. End,
         \A x \in 0 .. End :
           x \notin Ico!NewOffset .. p_read + s[i + 1].bytes - 1 => mem'[x] = mem[x],
         IsImageOf(Cells(mem', Ico!NewOffset, r), OldImage(s, i + 1), s[i + 1].is_256)
  PROVE  IcoInv'
<1> DEFINE n == Ico!num_of_img
           e == s[i + 1]
           d == Ico!NewOffset
<1>1. /\ i' = i + 1 /\ pc' = "images"
      /\ entries' = [entries EXCEPT ![i + 1].offset = d, ![i + 1].bytes = r]
      /\ p_read' = IF i' < n THEN fp + entries[i' + 1].offset ELSE End
      /\ UNCHANGED <<file, setting, size, fp, End, Before, n, Ico!Orders>>
  <2>1. UNCHANGED <<file, setting, size, fp, End, Before, n, Ico!Orders>>
    BY DEF Ico!NextImage, Ico!call, fp, End, Before, Ico!num_of_img, Ico!Orders, Ico!Directory
  <2> QED  BY <2>1 DEF Ico!NextImage, Ico!fp, Ico!End, fp, End
<1>2. /\ i + 1 \in 1..n /\ entries[i + 1] = e /\ e.bytes \in Nat \ {0} /\ e.offset \in Nat
      /\ e.offset + e.bytes <= Len(file) /\ p_read = fp + e.offset /\ p_read + e.bytes <= End
      /\ d \in Nat /\ d <= e.offset /\ r \in Nat \ {0} /\ d + r <= e.offset + e.bytes
  <2>1. /\ i + 1 \in 1..n /\ entries[i + 1] = e /\ e.bytes \in Nat \ {0} /\ e.offset \in Nat
        /\ e.offset + e.bytes <= Len(file) /\ p_read = fp + e.offset /\ p_read + e.bytes <= End
        /\ d \in Nat /\ d <= e.offset
    BY ImageThere
  <2> HIDE DEF e, d
  <2> QED  BY <2>1 DEF e
<1>3. /\ n \in Nat \ {0} /\ i \in 0..n /\ DOMAIN entries = 1..n /\ d > n
      /\ \A k \in i + 1 .. n : entries[k] = s[k]
      /\ \A k \in 1..i : IsPlaced(s, k)
  BY DEF ImagesDone, IcoEntries
<1>4. /\ DOMAIN entries' = 1..n
      /\ \A k \in 1..n : k # i + 1 => entries'[k] = entries[k]
      /\ entries'[i + 1] = [e EXCEPT !.offset = d, !.bytes = r]
  BY <1>1, <1>2, <1>3
<1>5. /\ entries'[i + 1].offset = d /\ entries'[i + 1].bytes = r
      /\ [entries'[i + 1] EXCEPT !.offset = e.offset, !.bytes = e.bytes] = e
  <2>1. e \in [name : {e.name}, offset : Nat, bytes : Nat \ {0}, is_256 : BOOLEAN]
    BY <1>2 DEF ImagesDone, IcoEntries
  <2> HIDE DEF e, d
  <2> QED  BY <1>4, <2>1
<1>6. Ico!NewOffset' = d + r
  <2>1. i' # 0
    BY <1>1, <1>2
  <2>2. Ico!NewOffset' = entries'[i'].offset + entries'[i'].bytes
    BY <2>1 DEF Ico!NewOffset
  <2>3. i' = i + 1
    BY <1>1
  <2> QED  BY <1>5, <2>2, <2>3
<1> HIDE DEF d
<1>7. i' \in Nat /\ i' = i + 1 /\ i' \in 1..n /\ d + r \in Nat /\ d + r > n /\ n \in Nat
      /\ n' = n
  BY <1>1, <1>2, <1>3
<1>8. ASSUME NEW k \in i + 2 .. n
      PROVE  entries'[k] = s[k]
  <2>1. k \in 1..n /\ k \in i + 1 .. n /\ k # i + 1
    BY <1>3
  <2> QED  BY <1>3, <1>4, <2>1
<1>9. i' < n => d + r <= s[i' + 1].offset /\ p_read' = fp + s[i' + 1].offset
  <2> SUFFICES ASSUME i + 1 < n PROVE d + r <= s[i + 2].offset /\ p_read' = fp + s[i + 2].offset
    BY <1>3, <1>7
  <2>1. i + 2 \in 2..n /\ i + 2 \in i + 2 .. n /\ (i + 2) - 1 = i + 1 /\ i + 2 = i' + 1 /\ i' < n
    BY <1>3, <1>7
  <2>2. s[i + 1].offset + s[i + 1].bytes <= s[i + 2].offset
    BY <2>1 DEF ImagesDone, IcoEntries, Ico!AreApart
  <2>3. s[i + 2].offset \in Nat
    <3>1. i + 2 \in 1..n
      BY <2>1
    <3> QED  BY <3>1 DEF ImagesDone, IcoEntries
  <2>4. d + r <= s[i + 2].offset
    <3> DEFINE a == s[i + 2].offset
               b == s[i + 1].offset + s[i + 1].bytes
    <3>1. d \in Nat /\ r \in Nat /\ d + r <= b /\ b <= a /\ a \in Nat /\ b \in Nat
      <4>1. d \in Nat /\ r \in Nat /\ d + r <= b /\ b \in Nat
        BY <1>2
      <4> QED  BY <2>2, <2>3, <4>1
    <3> HIDE DEF a, b
    <3>2. d + r <= a
      BY <3>1
    <3> QED  BY <3>2 DEF a
  <2>5. p_read' = fp + s[i + 2].offset
    <3>1. i + 2 \in i + 1 .. n
      BY <1>3, <2>1
    <3> QED  BY <1>1, <1>3, <2>1, <3>1
  <2> QED  BY <2>4, <2>5
<1>10. i' = n => d + r <= Len(file) /\ p_read' = End
  <2> DEFINE b == e.offset + e.bytes
  <2>1. d \in Nat /\ r \in Nat /\ d + r <= b /\ b <= Len(file) /\ b \in Nat /\ Len(file) \in Nat
    BY <1>2 DEF IcoInv
  <2>2. d + r <= Len(file)
    <3> HIDE DEF b
    <3> QED  BY <2>1
  <2>3. i' = n => p_read' = End
    BY <1>1, <1>3, <1>7
  <2> QED  BY <2>2, <2>3
<1>11. ASSUME NEW x \in p_read + e.bytes .. End
       PROVE  mem'[x] = Before[x]
  <2> DEFINE b == e.bytes
  <2>1. x \in 0 .. End /\ x \notin d .. p_read + b - 1 /\ x \in p_read .. End
    <3> DEFINE o == e.offset
    <3>1. /\ p_read = fp + o /\ o \in Nat /\ b \in Nat /\ d \in Nat /\ fp \in Nat
          /\ End = fp + Len(file) /\ Len(file) \in Nat /\ x \in p_read + b .. End
      BY <1>2 DEF IcoInv, End
    <3> HIDE DEF b, o
    <3> QED  BY <3>1
  <2>2. mem'[x] = mem[x]
    BY <2>1 DEF d
  <2>3. mem[x] = Before[x]
    BY <2>1 DEF IcoInv, UnreadIntact
  <2> QED  BY <2>2, <2>3
<1>12. p_read' \in Int /\ p_read' >= p_read + e.bytes
  <2> DEFINE b == e.bytes
             o == e.offset
  <2>1. b \in Nat /\ o \in Nat /\ fp \in Nat /\ p_read = fp + o /\ p_read + b <= End
        /\ End \in Nat
    BY SMTT(30), <1>2 DEF IcoInv, End
  <2>2. CASE i' = n
    <3> HIDE DEF b, o
    <3> QED  BY <1>10, <2>1, <2>2 DEF b
  <2>3. CASE i' # n
    <3>1. i' < n /\ i' + 1 \in 2..n /\ (i' + 1) - 1 = i + 1 /\ i' + 1 \in 1..n
      BY <1>3, <1>7, <2>3
    <3>2. o + b <= s[i' + 1].offset /\ s[i' + 1].offset \in Nat
      BY <3>1 DEF ImagesDone, IcoEntries, Ico!AreApart
    <3>3. p_read' = fp + s[i' + 1].offset
      BY <1>9, <3>1
    <3> HIDE DEF b, o
    <3> QED  BY SMTT(30), <2>1, <3>2, <3>3 DEF b
  <2> QED  BY <2>2, <2>3
<1>13. UnreadIntact'
  <2>1. \A x \in p_read' .. End : mem'[x] = Before[x]
    <3>1. \A x \in p_read' .. End : x \in p_read + e.bytes .. End
      <4> DEFINE b == e.bytes
      <4> DEFINE o == e.offset
      <4>1. /\ b \in Nat /\ p_read = fp + o /\ o \in Nat /\ fp \in Nat
            /\ p_read' \in Int /\ p_read' >= p_read + b /\ End = fp + Len(file) /\ Len(file) \in Nat
        BY <1>2, <1>12 DEF IcoInv, End
      <4> HIDE DEF b, o
      <4>2. \A x \in p_read' .. End : x \in p_read + b .. End
        BY <4>1
      <4> QED  BY <4>2 DEF b
    <3> QED  BY <1>11, <3>1
  <2> QED  BY <1>1, <2>1 DEF UnreadIntact
<1>14. d + r <= Len(file)
  <2> DEFINE b == e.offset + e.bytes
  <2>1. d \in Nat /\ r \in Nat /\ d + r <= b /\ b <= Len(file) /\ b \in Nat /\ Len(file) \in Nat
    BY <1>2 DEF IcoInv
  <2> HIDE DEF b
  <2> QED  BY <2>1
<1>15. ASSUME NEW k \in 1..i
       PROVE  IsPlaced(s, k)'
  <2>1. IsPlaced(s, k) /\ k \in 1..n /\ k # i + 1 /\ entries'[k] = entries[k]
    BY <1>3, <1>4
  <2> DEFINE o == entries[k].offset
             b == entries[k].bytes
  <2>2. o \in Nat /\ b \in Nat /\ o > n /\ o + b <= d
    BY <2>1 DEF IsPlaced, d
  <2>3. Cells(mem', o, b) = Cells(mem, o, b)
    <3>1. ASSUME NEW j \in 1..b
          PROVE  mem'[o + j - 1] = mem[o + j - 1]
      <4> DEFINE x == o + j - 1
      <4> HIDE DEF o, b
      <4>1. d \in Nat /\ d <= End /\ End \in Nat
        BY SMTT(30), <1>2, <1>14 DEF IcoInv, End
      <4>2. x \in 0 .. End /\ x < d
        BY <2>2, <4>1
      <4> HIDE DEF x
      <4>3. x \notin d .. p_read + s[i + 1].bytes - 1
        <5>1. d \in Nat /\ x \in Nat /\ ~ (d <= x)
          BY <4>1, <4>2
        <5>2. \A y : x \notin d .. y
          BY <5>1
        <5> QED  BY <5>2
      <4>4. mem'[x] = mem[x]
        BY <4>2, <4>3 DEF d
      <4> QED  BY <4>4 DEF x
    <3> QED  BY <3>1 DEF Cells
  <2>4. NewImage(k)' = NewImage(k) /\ OldImage(s, k)' = OldImage(s, k)
    BY <1>1, <2>1, <2>3 DEF NewImage, OldImage
  <2>5. IsImageOf(NewImage(k)', OldImage(s, k)', s[k].is_256)
    BY <2>1, <2>4 DEF IsPlaced
  <2>6. o + b <= d + r
    <3> HIDE DEF o, b
    <3> QED  BY <1>2, <2>2
  <2>7. [entries'[k] EXCEPT !.offset = s[k].offset, !.bytes = s[k].bytes] = s[k]
    BY <2>1 DEF IsPlaced
  <2> QED  BY <1>1, <1>6, <1>14, <2>1, <2>2, <2>5, <2>6, <2>7 DEF IsPlaced, IsImageOf
<1> PICK a : a = i + 1
  OBVIOUS
<1>16. IsPlaced(s, a)'
  <2>1. NewImage(a)' = Cells(mem', d, r)
    BY <1>1, <1>5, <1>7 DEF NewImage
  <2>2. OldImage(s, a)' = OldImage(s, a)
    BY <1>1, <1>7 DEF OldImage
  <2>3. a \in 1..n /\ entries'[a].offset = d /\ entries'[a].bytes = r
        /\ [entries'[a] EXCEPT !.offset = s[a].offset, !.bytes = s[a].bytes] = s[a]
    BY <1>2, <1>5
  <2>4. IsImageOf(NewImage(a)', OldImage(s, a)', s[a].is_256)
    BY <2>1, <2>2 DEF d
  <2>5. IsImageOf(NewImage(a), OldImage(s, a), s[a].is_256)'
    BY <2>4 DEF IsImageOf
  <2>6. d \in Nat /\ r \in Nat /\ d > n /\ n' = n /\ Len(file)' = Len(file) /\ d + r <= d + r
    BY <1>1, <1>2, <1>3
  <2> HIDE DEF n
  <2> QED  BY <1>6, <1>14, <2>3, <2>5, <2>6 DEF IsPlaced, n
<1>17. ImagesDone(s)'
  <2>1. IcoEntries(s)'
    BY <1>1 DEF ImagesDone, IcoEntries, Ico!AreApart
  <2>2. \A k \in i' + 1 .. n : entries'[k] = s[k]
    BY <1>3, <1>7, <1>8
  <2>3. \A k \in 1 .. i' : IsPlaced(s, k)'
    <3>1. \A k \in 1 .. i' : k \in 1..i \/ k = a
      BY <1>3, <1>7
    <3> QED  BY <1>15, <1>16, <3>1
  <2>4. i' \in 0..n
    BY <1>7
  <2> QED  BY <1>1, <1>4, <1>6, <1>7, <1>9, <1>10, <2>1, <2>2, <2>3, <2>4 DEF ImagesDone
<1>18. mem'[End'] = Before'[End']
  <2>1. End \in p_read + e.bytes .. End
    <3> DEFINE b == e.bytes
               o == e.offset
    <3>1. b \in Nat /\ o \in Nat /\ p_read = fp + o /\ fp \in Nat /\ p_read + b <= End
          /\ End = fp + Len(file) /\ Len(file) \in Nat
      BY <1>2 DEF IcoInv, End
    <3> HIDE DEF b, o
    <3>2. End \in p_read + b .. End
      BY <3>1
    <3> QED  BY <3>2 DEF b
  <2> QED  BY <1>1, <1>11, <2>1
<1> QED  BY <1>1, <1>13, <1>17, <1>18 DEF IcoInv, Ico!IsConsidered

(* What LeanifyFile makes of n cells are r of them, if that is what it     *)
(* says.                                                                   *)
LEMMA LeanLength ==
  ASSUME NEW m, NEW p, NEW n \in Nat \ {0}, NEW r \in 0..n
  PROVE  LET new == Lean(Cells(m, p, n), r)
         IN  Len(new) = r /\ new = [k \in 1..r |-> new[k]]
<1> DEFINE s == Cells(m, p, n)
<1>1. Len(s) = n /\ s # <<>> /\ s = [k \in 1..n |-> s[k]]
  <2>1. Len(s) = n /\ s = [k \in 1..n |-> s[k]]
    BY CellsAre DEF Cells
  <2> HIDE DEF s
  <2> QED  BY <2>1
<1> HIDE DEF s
<1>2. \A g : Len([k \in 1..r |-> g[k]]) = r
  OBVIOUS
<1>3. Lean(s, r) = [k \in 1..r |-> Lean(s, r)[k]]
  <2>1. CASE r = n
    BY <1>1, <2>1 DEF Lean
  <2>2. CASE r # n /\ s[1][1] = "zlib"
    <3>1. Lean(s, r) = Zlib(s[1][2], r)
      BY <1>1, <2>2 DEF Lean
    <3> QED  BY <3>1 DEF Zlib
  <2>3. CASE r # n /\ s[1][1] # "zlib"
    <3>1. Lean(s, r) = [k \in 1..r |-> <<"lean", s[1][2], k>>]
      BY <1>1, <2>3 DEF Lean
    <3> QED  BY <3>1
  <2> QED  BY <2>1, <2>2, <2>3
<1>4. Len(Lean(s, r)) = r
  BY <1>2, <1>3
<1> QED  BY <1>3, <1>4 DEF s

(* Written at d, a sequence is there, and nothing else has changed.        *)
LEMMA PutIs ==
  ASSUME NEW m, NEW h \in Nat, DOMAIN m = 0..h, NEW d \in Nat, NEW n \in Nat, d + n - 1 <= h,
         NEW s, Len(s) = n
  PROVE  /\ DOMAIN Put(m, d, s) = 0..h
         /\ \A x \in 0..h : x \notin d .. d + n - 1 => Put(m, d, s)[x] = m[x]
         /\ \A k \in 1..n : Put(m, d, s)[d + k - 1] = s[k]
<1>1. ASSUME NEW k \in 1..n
      PROVE  Put(m, d, s)[d + k - 1] = s[k]
  <2> DEFINE x == d + k - 1
  <2>1. x \in 0..h /\ x \in d .. d + n - 1 /\ x - d + 1 = k
    OBVIOUS
  <2> HIDE DEF x
  <2>2. Put(m, d, s)[x] = s[k]
    BY <2>1 DEF Put
  <2> QED  BY <2>2 DEF x
<1> QED  BY <1>1 DEF Put

(* The buffer m2 is as m was, but from cell a to b.                        *)
SameOutside(m2, m, h, a, b) == \A x \in 0..h : x \notin a..b => m2[x] = m[x]

(* What LeanifyFile leaves of the n cells at p.                            *)
LEMMA LeanifiedIs ==
  ASSUME NEW m, NEW h \in Nat, DOMAIN m = 0..h, NEW p \in Nat, NEW n \in Nat \ {0}, p + n <= h,
         NEW d \in 0..p, NEW r \in 0..n, NEW c, c = p - d,
         NEW m2, m2 = FileLeanified(m, p, n, c, r)
  PROVE  /\ DOMAIN m2 = 0..h
         /\ SameOutside(m2, m, h, d, p + n - 1)
         /\ IsLeanOf(Cells(m2, d, r), Cells(m, p, n))
<1> DEFINE s == Cells(m, p, n)
           t == Lean(s, r)
<1>1. Len(t) = r /\ t = [k \in 1..r |-> t[k]]
  BY LeanLength
<1>2. m2 = [x \in 0..h |-> IF x \in d .. p + n - 1
                           THEN IF x < d + r THEN t[x - d + 1] ELSE Junk ELSE m[x]]
  <2>1. m2 = Leanified(m, p, n, c, t)
    BY DEF FileLeanified
  <2>2. p - c = d /\ \A x \in 0..h : x - p + c + 1 = x - d + 1
    OBVIOUS
  <2> HIDE DEF t
  <2> QED  BY <1>1, <2>1, <2>2 DEF Leanified
<1>3. Cells(m2, d, r) = t
  <2>1. ASSUME NEW k \in 1..r
        PROVE  m2[d + k - 1] = t[k]
    <3> DEFINE x == d + k - 1
    <3>1. x \in 0..h /\ x \in d .. p + n - 1 /\ x < d + r /\ x - d + 1 = k
      OBVIOUS
    <3> HIDE DEF x, t
    <3>2. m2[x] = t[k]
      BY <1>2, <3>1
    <3> QED  BY <3>2 DEF x
  <2> HIDE DEF t
  <2> QED  BY <1>1, <2>1 DEF Cells
<1>4. IsLeanOf(Cells(m2, d, r), s)
  BY <1>1, <1>3 DEF IsLeanOf
<1> HIDE DEF t
<1> QED  BY <1>2, <1>4 DEF s, SameOutside

LEMMA PngImageStep ==
  ASSUME IcoInv, format = "Ico", UNCHANGED format, NEW r \in 1 .. Len(file), Ico!LeanifyPng(r)
  PROVE  IcoInv'
<1>1. /\ pc = "images" /\ i < Ico!num_of_img /\ mem[p_read][1] = "png" /\ r \in 1 .. Ico!Bytes
      /\ mem' = Ico!FileLeanified(mem, p_read, Ico!Bytes, p_read - Ico!NewOffset, r)
      /\ Ico!NextImage(r)
  BY DEF Ico!LeanifyPng, Ico!Image, Ico!Slack
<1>2. PICK s : ImagesDone(s)
  BY <1>1 DEF IcoInv
<1> DEFINE e == s[i + 1]
<1>b. PICK b, d : b = e.bytes /\ d = Ico!NewOffset
  OBVIOUS
<1>3. /\ Ico!Bytes = b /\ b \in Nat \ {0} /\ d \in Nat /\ d <= p_read /\ p_read \in Nat
      /\ p_read + b <= End /\ End \in Nat /\ DOMAIN mem = 0 .. End
      /\ Cells(mem, p_read, b) = OldImage(s, i + 1) /\ OldImage(s, i + 1)[1][1] = "png"
  <2> DEFINE o == e.offset
  <2>1. /\ Ico!Bytes = b /\ b \in Nat \ {0} /\ d \in Nat /\ d <= o /\ p_read = fp + o
        /\ o \in Nat /\ fp \in Nat /\ End = fp + Len(file) /\ Len(file) \in Nat
        /\ p_read + b <= End /\ DOMAIN mem = 0 .. End
        /\ Cells(mem, p_read, b) = OldImage(s, i + 1) /\ OldImage(s, i + 1)[1][1] = "png"
    BY <1>1, <1>2, <1>b, ImageThere DEF IcoInv, End
  <2> HIDE DEF o
  <2> QED  BY <2>1
<1>h. PICK h, p, c, m2 : h = End /\ p = p_read /\ c = p_read - d /\ m2 = mem'
  OBVIOUS
<1>4. m2 = FileLeanified(mem, p, b, c, r)
  <2>1. \A m, q, n, x, t : Ico!FileLeanified(m, q, n, x, t) = FileLeanified(m, q, n, x, t)
    BY DEF Ico!FileLeanified, FileLeanified, Ico!Leanified, Leanified, Ico!Lean, Lean, Ico!Zlib,
           Zlib, Ico!Cells, Cells
  <2> QED  BY <1>1, <1>3, <1>b, <1>h, <2>1
<1>5. /\ h \in Nat /\ DOMAIN mem = 0..h /\ p \in Nat /\ b \in Nat \ {0} /\ p + b <= h
      /\ d \in 0..p /\ r \in 0..b /\ c = p - d
  <2>1. r \in 1..b
    BY <1>1, <1>3
  <2> QED  BY <1>3, <1>h, <2>1
<1>6. /\ DOMAIN m2 = 0..h /\ SameOutside(m2, mem, h, d, p + b - 1)
      /\ IsLeanOf(Cells(m2, d, r), Cells(mem, p, b))
  BY <1>4, <1>5, LeanifiedIs
<1>7. DOMAIN mem' = 0 .. End /\ \A x \in 0 .. End : x \notin d .. p_read + b - 1 => mem'[x] = mem[x]
  BY <1>6, <1>h DEF SameOutside
<1>8. IsImageOf(Cells(mem', d, r), OldImage(s, i + 1), e.is_256)
  BY <1>3, <1>6, <1>h DEF IsImageOf
<1>9. r \in 1..b /\ r \in Nat
  BY <1>1, <1>3
<1> QED  BY <1>1, <1>2, <1>3, <1>b, <1>7, <1>8, <1>9, ImageStep

LEMMA BitmapImageStep ==
  ASSUME IcoInv, format = "Ico", UNCHANGED format, NEW r \in 1 .. Len(file), Ico!ConvertBitmap(r)
  PROVE  IcoInv'
<1>1. /\ pc = "images" /\ i < Ico!num_of_img /\ mem[p_read][1] = "dib" /\ r < Ico!Bytes
      /\ entries[i + 1].is_256
      /\ mem' = Put(mem, 0 + Ico!NewOffset, Ico!Converted(mem[p_read][2], r))
      /\ Ico!NextImage(r)
  BY DEF Ico!ConvertBitmap, Ico!Image, Ico!Put, Put, Ico!fp_w
<1>2. PICK s : ImagesDone(s)
  BY <1>1 DEF IcoInv
<1> DEFINE e == s[i + 1]
<1> PICK b, d : b = e.bytes /\ d = Ico!NewOffset
  OBVIOUS
<1>3. /\ Ico!Bytes = b /\ b \in Nat \ {0} /\ d \in Nat /\ d <= p_read /\ p_read \in Nat
      /\ p_read + b <= End /\ End \in Nat /\ DOMAIN mem = 0 .. End /\ entries[i + 1] = e
      /\ mem[p_read] = OldImage(s, i + 1)[1]
  <2> DEFINE o == e.offset
  <2>1. /\ Ico!Bytes = b /\ b \in Nat \ {0} /\ d \in Nat /\ d <= o /\ p_read = fp + o
        /\ o \in Nat /\ fp \in Nat /\ End = fp + Len(file) /\ Len(file) \in Nat
        /\ p_read + b <= End /\ DOMAIN mem = 0 .. End /\ entries[i + 1] = e
        /\ mem[p_read] = OldImage(s, i + 1)[1]
    BY <1>1, <1>2, ImageThere DEF IcoInv, End
  <2> HIDE DEF o
  <2> QED  BY <2>1
<1> DEFINE new == Ico!Converted(mem[p_read][2], r)
<1>4. new = [k \in 1..r |-> new[k]] /\ r \in 1..b /\ r \in Nat /\ d + r - 1 <= End
  BY SMTT(30), <1>1, <1>3 DEF Ico!Converted
<1>5. /\ DOMAIN mem' = 0 .. End
      /\ \A x \in 0 .. End : x \notin d .. d + r - 1 => mem'[x] = mem[x]
      /\ Cells(mem', d, r) = new
  <2> HIDE DEF new
  <2>1. mem' = Put(mem, d, new)
    <3>1. 0 + d = d
      BY <1>3
    <3> QED  BY <1>1, <3>1 DEF new
  <2>2. Len(new) = r
    <3>1. \A g : Len([k \in 1..r |-> g[k]]) = r
      BY <1>4
    <3> QED  BY <1>4, <3>1
  <2>3. DOMAIN Put(mem, d, new) = 0..End
        /\ (\A x \in 0..End : x \notin d .. d + r - 1 => Put(mem, d, new)[x] = mem[x])
        /\ \A k \in 1..r : Put(mem, d, new)[d + k - 1] = new[k]
    BY SMTT(30), <1>3, <1>4, <2>2, PutIs
  <2>4. Cells(mem', d, r) = new
    BY <1>4, <2>1, <2>3 DEF Cells
  <2> QED  BY <2>1, <2>3, <2>4
<1>6. \A x \in 0 .. End : x \notin d .. p_read + b - 1 => mem'[x] = mem[x]
  <2>1. p_read \in Nat /\ d \in Nat /\ d <= p_read /\ b \in Nat /\ r \in Nat /\ r <= b
        /\ End \in Nat
    BY <1>3, <1>4
  <2>2. \A x \in 0 .. End : x \in d .. d + r - 1 => x \in d .. p_read + b - 1
    BY SMTT(30), <2>1
  <2> QED  BY <1>5, <2>2
<1>7. Len(new) = r
  <2>1. \A g : Len([k \in 1..r |-> g[k]]) = r
    BY <1>4
  <2> HIDE DEF new
  <2> QED  BY <1>4, <2>1
<1>8. IsImageOf(Cells(mem', d, r), OldImage(s, i + 1), e.is_256)
  BY <1>1, <1>3, <1>5, <1>7 DEF IsImageOf
<1> QED  BY <1>1, <1>2, <1>4, <1>5, <1>6, <1>8, ImageStep

LEMMA MoveImageStep ==
  ASSUME IcoInv, format = "Ico", UNCHANGED format, Ico!MoveImage
  PROVE  IcoInv'
<1>1. /\ pc = "images" /\ i < Ico!num_of_img
      /\ mem' = MemMove(mem, 0 + Ico!NewOffset, p_read, Ico!Bytes)
      /\ Ico!NextImage(Ico!Bytes)
  BY DEF Ico!MoveImage, Ico!MemMove, MemMove, Ico!fp_w
<1>2. PICK s : ImagesDone(s)
  BY <1>1 DEF IcoInv
<1> DEFINE e == s[i + 1]
<1> PICK b, d : b = e.bytes /\ d = Ico!NewOffset
  OBVIOUS
<1>3. /\ Ico!Bytes = b /\ b \in Nat \ {0} /\ d \in Nat /\ d <= p_read /\ p_read \in Nat
      /\ p_read + b <= End /\ End \in Nat /\ DOMAIN mem = 0 .. End
      /\ Cells(mem, p_read, b) = OldImage(s, i + 1)
  <2> DEFINE o == e.offset
  <2>1. /\ Ico!Bytes = b /\ b \in Nat \ {0} /\ d \in Nat /\ d <= o /\ p_read = fp + o
        /\ o \in Nat /\ fp \in Nat /\ End = fp + Len(file) /\ Len(file) \in Nat
        /\ p_read + b <= End /\ DOMAIN mem = 0 .. End
        /\ Cells(mem, p_read, b) = OldImage(s, i + 1)
    BY <1>1, <1>2, ImageThere DEF IcoInv, End
  <2> HIDE DEF o
  <2> QED  BY <2>1
<1>4. mem' = MemMove(mem, d, p_read, b)
  <2>1. 0 + d = d
    BY <1>3
  <2> QED  BY <1>1, <1>3, <2>1
<1>5. /\ DOMAIN mem' = 0 .. End
      /\ \A x \in 0 .. End : x \notin d .. p_read + b - 1 => mem'[x] = mem[x]
  <2>1. \A x \in 0 .. End : x \in d .. d + b - 1 => x \in d .. p_read + b - 1
    BY <1>3
  <2> QED  BY <1>3, <1>4, <2>1 DEF MemMove
<1>6. Cells(mem', d, b) = Cells(mem, p_read, b)
  <2>1. ASSUME NEW k \in 1..b
        PROVE  mem'[d + k - 1] = mem[p_read + k - 1]
    <3> DEFINE x == d + k - 1
               y == p_read + k - 1
    <3>1. x \in 0..End /\ x \in d .. d + b - 1 /\ x - d + p_read = y
      BY SMTT(30), <1>3
    <3> HIDE DEF x, y
    <3>2. mem'[x] = mem[y]
      BY <1>3, <1>4, <3>1 DEF MemMove
    <3> QED  BY <3>2 DEF x, y
  <2> QED  BY <2>1 DEF Cells
<1>7. IsImageOf(Cells(mem', d, b), OldImage(s, i + 1), e.is_256)
  BY <1>3, <1>6 DEF IsImageOf
<1>8. b \in 1..b
  BY <1>3
<1> QED  BY <1>1, <1>2, <1>3, <1>5, <1>7, <1>8, ImageStep

LEMMA DirectoryStep ==
  ASSUME IcoInv, format = "Ico", UNCHANGED format, Ico!WriteDirectory
  PROVE  IcoInv'
<1> DEFINE n == Ico!num_of_img
           rest == [k \in 1..n |-> <<"entry", entries[k]>>]
<1>0. PICK q : q = <<<<"ico", n>>>> \o rest
  OBVIOUS
<1>1. /\ pc = "images" /\ pc' = "done" /\ i = n /\ mem' = Put(mem, 0, q)
      /\ size' = entries[n].offset + entries[n].bytes
      /\ UNCHANGED <<file, setting, entries, i, p_read, fp, End, Before, n, Ico!Orders, Ico!IsIcon>>
  <2>1. UNCHANGED <<file, setting, entries, i, p_read, fp, End, Before, n, Ico!Orders, Ico!IsIcon>>
    BY DEF Ico!WriteDirectory, Ico!call, Ico!locals, fp, End, Before, Ico!num_of_img, Ico!Orders,
           Ico!Directory, Ico!IsIcon, Ico!HeaderSize, Ico!AreApart
  <2> QED  BY <1>0, <2>1 DEF Ico!WriteDirectory, Ico!Put, Put, Ico!fp_w
<1>2. PICK s : ImagesDone(s)
  BY <1>1 DEF IcoInv
<1>3. /\ IcoEntries(s) /\ n \in Nat \ {0} /\ n + 1 < Len(file) /\ DOMAIN entries = 1..n
      /\ \A k \in 1..n : IsPlaced(s, k)
  BY <1>1, <1>2 DEF ImagesDone, IcoEntries
<1>4. /\ Len(q) = n + 1 /\ q[1] = <<"ico", n>>
      /\ \A k \in 1..n : q[k + 1] = <<"entry", entries[k]>>
  <2>1. rest \in Seq({rest[k] : k \in 1..n}) /\ Len(rest) = n
    BY <1>3
  <2>2. \A k \in 1..n : rest[k] = <<"entry", entries[k]>>
    OBVIOUS
  <2> HIDE DEF rest
  <2> QED  BY <1>0, <1>3, <2>1, <2>2
<1>5. DOMAIN mem = 0 .. End /\ End \in Nat /\ n + 1 < End /\ fp \in Nat /\ End = fp + Len(file)
      /\ Len(file) \in Nat
  BY <1>3 DEF IcoInv, End
<1>6. /\ DOMAIN mem' = 0 .. End
      /\ \A x \in 0 .. End : x \notin 0 .. n => mem'[x] = mem[x]
      /\ mem'[0] = q[1] /\ \A k \in 1..n : mem'[k] = q[k + 1]
  <2>1. 0 + (n + 1) - 1 = n /\ n <= End
    BY <1>3, <1>5
  <2>2. /\ DOMAIN Put(mem, 0, q) = 0..End
        /\ \A x \in 0..End : x \notin 0 .. 0 + (n + 1) - 1 => Put(mem, 0, q)[x] = mem[x]
        /\ \A k \in 1 .. n + 1 : Put(mem, 0, q)[0 + k - 1] = q[k]
    <3>0. PICK c, z : c = n + 1 /\ z = 0
      OBVIOUS
    <3>1. c \in Nat /\ z \in Nat /\ z + c - 1 <= End /\ End \in Nat /\ Len(q) = c
      BY <3>0, <1>3, <1>4, <1>5
    <3>2. DOMAIN mem = 0 .. End
      BY <1>5
    <3>3. /\ DOMAIN Put(mem, z, q) = 0..End
          /\ \A x \in 0..End : x \notin z .. z + c - 1 => Put(mem, z, q)[x] = mem[x]
          /\ \A k \in 1..c : Put(mem, z, q)[z + k - 1] = q[k]
      BY <3>1, <3>2, PutIs
    <3> QED  BY <3>0, <3>3
  <2>3. /\ 1 \in 1 .. n + 1 /\ 0 + 1 - 1 = 0
        /\ \A k \in 1..n : k + 1 \in 1 .. n + 1 /\ 0 + (k + 1) - 1 = k
    BY <1>3
  <2> HIDE DEF n
  <2> QED  BY <1>1, <2>1, <2>2, <2>3
<1>7. mem'[End] = mem[End]
  <2>1. End \in 0 .. End /\ End \notin 0 .. n
    BY <1>3, <1>5
  <2> QED  BY <1>6, <2>1
<1>8. ASSUME NEW k \in 1..n
      PROVE  IsPlaced(s, k)'
  <2> DEFINE o == entries[k].offset
             b == entries[k].bytes
  <2>1. IsPlaced(s, k)
    BY <1>3
  <2>2. o \in Nat /\ b \in Nat /\ o > n /\ o + b <= Ico!NewOffset /\ Ico!NewOffset <= Len(file)
        /\ Ico!NewOffset \in Nat
    BY <1>2, <2>1 DEF IsPlaced, ImagesDone
  <2>3. Cells(mem', o, b) = Cells(mem, o, b)
    <3>1. ASSUME NEW j \in 1..b
          PROVE  mem'[o + j - 1] = mem[o + j - 1]
      <4> DEFINE x == o + j - 1
                 y == Ico!NewOffset
      <4>1. y \in Nat /\ o + b <= y /\ y <= Len(file) /\ n \in Nat
        BY <1>3, <2>2
      <4> HIDE DEF o, b, y, n
      <4>2. x \in 0 .. End /\ x \notin 0 .. n
        BY <1>5, <2>2, <4>1 DEF y
      <4> HIDE DEF x
      <4>3. mem'[x] = mem[x]
        BY <1>6, <4>2
      <4> QED  BY <4>3 DEF x
    <3> QED  BY <3>1 DEF Cells
  <2>4. NewImage(k)' = NewImage(k) /\ OldImage(s, k)' = OldImage(s, k)
    BY <1>1, <2>3 DEF NewImage, OldImage
  <2>5. IsImageOf(NewImage(k), OldImage(s, k), s[k].is_256)'
    BY <2>1, <2>4 DEF IsPlaced, IsImageOf
  <2>6. Ico!NewOffset' = Ico!NewOffset
    BY <1>1 DEF Ico!NewOffset, Ico!HeaderSize
  <2> QED  BY <1>1, <2>1, <2>5, <2>6 DEF IsPlaced
<1>9. size' = Ico!NewOffset /\ Ico!NewOffset' = Ico!NewOffset /\ n < Ico!NewOffset
      /\ Ico!NewOffset \in Nat /\ Ico!NewOffset <= Len(file)
  BY <1>1, <1>2, <1>3 DEF Ico!NewOffset, Ico!HeaderSize, ImagesDone
<1>10. IconWritten(s)'
  <2>1. IcoEntries(s)'
    BY <1>1, <1>3 DEF IcoEntries, Ico!AreApart
  <2> QED  BY <1>1, <1>3, <1>4, <1>6, <1>8, <1>9, <2>1 DEF IconWritten
<1>11. size' \in 0 .. Len(file)
  BY <1>5, <1>9
<1> QED  BY <1>1, <1>6, <1>7, <1>10, <1>11 DEF IcoInv, UnreadIntact, Ico!IsConsidered

LEMMA IcoInvariance == Spec => []IcoInv
<1>1. Init => IcoInv
  BY IcoInit DEF IcoInv
<1>2. ASSUME IcoInv, [Next]_vars
      PROVE  IcoInv'
  <2>1. CASE Next /\ format = "Ico"
    <3>1. UNCHANGED format
      BY <2>1 DEF Next
    <3> QED  BY <1>2, <2>1, <3>1, IcoSteps, NotAnIconStep, SortEntriesStep, PngImageStep,
                BitmapImageStep, MoveImageStep, DirectoryStep
  <2>2. CASE format # "Ico"
    BY <1>2, <2>2 DEF Next, vars, IcoInv
  <2>3. CASE UNCHANGED vars
    <3>1. UNCHANGED <<file, setting, format, mem, p_read, pc, size, entries, i, fp, End, Before,
                      Ico!num_of_img, Ico!NewOffset, Ico!Orders, Ico!IsIcon>>
      BY <2>3 DEF vars, locals, call, fp, End, Before, Ico!num_of_img, Ico!NewOffset,
                  Ico!HeaderSize, Ico!Orders, Ico!Directory, Ico!IsIcon, Ico!AreApart
    <3>2. \A s : (IcoEntries(s)' <=> IcoEntries(s)) /\ \A k : IsPlaced(s, k)' <=> IsPlaced(s, k)
      BY <3>1 DEF IcoEntries, IsPlaced, NewImage, OldImage, IsImageOf, Ico!AreApart
    <3>3. \A s : (ImagesDone(s)' <=> ImagesDone(s)) /\ (IconWritten(s)' <=> IconWritten(s))
      BY <3>1, <3>2 DEF ImagesDone, IconWritten
    <3> QED  BY <1>2, <3>1, <3>3 DEF IcoInv, IsAsItWas, UnreadIntact, Ico!IsConsidered
  <2> QED  BY <1>2, <2>1, <2>2, <2>3
<1> QED  BY <1>1, <1>2, PTL DEF Spec

(* An image is where its entry says.                                       *)
Part(s, o, b) == SubSeq(s, o + 1, o + b)

LEMMA PartIs ==
  ASSUME NEW m, NEW p \in Nat, NEW n \in Nat, NEW o \in Nat, NEW b \in Nat, o + b <= n
  PROVE  Part(Cells(m, p, n), o, b) = Cells(m, p + o, b)
<1> DEFINE s == Cells(m, p, n)
<1>1. \A k \in 1..b : /\ o + k \in 1..n /\ p + (o + k) - 1 = (p + o) + k - 1
                      /\ (o + 1) + k - 1 = o + k
  OBVIOUS
<1>2. \A k \in 1..b : s[o + k] = m[(p + o) + k - 1]
  BY <1>1, CellsAre
<1> DEFINE t == SubSeq(s, o + 1, o + b)
<1> PICK c, d : c = o + 1 /\ d = o + b
  OBVIOUS
<1>3. /\ c \in Int /\ d \in Int /\ d - c + 1 = b
      /\ (c <= d => b = d - c + 1) /\ (~ (c <= d) => b = 0)
      /\ \A x \in c..d : x \in 1..n
  OBVIOUS
<1>4. /\ SubSeq(s, c, d) \in Seq({s[k] : k \in 1..n}) /\ Len(SubSeq(s, c, d)) = b
      /\ \A k \in 1..b : SubSeq(s, c, d)[k] = s[c + k - 1]
  <2> HIDE DEF s
  <2> PICK S : S = {s[k] : k \in 1..n}
    OBVIOUS
  <2>1. \A x \in c..d : s[x] \in S
    BY <1>3
  <2>2. /\ SubSeq(s, c, d) \in Seq(S)
        /\ Len(SubSeq(s, c, d)) = IF c <= d THEN d - c + 1 ELSE 0
        /\ \A k \in 1 .. d - c + 1 : SubSeq(s, c, d)[k] = s[c + k - 1]
    BY <1>3, <2>1, SubSeqProperties
  <2> QED  BY <1>3, <2>2
<1>5. t = [k \in 1..b |-> t[k]] /\ \A k \in 1..b : t[k] = s[o + k]
  <2> HIDE DEF s
  <2>1. t = SubSeq(s, c, d)
    OBVIOUS
  <2>2. DOMAIN SubSeq(s, c, d) = 1..b
    BY <1>4
  <2>3. SubSeq(s, c, d) = [k \in 1..b |-> SubSeq(s, c, d)[k]]
    BY <1>4, <2>2
  <2> HIDE DEF t
  <2> QED  BY <1>1, <1>4, <2>1, <2>3
<1> HIDE DEF s, t
<1>6. t = Cells(m, p + o, b)
  BY SMTT(30), <1>2, <1>5 DEF Cells
<1> QED  BY <1>6 DEF s, t, Part

(* What the directory lists in the end.                                    *)
LEMMA IconRight ==
  ASSUME IcoInv, format = "Ico", Ico!IsIcon, NEW s, IconWritten(s)
  PROVE  Ico!SameImages
<1> DEFINE n == Ico!num_of_img
           new == Ico!Cells(mem, Ico!fp_w, size)
           dir == Ico!Directory(new)
           At(q, e) == SubSeq(q, e.offset + 1, e.offset + e.bytes)
<1>1. /\ n \in Nat \ {0} /\ s \in Ico!Orders /\ Ico!AreApart(s) /\ size \in Nat /\ n < size
      /\ DOMAIN entries = 1..n
  BY DEF IconWritten, IcoEntries, IcoInv
<1>2. new = Cells(mem, 0, size)
  BY DEF Ico!Cells, Cells, Ico!fp_w
<1>3. new[1] = <<"ico", n>> /\ \A k \in 1..n : new[k + 1] = <<"entry", entries[k]>>
  <2>1. /\ 1 \in 1..size /\ 0 + 1 - 1 = 0
        /\ \A k \in 1..n : k + 1 \in 1..size /\ 0 + (k + 1) - 1 = k
    BY <1>1
  <2>2. new[1] = mem[0] /\ \A k \in 1..n : new[k + 1] = mem[k]
    <3> HIDE DEF n
    <3> QED  BY <1>2, <2>1 DEF Cells
  <2> QED  BY <2>2 DEF IconWritten
<1> HIDE DEF new
<1>4. dir = [k \in 1..n |-> entries[k]] /\ Len(dir) = n
  <2>1. dir = [k \in 1..n |-> entries[k]]
    BY <1>3 DEF Ico!Directory
  <2>2. \A g : Len([k \in 1..n |-> g[k]]) = n
    BY <1>1
  <2> QED  BY <2>1, <2>2
<1> HIDE DEF dir
<1>5. ASSUME NEW k \in 1..n
      PROVE  /\ [entries[k] EXCEPT !.offset = s[k].offset, !.bytes = s[k].bytes] = s[k]
             /\ entries[k].offset + entries[k].bytes <= size
             /\ At(new, entries[k]) = NewImage(k) /\ At(file, s[k]) = OldImage(s, k)
             /\ IsImageOf(NewImage(k), OldImage(s, k), s[k].is_256)
             /\ Len(NewImage(k)) = entries[k].bytes
  <2>1. IsPlaced(s, k) /\ size = Ico!NewOffset
    BY DEF IconWritten
  <2> DEFINE o == entries[k].offset
             b == entries[k].bytes
             p == s[k].offset
             c == s[k].bytes
  <2>2. o \in Nat /\ b \in Nat /\ o + b <= size
    BY <2>1 DEF IsPlaced
  <2>3. p \in Nat /\ c \in Nat /\ p + c <= Len(file)
    BY ImagesFit DEF IconWritten, IcoInv
  <2>4. Part(new, o, b) = Cells(mem, 0 + o, b)
    <3>1. size \in Nat /\ 0 \in Nat
      BY <1>1
    <3> HIDE DEF o, b
    <3> QED  BY <1>2, <2>2, <3>1, PartIs
  <2>5. Part(file, p, c) = Cells(file, 1 + p, c)
    <3>1. 1 \in Nat /\ Len(file) \in Nat
      BY DEF IcoInv
    <3> HIDE DEF p, c
    <3>2. Part(Cells(file, 1, Len(file)), p, c) = Cells(file, 1 + p, c)
      BY <2>3, <3>1, PartIs
    <3>3. Cells(file, 1, Len(file)) = file
      BY DEF IcoInv
    <3> QED  BY <3>2, <3>3
  <2>6. 0 + o = o /\ 1 + p = p + 1
    <3> HIDE DEF o, p
    <3> QED  BY <2>2, <2>3
  <2>7. Len(NewImage(k)) = b
    BY SMTT(30), <2>2, CellsAre DEF NewImage
  <2> QED  BY <2>1, <2>2, <2>4, <2>5, <2>6, <2>7 DEF IsPlaced, NewImage, OldImage, Part
<1>6. ASSUME NEW k \in 1..n
      PROVE  LET was == s[k]
                 is == entries[k]
                 image == At(file, was)
             IN  /\ [is EXCEPT !.offset = was.offset, !.bytes = was.bytes] = was
                 /\ is.offset + is.bytes <= size
                 /\ \/ At(new, is) = image
                    \/ image[1][1] = "png" /\ Ico!IsLeanOf(At(new, is), image)
                    \/ /\ image[1][1] = "dib" /\ was.is_256
                       /\ At(new, is) = Ico!Converted(image[1][2], is.bytes)
  <2>1. \A x, y : IsLeanOf(x, y) <=> Ico!IsLeanOf(x, y)
    BY SMTT(30) DEF IsLeanOf, Ico!IsLeanOf, Lean, Ico!Lean, Zlib, Ico!Zlib
  <2> HIDE DEF At
  <2> QED  BY <1>5, <2>1 DEF IsImageOf
<1>7. \E sorted \in {sorted \in Ico!Orders : Ico!AreApart(sorted)} :
        /\ Len(dir) = n
        /\ \A k \in DOMAIN dir :
             LET was == sorted[k]
                 is == dir[k]
                 image == At(file, was)
             IN  /\ [is EXCEPT !.offset = was.offset, !.bytes = was.bytes] = was
                 /\ is.offset + is.bytes <= size
                 /\ \/ At(new, is) = image
                    \/ image[1][1] = "png" /\ Ico!IsLeanOf(At(new, is), image)
                    \/ /\ image[1][1] = "dib" /\ was.is_256
                       /\ At(new, is) = Ico!Converted(image[1][2], is.bytes)
  <2>1. s \in {sorted \in Ico!Orders : Ico!AreApart(sorted)}
    BY SMTT(30), <1>1
  <2> HIDE DEF At
  <2> WITNESS s \in {sorted \in Ico!Orders : Ico!AreApart(sorted)}
  <2> QED  BY <1>4, <1>6
<1> QED  BY <1>7 DEF Ico!SameImages, new, dir

(* README.md:4, ico.cpp:34-128: whatever icon LeanifyFile is given, and    *)
(* whatever its images become, the directory lists the same images, each   *)
(* where its entry says, and each is what it was, or leanified, or         *)
(* converted.                                                              *)
THEOREM IconsKeepImages == Spec => []SameImages
<1>1. IcoInv => SameImages
  <2> SUFFICES ASSUME IcoInv, format = "Ico" PROVE Ico!SameImages
    BY SMTT(30) DEF SameImages
  <2>1. CASE pc # "done"
    BY <2>1 DEF Ico!SameImages
  <2>2. CASE pc = "done" /\ ~ Ico!IsIcon /\ IsAsItWas
    <3>1. \A k \in 1 .. Len(file) : 0 + k - 1 = k - 1 /\ 1 + k - 1 = k
      BY DEF IcoInv
    <3>2. Ico!Cells(mem, Ico!fp_w, size) = Cells(file, 1, Len(file))
      BY <2>2, <3>1 DEF Ico!Cells, Cells, Ico!fp_w, IsAsItWas
    <3> QED  BY <2>2, <3>2 DEF IcoInv, Ico!SameImages
  <2>3. ASSUME pc = "done", NEW s, IconWritten(s)
        PROVE  Ico!SameImages
    <3>1. CASE Ico!IsIcon
      BY <2>3, <3>1, IconRight
    <3>2. CASE ~ Ico!IsIcon
      BY <2>3, <3>2 DEF IconWritten, IcoEntries, Ico!IsIcon, Ico!HeaderSize
    <3> QED  BY <3>1, <3>2
  <2> QED  BY <2>1, <2>2, <2>3 DEF IcoInv
<1> QED  BY <1>1, IcoInvariance, PTL

LEMMA IcoContract == IcoInv /\ format = "Ico" => InItsRegion /\ UnreadIntact
<1> SUFFICES ASSUME IcoInv, format = "Ico" PROVE InItsRegion /\ UnreadIntact
  OBVIOUS
<1>1. InItsRegion
  <2>1. \A x \in DOMAIN Before : x \notin fp - fp .. fp + Len(file) - 1 => x = End
    BY DEF IcoInv, Before, End
  <2> QED  BY <2>1 DEF IcoInv, InItsRegion, KeepsToItsRegion
<1>2. UnreadIntact
  BY DEF IcoInv
<1> QED  BY <1>1, <1>2

-----------------------------------------------------------------------------
(* RDB archives.  Where the entries are is a function of the archive.      *)
LEMMA PlacesAre ==
  ASSUME NEW s, NEW N \in Nat, s[1][2] = N
  PROVE  /\ Rdb!Places(s)[0] = [index |-> s[1][3] + 1, at |-> Rdb!Content(s) + 1]
         /\ \A k \in 1..N :
              LET b == Rdb!Places(s)[k - 1]
                  z == Rdb!Nul(s, b)
              IN  Rdb!Places(s)[k] = IF Rdb!IsReadable(s, b)
                                     THEN [index |-> z + 3, at |-> b.at + s[z + 2][2]]
                                     ELSE b
<1> DEFINE First == [index |-> s[1][3] + 1, at |-> Rdb!Content(s) + 1]
           Then(b) == IF Rdb!IsReadable(s, b)
                      THEN [index |-> Rdb!Nul(s, b) + 3, at |-> b.at + s[Rdb!Nul(s, b) + 2][2]]
                      ELSE b
           Body(e, d) == [k \in 0..d |-> IF k = 0 THEN First ELSE Then(e[k - 1])]
           T == {d \in 0..N : \A e : e # Body(e, d)}
<1>1. Rdb!Places(s) = CHOOSE e : e = Body(e, N)
  BY DEF Rdb!Places
<1> HIDE DEF First, Then
<1>2. T = {}
  <2> SUFFICES ASSUME T # {} PROVE FALSE
    OBVIOUS
  <2>1. PICK d \in T : \A y \in T : d <= y
    <3>1. T \in SUBSET Nat
      OBVIOUS
    <3> HIDE DEF T
    <3> QED  BY <3>1, LeastNat
  <2>2. CASE d = 0
    <3> DEFINE e == [k \in 0..0 |-> First]
    <3>1. e = Body(e, 0)
      OBVIOUS
    <3> HIDE DEF e
    <3> QED  BY <2>2, <3>1
  <2>3. CASE d # 0
    <3>1. d \in 1..N /\ d - 1 \in 0..N /\ ~ (d <= d - 1)
      BY <2>3
    <3>2. PICK e : e = Body(e, d - 1)
      <4>1. d - 1 \notin T
        <5> HIDE DEF T
        <5> QED  BY <2>1, <3>1
      <4> QED  BY <3>1, <4>1
    <3> DEFINE f == [k \in 0..d |-> IF k = d THEN Then(e[d - 1]) ELSE e[k]]
    <3>3. ASSUME NEW k \in 0..d
          PROVE  f[k] = IF k = 0 THEN First ELSE Then(f[k - 1])
      <4>1. CASE k = d
        <5>1. f[k] = Then(e[d - 1]) /\ k # 0 /\ d - 1 \in 0..d /\ d - 1 # d
          BY <2>3, <4>1
        <5>2. f[d - 1] = e[d - 1]
          BY <5>1
        <5> QED  BY <4>1, <5>1, <5>2
      <4>2. CASE k # d /\ k = 0
        <5>1. f[k] = e[k] /\ k \in 0 .. d - 1
          BY <3>1, <4>2
        <5> HIDE DEF f
        <5>2. e[k] = First
          BY <3>2, <4>2, <5>1
        <5> QED  BY <4>2, <5>1, <5>2
      <4>3. CASE k # d /\ k # 0
        <5>1. f[k] = e[k] /\ k \in 0 .. d - 1 /\ k - 1 \in 0..d /\ k - 1 # d
          BY <3>1, <4>3
        <5>2. f[k - 1] = e[k - 1]
          BY <5>1
        <5> HIDE DEF f
        <5>3. e[k] = Then(e[k - 1])
          BY <3>2, <4>3, <5>1
        <5> QED  BY <4>3, <5>1, <5>2, <5>3
      <4> QED  BY <4>1, <4>2, <4>3
    <3>4. f = [k \in 0..d |-> f[k]]
      OBVIOUS
    <3> HIDE DEF f
    <3>5. f = Body(f, d)
      BY <3>3, <3>4
    <3> QED  BY <3>5
  <2> QED  BY <2>2, <2>3
<1>3. PICK e : e = Body(e, N)
  BY <1>2
<1>4. Rdb!Places(s) = Body(Rdb!Places(s), N)
  BY <1>1, <1>3
<1> DEFINE P == Rdb!Places(s)
<1> HIDE DEF P
<1>5. P[0] = First /\ \A k \in 1..N : P[k] = Then(P[k - 1])
  BY <1>4 DEF P
<1> QED  BY <1>5 DEF P, First, Then

(* The first zero behind a place is the end of the name there.             *)
LEMMA NulIs ==
  ASSUME NEW s, NEW b, b.index \in Nat
  PROVE  /\ Rdb!Nuls(s, b) # {} =>
              /\ Rdb!Nul(s, b) \in Rdb!Nuls(s, b)
              /\ \A r \in Rdb!Nuls(s, b) : Rdb!Nul(s, b) <= r
         /\ \A z \in Rdb!Nuls(s, b) :
              (\A r \in Rdb!Nuls(s, b) : z <= r) => Rdb!Nul(s, b) = z
<1> DEFINE S == Rdb!Nuls(s, b)
<1>1. S \in SUBSET Nat
  BY DEF Rdb!Nuls
<1>2. Rdb!Nul(s, b) = CHOOSE q \in S : \A r \in S : q <= r
  BY DEF Rdb!Nul
<1> HIDE DEF S
<1>3. S # {} => \E q \in S : \A r \in S : q <= r
  BY <1>1, LeastNat
<1>4. S # {} => Rdb!Nul(s, b) \in S /\ \A r \in S : Rdb!Nul(s, b) <= r
  BY <1>2, <1>3
<1>5. \A z \in S : (\A r \in S : z <= r) => Rdb!Nul(s, b) = z
  <2>1. \A z, y \in S : z <= y /\ y <= z => z = y
    BY <1>1
  <2> QED  BY <1>4, <2>1
<1> QED  BY <1>4, <1>5 DEF S

(* The archive, and where its k-th entry, counted from 0, is.              *)
RdbFile ==
  /\ fp \in Nat /\ Len(file) \in Nat \ {0} /\ file = Cells(file, 1, Len(file))
  /\ Rdb!IsConsidered(file)

Place(k) == Rdb!Places(file)[k]
NulOf(k) == Rdb!Nul(file, Place(k))
OldSize(k) == file[NulOf(k) + 2][2]
IsThere(k) == Rdb!IsReadable(file, Place(k))

PlaceFits(k) ==
  /\ Place(k).index \in Rdb!index_offset + 1 .. Rdb!content_offset + 1
  /\ Place(k).at \in Rdb!content_offset + 1 .. Len(file) + 1

(* An entry that can be read lies in the index, and its file behind it.    *)
LEMMA PlacesFit ==
  ASSUME RdbFile, Rdb!IsArchive, NEW k \in 0 .. Rdb!file_num - 1, PlaceFits(k)
  PROVE  /\ PlaceFits(k + 1)
         /\ ~ IsThere(k) => Place(k + 1) = Place(k)
         /\ IsThere(k) =>
              LET z == NulOf(k)
              IN  /\ z \in Place(k).index .. Rdb!content_offset - 2
                  /\ OldSize(k) \in Nat /\ Place(k).at + OldSize(k) <= Len(file) + 1
                  /\ Place(k + 1).index = z + 3
                  /\ Place(k + 1).at = Place(k).at + OldSize(k)
                  /\ file[z] = <<"nul">>
                  /\ \A q \in Place(k).index .. z - 1 : file[q] # <<"nul">>
                  /\ file[z + 1] = <<"offset", file[z + 1][2]>> /\ file[z + 1][2] \in Int
                  /\ file[z + 2] = <<"size", OldSize(k)>>
<1> DEFINE z == NulOf(k)
           c == Rdb!content_offset
           x == Rdb!index_offset
           N == Rdb!file_num
           p == Place(k)
<1>1. /\ N \in Nat /\ x \in Nat \ {0} /\ c \in Nat /\ x <= c /\ c <= Len(file) /\ Len(file) \in Nat
      /\ file[1][2] = N /\ Rdb!Content(file) = c
      /\ \A q \in x + 1 .. c - 1 :
           file[q] = <<"nul">> =>
             /\ file[q + 1] = <<"offset", file[q + 1][2]>> /\ file[q + 1][2] \in Int
             /\ q + 2 <= c => file[q + 2] = <<"size", file[q + 2][2]>> /\ file[q + 2][2] \in Nat
  <2>1. /\ Rdb!IsConsidered(file) /\ Len(file) \in Nat /\ c <= Len(file)
        /\ N = file[1][2] /\ x = file[1][3] /\ c = file[1][3] + file[1][4]
        /\ Rdb!Content(file) = file[1][3] + file[1][4]
    BY DEF RdbFile, Rdb!IsArchive, Rdb!content_offset, Rdb!index_offset, Rdb!file_num,
           Rdb!Content
  <2>2. /\ file[1][2] \in Nat /\ file[1][3] \in Nat \ {0} /\ file[1][4] \in Nat
        /\ \A q \in file[1][3] + 1 .. (file[1][3] + file[1][4]) - 1 :
             file[q] = <<"nul">> =>
               /\ file[q + 1] = <<"offset", file[q + 1][2]>> /\ file[q + 1][2] \in Int
               /\ q + 2 <= file[1][3] + file[1][4] =>
                    file[q + 2] = <<"size", file[q + 2][2]>> /\ file[q + 2][2] \in Nat
    BY <2>1 DEF Rdb!IsConsidered
  <2>3. x + 1 .. c - 1 = file[1][3] + 1 .. (file[1][3] + file[1][4]) - 1
    BY <2>1
  <2> HIDE DEF N, x, c
  <2>4. N \in Nat /\ x \in Nat \ {0} /\ c \in Nat /\ x <= c
    BY SMTT(30), <2>1, <2>2
  <2> QED  BY <2>1, <2>2, <2>3, <2>4, Zenon
<1>2. p.index \in x + 1 .. c + 1 /\ p.at \in c + 1 .. Len(file) + 1
  BY DEF PlaceFits
<1>3. Place(k + 1) = IF IsThere(k)
                     THEN [index |-> z + 3, at |-> p.at + file[z + 2][2]] ELSE p
  <2>1. k + 1 \in 1..N /\ (k + 1) - 1 = k
    BY <1>1
  <2> QED  BY ZenonT(30), <1>1, <2>1, PlacesAre DEF Place, NulOf, IsThere
<1>4. CASE ~ IsThere(k)
  <2>1. Place(k + 1) = p
    BY <1>3, <1>4
  <2> QED  BY <1>4, <2>1 DEF PlaceFits
<1>5. CASE IsThere(k)
  <2>1. /\ z \in Rdb!Nuls(file, p) /\ \A r \in Rdb!Nuls(file, p) : z <= r
        /\ z + 2 <= c /\ file[z + 2][2] <= Len(file) - p.at + 1
    <3>1. p.index \in Nat
      BY <1>1, <1>2
    <3> QED  BY <1>1, <1>5, <3>1, NulIs DEF IsThere, Rdb!IsReadable, NulOf
  <2>2. z \in p.index .. c - 2 /\ file[z] = <<"nul">> /\ z \in Nat
    <3>1. z \in p.index .. c /\ file[z] = <<"nul">>
      BY <1>1, <2>1 DEF Rdb!Nuls
    <3> DEFINE ix == p.index
    <3>2. z \in ix .. c /\ ix \in x + 1 .. c + 1 /\ z + 2 <= c
      BY <1>2, <2>1, <3>1
    <3> HIDE DEF ix, z, x, c
    <3>3. z \in ix .. c - 2 /\ z \in Nat
      BY <1>1, <3>2
    <3> QED  BY <3>1, <3>3 DEF ix
  <2>3. /\ file[z + 1] = <<"offset", file[z + 1][2]>> /\ file[z + 1][2] \in Int
        /\ file[z + 2] = <<"size", OldSize(k)>> /\ OldSize(k) \in Nat
        /\ OldSize(k) <= Len(file) - p.at + 1
    <3>1. z \in x + 1 .. c - 1 /\ z + 2 <= c
      BY SMTT(30), <1>1, <1>2, <2>2
    <3> QED  BY <1>1, <2>1, <2>2, <3>1 DEF OldSize
  <2>4. \A q \in p.index .. z - 1 : file[q] # <<"nul">>
    <3> SUFFICES ASSUME NEW q \in p.index .. z - 1, file[q] = <<"nul">> PROVE FALSE
      OBVIOUS
    <3>1. q \in p.index .. c /\ ~ (z <= q)
      BY <1>1, <1>2, <2>2
    <3>2. q \in Rdb!Nuls(file, p)
      BY <1>1, <3>1 DEF Rdb!Nuls
    <3> QED  BY <2>1, <3>1, <3>2
  <2>5. Place(k + 1) = [index |-> z + 3, at |-> p.at + OldSize(k)]
    BY <1>3, <1>5 DEF OldSize
  <2>6. Place(k + 1).index = z + 3 /\ Place(k + 1).at = p.at + OldSize(k)
    BY <2>5
  <2> DEFINE at == p.at
             n == OldSize(k)
             ix == p.index
  <2>7. at + n <= Len(file) + 1 /\ at + n \in c + 1 .. Len(file) + 1 /\ z + 3 \in x + 1 .. c + 1
    <3>1. /\ at \in c + 1 .. Len(file) + 1 /\ n \in Nat /\ n <= Len(file) - at + 1
          /\ z \in ix .. c - 2 /\ ix \in x + 1 .. c + 1
      BY <1>2, <2>2, <2>3
    <3> HIDE DEF at, n, ix, z, x, c
    <3> QED  BY <1>1, <3>1
  <2>8. PlaceFits(k + 1)
    BY <2>6, <2>7 DEF PlaceFits
  <2> QED  BY <1>5, <2>2, <2>3, <2>4, <2>6, <2>7, <2>8
<1> QED  BY <1>4, <1>5

(* In the buffer m the file of entry k has become what is between a and b, *)
(* and the entry says so.                                                  *)
EntryDone(m, k, a, b) ==
  LET z == NulOf(k)
  IN  /\ IsThere(k) /\ b - a \in 0 .. OldSize(k)
      /\ \A x \in Place(k).index .. z : m[x - 1] = file[x]
      /\ m[z] = <<"offset", file[z + 1][2] - (Place(k).at - 1 - a)>>
      /\ m[z + 1] = <<"size", b - a>>
      /\ IsLeanOf(Cells(m, a, b - a), Cells(file, Place(k).at, OldSize(k)))
      /\ MayRecurse \/ b - a = OldSize(k)

(* In the buffer m the first j entries are done, one file behind the       *)
(* other, and what comes behind them in the index is as it was.            *)
EntriesDone(m, j, outs) ==
  /\ j \in 0 .. Rdb!file_num
  /\ outs \in [0..j -> Nat] /\ outs[0] = Rdb!content_offset
  /\ m[0] = file[1]
  /\ \A x \in Place(j).index .. Rdb!content_offset : m[x - 1] = file[x]
  /\ \A k \in 0..j : /\ PlaceFits(k) /\ Place(k).index <= Place(j).index
                     /\ outs[k] \in Rdb!content_offset .. outs[j]
                     /\ outs[k] <= Place(k).at - 1
  /\ \A k \in 0 .. j - 1 : EntryDone(m, k, outs[k], outs[k + 1])

(* The loop has done i entries, ...                                        *)
Reading(outs) ==
  /\ EntriesDone(mem, i, outs)
  /\ p_index = Place(i).index - 1
  /\ p_read = fp + (Place(i).at - 1)
  /\ rdb_size_leanified = Place(i).at - 1 - outs[i]
  /\ \A x \in Place(i).at .. Len(file) : mem[fp + x - 1] = file[x]

(* ... or was left because entry j cannot be read, ...                     *)
RestMoved(j, outs) ==
  /\ j < Rdb!file_num /\ ~ IsThere(j)
  /\ \A x \in Place(j).at .. Len(file) : mem[outs[j] + (x - Place(j).at)] = file[x]

Stopped(j, outs) ==
  /\ EntriesDone(mem, j, outs) /\ RestMoved(j, outs)
  /\ i = Rdb!file_num /\ p_read = End
  /\ rdb_size_leanified = Place(j).at - 1 - outs[j]

(* ... and this is what it leaves.                                         *)
ArchiveWritten(j, outs) ==
  /\ EntriesDone(mem, j, outs)
  /\ \/ j = Rdb!file_num /\ size = outs[j]
     \/ RestMoved(j, outs) /\ size = outs[j] + (Len(file) - Place(j).at + 1)

RdbInv ==
  format = "Rdb" =>
    /\ RdbFile
    /\ pc \in {"start", "files", "done"}
    /\ pc = "start" => mem = Before /\ i = 0 /\ rdb_size_leanified = 0
    /\ pc # "done" => size = Len(file)
    /\ pc = "files" =>
         /\ Rdb!IsArchive
         /\ (\E outs : Reading(outs)) \/ (\E j, outs : Stopped(j, outs))
    /\ pc = "done" =>
         \/ ~ Rdb!IsArchive /\ IsAsItWas
         \/ Rdb!IsArchive /\ \E j, outs : ArchiveWritten(j, outs)
    /\ DOMAIN mem = 0 .. End /\ size \in 0 .. Len(file) /\ mem[End] = Before[End]
    /\ UnreadIntact

(* The numbers of an archive of which i entries are done.                  *)
LEMMA RdbNumbers ==
  ASSUME RdbFile, Rdb!IsArchive, NEW outs, Reading(outs)
  PROVE  /\ fp \in Nat /\ Len(file) \in Nat \ {0} /\ End = fp + Len(file)
         /\ Rdb!index_offset \in Nat \ {0} /\ Rdb!content_offset \in Rdb!index_offset .. Len(file)
         /\ Rdb!file_num \in Nat /\ i \in 0 .. Rdb!file_num
         /\ Place(i).index \in Rdb!index_offset + 1 .. Rdb!content_offset + 1
         /\ Place(i).at \in Rdb!content_offset + 1 .. Len(file) + 1
         /\ p_index = Place(i).index - 1 /\ p_read = fp + (Place(i).at - 1)
         /\ outs[i] \in Rdb!content_offset .. Place(i).at - 1
         /\ rdb_size_leanified = Place(i).at - 1 - outs[i]
<1>1. /\ fp \in Nat /\ Len(file) \in Nat \ {0} /\ End = fp + Len(file)
      /\ Rdb!index_offset \in Nat \ {0} /\ Rdb!file_num \in Nat
      /\ Rdb!content_offset \in Rdb!index_offset .. Len(file)
  BY DEF RdbFile, Rdb!IsConsidered, Rdb!IsArchive, Rdb!content_offset, Rdb!index_offset,
         Rdb!file_num, End
<1>2. i \in 0 .. Rdb!file_num /\ i \in 0..i
  BY <1>1 DEF Reading, EntriesDone
<1>3. PlaceFits(i) /\ outs[i] \in Rdb!content_offset .. outs[i] /\ outs[i] <= Place(i).at - 1
  BY <1>2 DEF Reading, EntriesDone
<1> DEFINE at == Place(i).at
<1>4. at \in Rdb!content_offset + 1 .. Len(file) + 1
  BY <1>3 DEF PlaceFits
<1>5. outs[i] \in Rdb!content_offset .. at - 1
  <2> HIDE DEF at
  <2>1. \A c, o : c \in Nat /\ o \in c .. o /\ o <= at - 1 => o \in c .. at - 1
    BY <1>1, <1>4
  <2>2. outs[i] <= at - 1
    BY <1>3 DEF at
  <2> QED  BY <1>1, <1>3, <2>1, <2>2
<1> QED  BY <1>1, <1>2, <1>3, <1>5 DEF PlaceFits, Reading

(* The loop finds the end of the name, if it is in the index, and so the   *)
(* size of the file.                                                       *)
LEMMA NameEndIs ==
  ASSUME RdbFile, Rdb!IsArchive, NEW outs, Reading(outs), i < Rdb!file_num
  PROVE  /\ Rdb!SoundEntry <=> IsThere(i)
         /\ IsThere(i) => /\ Rdb!NameEnd = NulOf(i) /\ Rdb!FileSize = OldSize(i)
                          /\ mem[NulOf(i)] = file[NulOf(i) + 1]
<1> DEFINE c == Rdb!content_offset
           x == Place(i).index
           E == {q \in p_index .. c : q + 1 >= c \/ mem[q] = <<"nul">>}
           S == Rdb!Nuls(file, Place(i))
           z == NulOf(i)
           rest == Len(file) - Place(i).at + 1
<1>1. /\ c \in Nat /\ x \in 1 .. c + 1 /\ p_index = x - 1 /\ p_index \in 0 .. c
      /\ i \in 0 .. Rdb!file_num - 1 /\ PlaceFits(i)
  <2>1. /\ Rdb!index_offset \in Nat \ {0} /\ c \in Rdb!index_offset .. Len(file)
        /\ Len(file) \in Nat /\ Rdb!file_num \in Nat
        /\ x \in Rdb!index_offset + 1 .. c + 1 /\ p_index = x - 1 /\ i \in 0 .. Rdb!file_num
    BY RdbNumbers
  <2>2. i \in 0..i /\ PlaceFits(i)
    <3>1. i \in 0..i
      BY <2>1
    <3> QED  BY <3>1 DEF Reading, EntriesDone
  <2> HIDE DEF c, x
  <2> QED  BY <2>1, <2>2
<1>2. \A q \in x..c : mem[q - 1] = file[q]
  BY DEF Reading, EntriesDone
<1>3. S = {q \in x..c : file[q] = <<"nul">>}
  BY DEF Rdb!Nuls, Rdb!Content, Rdb!content_offset, Rdb!index_offset
<1>4. PICK e \in E : Rdb!NameEnd = 1 + e /\ \A q \in E : e <= q
  <2>1. c \in E /\ E \in SUBSET Nat
    BY <1>1
  <2>2. Rdb!NameEnd = 1 + CHOOSE q \in E : \A r \in E : q <= r
    <3>1. /\ 0 + c = c /\ Rdb!fp_w = 0
      BY <1>1 DEF Rdb!fp_w
    <3> QED  BY <3>1, Zenon DEF Rdb!NameEnd
  <2> HIDE DEF E
  <2>3. \E q \in E : \A r \in E : q <= r
    BY <2>1, LeastNat
  <2> QED  BY <2>2, <2>3
<1>5. e \in Nat /\ e \in p_index .. c /\ (e + 1 >= c \/ mem[e] = <<"nul">>)
  BY <1>1, <1>4
<1>6. /\ Rdb!IndexEnds <=> e + 2 > c
      /\ Rdb!FileSize = mem[e + 2][2] /\ Rdb!remaining_size = rest
  <2>1. /\ Rdb!remaining_size = End - p_read /\ End = fp + Len(file) /\ fp \in Nat
        /\ p_read = fp + (Place(i).at - 1) /\ Place(i).at \in c + 1 .. Len(file) + 1
        /\ Len(file) \in Nat
    BY RdbNumbers DEF Rdb!remaining_size, Rdb!End, End, Rdb!fp, fp
  <2> DEFINE at == Place(i).at
  <2>2. Rdb!remaining_size = rest
    <3> HIDE DEF at, c
    <3> QED  BY <1>1, <2>1 DEF at
  <2>3. (1 + e) + 1 = e + 2 /\ 0 + c = c
    BY <1>1, <1>5
  <2> QED  BY <1>4, <2>2, <2>3 DEF Rdb!IndexEnds, Rdb!FileSize, Rdb!fp_w
<1>7. CASE S = {}
  <2>1. e + 1 >= c
    <3> SUFFICES ASSUME ~ (e + 1 >= c) PROVE FALSE
      OBVIOUS
    <3>1. mem[e] = <<"nul">> /\ e + 1 \in x..c /\ (e + 1) - 1 = e
      BY <1>1, <1>5
    <3>2. file[e + 1] = <<"nul">>
      BY <1>2, <3>1
    <3> QED  BY <1>3, <1>7, <3>1, <3>2
  <2>2. Rdb!IndexEnds
    BY <1>1, <1>5, <1>6, <2>1
  <2> QED  BY <1>7, <2>2 DEF Rdb!SoundEntry, IsThere, Rdb!IsReadable
<1>8. CASE S # {}
  <2>1. z \in S /\ \A r \in S : z <= r
    <3>1. Place(i).index \in Nat
      BY <1>1
    <3> QED  BY <1>8, <3>1, NulIs DEF NulOf
  <2>2. z \in x..c /\ file[z] = <<"nul">> /\ z \in Nat
    BY <1>1, <1>3, <2>1
  <2>3. z - 1 \in E
    <3>1. mem[z - 1] = file[z] /\ z - 1 \in p_index .. c
      BY <1>1, <1>2, <2>2
    <3> QED  BY <2>2, <3>1
  <2>4. e + 1 = z
    <3>1. e <= z - 1
      BY <1>4, <2>3
    <3> SUFFICES ASSUME e + 1 < z PROVE FALSE
      BY <1>5, <2>2, <3>1
    <3>2. mem[e] = <<"nul">> /\ e + 1 \in x..c /\ (e + 1) - 1 = e /\ ~ (z <= e + 1)
      BY <1>1, <1>5, <2>2
    <3>3. file[e + 1] = <<"nul">>
      BY <1>2, <3>2
    <3> QED  BY <1>3, <2>1, <3>2, <3>3
  <2>5. Rdb!NameEnd = z /\ e + 2 = z + 1 /\ z - 1 = e
    BY <1>4, <1>5, <2>2, <2>4
  <2>6. CASE z + 1 > c
    <3>1. Rdb!IndexEnds /\ ~ (z + 2 <= c)
      BY <1>1, <1>6, <2>2, <2>5, <2>6
    <3>2. Rdb!Content(file) = c
      BY DEF Rdb!Content, Rdb!content_offset, Rdb!index_offset
    <3>3. ~ IsThere(i)
      BY <3>1, <3>2 DEF IsThere, Rdb!IsReadable, NulOf
    <3> QED  BY <3>1, <3>3 DEF Rdb!SoundEntry
  <2>7. CASE z + 1 <= c
    <3>1. file[z + 1][1] = "offset" /\ file[c][1] # "offset" /\ Rdb!Content(file) = c
      <4>1. /\ c = file[1][3] + file[1][4] /\ c <= Len(file) /\ x >= file[1][3] + 1
            /\ file[1][3] \in Nat
        <5>1. x \in Rdb!index_offset + 1 .. c + 1 /\ Rdb!index_offset \in Nat
          BY RdbNumbers
        <5> HIDE DEF x
        <5>2. x >= Rdb!index_offset + 1
          BY <5>1
        <5> QED  BY <5>1, <5>2
          DEF RdbFile, Rdb!IsArchive, Rdb!content_offset, Rdb!index_offset
      <4>2. z \in file[1][3] + 1 .. c - 1
        <5> HIDE DEF x, c, z
        <5> QED  BY SMTT(30), <1>1, <2>2, <2>7, <4>1
      <4>3. Rdb!IsConsidered(file)
        BY DEF RdbFile
      <4> HIDE DEF c, z
      <4>4. file[z + 1] = <<"offset", file[z + 1][2]>> /\ file[c][1] # "offset"
        BY <2>2, <4>1, <4>2, <4>3 DEF Rdb!IsConsidered
      <4>5. Rdb!Content(file) = c
        BY DEF Rdb!Content, Rdb!content_offset, Rdb!index_offset, c
      <4> QED  BY <4>4, <4>5
    <3>2. z + 2 <= c
      <4>1. z + 1 # c
        BY <3>1
      <4> HIDE DEF z, c
      <4> QED  BY <1>1, <2>2, <2>7, <4>1
    <3>3. mem[z] = file[z + 1] /\ mem[z + 1] = file[z + 2]
      <4>1. /\ z + 1 \in x..c /\ z + 2 \in x..c /\ (z + 1) - 1 = z /\ (z + 2) - 1 = z + 1
        <5> HIDE DEF z, c, x
        <5> QED  BY <1>1, <2>2, <3>2
      <4> HIDE DEF z, c, x
      <4> QED  BY <1>2, <4>1
    <3>4. ~ Rdb!IndexEnds /\ Rdb!FileSize = file[z + 2][2]
      <4>1. ~ (z + 1 > c)
        <5> HIDE DEF z, c
        <5> QED  BY <1>1, <2>2, <2>7
      <4> QED  BY <1>6, <2>5, <3>3, <4>1
    <3>5. Rdb!SoundEntry <=> file[z + 2][2] <= rest
      BY <1>6, <3>4 DEF Rdb!SoundEntry
    <3>6. IsThere(i) <=> file[z + 2][2] <= rest
      BY <1>8, <3>1, <3>2 DEF IsThere, Rdb!IsReadable, NulOf
    <3> QED  BY <2>5, <3>3, <3>4, <3>5, <3>6 DEF OldSize
  <2> QED
    <3>1. z + 1 > c \/ z + 1 <= c
      <4> HIDE DEF z, c
      <4> QED  BY <1>1, <2>2
    <3> QED  BY <2>6, <2>7, <3>1
<1> QED  BY <1>7, <1>8

(* An entry that is done stays so as long as its cells do.                 *)
LEMMA EntryKept ==
  ASSUME NEW m, NEW m2, NEW k, NEW a \in Nat, NEW b \in Nat, EntryDone(m, k, a, b),
         Place(k).index \in Nat, NulOf(k) \in Nat, Place(k).index <= NulOf(k),
         \A x \in Place(k).index .. NulOf(k) + 2 : m2[x - 1] = m[x - 1],
         \A x \in a .. b - 1 : m2[x] = m[x]
  PROVE  EntryDone(m2, k, a, b)
<1> DEFINE x == Place(k).index
           z == NulOf(k)
<1>1. /\ z + 1 \in x .. z + 2 /\ z + 2 \in x .. z + 2
      /\ (z + 1) - 1 = z /\ (z + 2) - 1 = z + 1
      /\ \A y \in x..z : y \in x .. z + 2
  OBVIOUS
<1>2. m2[z] = m[z] /\ m2[z + 1] = m[z + 1] /\ \A y \in x..z : m2[y - 1] = m[y - 1]
  BY <1>1
<1>3. Cells(m2, a, b - a) = Cells(m, a, b - a)
  <2>1. \A y \in 1 .. b - a : a + y - 1 \in a .. b - 1
    OBVIOUS
  <2>2. \A y \in 1 .. b - a : m2[a + y - 1] = m[a + y - 1]
    BY <2>1
  <2> QED  BY <2>2 DEF Cells
<1> HIDE DEF x, z
<1> QED  BY <1>2, <1>3 DEF EntryDone, x, z

LEMMA EntriesGrow ==
  ASSUME RdbFile, Rdb!IsArchive, NEW outs, Reading(outs), i < Rdb!file_num, IsThere(i),
         NEW m, NEW r \in 0 .. OldSize(i), MayRecurse \/ r = OldSize(i),
         \A x \in 0 .. End :
           x \notin {NulOf(i), NulOf(i) + 1} \cup outs[i] .. p_read + OldSize(i) - 1
             => m[x] = mem[x],
         m[NulOf(i)] = <<"offset", file[NulOf(i) + 1][2] - rdb_size_leanified>>,
         m[NulOf(i) + 1] = <<"size", r>>,
         IsLeanOf(Cells(m, outs[i], r), Cells(file, Place(i).at, OldSize(i)))
  PROVE  /\ \E outs2 : EntriesDone(m, i + 1, outs2) /\ outs2[i + 1] = outs[i] + r
         /\ Place(i + 1).index = NulOf(i) + 3 /\ Place(i + 1).at = Place(i).at + OldSize(i)
         /\ \A x \in Place(i + 1).at .. Len(file) : m[fp + x - 1] = file[x]
         /\ m[End] = mem[End]
<1>0. PICK c, N, L, ix, at, z, n, o :
      c = Rdb!content_offset /\ N = Rdb!file_num /\ L = Len(file) /\ ix = Place(i).index
      /\ at = Place(i).at /\ z = NulOf(i) /\ n = OldSize(i) /\ o = outs[i]
  OBVIOUS
<1>1. /\ fp \in Nat /\ L \in Nat /\ End = fp + L /\ c \in 1..L /\ N \in Nat /\ i \in 0 .. N - 1
      /\ ix \in 2 .. c + 1 /\ at \in c + 1 .. L + 1 /\ o \in c .. at - 1
      /\ p_read = fp + (at - 1) /\ rdb_size_leanified = at - 1 - o
  <2>0. PICK w : w = Rdb!index_offset
    OBVIOUS
  <2>1. /\ w \in Nat \ {0} /\ fp \in Nat /\ L \in Nat \ {0} /\ End = fp + L
        /\ c \in w..L /\ N \in Nat /\ i \in 0..N
        /\ ix \in w + 1 .. c + 1 /\ at \in c + 1 .. L + 1 /\ o \in c .. at - 1
        /\ p_read = fp + (at - 1) /\ rdb_size_leanified = at - 1 - o
    BY <1>0, <2>0, RdbNumbers
  <2>2. i < N
    BY <1>0
  <2> QED  BY <2>1, <2>2
<1>2. /\ z \in ix .. c - 2 /\ n \in Nat /\ at + n <= L + 1
      /\ Place(i + 1).index = z + 3 /\ Place(i + 1).at = at + n /\ PlaceFits(i + 1)
  <2>1. i \in 0..i
    BY <1>1
  <2>2. PlaceFits(i)
    BY <2>1 DEF Reading, EntriesDone
  <2> QED  BY <1>0, <1>1, <2>2, PlacesFit
<1>3. \A x \in 0 .. End : x # z /\ x # z + 1 /\ ~ (o <= x /\ x < fp + (at - 1) + n) => m[x] = mem[x]
  <2>1. \A x \in 0 .. End :
          x \notin {z, z + 1} \cup o .. p_read + n - 1 => m[x] = mem[x]
    BY <1>0
  <2> QED  BY <1>1, <1>2, <2>1
<1>4. /\ \A x \in 0 .. ix - 2 : m[x] = mem[x]
      /\ \A x \in z + 2 .. o - 1 : m[x] = mem[x]
      /\ \A x \in fp + (at - 1) + n .. End : m[x] = mem[x]
  BY <1>1, <1>2, <1>3
<1> DEFINE outs2 == [k \in 0 .. i + 1 |-> IF k = i + 1 THEN o + r ELSE outs[k]]
<1>5. /\ i \in 0..N /\ outs \in [0..i -> Nat] /\ outs[0] = c /\ mem[0] = file[1]
      /\ \A x \in ix .. c : mem[x - 1] = file[x]
      /\ \A k \in 0..i : PlaceFits(k) /\ Place(k).index <= ix /\ outs[k] \in c..o
                         /\ outs[k] <= Place(k).at - 1
      /\ \A k \in 0 .. i - 1 : EntryDone(mem, k, outs[k], outs[k + 1])
  BY <1>0 DEF Reading, EntriesDone
<1>6. /\ r \in Nat /\ r <= n
      /\ outs2 \in [0 .. i + 1 -> Nat] /\ outs2[i + 1] = o + r /\ outs2[0] = c
      /\ \A k \in 0..i : outs2[k] = outs[k]
  <2>1. r \in Nat /\ r <= n /\ o + r \in Nat
    <3>1. r \in 0..n
      BY <1>0
    <3> QED  BY <1>1, <1>2, <3>1
  <2>2. i + 1 \in 0 .. i + 1 /\ 0 \in 0 .. i + 1 /\ 0 # i + 1 /\ \A k \in 0..i : k # i + 1
    BY <1>1
  <2> QED  BY <1>5, <2>1, <2>2
<1> HIDE DEF outs2
<1>7. ASSUME NEW k \in 0 .. i - 1
      PROVE  EntryDone(m, k, outs2[k], outs2[k + 1])
  <2>1. k \in 0..i /\ k + 1 \in 0..i /\ k \in 0 .. N - 1
    BY <1>1
  <2>2. /\ EntryDone(mem, k, outs[k], outs[k + 1]) /\ PlaceFits(k) /\ IsThere(k)
        /\ outs[k] \in c..o /\ outs[k + 1] \in c..o /\ Place(k + 1).index <= ix
    BY <1>5, <2>1 DEF EntryDone
  <2>3. NulOf(k) \in Place(k).index .. c - 2 /\ Place(k + 1).index = NulOf(k) + 3
    BY <1>0, <2>1, <2>2, PlacesFit
  <2>0. PICK y, w, a, b : y = Place(k).index /\ w = NulOf(k) /\ a = outs[k] /\ b = outs[k + 1]
    OBVIOUS
  <2>4. y \in Nat /\ y >= 1 /\ w \in Nat /\ y <= w /\ w + 3 <= ix /\ a \in c..o /\ b \in c..o
    <3>1. y \in Rdb!index_offset + 1 .. c + 1 /\ Rdb!index_offset \in Nat
      BY <1>0, <2>0, <2>2, RdbNumbers DEF PlaceFits
    <3>2. w \in y .. c - 2 /\ w + 3 <= ix /\ a \in c..o /\ b \in c..o
      BY <2>0, <2>2, <2>3
    <3> QED  BY <1>1, <3>1, <3>2
  <2>5. \A x \in y .. w + 2 : m[x - 1] = mem[x - 1]
    <3>1. \A x \in y .. w + 2 : x - 1 \in 0 .. ix - 2
      BY <1>1, <2>4
    <3> QED  BY <1>4, <3>1
  <2>6. \A x \in a .. b - 1 : m[x] = mem[x]
    <3>1. \A x \in a .. b - 1 : x \in z + 2 .. o - 1
      BY <1>1, <1>2, <2>4
    <3> QED  BY <1>4, <3>1
  <2>7. a \in Nat /\ b \in Nat
    BY <1>1, <2>4
  <2>8. EntryDone(m, k, a, b)
    BY <2>0, <2>2, <2>4, <2>5, <2>6, <2>7, EntryKept
  <2> QED  BY <1>6, <2>0, <2>1, <2>8
<1>8. EntryDone(m, i, outs2[i], outs2[i + 1])
  <2>1. outs2[i] = o /\ outs2[i + 1] = o + r /\ (o + r) - o = r
    <3>1. (o + r) - o = r /\ i \in 0..i
      BY <1>1, <1>6
    <3>2. outs2[i] = o
      BY <1>0, <1>6, <3>1
    <3> QED  BY <1>6, <3>1, <3>2
  <2>2. at - 1 - o = rdb_size_leanified
    BY <1>1
  <2>3. \A x \in ix .. z : m[x - 1] = file[x]
    <3>1. ASSUME NEW x \in ix..z
          PROVE  m[x - 1] = mem[x - 1] /\ x \in ix..c
      <4>1. x - 1 \in 0 .. End /\ x - 1 # z /\ x - 1 # z + 1 /\ ~ (o <= x - 1)
        BY <1>1, <1>2
      <4> QED  BY <1>1, <1>2, <1>3, <4>1
    <3> QED  BY <1>5, <3>1
  <2> QED  BY <1>0, <1>6, <2>1, <2>2, <2>3 DEF EntryDone
<1>9. ASSUME NEW k \in 0 .. i + 1
      PROVE  /\ PlaceFits(k) /\ Place(k).index <= z + 3
             /\ outs2[k] \in c .. o + r /\ outs2[k] <= Place(k).at - 1
  <2>1. CASE k = i + 1
    BY <1>1, <1>2, <1>6, <2>1
  <2>2. CASE k # i + 1
    <3>1. k \in 0..i
      BY <1>1, <2>2
    <3>2. /\ PlaceFits(k) /\ Place(k).index <= ix /\ outs[k] \in c..o /\ outs2[k] = outs[k]
          /\ outs[k] <= Place(k).at - 1
      BY <1>5, <1>6, <3>1
    <3> DEFINE y == Place(k).index
    <3>3. y \in Nat
      <4>1. y \in Rdb!index_offset + 1 .. c + 1 /\ Rdb!index_offset \in Nat
        BY <1>0, <3>2, RdbNumbers DEF PlaceFits
      <4> HIDE DEF y
      <4> QED  BY <4>1
    <3>4. y <= z + 3
      <4>1. y <= ix
        BY <3>2
      <4> HIDE DEF y
      <4> QED  BY <1>1, <1>2, <3>3, <4>1
    <3>5. outs[k] \in c .. o + r
      BY <1>1, <1>6, <3>2
    <3> QED  BY <3>2, <3>4, <3>5
  <2> QED  BY <2>1, <2>2
<1>10. EntriesDone(m, i + 1, outs2)
  <2>1. i + 1 \in 0..N /\ m[0] = file[1]
    <3>1. 0 \in 0 .. ix - 2
      BY <1>1
    <3> QED  BY <1>1, <1>4, <1>5, <3>1
  <2>2. \A x \in z + 3 .. c : m[x - 1] = file[x]
    <3>1. ASSUME NEW x \in z + 3 .. c
          PROVE  x - 1 \in z + 2 .. o - 1 /\ x \in ix .. c
      BY <1>1, <1>2
    <3> QED  BY <1>4, <1>5, <3>1
  <2>3. \A k \in 0 .. (i + 1) - 1 : EntryDone(m, k, outs2[k], outs2[k + 1])
    <3>1. \A k \in 0 .. (i + 1) - 1 : k \in 0 .. i - 1 \/ k = i
      BY <1>1
    <3> QED  BY <1>7, <1>8, <3>1
  <2> QED  BY <1>0, <1>2, <1>6, <1>9, <2>1, <2>2, <2>3 DEF EntriesDone
<1>11. \A x \in at + n .. L : m[fp + x - 1] = file[x]
  <2>1. ASSUME NEW x \in at + n .. L
        PROVE  fp + x - 1 \in fp + (at - 1) + n .. End /\ x \in at .. L
    BY <1>1, <1>2
  <2>2. \A x \in at .. L : mem[fp + x - 1] = file[x]
    BY <1>0 DEF Reading
  <2> QED  BY <1>4, <2>1, <2>2
<1>12. m[End] = mem[End]
  <2>1. End \in fp + (at - 1) + n .. End
    BY <1>1, <1>2
  <2> QED  BY <1>4, <2>1
<1> QED  BY <1>0, <1>2, <1>6, <1>10, <1>11, <1>12

(* Rdb does with a buffer what all formats do.                             *)
LEMMA RdbOperators ==
  /\ \A m, d, s, n : Rdb!MemMove(m, d, s, n) = MemMove(m, d, s, n)
  /\ \A m, p, s : Rdb!Put(m, p, s) = Put(m, p, s)
  /\ \A m, p, n : Rdb!Cells(m, p, n) = Cells(m, p, n)
  /\ \A m, p, n, c, r : Rdb!FileLeanified(m, p, n, c, r) = FileLeanified(m, p, n, c, r)
  /\ \A s, t : Rdb!IsLeanOf(s, t) <=> IsLeanOf(s, t)
  /\ Rdb!MayRecurse <=> MayRecurse
  /\ Rdb!fp_w = 0 /\ Rdb!fp = fp /\ Rdb!End = End
BY SMTT(30) DEF Rdb!MemMove, MemMove, Rdb!Put, Put, Rdb!Cells, Cells, Rdb!FileLeanified, FileLeanified,
       Rdb!Leanified, Leanified, Rdb!Lean, Lean, Rdb!Zlib, Zlib, Rdb!IsLeanOf, IsLeanOf,
       Rdb!MayRecurse, MayRecurse, Rdb!fp_w, Rdb!fp, fp, Rdb!End, End

LEMMA RdbInit == ASSUME Init, format = "Rdb" PROVE RdbInv
<1>1. PICK c \in Calls : file = c[1] /\ setting = c[2]
  BY DEF Init, Called
<1>2. file[1][1] = "header"
  <2>1. GetType = "Rdb"
    BY DEF Init, Made
  <2>2. file[1][1] \in DOMAIN Magic /\ Magic[file[1][1]] = "Rdb"
    BY <2>1 DEF GetType
  <2> QED  BY <2>2 DEF Magic
<1>3. Rdb!IsConsidered(file)
  BY <1>1, <1>2, LeanifyFileAssumption
<1>4. i = 0 /\ rdb_size_leanified = 0
  BY DEF Init, Rdb!Start
<1>5. DOMAIN mem = 0 .. End
  BY CallMade DEF Before
<1>6. UnreadIntact /\ size \in 0 .. Len(file) /\ mem[End] = Before[End]
  BY CallMade DEF UnreadIntact
<1> QED  BY <1>3, <1>4, <1>5, <1>6, CallMade DEF RdbInv, RdbFile

LEMMA RdbSteps ==
  ASSUME format = "Rdb", Next
  PROVE  \/ Rdb!NotAnArchive \/ Rdb!MoveIndex \/ Rdb!DamagedIndex \/ Rdb!Directory
         \/ Rdb!MoveEntry \/ Rdb!Finish \/ \E r \in 0 .. Len(file) : Rdb!LeanifyEntry(r)
BY DEF Next, Leanify, NotSupported, NotGft, LeanifyGft, Rdb!Next

LEMMA NotAnArchiveStep ==
  ASSUME RdbInv, format = "Rdb", Rdb!NotAnArchive, UNCHANGED format
  PROVE  RdbInv'
<1>1. /\ pc = "start" /\ pc' = "done" /\ ~ Rdb!IsArchive
      /\ mem' = MemMove(mem, fp_w, fp, size)
      /\ UNCHANGED <<file, setting, size, fp, End, Before, Rdb!IsArchive>>
  BY DEF Rdb!NotAnArchive, Rdb!MovedAsItIs, Rdb!call, Rdb!MemMove, MemMove, Rdb!fp_w, fp_w,
         Rdb!fp, fp, End, Before, Rdb!IsArchive, Rdb!content_offset, Rdb!index_offset
<1>2. mem = Before /\ size = Len(file) /\ fp \in Nat /\ Len(file) \in Nat
  BY <1>1 DEF RdbInv, RdbFile
<1>3. /\ DOMAIN mem' = 0 .. End /\ \A k \in 1 .. Len(file) : mem'[k - 1] = file[k]
      /\ mem'[End] = Before[End]
  BY <1>1, <1>2, FrontMoved
<1>4. IsAsItWas'
  BY <1>1, <1>2, <1>3 DEF IsAsItWas
<1>5. mem'[End'] = Before'[End'] /\ DOMAIN mem' = 0 .. End'
  BY <1>1, <1>3
<1> QED  BY <1>1, <1>2, <1>4, <1>5 DEF RdbInv, RdbFile, UnreadIntact

(* What the entries are depends on the file only.                          *)
LEMMA FileKept ==
  ASSUME UNCHANGED <<file, setting>>
  PROVE  /\ UNCHANGED <<RdbFile, Rdb!IsArchive, Rdb!file_num, Rdb!content_offset,
                        Rdb!index_offset, fp, End, Before, MayRecurse>>
         /\ \A k : /\ Place(k)' = Place(k) /\ NulOf(k)' = NulOf(k) /\ OldSize(k)' = OldSize(k)
                   /\ (IsThere(k)' <=> IsThere(k)) /\ (PlaceFits(k)' <=> PlaceFits(k))
<1>1. UNCHANGED <<RdbFile, Rdb!IsArchive, Rdb!file_num, Rdb!content_offset,
                  Rdb!index_offset, fp, End, Before, MayRecurse>>
  BY DEF RdbFile, Rdb!IsArchive, Rdb!file_num, Rdb!content_offset, Rdb!index_offset, fp, End,
         Before, MayRecurse, Rdb!IsConsidered
<1>2. \A k : /\ Place(k)' = Place(k) /\ NulOf(k)' = NulOf(k) /\ OldSize(k)' = OldSize(k)
             /\ (IsThere(k)' <=> IsThere(k)) /\ (PlaceFits(k)' <=> PlaceFits(k))
  BY <1>1 DEF Place, NulOf, OldSize, IsThere, PlaceFits
<1> QED  BY <1>1, <1>2

(* What is done is done in the next buffer.                                *)
LEMMA DoneNow ==
  ASSUME UNCHANGED <<file, setting>>, NEW m, m = mem', NEW j, NEW outs, EntriesDone(m, j, outs)
  PROVE  EntriesDone(mem, j, outs)' /\ (j = i' => EntriesDone(mem, i, outs)')
<1>1. \A k, a, b : EntryDone(mem, k, a, b)' <=> EntryDone(m, k, a, b)
  <2>1. \A s, t : IsLeanOf(s, t)' <=> IsLeanOf(s, t)
    BY DEF IsLeanOf
  <2> QED  BY FileKept, <2>1 DEF EntryDone
<1>2. EntriesDone(mem, j, outs)'
  BY <1>1, FileKept DEF EntriesDone
<1>3. ASSUME j = i'
      PROVE  EntriesDone(mem, i, outs)'
  BY <1>1, <1>3, FileKept DEF EntriesDone
<1> QED  BY <1>2, <1>3

(* What is as it was from a place on.                                      *)
LEMMA UnreadFrom ==
  ASSUME fp \in Nat, Len(file) \in Nat, NEW m, NEW at \in 1 .. Len(file) + 1,
         \A x \in at .. Len(file) : m[fp + x - 1] = file[x], m[End] = Before[End]
  PROVE  \A x \in fp + (at - 1) .. End : m[x] = Before[x]
<1> SUFFICES ASSUME NEW x \in fp + (at - 1) .. End PROVE m[x] = Before[x]
  OBVIOUS
<1>1. CASE x = End
  BY <1>1
<1>2. CASE x # End
  <2>1. End = fp + Len(file)
    BY DEF End
  <2>2. x - fp + 1 \in at .. Len(file) /\ x - fp + 1 \in 1 .. Len(file)
        /\ fp + (x - fp + 1) - 1 = x
    BY <1>2, <2>1
  <2> DEFINE k == x - fp + 1
  <2> HIDE DEF k
  <2>3. m[fp + k - 1] = file[k] /\ Before[fp + k - 1] = file[k]
    BY <2>2, FileThere DEF k
  <2>4. fp + k - 1 = x
    BY <2>2 DEF k
  <2> QED  BY <2>3, <2>4
<1> QED  BY <1>1, <1>2

LEMMA MoveIndexStep ==
  ASSUME RdbInv, format = "Rdb", Rdb!MoveIndex, UNCHANGED format
  PROVE  RdbInv'
<1> DEFINE c == Rdb!content_offset
           x == Rdb!index_offset
           L == Len(file)
<1>1. /\ pc = "start" /\ pc' = "files" /\ Rdb!IsArchive /\ mem' = MemMove(mem, fp_w, fp, c)
      /\ p_index' = 0 + x /\ p_read' = fp + c
      /\ UNCHANGED <<file, setting, size, i, rdb_size_leanified>>
  BY RdbOperators DEF Rdb!MoveIndex, Rdb!call, fp_w
<1>2. /\ RdbFile /\ mem = Before /\ size = L /\ fp \in Nat /\ L \in Nat \ {0} /\ i = 0
      /\ rdb_size_leanified = 0 /\ End = fp + L
  BY <1>1 DEF RdbInv, RdbFile, End
<1>3. /\ x \in Nat \ {0} /\ c \in x..L /\ Rdb!file_num \in Nat
  BY SMTT(30), <1>1, <1>2 DEF RdbFile, Rdb!IsConsidered, Rdb!IsArchive, Rdb!content_offset,
                    Rdb!index_offset, Rdb!file_num
<1>4. /\ DOMAIN mem' = 0 .. End /\ mem'[End] = Before[End]
      /\ \A k \in 1 .. c : mem'[k - 1] = file[k]
      /\ \A k \in c + 1 .. L : mem'[fp + k - 1] = file[k]
  <2>1. c \in 0..L
    <3> HIDE DEF c, x
    <3> QED  BY <1>3
  <2> QED  BY <1>1, <1>2, <2>1, FrontMoved
<1>5. Place(0).index = x + 1 /\ Place(0).at = c + 1
  <2>1. /\ Rdb!file_num = file[1][2] /\ x = file[1][3] /\ Rdb!Content(file) = c
    BY DEF Rdb!file_num, Rdb!index_offset, Rdb!content_offset, Rdb!Content
  <2>2. Place(0) = [index |-> file[1][3] + 1, at |-> Rdb!Content(file) + 1]
    BY <1>3, <2>1, PlacesAre DEF Place
  <2> QED  BY <2>1, <2>2
<1> PICK outs : outs = [k \in 0..0 |-> c]
  OBVIOUS
<1> PICK m : m = mem'
  OBVIOUS
<1>6. EntriesDone(m, 0, outs)
  <2>1. outs \in [0..0 -> Nat] /\ outs[0] = c /\ c \in c..c /\ 0 \in 0 .. Rdb!file_num
    <3>1. c \in Nat /\ c \in c..c
      <4> HIDE DEF c, x
      <4> QED  BY <1>3
    <3> HIDE DEF c
    <3> QED  BY <1>3, <3>1
  <2>2. PlaceFits(0) /\ Place(0).index <= Place(0).index /\ c <= Place(0).at - 1
    <3>1. x + 1 \in x + 1 .. c + 1 /\ c + 1 \in c + 1 .. L + 1 /\ x + 1 <= x + 1 /\ c <= (c + 1) - 1
      <4> HIDE DEF c, x
      <4> QED  BY <1>3
    <3> QED  BY <1>5, <3>1 DEF PlaceFits
  <2>3. m[0] = file[1]
    <3>1. 1 \in 1..c /\ 1 - 1 = 0
      <4> HIDE DEF c, x
      <4> QED  BY <1>3
    <3> QED  BY <1>4, <3>1
  <2>4. \A y \in Place(0).index .. c : m[y - 1] = file[y]
    <3>1. \A y \in x + 1 .. c : y \in 1..c
      <4> HIDE DEF c, x
      <4> QED  BY <1>3
    <3> QED  BY <1>4, <1>5, <3>1
  <2>5. 0 .. 0 - 1 = {} /\ \A k \in 0..0 : k = 0
    OBVIOUS
  <2> HIDE DEF c
  <2> QED  BY <2>1, <2>2, <2>3, <2>4, <2>5 DEF EntriesDone, c
<1>7. EntriesDone(mem, i, outs)'
  BY <1>1, <1>2, <1>6, DoneNow
<1>8. Reading(outs)'
  <2>1. /\ p_index' = Place(0).index - 1 /\ p_read' = fp + (Place(0).at - 1)
        /\ rdb_size_leanified' = Place(0).at - 1 - outs[0] /\ i' = 0
    <3>1. 0 + x = (x + 1) - 1 /\ fp + c = fp + ((c + 1) - 1) /\ 0 = ((c + 1) - 1) - c
      <4> HIDE DEF c, x
      <4> QED  BY <1>2, <1>3
    <3>2. outs[0] = c
      OBVIOUS
    <3> HIDE DEF c, x
    <3> QED  BY <1>1, <1>2, <1>5, <3>1, <3>2
  <2>2. \A y \in Place(0).at .. L : mem'[fp + y - 1] = file[y]
    BY <1>4, <1>5
  <2>3. Place(0)' = Place(0) /\ fp' = fp /\ file' = file /\ \A k : Place(k)' = Place(k)
    BY <1>1, FileKept
  <2> QED  BY <1>7, <2>1, <2>2, <2>3 DEF Reading
<1>9. UnreadIntact'
  <2>1. c + 1 \in 1 .. L + 1 /\ (c + 1) - 1 = c
    <3> HIDE DEF c, x
    <3> QED  BY <1>3
  <2>2. \A y \in fp + ((c + 1) - 1) .. End : m[y] = Before[y]
    <3> HIDE DEF c
    <3> QED  BY <1>2, <1>4, <2>1, UnreadFrom DEF c
  <2>3. \A y \in p_read' .. End' : mem'[y] = Before'[y]
    BY <1>1, <2>1, <2>2, FileKept
  <2> QED  BY <2>3 DEF UnreadIntact
<1> QED  BY <1>1, <1>2, <1>4, <1>8, <1>9, FileKept DEF RdbInv

(* One more entry, whatever was done with its file.                        *)
LEMMA EntryStep ==
  ASSUME RdbInv, format = "Rdb", UNCHANGED format, Rdb!InLoop, Rdb!SoundEntry,
         NEW n, n = Rdb!FileSize, NEW r \in 0..n, MayRecurse \/ r = n,
         NEW d, d = p_read - rdb_size_leanified - fp,
         NEW m, DOMAIN m = 0 .. End,
         \A x \in 0 .. End : x \notin d .. p_read + n - 1 => m[x] = mem[x],
         IsLeanOf(Cells(m, d, r), Cells(mem, p_read, n)),
         mem' = Rdb!EntryUpdated(m, r), Rdb!NextFile(n, r)
  PROVE  RdbInv'
<1>1. /\ pc = "files" /\ i < Rdb!file_num /\ p_read' = p_read + n
      /\ p_index' = Rdb!NameEnd + 2
      /\ rdb_size_leanified' = rdb_size_leanified + n - r /\ i' = i + 1
      /\ UNCHANGED <<file, setting, pc, size>>
  BY DEF Rdb!InLoop, Rdb!NextFile, Rdb!call
<1>2. /\ RdbFile /\ Rdb!IsArchive /\ size = Len(file) /\ DOMAIN mem = 0 .. End
      /\ mem[End] = Before[End]
  BY <1>1 DEF RdbInv
<1>3. PICK outs : Reading(outs)
  <2>1. Rdb!file_num \in Nat
    BY <1>2 DEF RdbFile, Rdb!IsConsidered, Rdb!file_num
  <2> QED  BY <1>1, <2>1 DEF RdbInv, Stopped
<1>4. /\ IsThere(i) /\ Rdb!NameEnd = NulOf(i) /\ n = OldSize(i)
      /\ mem[NulOf(i)] = file[NulOf(i) + 1]
  BY <1>1, <1>2, <1>3, NameEndIs
<1>5. PICK c, at, z, o : c = Rdb!content_offset /\ at = Place(i).at /\ z = NulOf(i) /\ o = outs[i]
  OBVIOUS
<1>6. /\ fp \in Nat /\ Len(file) \in Nat /\ End = fp + Len(file) /\ c \in Nat /\ i \in Nat
      /\ i \in 0 .. Rdb!file_num - 1
      /\ at \in c + 1 .. Len(file) + 1 /\ o \in c .. at - 1 /\ z \in 0 .. c - 2
      /\ n \in Nat /\ r \in Nat /\ r <= n /\ at + n <= Len(file) + 1
      /\ p_read = fp + (at - 1) /\ rdb_size_leanified = at - 1 - o
  <2>0. PICK w, ix : w = Rdb!index_offset /\ ix = Place(i).index
    OBVIOUS
  <2>1. /\ fp \in Nat /\ Len(file) \in Nat /\ End = fp + Len(file) /\ w \in Nat \ {0}
        /\ c \in w .. Len(file) /\ Rdb!file_num \in Nat /\ i \in 0 .. Rdb!file_num
        /\ ix \in w + 1 .. c + 1
        /\ at \in c + 1 .. Len(file) + 1 /\ o \in c .. at - 1
        /\ p_read = fp + (at - 1) /\ rdb_size_leanified = at - 1 - o
    BY <1>2, <1>3, <1>5, <2>0, RdbNumbers
  <2>2. i \in 0 .. Rdb!file_num - 1 /\ i \in 0..i
    BY <1>1, <2>1
  <2>3. PlaceFits(i)
    BY <1>3, <2>2 DEF Reading, EntriesDone
  <2>4. z \in ix .. c - 2 /\ n \in Nat /\ at + n <= Len(file) + 1
    BY <1>2, <1>4, <1>5, <2>0, <2>2, <2>3, PlacesFit
  <2> QED  BY <2>1, <2>2, <2>4
<1>7. d = o /\ d \in Nat /\ z + 1 <= End /\ z \in Nat /\ z + 1 < d /\ d + r <= p_read + n
  BY <1>6
<1>8. /\ DOMAIN mem' = 0 .. End
      /\ \A x \in 0 .. End : x # z /\ x # z + 1 => mem'[x] = m[x]
      /\ mem'[z] = <<"offset", file[z + 1][2] - rdb_size_leanified>>
      /\ mem'[z + 1] = <<"size", r>>
  <2> DEFINE s == <<<<"offset", mem[z][2] - rdb_size_leanified>>, <<"size", r>>>>
  <2>1. mem' = Put(m, z, s) /\ Len(s) = 2
    BY <1>4, <1>5, RdbOperators DEF Rdb!EntryUpdated
  <2>2. s[1] = <<"offset", file[z + 1][2] - rdb_size_leanified>> /\ s[2] = <<"size", r>>
    BY <1>4, <1>5
  <2> HIDE DEF s
  <2>3. PICK two \in Nat : two = 2
    OBVIOUS
  <2>4. z + two - 1 <= End /\ End \in Nat /\ z \in Nat /\ Len(s) = two
    BY <1>6, <1>7, <2>1, <2>3
  <2> DEFINE put == Put(m, z, s)
  <2>5. /\ DOMAIN put = 0 .. End
        /\ \A x \in 0 .. End : x \notin z .. z + two - 1 => put[x] = m[x]
        /\ \A k \in 1 .. two : put[z + k - 1] = s[k]
    BY <2>4, PutIs
  <2> HIDE DEF put
  <2>6. mem' = put /\ put[z] = s[1] /\ put[z + 1] = s[2]
    <3>0. mem' = put
      BY <2>1 DEF put
    <3>1. z + 1 - 1 = z /\ z + 2 - 1 = z + 1 /\ 1 \in 1 .. two /\ 2 \in 1 .. two
      BY <1>7, <2>3
    <3> QED  BY <2>5, <3>0, <3>1
  <2>7. \A x \in 0 .. End : x # z /\ x # z + 1 => x \notin z .. z + two - 1
    BY <1>7, <2>3
  <2> QED  BY <2>2, <2>5, <2>6, <2>7
<1>9. Cells(mem', d, r) = Cells(m, d, r)
  <2>1. \A k \in 1..r : d + k - 1 \in 0 .. End /\ d + k - 1 # z /\ d + k - 1 # z + 1
    BY <1>6, <1>7
  <2> QED  BY <1>8, <2>1 DEF Cells
<1>10. Cells(mem, p_read, n) = Cells(file, at, n)
  <2>1. \A y \in at .. Len(file) : mem[fp + y - 1] = file[y]
    BY <1>3, <1>5 DEF Reading
  <2>2. \A k \in 1..n : at + k - 1 \in at .. Len(file) /\ fp + (at + k - 1) - 1 = p_read + k - 1
    BY <1>6
  <2>3. \A k \in 1..n : mem[p_read + k - 1] = file[at + k - 1]
    BY <2>1, <2>2
  <2> QED  BY <2>3 DEF Cells
<1>11. PICK w, q : w = mem' /\ q = i + 1
  OBVIOUS
<1>12. /\ \E outs2 : EntriesDone(w, i + 1, outs2) /\ outs2[i + 1] = outs[i] + r
       /\ Place(i + 1).index = NulOf(i) + 3 /\ Place(i + 1).at = Place(i).at + n
       /\ \A x \in Place(i + 1).at .. Len(file) : w[fp + x - 1] = file[x]
       /\ w[End] = mem[End]
  <2>1. \A x \in 0 .. End : x \notin {z, z + 1} \cup o .. p_read + n - 1 => w[x] = mem[x]
    <3>1. \A x \in 0 .. End : x \notin {z, z + 1} \cup o .. p_read + n - 1 =>
                              x # z /\ x # z + 1 /\ x \notin d .. p_read + n - 1
      BY <1>7
    <3> QED  BY <1>8, <1>11, <3>1
  <2>2. /\ w[z] = <<"offset", file[z + 1][2] - rdb_size_leanified>> /\ w[z + 1] = <<"size", r>>
        /\ IsLeanOf(Cells(w, o, r), Cells(file, at, n))
    BY <1>7, <1>8, <1>9, <1>10, <1>11
  <2> QED  BY SMTT(30), <1>1, <1>2, <1>3, <1>4, <1>5, <2>1, <2>2, EntriesGrow
<1>13. PICK outs2 : EntriesDone(w, q, outs2) /\ outs2[q] = o + r
  BY <1>5, <1>11, <1>12
<1>14. i' = q /\ Place(q).index = z + 3 /\ Place(q).at = at + n
  BY <1>1, <1>5, <1>11, <1>12
<1>15. /\ p_index' = Place(q).index - 1 /\ p_read' = fp + (Place(q).at - 1)
       /\ rdb_size_leanified' = Place(q).at - 1 - outs2[q]
  <2>1. /\ p_index' = (z + 3) - 1 /\ p_read' = fp + ((at + n) - 1)
        /\ rdb_size_leanified' = ((at + n) - 1) - (o + r)
    <3>1. /\ p_index' = z + 2 /\ p_read' = p_read + n
          /\ rdb_size_leanified' = rdb_size_leanified + n - r
      BY <1>1, <1>4, <1>5
    <3> QED  BY <1>6, <3>1
  <2> QED  BY <1>13, <1>14, <2>1
<1>16. Reading(outs2)'
  <2>1. EntriesDone(mem, i, outs2)'
    BY <1>1, <1>11, <1>13, <1>14, DoneNow
  <2>2. \A x \in Place(q).at .. Len(file) : mem'[fp + x - 1] = file[x]
    BY <1>11, <1>12
  <2>3. fp' = fp /\ file' = file /\ \A k : Place(k)' = Place(k)
    BY <1>1, FileKept
  <2> QED  BY <1>14, <1>15, <2>1, <2>2, <2>3 DEF Reading
<1>17. UnreadIntact' /\ mem'[End'] = Before'[End']
  <2>1. w[End] = Before[End] /\ \A x \in at + n .. Len(file) : w[fp + x - 1] = file[x]
    BY <1>2, <1>11, <1>12, <1>14
  <2>2. at + n \in 1 .. Len(file) + 1 /\ p_read' = fp + ((at + n) - 1)
    BY <1>6, <1>14, <1>15
  <2>3. \A x \in fp + ((at + n) - 1) .. End : w[x] = Before[x]
    BY <1>6, <2>1, <2>2, UnreadFrom
  <2>4. \A x \in p_read' .. End' : mem'[x] = Before'[x]
    BY <1>1, <1>11, <2>2, <2>3, FileKept
  <2> QED  BY <1>1, <1>11, <2>1, <2>4, FileKept DEF UnreadIntact
<1> QED  BY <1>1, <1>2, <1>8, <1>16, <1>17, FileKept DEF RdbInv

(* The n cells at p, moved to d.                                           *)
LEMMA MovedIs ==
  ASSUME NEW m, NEW h \in Nat, DOMAIN m = 0..h, NEW p \in Nat, NEW n \in Nat, p + n - 1 <= h,
         NEW d \in 0..p
  PROVE  LET m2 == MemMove(m, d, p, n)
         IN  /\ DOMAIN m2 = 0..h
             /\ \A x \in 0..h : x \notin d .. d + n - 1 => m2[x] = m[x]
             /\ Cells(m2, d, n) = Cells(m, p, n)
<1> DEFINE m2 == MemMove(m, d, p, n)
<1>1. ASSUME NEW k \in 1..n
      PROVE  m2[d + k - 1] = m[p + k - 1]
  <2> DEFINE x == d + k - 1
             y == p + k - 1
  <2>1. x \in 0..h /\ x \in d .. d + n - 1 /\ x - d + p = y
    OBVIOUS
  <2> HIDE DEF x, y
  <2>2. m2[x] = m[y]
    BY <2>1 DEF MemMove
  <2> QED  BY <2>2 DEF x, y
<1>2. DOMAIN m2 = 0..h /\ \A x \in 0..h : x \notin d .. d + n - 1 => m2[x] = m[x]
  BY DEF MemMove
<1> HIDE DEF m2
<1>3. Cells(m2, d, n) = Cells(m, p, n)
  BY <1>1 DEF Cells
<1> QED  BY <1>2, <1>3 DEF m2

(* Where the loop reads and where it writes.                               *)
LEMMA RdbRoom ==
  ASSUME RdbInv, format = "Rdb", Rdb!InLoop, NEW d, d = p_read - rdb_size_leanified - fp
  PROVE  /\ \E outs : Reading(outs) /\ d = outs[i]
         /\ p_read \in Nat /\ d \in 0 .. p_read /\ End \in Nat /\ p_read <= End
         /\ DOMAIN mem = 0 .. End /\ rdb_size_leanified + fp = p_read - d
         /\ Rdb!remaining_size = End - p_read
         /\ Rdb!SoundEntry => Rdb!FileSize \in Nat /\ p_read + Rdb!FileSize <= End
<1>1. /\ RdbFile /\ Rdb!IsArchive /\ DOMAIN mem = 0 .. End /\ pc = "files" /\ i < Rdb!file_num
  BY DEF RdbInv, Rdb!InLoop
<1>2. PICK outs : Reading(outs)
  <2>1. Rdb!file_num \in Nat
    BY <1>1 DEF RdbFile, Rdb!IsConsidered, Rdb!file_num
  <2> QED  BY <1>1, <2>1 DEF RdbInv, Stopped
<1>3. PICK c, at, o, w, n : c = Rdb!content_offset /\ at = Place(i).at /\ o = outs[i]
                            /\ w = Rdb!index_offset /\ n = OldSize(i)
  OBVIOUS
<1>4. /\ fp \in Nat /\ Len(file) \in Nat /\ End = fp + Len(file) /\ w \in Nat
      /\ c \in w .. Len(file) /\ Rdb!file_num \in Nat /\ i \in 0 .. Rdb!file_num
      /\ at \in c + 1 .. Len(file) + 1 /\ o \in c .. at - 1
      /\ p_read = fp + (at - 1) /\ rdb_size_leanified = at - 1 - o
  BY <1>1, <1>2, <1>3, RdbNumbers
<1>5. Rdb!SoundEntry => Rdb!FileSize = n /\ n \in Nat /\ at + n <= Len(file) + 1
  <2>1. i \in 0 .. Rdb!file_num - 1 /\ i \in 0..i
    BY <1>1, <1>4
  <2>2. PlaceFits(i)
    BY <1>2, <2>1 DEF Reading, EntriesDone
  <2> QED  BY <1>1, <1>2, <1>3, <2>1, <2>2, NameEndIs, PlacesFit
<1>6. d = o /\ p_read \in Nat /\ d \in 0 .. p_read /\ End \in Nat /\ p_read <= End
      /\ rdb_size_leanified + fp = p_read - d
  BY <1>4
<1>7. Rdb!SoundEntry => Rdb!FileSize \in Nat /\ p_read + Rdb!FileSize <= End
  BY <1>4, <1>5
<1> QED  BY <1>1, <1>2, <1>3, <1>6, <1>7, RdbOperators DEF Rdb!remaining_size

LEMMA DirectoryEntryStep ==
  ASSUME RdbInv, format = "Rdb", Rdb!Directory, UNCHANGED format
  PROVE  RdbInv'
<1>1. /\ Rdb!InLoop /\ Rdb!SoundEntry /\ Rdb!FileSize = 0
      /\ mem' = Rdb!EntryUpdated(mem, 0) /\ Rdb!NextFile(0, 0)
  BY DEF Rdb!Directory
<1> PICK d, m : d = p_read - rdb_size_leanified - fp /\ m = mem
  OBVIOUS
<1>2. DOMAIN m = 0 .. End
  BY <1>1, RdbRoom
<1>3. IsLeanOf(Cells(m, d, 0), Cells(mem, p_read, 0))
  <2>1. Cells(m, d, 0) = <<>> /\ Cells(mem, p_read, 0) = <<>>
    BY DEF Cells
  <2> QED  BY <2>1 DEF IsLeanOf, Lean
<1>4. 0 \in 0..0 /\ mem' = Rdb!EntryUpdated(m, 0)
  BY <1>1
<1> QED  BY <1>1, <1>2, <1>3, <1>4, EntryStep

LEMMA LeanifyEntryStep ==
  ASSUME RdbInv, format = "Rdb", UNCHANGED format, NEW r \in 0 .. Len(file),
         Rdb!LeanifyEntry(r)
  PROVE  RdbInv'
<1>0. PICK d, n, m : /\ d = p_read - rdb_size_leanified - fp /\ n = Rdb!FileSize
                     /\ m = FileLeanified(mem, p_read, n, rdb_size_leanified + fp, r)
  OBVIOUS
<1>1. /\ Rdb!InLoop /\ Rdb!SoundEntry /\ n > 0 /\ MayRecurse /\ r \in 0..n
      /\ mem' = Rdb!EntryUpdated(m, r) /\ Rdb!NextFile(n, r)
  BY <1>0, RdbOperators DEF Rdb!LeanifyEntry, Rdb!FileSizes
<1>2. /\ p_read \in Nat /\ d \in 0 .. p_read /\ End \in Nat /\ DOMAIN mem = 0 .. End
      /\ rdb_size_leanified + fp = p_read - d /\ n \in Nat \ {0} /\ p_read + n <= End
  BY <1>0, <1>1, RdbRoom
<1>3. /\ DOMAIN m = 0 .. End
      /\ \A x \in 0 .. End : x \notin d .. p_read + n - 1 => m[x] = mem[x]
      /\ IsLeanOf(Cells(m, d, r), Cells(mem, p_read, n))
  <2> PICK h, p, c : h = End /\ p = p_read /\ c = rdb_size_leanified + fp
    OBVIOUS
  <2>1. /\ h \in Nat /\ p \in Nat /\ DOMAIN mem = 0..h /\ p + n <= h /\ c = p - d
        /\ n \in Nat \ {0} /\ d \in 0..p /\ r \in 0..n /\ m = FileLeanified(mem, p, n, c, r)
    BY <1>0, <1>1, <1>2
  <2>2. /\ DOMAIN m = 0..h /\ SameOutside(m, mem, h, d, p + n - 1)
        /\ IsLeanOf(Cells(m, d, r), Cells(mem, p, n))
    BY <2>1, LeanifiedIs
  <2> QED  BY <2>2 DEF SameOutside
<1> QED  BY <1>0, <1>1, <1>3, EntryStep

LEMMA MoveEntryStep ==
  ASSUME RdbInv, format = "Rdb", Rdb!MoveEntry, UNCHANGED format
  PROVE  RdbInv'
<1> PICK d, n, m : /\ d = p_read - rdb_size_leanified - fp /\ n = Rdb!FileSize
                   /\ m = MemMove(mem, d, p_read, n)
  OBVIOUS
<1>1. /\ Rdb!InLoop /\ Rdb!SoundEntry /\ mem' = Rdb!EntryUpdated(m, n) /\ Rdb!NextFile(n, n)
  BY RdbOperators DEF Rdb!MoveEntry
<1>2. /\ p_read \in Nat /\ d \in 0 .. p_read /\ End \in Nat /\ DOMAIN mem = 0 .. End
      /\ n \in Nat /\ p_read + n <= End
  BY <1>1, RdbRoom
<1>3. /\ DOMAIN m = 0 .. End /\ Cells(m, d, n) = Cells(mem, p_read, n)
      /\ \A x \in 0 .. End : x \notin d .. d + n - 1 => m[x] = mem[x]
  BY SMTT(30), <1>2, MovedIs
<1>4. \A x \in 0 .. End : x \notin d .. p_read + n - 1 => m[x] = mem[x]
  <2>1. \A x \in 0 .. End : x \notin d .. p_read + n - 1 => x \notin d .. d + n - 1
    BY <1>2
  <2> QED  BY <1>3, <2>1
<1>5. IsLeanOf(Cells(m, d, n), Cells(mem, p_read, n))
  <2>1. Len(Cells(mem, p_read, n)) = n
    BY <1>2, CellsAre
  <2> QED  BY <1>2, <1>3, <2>1 DEF IsLeanOf, Lean
<1>6. n \in 0..n
  BY <1>2
<1> QED  BY <1>1, <1>3, <1>4, <1>5, <1>6, EntryStep

(* The entries that are done stay so whatever happens behind them.         *)
LEMMA EntriesKept ==
  ASSUME RdbFile, Rdb!IsArchive, NEW m, NEW m2, NEW j, NEW outs, EntriesDone(m, j, outs),
         \A x \in 0 .. outs[j] - 1 : m2[x] = m[x]
  PROVE  EntriesDone(m2, j, outs)
<1>0. PICK c, N, L, w : c = Rdb!content_offset /\ N = Rdb!file_num /\ L = Len(file)
                        /\ w = Rdb!index_offset
  OBVIOUS
<1>1. /\ w \in Nat \ {0} /\ N \in Nat /\ c \in w..L /\ L \in Nat
  BY <1>0 DEF RdbFile, Rdb!IsConsidered, Rdb!IsArchive, Rdb!content_offset, Rdb!index_offset,
         Rdb!file_num
<1>2. /\ j \in 0..N /\ outs \in [0..j -> Nat] /\ outs[0] = c /\ m[0] = file[1]
      /\ \A x \in Place(j).index .. c : m[x - 1] = file[x]
      /\ \A k \in 0..j : /\ PlaceFits(k) /\ Place(k).index <= Place(j).index
                         /\ outs[k] \in c .. outs[j] /\ outs[k] <= Place(k).at - 1
      /\ \A k \in 0 .. j - 1 : EntryDone(m, k, outs[k], outs[k + 1])
  BY <1>0 DEF EntriesDone
<1>3. \A k \in 0..j : Place(k).index \in w + 1 .. c + 1
  BY <1>0, <1>2 DEF PlaceFits
<1>4. PICK o : o = outs[j] /\ o \in Nat /\ c <= o
  <2>1. j \in 0..j
    BY <1>1, <1>2
  <2>2. outs[j] \in Nat /\ outs[j] \in c .. outs[j]
    BY <1>2, <2>1
  <2> QED  BY <1>1, <2>2
<1>5. \A x \in 0 .. o - 1 : m2[x] = m[x]
  BY <1>4
<1>6. m2[0] = file[1]
  BY <1>1, <1>2, <1>4, <1>5
<1>7. \A x \in Place(j).index .. c : m2[x - 1] = file[x]
  <2> PICK y : y = Place(j).index
    OBVIOUS
  <2>1. y \in w + 1 .. c + 1
    BY <1>1, <1>2, <1>3
  <2>2. \A x \in y..c : x - 1 \in 0 .. o - 1
    BY <1>1, <1>4, <2>1
  <2> QED  BY <1>2, <1>5, <2>2
<1>8. ASSUME NEW k \in 0 .. j - 1
      PROVE  EntryDone(m2, k, outs[k], outs[k + 1])
  <2>1. k \in 0..j /\ k + 1 \in 0..j /\ k \in 0 .. N - 1
    BY <1>1, <1>2
  <2>2. /\ EntryDone(m, k, outs[k], outs[k + 1]) /\ PlaceFits(k) /\ IsThere(k)
        /\ outs[k] \in c .. o /\ outs[k + 1] \in c .. o
    BY <1>2, <1>4, <2>1 DEF EntryDone
  <2>3. NulOf(k) \in Place(k).index .. c - 2
    BY <1>0, <2>1, <2>2, PlacesFit
  <2>0. PICK y, z, a, b : y = Place(k).index /\ z = NulOf(k) /\ a = outs[k] /\ b = outs[k + 1]
    OBVIOUS
  <2>4. y \in w + 1 .. c + 1 /\ z \in y .. c - 2 /\ a \in c..o /\ b \in c..o
    BY <1>3, <2>0, <2>1, <2>2, <2>3
  <2>5. y \in Nat /\ z \in Nat /\ y <= z /\ a \in Nat /\ b \in Nat
    BY <1>1, <1>4, <2>4
  <2>6. \A x \in y .. z + 2 : m2[x - 1] = m[x - 1]
    <3>1. \A x \in y .. z + 2 : x - 1 \in 0 .. o - 1
      BY <1>1, <1>4, <2>4
    <3> QED  BY <1>5, <3>1
  <2>7. \A x \in a .. b - 1 : m2[x] = m[x]
    <3>1. \A x \in a .. b - 1 : x \in 0 .. o - 1
      BY <1>1, <1>4, <2>4
    <3> QED  BY <1>5, <3>1
  <2>8. EntryDone(m2, k, a, b)
    BY <2>0, <2>2, <2>5, <2>6, <2>7, EntryKept
  <2> QED  BY <2>0, <2>8
<1> QED  BY <1>0, <1>2, <1>6, <1>7, <1>8 DEF EntriesDone

LEMMA DamagedIndexStep ==
  ASSUME RdbInv, format = "Rdb", Rdb!DamagedIndex, UNCHANGED format
  PROVE  RdbInv'
<1>0. PICK d, n, m : /\ d = p_read - rdb_size_leanified - fp /\ n = Rdb!remaining_size /\ m = mem'
  OBVIOUS
<1>1. /\ Rdb!InLoop /\ ~ Rdb!SoundEntry /\ m = MemMove(mem, d, p_read, n)
      /\ p_read' = End /\ i' = Rdb!file_num /\ pc = "files" /\ i < Rdb!file_num
      /\ UNCHANGED <<file, setting, pc, size, rdb_size_leanified>>
  BY <1>0, RdbOperators DEF Rdb!DamagedIndex, Rdb!call, Rdb!InLoop
<1>2. /\ RdbFile /\ Rdb!IsArchive /\ size = Len(file) /\ DOMAIN mem = 0 .. End
      /\ mem[End] = Before[End]
  BY <1>1 DEF RdbInv
<1>3. PICK outs : Reading(outs) /\ d = outs[i]
  BY <1>0, <1>1, RdbRoom
<1>4. ~ IsThere(i)
  BY <1>1, <1>2, <1>3, NameEndIs
<1>5. PICK c, at, o, L : c = Rdb!content_offset /\ at = Place(i).at /\ o = outs[i] /\ L = Len(file)
  OBVIOUS
<1>6. /\ fp \in Nat /\ L \in Nat /\ End = fp + L /\ c \in Nat /\ Rdb!file_num \in Nat
      /\ i \in 0 .. Rdb!file_num /\ at \in c + 1 .. L + 1 /\ o \in c .. at - 1 /\ d = o
      /\ p_read = fp + (at - 1) /\ rdb_size_leanified = at - 1 - o
  <2>0. PICK w : w = Rdb!index_offset
    OBVIOUS
  <2>1. /\ fp \in Nat /\ L \in Nat \ {0} /\ End = fp + L /\ w \in Nat \ {0} /\ c \in w..L
        /\ Rdb!file_num \in Nat
        /\ i \in 0 .. Rdb!file_num /\ at \in c + 1 .. L + 1 /\ o \in c .. at - 1
        /\ p_read = fp + (at - 1) /\ rdb_size_leanified = at - 1 - o
    BY <1>2, <1>3, <1>5, <2>0, RdbNumbers
  <2> QED  BY <1>3, <1>5, <2>1
<1>7. n = L - at + 1 /\ d + n - 1 < End
  <2>1. n = End - p_read
    BY <1>0, <1>1, RdbRoom
  <2> QED  BY <1>6, <2>1
<1>8. /\ DOMAIN m = 0 .. End
      /\ \A x \in 0 .. End : x \notin d .. d + n - 1 => m[x] = mem[x]
      /\ \A x \in at..L : m[o + (x - at)] = file[x]
  <2>1. DOMAIN m = 0 .. End /\ \A x \in 0 .. End : x \notin d .. d + n - 1 => m[x] = mem[x]
    BY <1>1, <1>2 DEF MemMove
  <2>2. ASSUME NEW x \in at..L
        PROVE  m[o + (x - at)] = file[x]
    <3> DEFINE y == o + (x - at)
               q == fp + x - 1
    <3>1. y \in 0 .. End /\ y \in d .. d + n - 1 /\ y - d + p_read = q
      BY <1>6, <1>7
    <3>2. mem[q] = file[x]
      BY <1>3, <1>5 DEF Reading
    <3> HIDE DEF y, q
    <3>3. m[y] = mem[q]
      BY <1>1, <1>2, <3>1 DEF MemMove
    <3> QED  BY <3>2, <3>3 DEF y
  <2> QED  BY <2>1, <2>2
<1>9. m[End] = Before[End]
  BY <1>2, <1>6, <1>7, <1>8
<1>10. PICK j : j = i
  OBVIOUS
<1>11. EntriesDone(m, j, outs)
  <2>1. \A x \in 0 .. outs[j] - 1 : m[x] = mem[x]
    <3>1. \A x \in 0 .. o - 1 : x \in 0 .. End /\ x \notin d .. d + n - 1
      BY <1>6
    <3> QED  BY <1>5, <1>8, <1>10, <3>1
  <2> QED  BY <1>2, <1>3, <1>10, <2>1, EntriesKept DEF Reading
<1>12. Stopped(j, outs)'
  <2>1. EntriesDone(mem, j, outs)'
    BY <1>0, <1>1, <1>11, DoneNow
  <2>2. j < Rdb!file_num /\ ~ IsThere(j) /\ rdb_size_leanified = Place(j).at - 1 - outs[j]
        /\ \A x \in Place(j).at .. Len(file) : m[outs[j] + (x - Place(j).at)] = file[x]
    BY <1>1, <1>4, <1>5, <1>6, <1>8, <1>10
  <2>3. /\ Rdb!file_num' = Rdb!file_num /\ End' = End /\ file' = file
        /\ Place(j)' = Place(j) /\ (IsThere(j)' <=> IsThere(j))
    BY <1>1, FileKept
  <2> QED  BY <1>0, <1>1, <2>1, <2>2, <2>3 DEF Stopped, RestMoved
<1>13. UnreadIntact'
  <2>1. \A x \in End .. End : m[x] = Before[x]
    BY <1>6, <1>9
  <2> QED  BY <1>0, <1>1, <2>1, FileKept DEF UnreadIntact
<1> QED  BY <1>0, <1>1, <1>2, <1>8, <1>9, <1>12, <1>13, FileKept DEF RdbInv

LEMMA FinishStep ==
  ASSUME RdbInv, format = "Rdb", Rdb!Finish, UNCHANGED format
  PROVE  RdbInv'
<1>1. /\ pc = "files" /\ pc' = "done" /\ i = Rdb!file_num
      /\ size' = p_read - fp - rdb_size_leanified
      /\ UNCHANGED <<file, setting, mem, p_read>>
  BY RdbOperators DEF Rdb!Finish, Rdb!call
<1>2. /\ RdbFile /\ Rdb!IsArchive /\ DOMAIN mem = 0 .. End /\ mem[End] = Before[End] /\ UnreadIntact
  BY <1>1 DEF RdbInv
<1>3. /\ fp \in Nat /\ Len(file) \in Nat /\ End = fp + Len(file) /\ Rdb!file_num \in Nat
      /\ Rdb!content_offset \in Nat
  BY SMTT(30), <1>2 DEF RdbFile, Rdb!IsConsidered, Rdb!file_num, Rdb!content_offset, Rdb!index_offset, End
<1>4. PICK j, outs :
        /\ EntriesDone(mem, j, outs)
        /\ \/ j = Rdb!file_num /\ size' = outs[j]
           \/ RestMoved(j, outs) /\ size' = outs[j] + (Len(file) - Place(j).at + 1)
        /\ size' \in 0 .. Len(file)
  <2>1. ASSUME NEW outs, Reading(outs)
        PROVE  EntriesDone(mem, i, outs) /\ size' = outs[i] /\ size' \in 0 .. Len(file)
    <3>1. PICK c, at, o, w : c = Rdb!content_offset /\ at = Place(i).at /\ o = outs[i]
                             /\ w = Rdb!index_offset
      OBVIOUS
    <3>2. /\ w \in Nat \ {0} /\ c \in w .. Len(file) /\ at \in c + 1 .. Len(file) + 1
          /\ o \in c .. at - 1
          /\ p_read = fp + (at - 1) /\ rdb_size_leanified = at - 1 - o
      BY <1>2, <2>1, <3>1, RdbNumbers
    <3>3. size' = o /\ o \in 0 .. Len(file)
      BY <1>1, <1>3, <3>2
    <3> QED  BY <2>1, <3>1, <3>3 DEF Reading
  <2>2. ASSUME NEW j, NEW outs, Stopped(j, outs)
        PROVE  /\ EntriesDone(mem, j, outs) /\ RestMoved(j, outs)
               /\ size' = outs[j] + (Len(file) - Place(j).at + 1) /\ size' \in 0 .. Len(file)
    <3>1. PICK c, at, o : c = Rdb!content_offset /\ at = Place(j).at /\ o = outs[j]
      OBVIOUS
    <3>2. /\ EntriesDone(mem, j, outs) /\ RestMoved(j, outs) /\ p_read = End
          /\ rdb_size_leanified = at - 1 - o
      BY <2>2, <3>1 DEF Stopped
    <3>3. j \in 0 .. Rdb!file_num
      BY <3>2 DEF EntriesDone
    <3>4. j \in 0..j
      BY <1>3, <3>3
    <3>5. PlaceFits(j) /\ outs \in [0..j -> Nat] /\ outs[j] <= Place(j).at - 1
      BY <3>2, <3>4 DEF EntriesDone
    <3>6. at \in c + 1 .. Len(file) + 1 /\ o \in Nat /\ o <= at - 1 /\ c \in Nat
      BY <1>3, <3>1, <3>4, <3>5 DEF PlaceFits
    <3>7. size' = o + (Len(file) - at + 1) /\ size' \in 0 .. Len(file)
      BY <1>1, <1>3, <3>2, <3>6
    <3> QED  BY <3>1, <3>2, <3>7
  <2>3. (\E outs : Reading(outs)) \/ (\E j, outs : Stopped(j, outs))
    BY <1>1 DEF RdbInv
  <2> QED  BY <1>1, <2>1, <2>2, <2>3
<1>6. EntriesDone(mem, j, outs)'
  BY <1>1, <1>4, DoneNow
<1>7. ArchiveWritten(j, outs)'
  <2>1. /\ Rdb!file_num' = Rdb!file_num /\ file' = file
        /\ Place(j)' = Place(j) /\ (IsThere(j)' <=> IsThere(j))
    BY <1>1, FileKept
  <2>2. RestMoved(j, outs) => RestMoved(j, outs)'
    BY <1>1, <2>1 DEF RestMoved
  <2> QED  BY <1>4, <1>6, <2>1, <2>2 DEF ArchiveWritten
<1>8. UnreadIntact'
  BY <1>1, <1>2, FileKept DEF UnreadIntact
<1> QED  BY <1>1, <1>2, <1>4, <1>7, <1>8, FileKept DEF RdbInv

LEMMA RdbInvariance == Spec => []RdbInv
<1>1. Init => RdbInv
  BY RdbInit DEF RdbInv
<1>2. ASSUME RdbInv, [Next]_vars
      PROVE  RdbInv'
  <2>1. CASE Next /\ format = "Rdb"
    <3>1. UNCHANGED format
      BY <2>1 DEF Next
    <3> QED  BY <1>2, <2>1, <3>1, RdbSteps, NotAnArchiveStep, MoveIndexStep, DamagedIndexStep,
                DirectoryEntryStep, LeanifyEntryStep, MoveEntryStep, FinishStep
  <2>2. CASE format # "Rdb"
    BY <1>2, <2>2 DEF Next, vars, RdbInv
  <2>3. CASE UNCHANGED vars
    <3>1. UNCHANGED <<file, setting, format, mem, p_read, pc, size, p_index, i,
                      rdb_size_leanified>>
      BY <2>3 DEF vars, locals, call, rdb
    <3>2. \A s, t : IsLeanOf(s, t)' <=> IsLeanOf(s, t)
      BY DEF IsLeanOf
    <3>3. \A m, k, a, b : EntryDone(m, k, a, b)' <=> EntryDone(m, k, a, b)
      BY <3>1, <3>2, FileKept DEF EntryDone
    <3>4. \A j, outs : EntriesDone(mem, j, outs)' <=> EntriesDone(mem, j, outs)
      BY <3>1, <3>3, FileKept DEF EntriesDone
    <3>5. \A outs : Reading(outs)' <=> Reading(outs)
      <4>1. \A outs : EntriesDone(mem, i, outs)' <=> EntriesDone(mem, i, outs)
        BY <3>1, <3>3, FileKept DEF EntriesDone
      <4> QED  BY <3>1, <4>1, FileKept DEF Reading
    <3>6. \A j, outs : RestMoved(j, outs)' <=> RestMoved(j, outs)
      BY <3>1, FileKept DEF RestMoved
    <3>7. \A j, outs : /\ Stopped(j, outs)' <=> Stopped(j, outs)
                       /\ ArchiveWritten(j, outs)' <=> ArchiveWritten(j, outs)
      BY <3>1, <3>4, <3>6, FileKept DEF Stopped, ArchiveWritten
    <3> QED  BY <1>2, <3>1, <3>5, <3>7, FileKept DEF RdbInv, IsAsItWas, UnreadIntact
  <2> QED  BY <1>2, <2>1, <2>2, <2>3
<1> QED  BY <1>1, <1>2, PTL DEF Spec

(* Behind an entry that cannot be read there are no others.                *)
LEMMA PlacesStop ==
  ASSUME NEW s, NEW N \in Nat, s[1][2] = N, NEW j \in 0..N,
         ~ Rdb!IsReadable(s, Rdb!Places(s)[j])
  PROVE  \A k \in j..N : Rdb!Places(s)[k] = Rdb!Places(s)[j]
<1> DEFINE P == Rdb!Places(s)
           T == {k \in j..N : P[k] # P[j]}
<1> SUFFICES ASSUME T # {} PROVE FALSE
  OBVIOUS
<1>1. PICK k \in T : \A y \in T : k <= y
  <2>1. T \in SUBSET Nat
    OBVIOUS
  <2> HIDE DEF T
  <2> QED  BY <2>1, LeastNat
<1>2. k \in j..N /\ P[k] # P[j] /\ k # j
  BY <1>1
<1>3. k \in 1..N /\ k - 1 \in j..N /\ ~ (k <= k - 1)
  BY <1>2
<1>4. P[k - 1] = P[j]
  <2>1. k - 1 \notin T
    <3> HIDE DEF T
    <3> QED  BY <1>1, <1>3
  <2> HIDE DEF P
  <2> QED  BY <1>3, <2>1
<1>5. P[k] = IF Rdb!IsReadable(s, P[k - 1])
             THEN [index |-> Rdb!Nul(s, P[k - 1]) + 3,
                   at |-> P[k - 1].at + s[Rdb!Nul(s, P[k - 1]) + 2][2]]
             ELSE P[k - 1]
  BY <1>3, PlacesAre
<1> HIDE DEF P
<1> QED  BY <1>2, <1>4, <1>5 DEF P

(* The archive that is left.                                               *)
Archive == Cells(mem, 0, size)
NewPlace(k) == Rdb!Places(Archive)[k]

LEMMA ArchiveIs ==
  ASSUME RdbInv, format = "Rdb", Rdb!IsArchive, NEW j, NEW outs, ArchiveWritten(j, outs)
  PROVE  /\ Len(Archive) = size /\ size \in Nat /\ Rdb!content_offset <= outs[j]
         /\ outs[j] \in Nat /\ outs[j] <= size /\ j \in 0 .. Rdb!file_num
         /\ \A x \in 1..size : Archive[x] = mem[x - 1]
         /\ Archive[1] = file[1] /\ Archive[1][2] = Rdb!file_num
         /\ Rdb!Content(Archive) = Rdb!content_offset
         /\ Rdb!content_offset \in Nat \ {0} /\ Rdb!file_num \in Nat
<1>1. /\ RdbFile /\ size \in Nat /\ EntriesDone(mem, j, outs)
      /\ \/ j = Rdb!file_num /\ size = outs[j]
         \/ RestMoved(j, outs) /\ size = outs[j] + (Len(file) - Place(j).at + 1)
  BY DEF RdbInv, RdbFile, ArchiveWritten
<1>2. /\ Rdb!index_offset \in Nat \ {0} /\ Rdb!file_num \in Nat /\ Len(file) \in Nat
      /\ Rdb!content_offset \in Nat \ {0} /\ Rdb!file_num = file[1][2]
      /\ Rdb!content_offset = Rdb!Content(file)
  <2>1. /\ Rdb!index_offset \in Nat \ {0} /\ Rdb!file_num \in Nat /\ Len(file) \in Nat
        /\ file[1][4] \in Nat /\ Rdb!content_offset = Rdb!index_offset + file[1][4]
        /\ Rdb!file_num = file[1][2] /\ Rdb!content_offset = Rdb!Content(file)
    BY <1>1 DEF RdbFile, Rdb!IsConsidered, Rdb!IsArchive, Rdb!content_offset, Rdb!index_offset,
           Rdb!file_num, Rdb!Content
  <2> QED  BY <2>1
<1>3. j \in 0 .. Rdb!file_num /\ j \in 0..j
  BY <1>1, <1>2 DEF EntriesDone
<1>4. /\ outs \in [0..j -> Nat] /\ outs[j] \in Rdb!content_offset .. outs[j] /\ PlaceFits(j)
      /\ mem[0] = file[1]
  BY <1>1, <1>3 DEF EntriesDone
<1>5. PICK c, o, at, L : c = Rdb!content_offset /\ o = outs[j] /\ at = Place(j).at /\ L = Len(file)
  OBVIOUS
<1>6. o \in Nat /\ c <= o /\ at \in c + 1 .. L + 1 /\ c \in Nat \ {0} /\ L \in Nat
  BY <1>2, <1>3, <1>4, <1>5 DEF PlaceFits
<1>7. o <= size
  <2>1. size = o \/ size = o + (L - at + 1)
    BY <1>1, <1>5
  <2> QED  BY <1>6, <2>1
<1>8. /\ Len(Archive) = size
      /\ \A x \in 1..size : Archive[x] = mem[x - 1]
  <2>1. \A x \in 1..size : 0 + x - 1 = x - 1
    BY <1>1
  <2> QED  BY <1>1, <2>1, CellsAre DEF Archive
<1>9. Archive[1] = file[1]
  <2>1. 1 \in 1..size /\ 1 - 1 = 0
    BY <1>1, <1>6, <1>7
  <2> QED  BY <1>4, <1>8, <2>1
<1>10. Archive[1][2] = Rdb!file_num /\ Rdb!Content(Archive) = Rdb!content_offset
  BY <1>2, <1>9 DEF Rdb!Content
<1> QED  BY <1>1, <1>2, <1>3, <1>5, <1>6, <1>7, <1>8, <1>9, <1>10

(* An entry that is done is in the archive what it was in the file.        *)
EntryRight(k) ==
  LET was == Place(k)
      is  == NewPlace(k)
  IN  /\ Rdb!IsReadable(Archive, is) <=> Rdb!IsReadable(file, was)
      /\ IF Rdb!IsReadable(file, was)
         THEN /\ Rdb!Name(Archive, is) = Rdb!Name(file, was)
              /\ Rdb!IsInPlace(Archive, is) <=> Rdb!IsInPlace(file, was)
              /\ Rdb!IsLeanOf(Rdb!Contents(Archive, is), Rdb!Contents(file, was))
              /\ Rdb!MayRecurse \/ Rdb!Contents(Archive, is) = Rdb!Contents(file, was)
         ELSE Rdb!Rest(Archive, is) = Rdb!Rest(file, was)

LEMMA DoneRight ==
  ASSUME RdbInv, format = "Rdb", Rdb!IsArchive, NEW j, NEW outs, ArchiveWritten(j, outs),
         NEW k \in 0 .. j - 1, NewPlace(k).index = Place(k).index, NewPlace(k).at = outs[k] + 1
  PROVE  /\ EntryRight(k)
         /\ NewPlace(k + 1).index = Place(k + 1).index
         /\ NewPlace(k + 1).at = outs[k + 1] + 1
<1>1. RdbFile /\ EntriesDone(mem, j, outs) /\ j \in 0 .. Rdb!file_num /\ Rdb!file_num \in Nat
  BY ArchiveIs DEF RdbInv, ArchiveWritten
<1>2. k \in 0..j /\ k + 1 \in 0..j /\ k \in 0 .. Rdb!file_num - 1
  BY <1>1
<1>3. /\ PlaceFits(k) /\ IsThere(k) /\ EntryDone(mem, k, outs[k], outs[k + 1])
      /\ outs[k] \in Rdb!content_offset .. outs[j] /\ outs[k + 1] \in Rdb!content_offset .. outs[j]
  BY <1>1, <1>2 DEF EntriesDone, EntryDone
<1>4. PICK c, ix, at, z, n, a, b :
        /\ c = Rdb!content_offset /\ ix = Place(k).index /\ at = Place(k).at /\ z = NulOf(k)
        /\ n = OldSize(k) /\ a = outs[k] /\ b = outs[k + 1]
  OBVIOUS
<1>5. /\ z \in ix .. c - 2 /\ n \in Nat /\ at + n <= Len(file) + 1
      /\ Place(k + 1).index = z + 3
      /\ file[z] = <<"nul">> /\ \A q \in ix .. z - 1 : file[q] # <<"nul">>
      /\ file[z + 1][2] \in Int
  BY <1>1, <1>2, <1>3, <1>4, PlacesFit
<1>6. /\ Len(Archive) = size /\ size \in Nat /\ c \in Nat /\ outs[j] \in Nat /\ outs[j] <= size
      /\ c <= outs[j]
      /\ \A x \in 1..size : Archive[x] = mem[x - 1]
      /\ Archive[1][2] = Rdb!file_num /\ Rdb!Content(Archive) = c
  BY <1>4, ArchiveIs
<1>7. /\ ix \in Nat /\ ix >= 1 /\ z \in Nat /\ ix <= z /\ z + 2 <= c /\ c <= size /\ at \in Nat
      /\ a \in Nat /\ b \in Nat /\ b <= size /\ b - a \in 0..n /\ a <= b
  <2>1. ix \in Rdb!index_offset + 1 .. c + 1 /\ at \in c + 1 .. Len(file) + 1
    BY <1>3, <1>4 DEF PlaceFits
  <2>2. Rdb!index_offset \in Nat /\ Len(file) \in Nat
    BY <1>1 DEF RdbFile, Rdb!IsConsidered, Rdb!index_offset
  <2>3. b - a \in 0..n
    BY <1>3, <1>4 DEF EntryDone
  <2>4. a \in c .. outs[j] /\ b \in c .. outs[j]
    BY <1>3, <1>4
  <2> PICK t : t = outs[j]
    OBVIOUS
  <2> QED  BY <1>5, <1>6, <2>1, <2>2, <2>3, <2>4
<1>8. /\ \A x \in ix..z : Archive[x] = file[x]
      /\ Archive[z + 1] = <<"offset", file[z + 1][2] - (at - 1 - a)>>
      /\ Archive[z + 2] = <<"size", b - a>>
  <2>1. /\ \A x \in ix..z : mem[x - 1] = file[x]
        /\ mem[z] = <<"offset", file[z + 1][2] - (at - 1 - a)>>
        /\ mem[z + 1] = <<"size", b - a>>
    BY <1>3, <1>4 DEF EntryDone
  <2>2. /\ \A x \in ix..z : x \in 1..size
        /\ z + 1 \in 1..size /\ z + 2 \in 1..size /\ (z + 1) - 1 = z /\ (z + 2) - 1 = z + 1
    BY <1>6, <1>7
  <2>3. Archive[z + 1] = mem[z] /\ Archive[z + 2] = mem[z + 1]
    BY <1>6, <2>2
  <2> QED  BY <1>6, <2>1, <2>2, <2>3
<1>9. PICK is : is = NewPlace(k)
  OBVIOUS
<1>10. is.index = ix /\ is.at = a + 1
  BY <1>4, <1>9
<1>11. Rdb!Nul(Archive, is) = z /\ Rdb!Nuls(Archive, is) # {}
  <2>1. z \in Rdb!Nuls(Archive, is)
    <3>1. z \in ix..c /\ z \in ix..z
      BY <1>6, <1>7
    <3> QED  BY <1>5, <1>6, <1>8, <1>10, <3>1 DEF Rdb!Nuls
  <2>2. \A q \in Rdb!Nuls(Archive, is) : z <= q
    <3> SUFFICES ASSUME NEW q \in ix..c, Archive[q] = <<"nul">>, ~ (z <= q) PROVE FALSE
      BY <1>6, <1>10 DEF Rdb!Nuls
    <3>1. q \in ix..z /\ q \in ix .. z - 1
      BY <1>7
    <3> QED  BY <1>5, <1>8, <3>1
  <2>3. is.index \in Nat
    BY <1>7, <1>10
  <2> QED  BY <2>1, <2>2, <2>3, NulIs
<1>12. Rdb!IsReadable(Archive, is)
  <2>1. b - a <= size - (a + 1) + 1
    BY <1>6, <1>7
  <2>2. Archive[z + 2][2] = b - a
    BY <1>8
  <2> QED  BY <1>6, <1>7, <1>10, <1>11, <2>1, <2>2 DEF Rdb!IsReadable
<1>13. Rdb!Name(Archive, is) = Rdb!Name(file, Place(k))
  <2>1. \A x \in 1 .. z - ix + 1 : ix + x - 1 \in ix..z
    BY <1>7
  <2>2. Cells(Archive, ix, z - ix + 1) = Cells(file, ix, z - ix + 1)
    BY <1>8, <2>1 DEF Cells
  <2> QED  BY <1>4, <1>10, <1>11, <2>2, RdbOperators DEF Rdb!Name, NulOf
<1>14. Rdb!IsInPlace(Archive, is) <=> Rdb!IsInPlace(file, Place(k))
  <2> PICK f : f = file[z + 1][2]
    OBVIOUS
  <2>1. Archive[z + 1][2] = f - (at - 1 - a) /\ f \in Int
    BY <1>5, <1>8
  <2>2. f - (at - 1 - a) = (a + 1) - 1 <=> f = at - 1
    BY <1>7, <2>1
  <2> QED  BY <1>4, <1>10, <1>11, <2>1, <2>2 DEF Rdb!IsInPlace, NulOf
<1>15. /\ Rdb!Contents(Archive, is) = Cells(mem, a, b - a)
       /\ Rdb!Contents(file, Place(k)) = Cells(file, at, n)
  <2>1. Rdb!Contents(Archive, is) = Cells(Archive, a + 1, b - a)
    <3>1. Archive[z + 2][2] = b - a
      BY <1>8
    <3> QED  BY <1>10, <1>11, <3>1, RdbOperators DEF Rdb!Contents
  <2>2. \A x \in 1 .. b - a : (a + 1) + x - 1 \in 1..size /\ ((a + 1) + x - 1) - 1 = a + x - 1
    BY <1>6, <1>7
  <2>3. \A x \in 1 .. b - a : Archive[(a + 1) + x - 1] = mem[a + x - 1]
    BY <1>6, <2>2
  <2>4. Cells(Archive, a + 1, b - a) = Cells(mem, a, b - a)
    BY <2>3 DEF Cells
  <2> QED  BY <1>4, <2>1, <2>4, RdbOperators DEF Rdb!Contents, NulOf, OldSize
<1>16. IsLeanOf(Cells(mem, a, b - a), Cells(file, at, n)) /\ (MayRecurse \/ b - a = n)
  BY <1>3, <1>4 DEF EntryDone
<1>17. MayRecurse \/ Cells(mem, a, b - a) = Cells(file, at, n)
  <2> SUFFICES ASSUME b - a = n PROVE Cells(mem, a, b - a) = Cells(file, at, n)
    BY <1>16
  <2>1. Len(Cells(mem, a, n)) = n /\ Len(Cells(file, at, n)) = n
    BY <1>5, CellsAre
  <2> QED  BY <1>16, <2>1 DEF IsLeanOf, Lean
<1>18. EntryRight(k)
  <2>1. Rdb!IsReadable(file, Place(k))
    BY <1>3 DEF IsThere
  <2> QED  BY <1>9, <1>12, <1>13, <1>14, <1>15, <1>16, <1>17, <2>1, RdbOperators DEF EntryRight
<1>19. NewPlace(k + 1).index = Place(k + 1).index /\ NewPlace(k + 1).at = outs[k + 1] + 1
  <2>1. k + 1 \in 1 .. Rdb!file_num /\ (k + 1) - 1 = k
    BY <1>1, <1>2
  <2>2. NewPlace(k + 1) = [index |-> z + 3, at |-> is.at + Archive[z + 2][2]]
    BY <1>1, <1>6, <1>9, <1>11, <1>12, <2>1, PlacesAre DEF NewPlace
  <2>3. is.at + Archive[z + 2][2] = b + 1
    <3>1. Archive[z + 2][2] = b - a
      BY <1>8
    <3>2. (a + 1) + (b - a) = b + 1
      BY <1>7
    <3> QED  BY <1>10, <3>1, <3>2
  <2> QED  BY <1>4, <1>5, <2>2, <2>3
<1> QED  BY <1>18, <1>19

LEMMA RestRight ==
  ASSUME RdbInv, format = "Rdb", Rdb!IsArchive, NEW j, NEW outs, EntriesDone(mem, j, outs),
         RestMoved(j, outs), size = outs[j] + (Len(file) - Place(j).at + 1),
         NewPlace(j).index = Place(j).index, NewPlace(j).at = outs[j] + 1
  PROVE  EntryRight(j) /\ ~ Rdb!IsReadable(Archive, NewPlace(j))
<1>1. ArchiveWritten(j, outs) /\ RdbFile /\ ~ IsThere(j)
  BY DEF ArchiveWritten, RdbInv, RestMoved
<1>2. PICK c, ix, at, o, L, b, is :
        /\ c = Rdb!content_offset /\ ix = Place(j).index /\ at = Place(j).at /\ o = outs[j]
        /\ L = Len(file) /\ b = Place(j) /\ is = NewPlace(j)
  OBVIOUS
<1>3. /\ Len(Archive) = size /\ size \in Nat /\ c \in Nat \ {0} /\ o \in Nat /\ c <= o /\ o <= size
      /\ \A x \in 1..size : Archive[x] = mem[x - 1]
      /\ Rdb!Content(Archive) = c /\ j \in 0 .. Rdb!file_num /\ Rdb!file_num \in Nat
  BY <1>1, <1>2, ArchiveIs
<1>4. PlaceFits(j) /\ \A x \in ix..c : mem[x - 1] = file[x]
  <2>1. j \in 0..j
    BY <1>3
  <2> QED  BY <1>2, <2>1 DEF EntriesDone
<1>5. ix \in Nat /\ ix >= 1 /\ at \in c + 1 .. L + 1 /\ L \in Nat /\ Rdb!Content(file) = c
  <2>1. ix \in Rdb!index_offset + 1 .. c + 1 /\ at \in c + 1 .. L + 1
    BY <1>2, <1>4 DEF PlaceFits
  <2>2. Rdb!index_offset \in Nat /\ L \in Nat /\ Rdb!Content(file) = c
    BY <1>1, <1>2 DEF RdbFile, Rdb!IsConsidered, Rdb!index_offset, Rdb!content_offset, Rdb!Content
  <2> QED  BY <2>1, <2>2
<1>6. /\ is.index = ix /\ is.at = o + 1 /\ b.index = ix /\ b.at = at
      /\ size = o + (L - at + 1)
  BY <1>2
<1>7. \A x \in ix..c : Archive[x] = file[x]
  <2>1. \A x \in ix..c : x \in 1..size
    BY <1>3, <1>5
  <2> QED  BY <1>3, <1>4, <2>1
<1>8. Rdb!Nuls(Archive, is) = Rdb!Nuls(file, b) /\ Rdb!Nul(Archive, is) = Rdb!Nul(file, b)
  <2>1. Rdb!Nuls(Archive, is) = Rdb!Nuls(file, b)
    BY <1>3, <1>5, <1>6, <1>7 DEF Rdb!Nuls
  <2> QED  BY <2>1 DEF Rdb!Nul
<1>9. Rdb!IsReadable(Archive, is) <=> Rdb!IsReadable(file, b)
  <2>1. CASE Rdb!Nuls(file, b) = {}
    BY <1>8, <2>1 DEF Rdb!IsReadable
  <2>2. CASE Rdb!Nuls(file, b) # {}
    <3>1. PICK z : z = Rdb!Nul(file, b) /\ z \in Rdb!Nuls(file, b)
      BY <1>5, <1>6, <2>2, NulIs
    <3>2. z \in ix..c
      BY <1>5, <1>6, <3>1 DEF Rdb!Nuls
    <3>3. z + 2 <= c => Archive[z + 2] = file[z + 2]
      <4>1. z + 2 <= c => z + 2 \in ix..c
        BY <1>3, <1>5, <3>2
      <4> QED  BY <1>7, <4>1
    <3>4. size - (o + 1) + 1 = L - at + 1
      BY SMTT(30), <1>3, <1>5, <1>6
    <3> QED  BY <1>2, <1>3, <1>5, <1>6, <1>8, <3>1, <3>3, <3>4 DEF Rdb!IsReadable
  <2> QED  BY <2>1, <2>2
<1>10. ~ Rdb!IsReadable(file, b)
  BY <1>1, <1>2 DEF IsThere
<1>11. Rdb!Rest(Archive, is) = Rdb!Rest(file, b)
  <2> PICK n : n = L - at + 1
    OBVIOUS
  <2>0. o \in Nat /\ at \in Nat \ {0} /\ at <= L + 1 /\ L \in Nat /\ size = o + (L - at + 1)
    <3>1. at \in c + 1 .. L + 1 /\ L \in Nat
      BY <1>5
    <3>2. c \in Nat /\ o \in Nat
      BY <1>3
    <3>3. size = o + (L - at + 1)
      BY <1>6
    <3> QED  BY <3>1, <3>2, <3>3
  <2>1. n \in Nat /\ size = o + n /\ size - (o + 1) + 1 = n /\ n = L - at + 1
    BY <2>0
  <2>2. Rdb!Rest(Archive, is) = Cells(Archive, o + 1, n) /\ Rdb!Rest(file, b) = Cells(file, at, n)
    BY <1>2, <1>3, <1>6, <2>1, RdbOperators DEF Rdb!Rest
  <2>3. ASSUME NEW x \in 1..n
        PROVE  Archive[(o + 1) + x - 1] = file[at + x - 1]
    <3> DEFINE y == (o + 1) + x - 1
               q == at + x - 1
    <3>1. y \in 1..size /\ y - 1 = o + (q - at) /\ q \in at..L
      BY <2>0, <2>1, <2>3
    <3> HIDE DEF y, q
    <3>2. mem[o + (q - at)] = file[q]
      BY <1>2, <3>1 DEF RestMoved
    <3>3. Archive[y] = mem[y - 1]
      BY <1>3, <3>1
    <3>4. Archive[y] = file[q]
      BY <3>1, <3>2, <3>3
    <3> QED  BY <3>4 DEF y, q
  <2> QED  BY <2>2, <2>3 DEF Cells
<1> QED  BY <1>2, <1>9, <1>10, <1>11 DEF EntryRight

LEMMA FilesRight ==
  ASSUME RdbInv, format = "Rdb", Rdb!IsArchive, NEW j, NEW outs, ArchiveWritten(j, outs)
  PROVE  \A k \in 0 .. Rdb!file_num - 1 : EntryRight(k)
<1> PICK N, c : N = Rdb!file_num /\ c = Rdb!content_offset
  OBVIOUS
<1>1. /\ N \in Nat /\ j \in 0..N /\ Archive[1][2] = N /\ Rdb!Content(Archive) = c
      /\ Archive[1] = file[1] /\ file[1][2] = N
  BY ArchiveIs DEF Rdb!file_num
<1>2. EntriesDone(mem, j, outs) /\ outs[0] = c
  BY DEF ArchiveWritten, EntriesDone
<1>3. NewPlace(0).index = Place(0).index /\ NewPlace(0).at = outs[0] + 1
  <2>1. NewPlace(0) = [index |-> Archive[1][3] + 1, at |-> Rdb!Content(Archive) + 1]
    BY <1>1, PlacesAre DEF NewPlace
  <2>2. Place(0) = [index |-> file[1][3] + 1, at |-> Rdb!Content(file) + 1]
    BY <1>1, PlacesAre DEF Place
  <2> QED  BY <1>1, <1>2, <2>1, <2>2
<1> DEFINE Same(k) == NewPlace(k).index = Place(k).index /\ NewPlace(k).at = outs[k] + 1
           T == {k \in 0..j : ~ Same(k)}
<1>4. T = {}
  <2> SUFFICES ASSUME T # {} PROVE FALSE
    OBVIOUS
  <2>1. PICK k \in T : \A y \in T : k <= y
    <3>1. T \in SUBSET Nat
      OBVIOUS
    <3> HIDE DEF T
    <3> QED  BY <3>1, LeastNat
  <2>2. k \in 0..j /\ ~ Same(k) /\ k # 0
    BY <1>3, <2>1
  <2>3. k - 1 \in 0..j /\ k - 1 \in 0 .. j - 1 /\ ~ (k <= k - 1) /\ (k - 1) + 1 = k
    BY <1>1, <2>2
  <2>4. Same(k - 1)
    <3>1. k - 1 \notin T
      <4> HIDE DEF T
      <4> QED  BY <2>1, <2>3
    <3> HIDE DEF Same
    <3> QED  BY <2>3, <3>1
  <2> PICK q : q = k - 1
    OBVIOUS
  <2>5. q \in 0 .. j - 1 /\ q + 1 = k /\ NewPlace(q).index = Place(q).index
        /\ NewPlace(q).at = outs[q] + 1
    BY <2>3, <2>4
  <2>6. NewPlace(q + 1).index = Place(q + 1).index /\ NewPlace(q + 1).at = outs[q + 1] + 1
    BY <2>5, DoneRight
  <2> QED  BY <2>2, <2>5, <2>6
<1>5. \A k \in 0..j : NewPlace(k).index = Place(k).index /\ NewPlace(k).at = outs[k] + 1
  BY <1>4
<1>6. ASSUME NEW k \in 0 .. j - 1
      PROVE  EntryRight(k)
  <2>1. k \in 0..j
    BY <1>1
  <2> QED  BY <1>5, <2>1, DoneRight
<1>7. CASE j = N
  BY <1>6, <1>7
<1>8. CASE RestMoved(j, outs) /\ size = outs[j] + (Len(file) - Place(j).at + 1)
  <2>1. j \in 0..j
    BY <1>1
  <2>2. EntryRight(j) /\ ~ Rdb!IsReadable(Archive, NewPlace(j)) /\ ~ IsThere(j)
    BY <1>2, <1>5, <1>8, <2>1, RestRight DEF RestMoved
  <2>3. \A k \in j..N : NewPlace(k) = NewPlace(j)
    BY <1>1, <2>2, PlacesStop DEF NewPlace
  <2>4. \A k \in j..N : Place(k) = Place(j)
    BY <1>1, <2>2, PlacesStop DEF Place, IsThere
  <2>5. ASSUME NEW k \in 0 .. N - 1
        PROVE  EntryRight(k)
    <3>1. CASE k \in 0 .. j - 1
      BY <1>6, <3>1
    <3>2. CASE k \notin 0 .. j - 1
      <4>1. k \in j..N
        BY <1>1, <3>2
      <4>2. NewPlace(k) = NewPlace(j) /\ Place(k) = Place(j)
        BY <2>3, <2>4, <4>1
      <4> QED  BY <2>2, <4>2 DEF EntryRight
    <3> QED  BY <3>1, <3>2
  <2> QED  BY <2>5
<1> QED  BY <1>7, <1>8 DEF ArchiveWritten

(* README.md:4, README.md:164, rdb.cpp:45-110: whatever archive            *)
(* LeanifyFile is given, and whatever its files become, the result lists   *)
(* the same names in the same order, each file is where its entry says if  *)
(* it was, and is the file that was there, leanified or not; what cannot   *)
(* be read is kept.                                                        *)
THEOREM ArchivesKeepFiles == Spec => []SameFiles
<1>1. RdbInv => SameFiles
  <2> SUFFICES ASSUME RdbInv, format = "Rdb" PROVE Rdb!SameFiles
    BY DEF SameFiles
  <2>1. CASE pc # "done"
    BY <2>1 DEF Rdb!SameFiles
  <2>0. Rdb!Cells(mem, Rdb!fp_w, size) = Archive
    BY RdbOperators DEF Archive
  <2>2. CASE pc = "done" /\ ~ Rdb!IsArchive /\ IsAsItWas
    <3>1. \A k \in 1 .. Len(file) : 0 + k - 1 = k - 1 /\ 1 + k - 1 = k
      BY DEF RdbInv, RdbFile
    <3>2. Archive = Cells(file, 1, Len(file))
      BY <2>2, <3>1 DEF Archive, Cells, IsAsItWas
    <3> QED  BY <2>0, <2>2, <3>2 DEF RdbInv, RdbFile, Rdb!SameFiles
  <2>3. ASSUME pc = "done", Rdb!IsArchive, NEW j, NEW outs, ArchiveWritten(j, outs)
        PROVE  Rdb!SameFiles
    <3>1. \A k \in 0 .. Rdb!file_num - 1 : EntryRight(k)
      BY <2>3, FilesRight
    <3> QED  BY <2>0, <2>3, <3>1 DEF Rdb!SameFiles, EntryRight, Place, NewPlace
  <2> QED  BY <2>1, <2>2, <2>3 DEF RdbInv
<1> QED  BY <1>1, RdbInvariance, PTL

LEMMA RdbContract == RdbInv /\ format = "Rdb" => InItsRegion /\ UnreadIntact
<1> SUFFICES ASSUME RdbInv, format = "Rdb" PROVE InItsRegion /\ UnreadIntact
  OBVIOUS
<1>1. InItsRegion
  <2>1. \A x \in DOMAIN Before : x \notin fp - fp .. fp + Len(file) - 1 => x = End
    BY DEF RdbInv, RdbFile, Before, End
  <2> QED  BY <2>1 DEF RdbInv, InItsRegion, KeepsToItsRegion
<1>2. UnreadIntact
  BY DEF RdbInv
<1> QED  BY <1>1, <1>2

-----------------------------------------------------------------------------
(* Wherever a tag is looked for in the film f there is a length: at the    *)
(* places S, which are those of the first tag and behind each other one.   *)
(* A tag with an alpha channel has the size of its image, and the code     *)
(* relies on FileAttributes that are not empty.                            *)
TagsAt(f, S) ==
  /\ 4 \in S
  /\ \A k \in S :
       LET is_long == f[k][3] = Swf!Long
           q == IF is_long THEN k + 2 ELSE k + 1
           n == IF is_long THEN f[k + 1][2] ELSE f[k][3]
       IN  k <= f[2][2] /\ q <= f[2][2] + 1 =>
             /\ n \in Nat /\ q + n \in S
             /\ f[k][2] \in {"jpeg3", "jpeg4"} /\ n >= 2 /\ q + n <= f[2][2] + 1
                  => f[q + 1][2] \in Nat
             /\ f[k][2] = "attributes" => n >= 1

HasTags(f) ==
  Len(f) >= 2 =>
    /\ f[2][2] \in Nat
    /\ f[2][2] <= Len(f) => \E S \in SUBSET Nat : TagsAt(f, S)

FilmsAssumption ==
  \A c \in Calls : c[1][1][1] = "swf" /\ c[1][1][2] = "F" => HasTags(c[1])

(* What the loop over the tags of a film that is not compressed knows: it  *)
(* is at a tag, or at the end, and did not save more than it has read.     *)
InTags ==
  /\ file[2][2] \in 3 .. Len(file) /\ in_len = file[2][2] - 2
  /\ p_read \in fp + 3 .. fp + file[2][2]
  /\ tag_size_leanified \in 0 .. p_read - (fp + 3)
  /\ \E S \in SUBSET Nat : TagsAt(file, S) /\ p_read - fp + 1 \in S

SwfInv ==
  format = "Swf" =>
    /\ fp \in Nat /\ Len(file) \in Nat \ {0} /\ pc \in {"start", "tags", "pack", "done"}
    /\ Swf!in_place => HasTags(file)
    /\ pc # "done" => size = Len(file)
    /\ pc = "start" => mem = Before /\ tag_size_leanified = 0
    /\ pc \in {"tags", "pack"} => Swf!IsFlash
    /\ pc # "done" /\ ~ Swf!in_place => mem = Before
    /\ Swf!in_place /\ pc = "tags" => InTags
    /\ Swf!in_place /\ pc = "pack" => in_len \in Nat /\ in_len + 2 <= Len(file)
    /\ DOMAIN mem = 0 .. End /\ size \in 0 .. Len(file) /\ mem[End] = Before[End]
    /\ UnreadIntact

(* What Swf says of the buffer is what LeanifyFile says of it.             *)
LEMMA SwfOperators ==
  /\ \A m, d, s, n : Swf!MemMove(m, d, s, n) = MemMove(m, d, s, n)
  /\ \A m, p, s : Swf!Put(m, p, s) = Put(m, p, s)
  /\ \A m, p, n : Swf!Cells(m, p, n) = Cells(m, p, n)
  /\ \A m, p, n, c, r : Swf!FileLeanified(m, p, n, c, r) = FileLeanified(m, p, n, c, r)
  /\ \A m, p, n, c, r : Swf!ZlibRecompressed(m, p, n, c, r) = ZlibRecompressed(m, p, n, c, r)
  /\ \A m, p, n : Swf!ZlibSizes(m, p, n) = ZlibSizes(m, p, n)
  /\ Swf!fp_w = 0 /\ Swf!fp = fp /\ Swf!End = End
BY SMTT(30) DEF Swf!MemMove, MemMove, Swf!Put, Put, Swf!Cells, Cells, Swf!FileLeanified, FileLeanified,
       Swf!Leanified, Leanified, Swf!Lean, Lean, Swf!Zlib, Zlib, Swf!ZlibRecompressed,
       ZlibRecompressed, Swf!ZlibSizes, ZlibSizes, Swf!fp_w, Swf!fp, fp, Swf!End, End

(* A film is considered as FilmsAssumption says, and nothing is read of    *)
(* it yet.                                                                 *)
LEMMA SwfInit == ASSUME FilmsAssumption, Init, format = "Swf" PROVE SwfInv
<1>1. PICK c \in Calls : file = c[1] /\ setting = c[2]
  BY DEF Init, Called
<1>2. file[1][1] = "swf"
  <2>1. GetType = "Swf"
    BY DEF Init, Made
  <2>2. file[1][1] \in DOMAIN Magic /\ Magic[file[1][1]] = "Swf"
    BY <2>1 DEF GetType
  <2> QED  BY <2>2 DEF Magic
<1>3. Swf!in_place => HasTags(file)
  BY <1>1, <1>2 DEF FilmsAssumption, Swf!in_place, Swf!compression
<1>4. tag_size_leanified = 0
  BY DEF Init, Swf!Start
<1>5. DOMAIN mem = 0 .. End
  BY CallMade DEF Before
<1>6. UnreadIntact /\ size \in 0 .. Len(file) /\ mem[End] = Before[End]
  BY CallMade DEF UnreadIntact
<1> QED  BY <1>3, <1>4, <1>5, <1>6, CallMade DEF SwfInv

(* The buffer m2 is as m was from cell b to its end at h.                  *)
SameFrom(m2, m, h, b) == DOMAIN m2 = 0..h /\ \A x \in b..h : m2[x] = m[x]

(* That is so over several writes.                                         *)
LEMMA SameFromSame ==
  ASSUME NEW m1, NEW m2, NEW m3, NEW h, NEW b, SameFrom(m1, m2, h, b), SameFrom(m2, m3, h, b)
  PROVE  SameFrom(m1, m3, h, b)
BY DEF SameFrom

(* It is so of each of the writes when they end in front of b: of what     *)
(* is moved, ...                                                           *)
LEMMA MoveInFront ==
  ASSUME NEW m, NEW h \in Nat, DOMAIN m = 0..h, NEW d \in Int, NEW s, NEW n \in Nat,
         NEW b \in Nat, d + n <= b
  PROVE  SameFrom(MemMove(m, d, s, n), m, h, b)
<1>1. ASSUME NEW x \in b..h
      PROVE  x \in 0..h /\ x \notin d .. d + n - 1
  OBVIOUS
<1> QED  BY <1>1 DEF MemMove, SameFrom

(* ... of what is written, ...                                             *)
LEMMA PutInFront ==
  ASSUME NEW m, NEW h \in Nat, DOMAIN m = 0..h, NEW d \in Int, NEW s, NEW n \in Nat, Len(s) = n,
         NEW b \in Nat, d + n <= b
  PROVE  SameFrom(Put(m, d, s), m, h, b)
<1>1. ASSUME NEW x \in b..h
      PROVE  x \in 0..h /\ x \notin d .. d + n - 1
  OBVIOUS
<1> QED  BY <1>1 DEF Put, SameFrom

(* ... of a file that is leanified, ...                                    *)
LEMMA LeanInFront ==
  ASSUME NEW m, NEW h \in Nat, DOMAIN m = 0..h, NEW p \in Nat, NEW n \in Nat, NEW c \in Nat,
         NEW r, NEW b \in Nat, p + n <= b
  PROVE  SameFrom(FileLeanified(m, p, n, c, r), m, h, b)
<1>1. ASSUME NEW x \in b..h
      PROVE  x \in 0..h /\ x \notin p - c .. p + n - 1
  OBVIOUS
<1> QED  BY <1>1 DEF FileLeanified, Leanified, SameFrom

(* ... and of data that are compressed again.                              *)
LEMMA ZlibInFront ==
  ASSUME NEW m, NEW h \in Nat, DOMAIN m = 0..h, NEW p \in Nat, NEW n \in Nat, NEW c \in Nat,
         NEW r \in 0..n, NEW b \in Nat, p + n <= b
  PROVE  SameFrom(ZlibRecompressed(m, p, n, c, r), m, h, b)
<1>1. PICK l \in 0..n : Len(Lean(Cells(m, p, n), r)) = l
  <2>1. CASE n = 0
    <3>1. Cells(m, p, n) = <<>>
      BY <2>1 DEF Cells
    <3>2. Lean(<<>>, r) = <<>>
      BY DEF Lean
    <3> QED  BY <3>1, <3>2
  <2>2. CASE n # 0
    BY <2>2, LeanLength
  <2> QED  BY <2>1, <2>2
<1>2. PICK d \in Int : d = p - c
  OBVIOUS
<1>3. d + l <= b
  BY <1>2
<1> QED  BY <1>1, <1>2, <1>3, PutInFront DEF ZlibRecompressed

-----------------------------------------------------------------------------
(* At a tag of a film that is not compressed.                              *)
AtTag ==
  /\ SwfInv /\ format = "Swf" /\ Swf!in_place /\ pc = "tags" /\ Swf!HeaderIsWhole

(* What the header of the tag says, and where it ends.                     *)
LEMMA TagHere ==
  ASSUME AtTag
  PROVE  /\ p_read \in Nat /\ fp \in Nat /\ End \in Nat /\ DOMAIN mem = 0 .. End
         /\ Swf!tag_header_length \in 1..2 /\ Swf!contents = p_read + Swf!tag_header_length
         /\ Swf!contents <= Swf!in_end /\ Swf!in_end = fp + file[2][2] /\ Swf!in_end <= End
         /\ file[2][2] \in 3 .. Len(file)
         /\ Swf!tag_length \in Nat
         /\ tag_size_leanified \in 0 .. p_read - (fp + 3)
         /\ \E S \in SUBSET Nat : /\ TagsAt(file, S)
                                  /\ (Swf!contents + Swf!tag_length) - fp + 1 \in S
         /\ Swf!TagIsWhole /\ Swf!tag_type \in {"jpeg3", "jpeg4"} /\ Swf!tag_length >= 2
              => Swf!img_size \in Nat
         /\ Swf!tag_type = "attributes" => Swf!tag_length >= 1
<1>1. /\ fp \in Nat /\ Len(file) \in Nat /\ End = fp + Len(file) /\ DOMAIN mem = 0 .. End
      /\ InTags /\ UnreadIntact /\ Swf!work = mem /\ Swf!in_buffer = fp + 2
  BY SwfOperators DEF AtTag, SwfInv, End, Swf!work, Swf!in_buffer
<1>2. PICK S \in SUBSET Nat : TagsAt(file, S) /\ p_read - fp + 1 \in S
  BY <1>1 DEF InTags
<1>3. PICK n, p, k, h, f, w : /\ n = file[2][2] /\ p = p_read /\ k = p_read - fp + 1
                              /\ h = tag_size_leanified /\ f = fp /\ w = Len(file)
  OBVIOUS
<1>4. /\ n \in 3..w /\ in_len = n - 2 /\ p \in f + 3 .. f + n /\ h \in 0 .. p - (f + 3)
      /\ f \in Nat /\ w \in Nat /\ k = p - f + 1 /\ End = f + w
  BY <1>1, <1>3 DEF InTags
<1>5. /\ Swf!in_end = f + n /\ f + n <= End /\ End \in Nat /\ p \in Nat /\ k \in Nat
      /\ n \in Nat
  <2>1. Swf!in_end = (f + 2) + in_len
    BY <1>1, <1>3 DEF Swf!in_end
  <2> QED  BY <1>4, <2>1
<1>6. ASSUME NEW x \in Nat, x >= p, x < f + n
      PROVE  mem[x] = file[x - f + 1]
  <2>1. x \in p .. End /\ x \in 0 .. End /\ x \in f .. End - 1
    BY <1>4, <1>5, <1>6
  <2>2. mem[x] = Before[x]
    BY <1>1, <1>3, <2>1 DEF UnreadIntact, AtTag
  <2> QED  BY <1>3, <2>1, <2>2 DEF Before
<1>7. PICK q, l, is_long : /\ is_long = (file[k][3] = Swf!Long)
                           /\ q = IF is_long THEN k + 2 ELSE k + 1
                           /\ l = IF is_long THEN file[k + 1][2] ELSE file[k][3]
  OBVIOUS
<1>8. p < f + n /\ Swf!isLong = is_long /\ mem[p] = file[k]
  <2>1. p < f + n
    BY <1>3, <1>5 DEF AtTag, Swf!HeaderIsWhole
  <2>2. mem[p] = file[k]
    BY <1>4, <1>5, <1>6, <2>1
  <2> QED  BY <1>1, <1>3, <1>7, <2>1, <2>2 DEF Swf!isLong
<1>9. is_long => p + 1 < f + n /\ mem[p + 1] = file[k + 1]
  <2> SUFFICES ASSUME is_long PROVE p + 1 < f + n /\ mem[p + 1] = file[k + 1]
    OBVIOUS
  <2>1. p + 1 < f + n
    BY <1>3, <1>5, <1>8 DEF AtTag, Swf!HeaderIsWhole
  <2>2. p + 1 \in Nat /\ p + 1 >= p /\ (p + 1) - f + 1 = k + 1
    BY <1>4, <1>5
  <2>3. mem[p + 1] = file[(p + 1) - f + 1]
    BY <1>6, <2>1, <2>2
  <2> QED  BY <2>1, <2>2, <2>3
<1>10. Swf!tag_length = l
  BY <1>1, <1>3, <1>7, <1>8, <1>9 DEF Swf!tag_length
<1>11. /\ Swf!tag_header_length \in 1..2 /\ Swf!contents = p + Swf!tag_header_length
       /\ Swf!contents = f + q - 1 /\ Swf!contents <= f + n
  <2>1. CASE is_long
    <3>1. Swf!tag_header_length = 2 /\ q = k + 2
      BY <1>7, <1>8, <2>1 DEF Swf!tag_header_length
    <3>2. Swf!contents = p + 2
      BY <1>3, <3>1 DEF Swf!contents
    <3> QED  BY <1>4, <1>5, <1>9, <2>1, <3>1, <3>2
  <2>2. CASE ~ is_long
    <3>1. Swf!tag_header_length = 1 /\ q = k + 1
      BY <1>7, <1>8, <2>2 DEF Swf!tag_header_length
    <3>2. Swf!contents = p + 1
      BY <1>3, <3>1 DEF Swf!contents
    <3> QED  BY <1>4, <1>5, <1>8, <3>1, <3>2
  <2> QED  BY <2>1, <2>2
<1>12. /\ l \in Nat /\ q + l \in S
       /\ file[k][2] \in {"jpeg3", "jpeg4"} /\ l >= 2 /\ q + l <= n + 1
            => file[q + 1][2] \in Nat
       /\ file[k][2] = "attributes" => l >= 1
  <2>1. k \in S /\ k <= n /\ q <= n + 1
    <3>1. k <= n
      BY <1>4, <1>5, <1>8
    <3>2. q \in Nat
      BY <1>5, <1>7
    <3>3. q <= n + 1
      BY <1>4, <1>11, <3>2
    <3> QED  BY <1>2, <1>3, <3>1, <3>3
  <2> QED  BY <1>2, <1>3, <1>7, <2>1 DEF TagsAt
<1>13. (Swf!contents + Swf!tag_length) - f + 1 = q + l
  <2>1. q \in Nat
    BY <1>5, <1>7
  <2> QED  BY <1>4, <1>10, <1>11, <1>12, <2>1
<1>14. ASSUME Swf!TagIsWhole, Swf!tag_type \in {"jpeg3", "jpeg4"}, l >= 2
       PROVE  Swf!img_size \in Nat
  <2>1. PICK c : c = Swf!contents
    OBVIOUS
  <2>2. c + l <= f + n
    BY <1>5, <1>10, <1>14, <2>1 DEF Swf!TagIsWhole
  <2>3. q + l <= n + 1
    <3>1. c = f + q - 1 /\ q \in Nat
      BY <1>5, <1>7, <1>11, <2>1
    <3> QED  BY <1>4, <1>5, <1>12, <2>2, <3>1
  <2>4. file[q + 1][2] \in Nat
    BY <1>1, <1>3, <1>8, <1>12, <1>14, <2>3 DEF Swf!tag_type
  <2>5. c + 1 \in Nat /\ c + 1 >= p /\ c + 1 < f + n /\ (c + 1) - f + 1 = q + 1
    <3>1. c = f + q - 1 /\ q \in Nat /\ c >= p
      <4>1. PICK d \in 1..2 : c = p + d
        BY <1>11, <2>1
      <4>2. q \in Nat
        BY <1>5, <1>7
      <4> QED  BY <1>5, <1>11, <2>1, <4>1, <4>2
    <3> QED  BY <1>4, <1>5, <1>12, <1>14, <2>2, <3>1
  <2>6. mem[c + 1] = file[q + 1]
    <3>1. mem[c + 1] = file[(c + 1) - f + 1]
      BY <1>6, <2>5
    <3> QED  BY <2>5, <3>1
  <2> QED  BY <1>1, <2>1, <2>4, <2>6 DEF Swf!img_size
<1>15. \E T \in SUBSET Nat : /\ TagsAt(file, T)
                              /\ (Swf!contents + Swf!tag_length) - fp + 1 \in T
  BY <1>2, <1>3, <1>12, <1>13
<1>16. Swf!tag_type = "attributes" => l >= 1
  BY <1>1, <1>3, <1>8, <1>12 DEF Swf!tag_type
<1>17. /\ p_read \in Nat /\ fp \in Nat /\ End \in Nat /\ DOMAIN mem = 0 .. End
       /\ file[2][2] \in 3 .. Len(file) /\ tag_size_leanified \in 0 .. p_read - (fp + 3)
  BY <1>1, <1>3, <1>4, <1>5
<1>18. /\ Swf!tag_header_length \in 1..2 /\ Swf!contents = p_read + Swf!tag_header_length
       /\ Swf!contents <= Swf!in_end /\ Swf!in_end = fp + file[2][2] /\ Swf!in_end <= End
  BY <1>3, <1>5, <1>11
<1>19. Swf!tag_length \in Nat
  BY <1>10, <1>12
<1>20. Swf!TagIsWhole /\ Swf!tag_type \in {"jpeg3", "jpeg4"} /\ Swf!tag_length >= 2
         => Swf!img_size \in Nat
  BY <1>10, <1>14
<1>21. Swf!tag_type = "attributes" => Swf!tag_length >= 1
  BY <1>10, <1>16
<1> QED  BY <1>15, <1>17, <1>18, <1>19, <1>20, <1>21

(* The file and what is in the buffer beyond it stay as they are.          *)
LEMMA FilmKept ==
  ASSUME UNCHANGED <<file, setting>>
  PROVE  /\ UNCHANGED <<fp, End, Before, Swf!in_place, Swf!IsFlash, Swf!in_buffer>>
         /\ \A S : TagsAt(file, S)' <=> TagsAt(file, S)
         /\ HasTags(file)' <=> HasTags(file)
<1>1. \A S : TagsAt(file, S)' <=> TagsAt(file, S)
  BY DEF TagsAt, Swf!Long
<1>2. HasTags(file)' <=> HasTags(file)
  BY <1>1 DEF HasTags
<1> QED  BY <1>1, <1>2
         DEF fp, End, Before, Swf!in_place, Swf!compression, Swf!IsFlash, Swf!Body,
             Swf!in_buffer, Swf!fp, Swf!Zlib, Swf!Lzma

(* A tag of which nothing is written behind its end is done.               *)
LEMMA TagDone ==
  ASSUME AtTag, UNCHANGED format, Swf!TagIsWhole, NEW m2, NEW n, Swf!NextTag(m2, n),
         n \in 0 .. Swf!tag_header_length + Swf!tag_length,
         NEW b, b = Swf!contents + Swf!tag_length, SameFrom(m2, mem, End, b)
  PROVE  SwfInv'
<1>1. /\ mem' = m2 /\ p_read' = b /\ tag_size_leanified' = tag_size_leanified + n
      /\ UNCHANGED <<file, setting, pc, size, in_len>>
  BY DEF AtTag, Swf!NextTag, Swf!Work, Swf!call, Swf!saved
<1>2. /\ UNCHANGED <<fp, End, Before, Swf!in_place, Swf!IsFlash>>
      /\ \A S : TagsAt(file, S)' <=> TagsAt(file, S)
      /\ HasTags(file)' <=> HasTags(file)
  BY <1>1, FilmKept
<1>3. PICK p, d, l, e, h, f, w :
        /\ p = p_read /\ d = Swf!tag_header_length /\ l = Swf!tag_length /\ e = Swf!in_end
        /\ h = tag_size_leanified /\ f = fp /\ w = file[2][2]
  OBVIOUS
<1>4. /\ p \in Nat /\ d \in 1..2 /\ l \in Nat /\ b = p + d + l /\ b <= e /\ e = f + w
      /\ h \in 0 .. p - (f + 3) /\ n \in 0 .. d + l /\ f \in Nat /\ e <= End
  <2>1. Swf!contents = p + d /\ b = Swf!contents + l
    BY <1>3, TagHere
  <2>2. p \in Nat /\ d \in 1..2 /\ l \in Nat
    BY <1>3, TagHere
  <2>3. b = p + d + l
    BY <2>1, <2>2
  <2>4. b <= e
    BY <1>3, <2>1 DEF Swf!TagIsWhole
  <2> QED  BY <1>3, <2>2, <2>3, <2>4, TagHere
<1>5. b \in f + 3 .. f + w /\ h + n \in 0 .. b - (f + 3) /\ w \in 3 .. Len(file)
  <2>1. w \in 3 .. Len(file) /\ Len(file) \in Nat
    BY <1>3, TagHere DEF AtTag, SwfInv
  <2>2. w \in Nat
    BY <2>1
  <2> QED  BY <1>4, <2>1, <2>2
<1>6. InTags'
  <2>1. \E S \in SUBSET Nat : TagsAt(file, S) /\ b - f + 1 \in S
    BY <1>3, TagHere
  <2>2. file[2][2] \in 3 .. Len(file) /\ in_len = file[2][2] - 2
    BY TagHere DEF AtTag, SwfInv, InTags
  <2> QED  BY <1>1, <1>2, <1>3, <1>5, <2>1, <2>2 DEF InTags
<1>7. UnreadIntact' /\ DOMAIN mem' = 0 .. End /\ mem'[End] = Before[End]
  <2>1. ASSUME NEW x \in b .. End
        PROVE  m2[x] = Before[x]
    <3>1. x \in p_read .. End
      <4>1. p <= b /\ b \in Nat
        BY <1>4
      <4>2. End \in Int
        BY TagHere
      <4> QED  BY <1>3, <1>4, <4>1, <4>2
    <3>2. mem[x] = Before[x]
      BY <3>1 DEF AtTag, SwfInv, UnreadIntact
    <3> QED  BY <3>2 DEF SameFrom
  <2>2. End \in b .. End
    <3>1. End \in Nat
      BY TagHere
    <3>2. b \in Nat /\ b <= End
      BY <1>4, <3>1
    <3> QED  BY <3>1, <3>2
  <2> QED  BY <1>1, <1>2, <2>1, <2>2 DEF UnreadIntact, SameFrom
<1>8. /\ fp' \in Nat /\ Len(file') \in Nat \ {0} /\ pc' = "tags" /\ Swf!in_place'
      /\ HasTags(file)' /\ size' = Len(file') /\ Swf!IsFlash'
  BY <1>1, <1>2 DEF AtTag, SwfInv
<1> QED  BY <1>1, <1>2, <1>6, <1>7, <1>8 DEF SwfInv

(* A tag of a film that was unpacked: the file is as it was.               *)
LEMMA UnpackedStep ==
  ASSUME SwfInv, format = "Swf", UNCHANGED <<format, file, setting, mem, size>>, ~ Swf!in_place,
         pc = "tags", pc' \in {"tags", "pack"}
  PROVE  SwfInv'
<1>1. UNCHANGED <<fp, End, Before, Swf!in_place, Swf!IsFlash>> /\ (HasTags(file)' <=> HasTags(file))
  BY FilmKept
<1>2. mem = Before /\ DOMAIN mem = 0 .. End /\ size \in 0 .. Len(file) /\ size = Len(file)
  BY DEF SwfInv
<1>3. UnreadIntact'
  BY <1>1, <1>2 DEF UnreadIntact
<1> QED  BY <1>1, <1>2, <1>3 DEF SwfInv

(* So a tag of such a film is done, or the last one was.                   *)
LEMMA UnpackedTag ==
  ASSUME SwfInv, format = "Swf", UNCHANGED format, ~ Swf!in_place, pc = "tags",
         NEW m, NEW n, Swf!NextTag(m, n) \/ Swf!EndOfTags(m, n)
  PROVE  SwfInv'
<1>1. UNCHANGED <<file, setting, mem, size>> /\ pc' \in {"tags", "pack"}
  BY DEF Swf!NextTag, Swf!EndOfTags, Swf!Work, Swf!call
<1> QED  BY <1>1, UnpackedStep

(* A whole tag that ends at b.                                             *)
AtWhole(b) == AtTag /\ Swf!TagIsWhole /\ b = Swf!contents + Swf!tag_length

(* The numbers of a whole tag: where it and its contents are, and what the *)
(* tags in front of it saved.                                              *)
TagNumbers(p, c, d, l, h, b) ==
  /\ p = p_read /\ c = Swf!contents /\ d = Swf!tag_header_length /\ l = Swf!tag_length
  /\ h = tag_size_leanified
  /\ p \in Nat /\ d \in 1..2 /\ l \in Nat /\ h \in 0..p /\ c = p + d /\ b = c + l /\ b <= End
  /\ End \in Nat

(* The numbers the steps of a tag compute with: b is where it ends.        *)
LEMMA NumbersOfTag ==
  ASSUME NEW b, AtWhole(b)
  PROVE  \E p, c, d, l, h : TagNumbers(p, c, d, l, h, b)
<1>1. PICK p, c, d, l, h, f : /\ p = p_read /\ c = Swf!contents /\ d = Swf!tag_header_length
                              /\ l = Swf!tag_length /\ h = tag_size_leanified /\ f = fp
  OBVIOUS
<1>2. /\ p \in Nat /\ f \in Nat /\ d \in 1..2 /\ c = p + d /\ l \in Nat /\ h \in 0 .. p - (f + 3)
      /\ Swf!in_end <= End /\ End \in Nat
  BY <1>1, TagHere DEF AtWhole
<1>3. b = c + l /\ b <= Swf!in_end
  BY <1>1 DEF AtWhole, Swf!TagIsWhole
<1>4. Swf!in_end \in Int
  <2>1. \E w \in Nat : Swf!in_end = fp + w
    <3>1. PICK w : w = file[2][2]
      OBVIOUS
    <3>2. w \in 3 .. Len(file) /\ Swf!in_end = fp + w
      BY <3>1, TagHere DEF AtWhole
    <3>3. Len(file) \in Nat
      BY DEF AtWhole, AtTag, SwfInv
    <3>4. w \in Nat
      BY <3>2, <3>3
    <3> QED  BY <3>2, <3>4
  <2> QED  BY <1>1, <1>2, <2>1
<1>5. h \in 0..p /\ b <= End
  BY <1>2, <1>3, <1>4
<1> QED  BY <1>1, <1>2, <1>3, <1>5 DEF TagNumbers

(* What is the same from b on is the same from anywhere behind b.          *)
LEMMA SameFromLater ==
  ASSUME NEW m1, NEW m2, NEW h \in Nat, NEW a \in Nat, NEW b \in Nat, a <= b,
         SameFrom(m1, m2, h, a)
  PROVE  SameFrom(m1, m2, h, b)
<1>1. \A x \in b..h : x \in a..h
  OBVIOUS
<1> QED  BY <1>1 DEF SameFrom

(* In place the tags are worked on in the buffer itself.                   *)
LEMMA InPlace == ASSUME AtTag PROVE Swf!work = mem /\ Swf!saved = tag_size_leanified
BY DEF AtTag, Swf!work, Swf!saved

(* The header of the tag is moved in front of its contents.                *)
LEMMA HeaderInFront == ASSUME AtTag PROVE SameFrom(Swf!HeaderMoved, mem, End, Swf!contents)
<1>1. PICK p, c, d, h : /\ p = p_read /\ c = Swf!contents /\ d = Swf!tag_header_length
                        /\ h = tag_size_leanified
  OBVIOUS
<1>2. p \in Nat /\ d \in 1..2 /\ c = p + d /\ End \in Nat /\ DOMAIN mem = 0 .. End
  BY <1>1, TagHere
<1>3. h \in Nat
  BY <1>1, TagHere
<1>4. PICK x : x = p - h
  OBVIOUS
<1>5. x \in Int /\ d \in Nat /\ c \in Nat /\ x + d <= c
  BY <1>2, <1>3, <1>4
<1>6. Swf!HeaderMoved = MemMove(mem, x, p, d)
  BY <1>1, <1>4, InPlace, SwfOperators DEF Swf!HeaderMoved
<1>7. SameFrom(MemMove(mem, x, p, d), mem, End, c)
  BY <1>2, <1>5, MoveInFront
<1> QED  BY <1>1, <1>6, <1>7

(* What is done to a whole tag writes nothing behind it.                   *)
LEMMA TagInFront ==
  ASSUME NEW b, AtWhole(b), NEW m, SameFrom(m, mem, End, b)
  PROVE  /\ \A n : SameFrom(Swf!UpdateTagLength(m, n), mem, End, b)
         /\ Swf!tag_length >= 1 => SameFrom(Swf!WithoutMetadata(m), mem, End, b)
<1>1. PICK p, c, d, l, h : TagNumbers(p, c, d, l, h, b)
  BY NumbersOfTag
<1>2. /\ p \in Nat /\ d \in 1..2 /\ l \in Nat /\ h \in 0..p /\ c = p + d /\ b = c + l
      /\ End \in Nat /\ b \in Nat /\ DOMAIN m = 0 .. End
  BY <1>1 DEF TagNumbers, SameFrom
<1>3. ASSUME NEW n
      PROVE  SameFrom(Swf!UpdateTagLength(m, n), mem, End, b)
  <2>0. PICK x, t, u, v : /\ x = c - h - 1 /\ u = <<"length", n>> /\ v = <<"tag", Swf!tag_type, n>>
                          /\ t = IF Swf!isLong THEN <<u>> ELSE <<v>>
    OBVIOUS
  <2>1. Len(t) = 1
    <3>1. Len(<<u>>) = 1 /\ Len(<<v>>) = 1
      OBVIOUS
    <3> QED  BY <2>0, <3>1
  <2>2. x \in Int /\ x + 1 <= b
    BY <1>2, <2>0
  <2>3. Swf!UpdateTagLength(m, n) = Put(m, x, t)
    BY <1>1, <2>0, InPlace, SwfOperators DEF Swf!UpdateTagLength, TagNumbers, AtWhole
  <2>4. SameFrom(Put(m, x, t), m, End, b)
    BY <1>2, <2>1, <2>2, PutInFront
  <2> QED  BY <2>3, <2>4, SameFromSame
<1>4. ASSUME Swf!tag_length >= 1
      PROVE  SameFrom(Swf!WithoutMetadata(m), mem, End, b)
  <2>1. PICK t : Len(t) = 1 /\ t = <<<<"flags", FALSE>>>>
    OBVIOUS
  <2>2. c \in Int /\ c + 1 <= b
    <3>1. l >= 1
      BY <1>1, <1>4 DEF TagNumbers
    <3> QED  BY <1>2, <3>1
  <2>3. Swf!WithoutMetadata(m) = Put(m, c, t)
    BY <1>1, <2>1, SwfOperators DEF Swf!WithoutMetadata, TagNumbers
  <2>4. SameFrom(Put(m, c, t), m, End, b)
    BY <1>2, <2>1, <2>2, PutInFront
  <2> QED  BY <2>3, <2>4, SameFromSame
<1> QED  BY <1>3, <1>4

(* What is moved of the contents stays in front of their end, ...          *)
LEMMA ContentsInFront ==
  ASSUME NEW b, AtWhole(b), NEW m, SameFrom(m, mem, End, b), NEW n \in Nat, n <= Swf!tag_length
  PROVE  SameFrom(MemMove(m, Swf!contents - tag_size_leanified, Swf!contents, n), mem, End, b)
<1>1. PICK p, c, d, l, h : TagNumbers(p, c, d, l, h, b)
  BY NumbersOfTag
<1>2. /\ p \in Nat /\ d \in 1..2 /\ l \in Nat /\ h \in 0..p /\ c = p + d /\ b = c + l
      /\ End \in Nat /\ b \in Nat /\ DOMAIN m = 0 .. End /\ n <= l
  BY <1>1 DEF TagNumbers, SameFrom
<1>3. PICK x : x = c - h
  OBVIOUS
<1>4. x \in Int /\ x + n <= b
  BY <1>2, <1>3
<1>5. SameFrom(MemMove(m, x, c, n), m, End, b)
  BY <1>2, <1>4, MoveInFront
<1>6. Swf!contents = c /\ tag_size_leanified = h
  BY <1>1 DEF TagNumbers
<1> QED  BY <1>3, <1>5, <1>6, SameFromSame

(* ... with the header in front of it as well, ...                         *)
LEMMA MovedInFront ==
  ASSUME NEW b, AtWhole(b)
  PROVE  /\ SameFrom(Swf!HeaderMoved, mem, End, b)
         /\ Swf!tag_length >= 1 => SameFrom(Swf!Moved(1), mem, End, b)
<1>1. SameFrom(Swf!HeaderMoved, mem, End, b)
  <2>1. PICK p, c, d, l, h : TagNumbers(p, c, d, l, h, b)
    BY NumbersOfTag
  <2>2. c \in Nat /\ b \in Nat /\ c <= b /\ End \in Nat
    BY <2>1 DEF TagNumbers
  <2>3. SameFrom(Swf!HeaderMoved, mem, End, c)
    BY <2>1, HeaderInFront DEF AtWhole, TagNumbers
  <2> QED  BY <2>2, <2>3, SameFromLater
<1>2. ASSUME Swf!tag_length >= 1
      PROVE  SameFrom(Swf!Moved(1), mem, End, b)
  <2>1. SameFrom(MemMove(Swf!HeaderMoved, Swf!contents - tag_size_leanified, Swf!contents, 1),
                 mem, End, b)
    BY <1>1, <1>2, ContentsInFront
  <2> QED  BY <2>1, InPlace, SwfOperators DEF Swf!Moved, AtWhole
<1> QED  BY <1>1, <1>2

(* A file or a stream in a tag, of n cells d cells behind its contents.    *)
LEMMA PartInFront ==
  ASSUME NEW b, AtWhole(b), NEW m, SameFrom(m, mem, End, b), NEW d \in Nat, NEW n \in Nat,
         d + n <= Swf!tag_length, NEW p, p = Swf!contents + d, NEW c \in Nat
  PROVE  /\ \A r : SameFrom(FileLeanified(m, p, n, c, r), mem, End, b)
         /\ \A r \in 0..n : SameFrom(ZlibRecompressed(m, p, n, c, r), mem, End, b)
<1>1. PICK q, k, e, l, h : TagNumbers(q, k, e, l, h, b)
  BY NumbersOfTag
<1>2. /\ q \in Nat /\ e \in 1..2 /\ l \in Nat /\ k = q + e /\ b = k + l
      /\ End \in Nat /\ b \in Nat /\ DOMAIN m = 0 .. End /\ d + n <= l /\ p = k + d
  BY <1>1 DEF TagNumbers, SameFrom
<1>3. p \in Nat /\ p + n <= b
  BY <1>2
<1>4. ASSUME NEW r
      PROVE  SameFrom(FileLeanified(m, p, n, c, r), mem, End, b)
  BY <1>2, <1>3, LeanInFront, SameFromSame
<1>5. ASSUME NEW r \in 0..n
      PROVE  SameFrom(ZlibRecompressed(m, p, n, c, r), mem, End, b)
  <2>1. SameFrom(ZlibRecompressed(m, p, n, c, r), m, End, b)
    BY <1>2, <1>3, ZlibInFront
  <2> QED  BY <2>1, SameFromSame
<1> QED  BY <1>4, <1>5

-----------------------------------------------------------------------------
(* The steps.                                                              *)
LEMMA ShortTagStep ==
  ASSUME SwfInv, format = "Swf", UNCHANGED format, Swf!ShortTag
  PROVE  SwfInv'
<1>1. pc = "tags" /\ Swf!TagIsWhole /\ Swf!NextTag(Swf!HeaderMoved, 0)
  BY DEF Swf!ShortTag, Swf!Tag
<1>2. CASE Swf!in_place
  <2>1. AtTag
    BY <1>1, <1>2 DEF AtTag, Swf!TagIsWhole
  <2>2. PICK b : AtWhole(b)
    BY <1>1, <2>1 DEF AtWhole
  <2>3. 0 \in 0 .. Swf!tag_header_length + Swf!tag_length
    BY SMTT(30), <2>1, TagHere
  <2> QED  BY <1>1, <2>1, <2>2, <2>3, MovedInFront, TagDone DEF AtWhole
<1> QED  BY <1>1, <1>2, UnpackedTag

(* Metadata are skipped, ...                                               *)
LEMMA RemoveMetadataStep ==
  ASSUME SwfInv, format = "Swf", UNCHANGED format, Swf!RemoveMetadata
  PROVE  SwfInv'
<1>1. PICK n : n = Swf!tag_length + Swf!tag_header_length
  OBVIOUS
<1>2. pc = "tags" /\ Swf!TagIsWhole /\ Swf!NextTag(Swf!HeaderMoved, n)
  BY <1>1 DEF Swf!RemoveMetadata, Swf!Tag
<1>3. CASE Swf!in_place
  <2>1. AtTag
    BY <1>2, <1>3 DEF AtTag, Swf!TagIsWhole
  <2>2. PICK b : AtWhole(b)
    BY <1>2, <2>1 DEF AtWhole
  <2>3. n \in 0 .. Swf!tag_header_length + Swf!tag_length
    <3>1. Swf!tag_length \in Nat /\ Swf!tag_header_length \in 1..2
      BY <2>1, TagHere
    <3> QED  BY <1>1, <3>1
  <2> QED  BY <1>2, <2>1, <2>2, <2>3, MovedInFront, TagDone DEF AtWhole
<1> QED  BY <1>2, <1>3, UnpackedTag

(* ... another tag is moved, ...                                           *)
LEMMA MoveTagStep ==
  ASSUME SwfInv, format = "Swf", UNCHANGED format, Swf!MoveTag
  PROVE  SwfInv'
<1>1. PICK m, m2 :
        /\ m = IF Swf!tag_type = "attributes" THEN Swf!WithoutMetadata(Swf!HeaderMoved)
               ELSE Swf!HeaderMoved
        /\ m2 = Swf!MemMove(m, Swf!contents - Swf!saved, Swf!contents, Swf!tag_length)
  OBVIOUS
<1>2. pc = "tags" /\ Swf!TagIsWhole /\ Swf!NextTag(m2, 0)
  BY <1>1 DEF Swf!MoveTag, Swf!Tag
<1>3. CASE Swf!in_place
  <2>1. AtTag
    BY <1>2, <1>3 DEF AtTag, Swf!TagIsWhole
  <2>2. PICK b : AtWhole(b)
    BY <1>2, <2>1 DEF AtWhole
  <2>3. /\ Swf!tag_length \in Nat /\ 0 \in 0 .. Swf!tag_header_length + Swf!tag_length
        /\ Swf!tag_type = "attributes" => Swf!tag_length >= 1
    BY SMTT(30), <2>1, TagHere
  <2>4. SameFrom(m, mem, End, b)
    BY <1>1, <2>2, <2>3, MovedInFront, TagInFront
  <2>5. SameFrom(m2, mem, End, b)
    <3>1. PICK l : l = Swf!tag_length
      OBVIOUS
    <3>2. l \in Nat /\ l <= Swf!tag_length
      BY <2>3, <3>1
    <3>3. SameFrom(MemMove(m, Swf!contents - tag_size_leanified, Swf!contents, l), mem, End, b)
      BY <2>2, <2>4, <3>2, ContentsInFront
    <3> QED  BY <1>1, <2>1, <3>1, <3>3, InPlace, SwfOperators
  <2> QED  BY <1>2, <2>1, <2>2, <2>3, <2>5, TagDone DEF AtWhole
<1> QED  BY <1>2, <1>3, UnpackedTag

(* ... a bitmap is compressed again, ...                                   *)
LEMMA RecompressBitmapStep ==
  ASSUME SwfInv, format = "Swf", UNCHANGED format, NEW r, Swf!RecompressBitmap(r)
  PROVE  SwfInv'
<1>1. PICK n, m, m2, p :
        /\ n = Swf!tag_length - 1 /\ p = Swf!contents + 1
        /\ m = Swf!ZlibRecompressed(Swf!Moved(1), p, n, Swf!saved, r)
        /\ m2 = Swf!UpdateTagLength(m, r + 1)
  OBVIOUS
<1>2. /\ pc = "tags" /\ Swf!TagIsWhole /\ Swf!tag_type = "lossless" /\ ~ Swf!TooShort
      /\ r \in Swf!ZlibSizes(Swf!work, p, n) /\ Swf!NextTag(m2, n - r)
  BY <1>1 DEF Swf!RecompressBitmap, Swf!Tag
<1>3. CASE Swf!in_place
  <2>1. AtTag
    BY <1>2, <1>3 DEF AtTag, Swf!TagIsWhole
  <2>2. PICK b : AtWhole(b)
    BY <1>2, <2>1 DEF AtWhole
  <2>3. PICK l, d, h : l = Swf!tag_length /\ d = Swf!tag_header_length /\ h = tag_size_leanified
    OBVIOUS
  <2>4. l \in Nat /\ d \in 1..2 /\ h \in Nat
    BY <2>1, <2>3, TagHere
  <2>5. l >= 1
    <3>1. Swf!header_size = 1
      BY <1>2 DEF Swf!header_size
    <3>2. ~ (1 > l)
      BY <1>2, <2>3, <3>1 DEF Swf!TooShort
    <3> QED  BY <2>4, <3>2
  <2>6. n \in Nat /\ 1 + n <= l /\ n = l - 1
    BY <1>1, <2>3, <2>4, <2>5
  <2>7. r \in 0..n
    BY <1>2, <2>6 DEF Swf!ZlibSizes
  <2>8. n - r \in 0 .. d + l
    BY <2>4, <2>6, <2>7
  <2>9. SameFrom(Swf!Moved(1), mem, End, b)
    BY <2>2, <2>3, <2>5, MovedInFront
  <2>10. SameFrom(m, mem, End, b)
    <3>1. m = ZlibRecompressed(Swf!Moved(1), p, n, h, r)
      BY <1>1, <2>1, <2>3, InPlace, SwfOperators
    <3>2. SameFrom(ZlibRecompressed(Swf!Moved(1), p, n, h, r), mem, End, b)
      <4>1. \A m1 : m1 = Swf!Moved(1) => SameFrom(ZlibRecompressed(m1, p, n, h, r), mem, End, b)
        BY <1>1, <2>2, <2>3, <2>4, <2>6, <2>7, <2>9, PartInFront
      <4> QED  BY <4>1
    <3> QED  BY <3>1, <3>2
  <2>11. SameFrom(m2, mem, End, b)
    BY <1>1, <2>2, <2>10, TagInFront
  <2> QED  BY <1>2, <2>1, <2>2, <2>3, <2>8, <2>11, TagDone DEF AtWhole
<1> QED  BY <1>2, <1>3, UnpackedTag

(* ... and an image is leanified, ...                                      *)
LEMMA LeanifyJpeg2Step ==
  ASSUME SwfInv, format = "Swf", UNCHANGED format, NEW r, Swf!LeanifyJpeg2(r)
  PROVE  SwfInv'
<1>1. PICK n, m, m2, p :
        /\ n = Swf!tag_length - 1 /\ p = Swf!contents + 1
        /\ m = Swf!FileLeanified(Swf!Moved(1), p, n, Swf!saved, r)
        /\ m2 = Swf!UpdateTagLength(m, r + 1)
  OBVIOUS
<1>2. /\ pc = "tags" /\ Swf!TagIsWhole /\ Swf!tag_type = "jpeg2" /\ ~ Swf!TooShort
      /\ r \in Swf!FileSizes(n) /\ Swf!NextTag(m2, n - r)
  BY <1>1 DEF Swf!LeanifyJpeg2, Swf!Tag
<1>3. CASE Swf!in_place
  <2>1. AtTag
    BY <1>2, <1>3 DEF AtTag, Swf!TagIsWhole
  <2>2. PICK b : AtWhole(b)
    BY <1>2, <2>1 DEF AtWhole
  <2>3. PICK l, d, h : l = Swf!tag_length /\ d = Swf!tag_header_length /\ h = tag_size_leanified
    OBVIOUS
  <2>4. l \in Nat /\ d \in 1..2 /\ h \in Nat
    BY <2>1, <2>3, TagHere
  <2>5. l >= 1
    <3>1. Swf!header_size = 1
      BY <1>2 DEF Swf!header_size
    <3>2. ~ (1 > l)
      BY <1>2, <2>3, <3>1 DEF Swf!TooShort
    <3> QED  BY <2>4, <3>2
  <2>6. n \in Nat /\ 1 + n <= l /\ n = l - 1
    BY <1>1, <2>3, <2>4, <2>5
  <2>7. r \in 0..n
    BY <1>2 DEF Swf!FileSizes
  <2>8. n - r \in 0 .. d + l
    BY <2>4, <2>6, <2>7
  <2>9. SameFrom(Swf!Moved(1), mem, End, b)
    BY <2>2, <2>3, <2>5, MovedInFront
  <2>10. SameFrom(m, mem, End, b)
    <3>1. m = FileLeanified(Swf!Moved(1), p, n, h, r)
      BY <1>1, <2>1, <2>3, InPlace, SwfOperators
    <3>2. \A m1 : m1 = Swf!Moved(1) => SameFrom(FileLeanified(m1, p, n, h, r), mem, End, b)
      BY <1>1, <2>2, <2>3, <2>4, <2>6, <2>9, PartInFront
    <3> QED  BY <3>1, <3>2
  <2>11. SameFrom(m2, mem, End, b)
    BY <1>1, <2>2, <2>10, TagInFront
  <2> QED  BY <1>2, <2>1, <2>2, <2>3, <2>8, <2>11, TagDone DEF AtWhole
<1> QED  BY <1>2, <1>3, UnpackedTag

(* ... and so is one with an alpha channel, which is compressed again.     *)
LEMMA LeanifyJpeg34Step ==
  ASSUME SwfInv, format = "Swf", UNCHANGED format, NEW r, NEW a, Swf!LeanifyJpeg34(r, a)
  PROVE  SwfInv'
<1>1. PICK image, i0, n, lean, sized, m, m2, q, c, g :
        /\ image = Swf!contents + Swf!header_size /\ i0 = Swf!img_size
        /\ n = Swf!tag_length - Swf!header_size - i0
        /\ lean = Swf!FileLeanified(Swf!Moved(1), image, i0, Swf!saved, r)
        /\ q = Swf!contents + 1 - Swf!saved
        /\ sized = Swf!Put(lean, q, <<<<"size", r>>>>)
        /\ c = Swf!saved + i0 - r /\ g = i0 - r + n - a
        /\ m = Swf!ZlibRecompressed(sized, image + i0, n, c, a)
        /\ m2 = Swf!UpdateTagLength(m, Swf!header_size + r + a)
  OBVIOUS
<1>2. /\ pc = "tags" /\ Swf!TagIsWhole /\ Swf!tag_type \in {"jpeg3", "jpeg4"} /\ ~ Swf!TooShort
      /\ r \in Swf!FileSizes(i0) /\ a \in Swf!ZlibSizes(Swf!work, image + i0, n)
      /\ Swf!NextTag(m2, g)
  BY <1>1 DEF Swf!LeanifyJpeg34, Swf!Tag
<1>3. CASE Swf!in_place
  <2>1. AtTag
    BY <1>2, <1>3 DEF AtTag, Swf!TagIsWhole
  <2>2. PICK b : AtWhole(b)
    BY <1>2, <2>1 DEF AtWhole
  <2>3. PICK l, d, h, s : /\ l = Swf!tag_length /\ d = Swf!tag_header_length
                          /\ h = tag_size_leanified /\ s = Swf!header_size
    OBVIOUS
  <2>4. l \in Nat /\ d \in 1..2 /\ h \in Nat
    BY <2>1, <2>3, TagHere
  <2>5. s \in 2..3 /\ ~ (s > l) /\ ~ (s + i0 > l)
    <3>1. s \in 2..3
      BY <1>2, <2>3 DEF Swf!header_size
    <3> QED  BY <1>1, <1>2, <2>3, <3>1 DEF Swf!TooShort
  <2>6. i0 \in Nat
    <3>1. l >= 2
      BY <2>4, <2>5
    <3> QED  BY <1>1, <1>2, <2>1, <2>3, <3>1, TagHere
  <2>7. n \in Nat /\ s + i0 + n = l /\ l >= 1
    <3>1. n = l - s - i0
      BY <1>1, <2>3
    <3> QED  BY <2>4, <2>5, <2>6, <3>1
  <2>8. r \in 0..i0 /\ a \in 0..n
    BY <1>2, <2>7 DEF Swf!FileSizes, Swf!ZlibSizes
  <2>9. g \in 0 .. d + l /\ c \in Nat /\ s \in Nat
    <3>1. g = i0 - r + n - a /\ c = h + i0 - r
      BY <1>1, <2>1, <2>3, InPlace
    <3> QED  BY <2>4, <2>5, <2>6, <2>7, <2>8, <3>1
  <2>10. SameFrom(Swf!Moved(1), mem, End, b)
    BY <2>2, <2>3, <2>7, MovedInFront
  <2>11. SameFrom(lean, mem, End, b)
    <3>1. lean = FileLeanified(Swf!Moved(1), image, i0, h, r)
      BY <1>1, <2>1, <2>3, InPlace, SwfOperators
    <3>2. s + i0 <= Swf!tag_length /\ image = Swf!contents + s
      BY <1>1, <2>3, <2>4, <2>5, <2>6, <2>7
    <3>3. \A m1 : m1 = Swf!Moved(1) => SameFrom(FileLeanified(m1, image, i0, h, r), mem, End, b)
      BY <2>2, <2>4, <2>6, <2>9, <2>10, <3>2, PartInFront
    <3> QED  BY <3>1, <3>3
  <2>12. SameFrom(sized, mem, End, b)
    <3>1. PICK p, k, e, x, y : TagNumbers(p, k, e, x, y, b)
      BY <2>2, NumbersOfTag
    <3>2. /\ p \in Nat /\ e \in 1..2 /\ k = p + e /\ b = k + l /\ h \in Nat /\ End \in Nat
          /\ q = k + 1 - h /\ DOMAIN lean = 0 .. End
      BY <1>1, <2>1, <2>3, <2>4, <2>11, <3>1, InPlace DEF TagNumbers, SameFrom
    <3>3. q \in Int /\ q + 1 <= b /\ b \in Nat
      BY <2>4, <2>5, <2>6, <2>7, <3>2
    <3>0. PICK u, t : u = <<"size", r>> /\ t = <<u>>
      OBVIOUS
    <3>4. Len(t) = 1
      <4>1. Len(<<u>>) = 1
        OBVIOUS
      <4> QED  BY <3>0, <4>1
    <3>5. SameFrom(Put(lean, q, t), lean, End, b)
      BY <3>2, <3>3, <3>4, PutInFront
    <3>6. sized = Put(lean, q, t)
      BY <1>1, <3>0, SwfOperators
    <3> QED  BY <2>11, <3>5, <3>6, SameFromSame
  <2>13. SameFrom(m, mem, End, b)
    <3>1. PICK e, k, p : e = s + i0 /\ k = Swf!contents /\ p = image + i0
      OBVIOUS
    <3>2. k \in Nat
      <4>1. p_read \in Nat /\ Swf!contents = p_read + d
        BY <2>1, <2>3, TagHere
      <4> QED  BY <2>4, <3>1, <4>1
    <3>3. image = k + s
      BY <1>1, <2>3, <3>1
    <3>4. e \in Nat /\ e + n <= l /\ p = k + e
      BY <2>4, <2>6, <2>7, <2>9, <3>1, <3>2, <3>3
    <3>5. m = ZlibRecompressed(sized, p, n, c, a)
      BY <1>1, <3>1, SwfOperators
    <3> QED  BY <2>2, <2>3, <2>7, <2>8, <2>9, <2>12, <3>1, <3>4, <3>5, PartInFront
  <2>14. SameFrom(m2, mem, End, b)
    BY <1>1, <2>2, <2>13, TagInFront
  <2> QED  BY <1>2, <2>1, <2>2, <2>3, <2>9, <2>14, TagDone DEF AtWhole
<1> QED  BY <1>2, <1>3, UnpackedTag

(* The tags begin behind the header.                                       *)
LEMMA UnpackStep ==
  ASSUME SwfInv, format = "Swf", UNCHANGED format, Swf!Unpack
  PROVE  SwfInv'
<1>1. /\ pc = "start" /\ pc' = "tags" /\ Swf!IsFlash /\ in_len' = file[2][2] - 2
      /\ p_read' = Swf!in_buffer + 1 /\ UNCHANGED <<file, setting, mem, size, tag_size_leanified>>
  BY DEF Swf!Unpack, Swf!call
<1>2. /\ UNCHANGED <<fp, End, Before, Swf!in_place, Swf!IsFlash>>
      /\ \A S : TagsAt(file, S)' <=> TagsAt(file, S)
      /\ HasTags(file)' <=> HasTags(file)
  BY <1>1, FilmKept
<1>3. mem = Before /\ DOMAIN mem = 0 .. End /\ size = Len(file) /\ tag_size_leanified = 0
  BY <1>1 DEF SwfInv
<1>4. UnreadIntact'
  BY <1>1, <1>2, <1>3 DEF UnreadIntact
<1>5. ASSUME Swf!in_place
      PROVE  InTags'
  <2>1. PICK n, f, p : n = file[2][2] /\ f = fp /\ p = p_read'
    OBVIOUS
  <2>2. Len(file) >= 2 /\ HasTags(file) /\ n >= 3 /\ Len(file) \in Nat /\ f \in Nat
    BY <1>1, <1>5, <2>1 DEF SwfInv, Swf!IsFlash
  <2>3. n \in Nat
    BY <2>1, <2>2 DEF HasTags
  <2>5. n <= Len(file)
    <3>1. Swf!Body(file) # <<>> /\ file[1][2] = "F"
      BY <1>1, <1>5 DEF Swf!IsFlash, Swf!in_place, Swf!compression
    <3>2. (n - 2) + 2 <= Len(file)
      BY <2>1, <3>1 DEF Swf!Body
    <3> QED  BY <2>2, <2>3, <3>2
  <2>4. PICK S \in SUBSET Nat : TagsAt(file, S)
    BY <2>1, <2>2, <2>5 DEF HasTags
  <2>6. p = (f + 2) + 1
    BY <1>1, <1>5, <2>1, SwfOperators DEF Swf!in_buffer
  <2>7. n \in 3 .. Len(file) /\ p \in f + 3 .. f + n /\ 0 \in 0 .. p - (f + 3) /\ p - f + 1 = 4
    BY <2>2, <2>3, <2>5, <2>6
  <2>8. 4 \in S
    BY <2>4 DEF TagsAt
  <2> QED  BY <1>1, <1>2, <1>3, <2>1, <2>4, <2>7, <2>8 DEF InTags
<1> QED  BY <1>1, <1>2, <1>3, <1>4, <1>5 DEF SwfInv

(* Nothing behind p was written to, where the loop ended.                  *)
LEMMA TagsEnd ==
  ASSUME SwfInv, format = "Swf", UNCHANGED format, Swf!in_place, pc = "tags",
         NEW m, NEW p \in p_read .. End, Swf!EndOfTags(m, p), SameFrom(m, mem, End, p)
  PROVE  SwfInv'
<1>1. /\ mem' = m /\ p_read' = p /\ in_len' = in_len - tag_size_leanified /\ pc' = "pack"
      /\ UNCHANGED <<file, setting, size>>
  BY DEF Swf!EndOfTags, Swf!Work, Swf!call, Swf!saved
<1>2. /\ UNCHANGED <<fp, End, Before, Swf!in_place, Swf!IsFlash>>
      /\ HasTags(file)' <=> HasTags(file)
  BY <1>1, FilmKept
<1>3. PICK n, f, h, x, k : /\ n = file[2][2] /\ f = fp /\ h = tag_size_leanified /\ x = p_read
                           /\ k = in_len
  OBVIOUS
<1>4. /\ n \in 3 .. Len(file) /\ k = n - 2 /\ x \in f + 3 .. f + n /\ h \in 0 .. x - (f + 3)
      /\ f \in Nat /\ Len(file) \in Nat
  BY <1>3 DEF SwfInv, InTags
<1>5. in_len' \in Nat /\ in_len' + 2 <= Len(file)
  <2>1. in_len' = k - h
    BY <1>1, <1>3
  <2> QED  BY <1>4, <2>1
<1>6. x \in Nat /\ End \in Nat /\ p \in x .. End
  <2>1. End = f + Len(file)
    BY <1>3 DEF End
  <2> QED  BY <1>3, <1>4, <2>1
<1>7. \A y \in p .. End : mem'[y] = Before[y]
  <2> SUFFICES ASSUME NEW y \in p .. End PROVE m[y] = Before[y]
    BY <1>1
  <2>1. y \in p_read .. End
    BY <1>3, <1>6
  <2>2. mem[y] = Before[y]
    BY <2>1 DEF SwfInv, UnreadIntact
  <2> QED  BY <2>2 DEF SameFrom
<1>8. UnreadIntact' /\ DOMAIN mem' = 0 .. End /\ mem'[End] = Before[End]
  <2>1. End \in p .. End
    BY <1>6
  <2> QED  BY <1>1, <1>2, <1>7, <2>1 DEF UnreadIntact, SameFrom
<1>9. size = Len(file) /\ size \in 0 .. Len(file) /\ Swf!IsFlash /\ HasTags(file)
  BY DEF SwfInv
<1> QED  BY <1>1, <1>2, <1>5, <1>8, <1>9 DEF SwfInv

(* The loop ends behind the last tag ...                                   *)
LEMMA NoMoreTagsStep ==
  ASSUME SwfInv, format = "Swf", UNCHANGED format, Swf!NoMoreTags
  PROVE  SwfInv'
<1>1. pc = "tags" /\ Swf!EndOfTags(Swf!work, p_read)
  BY DEF Swf!NoMoreTags
<1>2. CASE Swf!in_place
  <2>1. Swf!work = mem
    BY <1>2 DEF Swf!work
  <2>2. p_read \in p_read .. End
    <3>1. PICK n, f, x : n = file[2][2] /\ f = fp /\ x = p_read
      OBVIOUS
    <3>2. /\ n \in 3 .. Len(file) /\ x \in f + 3 .. f + n /\ f \in Nat /\ Len(file) \in Nat
          /\ End = f + Len(file)
      BY <1>1, <1>2, <3>1 DEF SwfInv, InTags, End
    <3> QED  BY <3>1, <3>2
  <2>3. SameFrom(mem, mem, End, p_read)
    BY DEF SwfInv, SameFrom
  <2> QED  BY <1>1, <1>2, <2>1, <2>2, <2>3, TagsEnd
<1> QED  BY <1>1, <1>2, UnpackedTag

(* ... or behind the header of one that is too long.                       *)
LEMMA TagTooLongStep ==
  ASSUME SwfInv, format = "Swf", UNCHANGED format, Swf!TagTooLong
  PROVE  SwfInv'
<1>1. pc = "tags" /\ Swf!HeaderIsWhole /\ Swf!EndOfTags(Swf!HeaderMoved, Swf!contents)
  BY DEF Swf!TagTooLong
<1>2. CASE Swf!in_place
  <2>1. AtTag
    BY <1>1, <1>2 DEF AtTag
  <2>2. Swf!contents \in p_read .. End
    <3>1. PICK p, c, d, e, f, n : /\ p = p_read /\ c = Swf!contents /\ d = Swf!tag_header_length
                                  /\ e = Swf!in_end /\ f = fp /\ n = file[2][2]
      OBVIOUS
    <3>2. p \in Nat /\ d \in 1..2 /\ c = p + d /\ c <= e /\ e = f + n /\ e <= End /\ End \in Nat
      BY <2>1, <3>1, TagHere
    <3>3. f \in Nat /\ n \in 3 .. Len(file)
      BY <2>1, <3>1, TagHere
    <3>4. Len(file) \in Nat
      BY DEF SwfInv
    <3>5. n \in Nat
      BY <3>3, <3>4
    <3> QED  BY <3>1, <3>2, <3>3, <3>5
  <2>3. SameFrom(Swf!HeaderMoved, mem, End, Swf!contents)
    BY <2>1, HeaderInFront
  <2> QED  BY <1>1, <1>2, <2>2, <2>3, TagsEnd
<1> QED  BY <1>1, <1>2, UnpackedTag

-----------------------------------------------------------------------------
(* The end.                                                                *)
LEMMA FilmDone ==
  ASSUME SwfInv, format = "Swf", UNCHANGED <<format, file, setting>>, pc' = "done",
         NEW m, m = mem', SameFrom(m, mem, End, End), size' \in 0 .. Len(file)
  PROVE  SwfInv'
<1>1. /\ UNCHANGED <<fp, End, Before, Swf!in_place, Swf!IsFlash>>
      /\ HasTags(file)' <=> HasTags(file)
  BY FilmKept
<1>2. fp \in Nat /\ Len(file) \in Nat \ {0} /\ mem[End] = Before[End] /\ End \in Nat
  BY DEF SwfInv, End
<1>3. DOMAIN m = 0 .. End /\ m[End] = Before[End]
  <2>1. End \in End .. End
    BY <1>2
  <2> QED  BY <1>2, <2>1 DEF SameFrom
<1>4. UnreadIntact'
  BY DEF UnreadIntact
<1>5. Swf!in_place => HasTags(file)
  BY DEF SwfInv
<1> QED  BY <1>1, <1>2, <1>3, <1>4, <1>5 DEF SwfInv

(* Where the buffer ends.                                                  *)
LEMMA FilmRoom ==
  ASSUME SwfInv, format = "Swf"
  PROVE  /\ fp \in Nat /\ Len(file) \in Nat /\ End = fp + Len(file) /\ End \in Nat
         /\ DOMAIN mem = 0 .. End /\ Swf!fp_w = 0 /\ Swf!fp = fp
BY SwfOperators DEF SwfInv, End

(* A call ends: what is not Flash, or did not shrink, is moved as it       *)
(* was; ...                                                                *)
LEMMA LeftAsItIsStep ==
  ASSUME SwfInv, format = "Swf", UNCHANGED format, Swf!NotFlash \/ Swf!KeepAsItIs
  PROVE  SwfInv'
<1>1. /\ pc # "done" /\ pc' = "done" /\ mem' = MemMove(mem, 0, fp, size)
      /\ UNCHANGED <<file, setting, size>>
  BY SwfOperators DEF Swf!NotFlash, Swf!KeepAsItIs, Swf!MovedAsItIs, Swf!call
<1>2. PICK m, n, e : m = mem' /\ n = size /\ e = End
  OBVIOUS
<1>3. n \in Nat /\ n <= e /\ n \in 0 .. Len(file) /\ e \in Nat
  <2>1. n = Len(file)
    BY <1>1, <1>2 DEF SwfInv
  <2> QED  BY <1>2, <2>1, FilmRoom
<1>4. SameFrom(m, mem, e, e)
  <2>1. DOMAIN mem = 0 .. e /\ 0 + n <= e /\ m = MemMove(mem, 0, fp, n)
    BY <1>1, <1>2, <1>3, FilmRoom
  <2> QED  BY <1>3, <2>1, MoveInFront
<1> QED  BY <1>1, <1>2, <1>3, <1>4, FilmDone

(* ... in fast mode the tags follow the header, ...                        *)
LEMMA FastModeStep ==
  ASSUME SwfInv, format = "Swf", UNCHANGED format, Swf!FastMode
  PROVE  SwfInv'
<1>1. PICK m1, m2, m3, t, l, u : /\ l = in_len /\ u = <<"length", in_len + 2>> /\ t = <<u>>
                                 /\ m1 = MemMove(mem, 0, fp, 1) /\ m2 = Put(m1, 1, t)
                                 /\ m3 = MemMove(m2, 2, fp + 2, l)
  OBVIOUS
<1>2. /\ pc = "pack" /\ pc' = "done" /\ mem' = m3 /\ size' = l + 2 /\ setting.is_fast
      /\ UNCHANGED <<file, setting>>
  <2>1. Swf!fp_w + 1 = 1 /\ Swf!fp_w + 2 = 2
    BY SwfOperators
  <2> QED  BY <1>1, <2>1, SwfOperators DEF Swf!FastMode, Swf!call
<1>3. Swf!in_place
  BY <1>2 DEF SwfInv, Swf!IsFlash, Swf!in_place, Swf!compression
<1>4. PICK n, e : n = Len(file) /\ e = End
  OBVIOUS
<1>5. /\ l \in Nat /\ l + 2 <= n /\ n \in Nat /\ e \in Nat /\ n <= e /\ DOMAIN mem = 0 .. e
  <2>1. l \in Nat /\ l + 2 <= n
    BY <1>1, <1>2, <1>3, <1>4 DEF SwfInv
  <2>2. n \in Nat /\ fp \in Nat /\ e = fp + n /\ DOMAIN mem = 0 .. e
    BY <1>4, FilmRoom
  <2> QED  BY <2>1, <2>2
<1>6. SameFrom(m1, mem, e, e)
  <2>1. 0 + 1 <= e
    BY <1>5
  <2> QED  BY <1>1, <1>5, <2>1, MoveInFront
<1>7. SameFrom(m2, mem, e, e)
  <2>1. Len(t) = 1
    <3>1. Len(<<u>>) = 1
      OBVIOUS
    <3> QED  BY <1>1, <3>1
  <2>2. DOMAIN m1 = 0 .. e /\ 2 <= e
    BY <1>5, <1>6 DEF SameFrom
  <2>3. PICK d, k : d = 1 /\ k = 1
    OBVIOUS
  <2>4. d \in Int /\ k \in Nat /\ d + k <= e
    BY <2>2, <2>3, <1>5
  <2>5. Len(t) = k /\ m2 = Put(m1, d, t)
    BY <1>1, <2>1, <2>3
  <2>6. SameFrom(Put(m1, d, t), m1, e, e)
    BY <1>5, <2>2, <2>4, <2>5, PutInFront
  <2>7. SameFrom(m2, m1, e, e)
    BY <2>5, <2>6
  <2> QED  BY <1>6, <2>7, SameFromSame
<1>8. SameFrom(m3, mem, e, e)
  <2>1. DOMAIN m2 = 0 .. e /\ 2 + l <= e
    BY <1>5, <1>7 DEF SameFrom
  <2>2. SameFrom(m3, m2, e, e)
    BY <1>1, <1>5, <2>1, MoveInFront
  <2> QED  BY <1>7, <2>2, SameFromSame
<1>9. size' \in 0 .. Len(file)
  BY <1>2, <1>4, <1>5
<1> QED  BY <1>2, <1>4, <1>8, <1>9, FilmDone

(* ... and otherwise they are compressed, to no more than the file had.    *)
LEMMA CompressStep ==
  ASSUME SwfInv, format = "Swf", UNCHANGED format, NEW n \in 1 .. Len(file), Swf!Compress(n)
  PROVE  SwfInv'
<1>1. PICK t, l : t = Swf!Result(n) /\ l = Len(t)
  OBVIOUS
<1>2. /\ pc = "pack" /\ pc' = "done" /\ mem' = Put(mem, 0, t) /\ size' = l /\ l < size
      /\ UNCHANGED <<file, setting>>
  BY <1>1, SwfOperators DEF Swf!Compress, Swf!call
<1>3. l \in Nat
  <2>0. n \in Nat
    BY FilmRoom
  <2>1. \A body : Len(Swf!Lzma(body, n)) = n /\ Len(Swf!Zlib(body, n)) = n
    BY <2>0 DEF Swf!Lzma, Swf!Zlib
  <2>2. \A x, y, z, s : Len(s) = n => Len(<<x, y, z>> \o s) = 3 + n /\ Len(<<x, y>> \o s) = 2 + n
    BY <2>0
  <2>3. l = 3 + n \/ l = 2 + n
    BY <1>1, <2>1, <2>2 DEF Swf!Result
  <2> QED  BY <2>0, <2>3
<1>4. PICK e : e = End
  OBVIOUS
<1>5. l <= e /\ l \in 0 .. Len(file) /\ e \in Nat /\ DOMAIN mem = 0 .. e
  <2>1. size = Len(file)
    BY <1>2 DEF SwfInv
  <2>2. fp \in Nat /\ Len(file) \in Nat /\ e = fp + Len(file) /\ DOMAIN mem = 0 .. e
    BY <1>4, FilmRoom
  <2> QED  BY <1>2, <1>3, <2>1, <2>2
<1>6. PICK m : m = mem'
  OBVIOUS
<1>7. SameFrom(m, mem, e, e)
  <2>1. 0 + l <= e /\ m = Put(mem, 0, t)
    BY <1>2, <1>3, <1>5, <1>6
  <2> QED  BY <1>1, <1>3, <1>5, <2>1, PutInFront
<1> QED  BY <1>2, <1>4, <1>5, <1>6, <1>7, FilmDone

(* These are the steps of a film.                                          *)
LEMMA SwfSteps ==
  ASSUME format = "Swf", Next
  PROVE  \/ Swf!NotFlash \/ Swf!Unpack \/ Swf!NoMoreTags \/ Swf!TagTooLong \/ Swf!ShortTag
         \/ Swf!RemoveMetadata \/ Swf!MoveTag \/ Swf!FastMode \/ Swf!KeepAsItIs
         \/ \E r : Swf!RecompressBitmap(r) \/ Swf!LeanifyJpeg2(r)
         \/ \E r, a : Swf!LeanifyJpeg34(r, a)
         \/ \E n \in 1 .. Len(file) : Swf!Compress(n)
BY DEF Next, Leanify, NotSupported, NotGft, LeanifyGft, Swf!Next

(* So the invariant holds of every film, ...                               *)
LEMMA SwfInvariance == ASSUME FilmsAssumption PROVE Spec => []SwfInv
<1>1. Init => SwfInv
  BY SwfInit DEF SwfInv
<1>2. ASSUME SwfInv, [Next]_vars
      PROVE  SwfInv'
  <2>1. CASE Next /\ format = "Swf"
    <3>1. UNCHANGED format
      BY <2>1 DEF Next
    <3> QED  BY <1>2, <2>1, <3>1, SwfSteps, LeftAsItIsStep, UnpackStep, NoMoreTagsStep,
                TagTooLongStep, ShortTagStep, RemoveMetadataStep, MoveTagStep, FastModeStep,
                RecompressBitmapStep, LeanifyJpeg2Step, LeanifyJpeg34Step, CompressStep
  <2>2. CASE format # "Swf"
    BY <1>2, <2>2 DEF Next, vars, SwfInv
  <2>3. CASE UNCHANGED vars
    <3>1. UNCHANGED <<file, setting, format, mem, p_read, pc, size, in_len, tag_size_leanified>>
      BY <2>3 DEF vars, locals, call, swf
    <3>2. /\ UNCHANGED <<fp, End, Before, Swf!in_place, Swf!IsFlash>>
          /\ \A S : TagsAt(file, S)' <=> TagsAt(file, S)
          /\ HasTags(file)' <=> HasTags(file)
      BY <3>1, FilmKept
    <3>3. (UnreadIntact' <=> UnreadIntact) /\ (InTags' <=> InTags)
      BY <3>1, <3>2 DEF UnreadIntact, InTags
    <3> QED  BY <1>2, <3>1, <3>2, <3>3 DEF SwfInv
  <2> QED  BY <1>2, <2>1, <2>2, <2>3
<1> QED  BY <1>1, <1>2, PTL DEF Spec

(* ... and with it what containers rely on.                                *)
LEMMA SwfContract == SwfInv /\ format = "Swf" => InItsRegion /\ UnreadIntact
<1> SUFFICES ASSUME SwfInv, format = "Swf" PROVE InItsRegion /\ UnreadIntact
  OBVIOUS
<1>1. InItsRegion
  <2>1. \A x \in DOMAIN Before : x \notin fp - fp .. fp + Len(file) - 1 => x = End
    BY DEF SwfInv, Before, End
  <2> QED  BY <2>1 DEF SwfInv, InItsRegion, KeepsToItsRegion
<1>2. UnreadIntact
  BY DEF SwfInv
<1> QED  BY <1>1, <1>2
=============================================================================
