--------------------------- MODULE NestingProofs ---------------------------
(***************************************************************************)
(* Proofs about Nesting.  No depth is handed on that exceeds the level the *)
(* file really is on, which is why nothing is passed over early; inside    *)
(* formats that count, the two are equal, which is why the limit is kept.  *)
(***************************************************************************)
EXTENDS Nesting, TLAPS

(* Base64 stands for a file one level further down.                        *)
LevelOf(c) == IF c.format = "Base64" THEN c.level + 1 ELSE c.level

(* What holds of one call in every run.                                    *)
Modest(c) ==
  /\ c \in Calls
  /\ c.depth <= LevelOf(c)
  /\ c.file # Plain /\ c.format = Plain => c.depth > max_depth

(* What holds of a call from inside formats that count.                    *)
Exact(c) == c.depth = LevelOf(c) /\ (c.format # Plain => c.depth <= max_depth)

ModestCalls ==
  /\ max_depth \in Nat /\ stack \in Seq(Calls)
  /\ \A k \in DOMAIN stack : Modest(stack[k])

ExactCalls == \A k \in DOMAIN stack : InsideCounting(k) => Exact(stack[k])

(* The call on top of the stack is one of those on it.                     *)
LEMMA TopCall ==
  ASSUME stack \in Seq(Calls), stack # <<>>
  PROVE  Len(stack) \in DOMAIN stack /\ Top \in Calls
  BY DEF Top

(* A call that fits put on top of the others leaves all fitting.           *)
LEMMA CallKeepsModest ==
  ASSUME ModestCalls, NEW c, Modest(c), Call(c)
  PROVE  ModestCalls'
  BY DEF ModestCalls, Modest, Call, LevelOf

(* So does one that is exact if those below it count.                      *)
LEMMA CallKeepsExact ==
  ASSUME ModestCalls, ExactCalls, stack # <<>>, NEW c, c \in Calls, Call(c),
         Exact(Top) /\ Top.format \in Counting => Exact(c)
  PROVE  ExactCalls'
<1> DEFINE n == Len(stack)
<1>1. stack' = Append(stack, c) /\ max_depth' = max_depth /\ n \in DOMAIN stack
  BY DEF Call, ModestCalls
<1>2. ASSUME NEW k \in DOMAIN stack', InsideCounting(k)'
      PROVE  Exact(stack[k])'
  <2>1. CASE k \in DOMAIN stack
    <3>1. stack'[k] = stack[k] /\ \A j \in 1 .. k - 1 : stack'[j] = stack[j]
      BY <1>1, <2>1 DEF ModestCalls
    <3>2. InsideCounting(k)
      BY <1>2, <3>1 DEF InsideCounting
    <3> QED
      BY <1>1, <2>1, <3>1, <3>2 DEF ExactCalls, Exact, LevelOf
  <2>2. CASE k \notin DOMAIN stack
    <3>1. k = n + 1 /\ stack'[k] = c /\ \A j \in 1 .. n : stack'[j] = stack[j]
      BY <1>1, <2>2 DEF ModestCalls
    <3>2. \A j \in 1 .. n : stack[j].format \in Counting
      BY <1>2, <3>1 DEF InsideCounting, ModestCalls
    <3>3. InsideCounting(n) /\ Top.format \in Counting
      BY <1>1, <3>2 DEF InsideCounting, Top, ModestCalls
    <3>4. Exact(Top)
      BY <1>1, <3>3 DEF ExactCalls, Top
    <3> QED
      BY <1>1, <3>1, <3>3, <3>4 DEF Exact, LevelOf
  <2> QED  BY <2>1, <2>2
<1> QED  BY <1>2 DEF ExactCalls

(* Returning leaves only calls that were there.                            *)
LEMMA ReturnKeeps ==
  ASSUME ModestCalls, Return
  PROVE  ModestCalls' /\ (ExactCalls => ExactCalls')
<1>1. stack' \in Seq(Calls)
  BY DEF ModestCalls, Return
<1>2. \A k \in DOMAIN stack' : k \in DOMAIN stack /\ stack'[k] = stack[k]
  BY DEF ModestCalls, Return
<1>3. max_depth' = max_depth
  BY DEF Return
<1> QED
  BY <1>1, <1>2, <1>3
     DEF ModestCalls, ExactCalls, InsideCounting, Modest, Exact, LevelOf

(* What a call of LeanifyFile makes of a depth that fits the level.        *)
LEMMA LeanifyFileModest ==
  ASSUME ModestCalls, NEW f \in Files, NEW d \in Nat \ {0}, NEW n \in Nat \ {0},
         d <= n
  PROVE  Modest(LeanifyFile(f, d, n))
  BY NestingAssumption
     DEF Modest, LeanifyFile, GetType, Calls, LevelOf, Kinds, ByName, Archives,
         Plain, ModestCalls

LEMMA ObjectModest ==
  ASSUME NEW g \in Kinds \cup {"Base64"}, g # Plain, NEW d \in Nat \ {0},
         NEW n \in Nat \ {0}, d <= n \/ (g = "Base64" /\ d <= n + 1)
  PROVE  Modest(Object(g, d, n))
  BY DEF Modest, Object, Calls, LevelOf, Plain

(* Every step keeps every call modest.                                     *)
LEMMA ModestStep ==
  ASSUME ModestCalls, [Next]_vars
  PROVE  ModestCalls'
<1>1. CASE UNCHANGED vars
  BY <1>1 DEF vars, ModestCalls, Modest, LevelOf
<1>2. CASE Return
  BY <1>2, ReturnKeeps
<1>3. CASE stack # <<>> /\ Next
  <2> DEFINE top == Top
  <2>1. /\ Modest(top) /\ top \in Calls
        /\ top.depth \in Nat \ {0} /\ top.level \in Nat \ {0}
    BY <1>3, TopCall DEF ModestCalls, Top, Calls
  <2>2. top.format # "Base64" => top.depth <= top.level
    BY <2>1 DEF Modest, LevelOf
  <2>3. top.depth <= top.level + 1
    BY <2>1 DEF Modest, LevelOf
  <2>4. Inside \subseteq Files
    BY DEF Inside
  <2>5. CASE OpenArchive
    <3>1. top.depth + 1 <= top.level + 1
      BY <2>5, <2>1, <2>2 DEF OpenArchive, Archives
    <3>2. \A f \in Inside : Modest(LeanifyFile(f, top.depth + 1, top.level + 1))
      BY <3>1, <2>1, <2>4, LeanifyFileModest
    <3> QED
      BY <2>5, <3>2, CallKeepsModest DEF OpenArchive
  <2>6. CASE OpenWrapper
    <3>1. \A f \in Inside : Modest(LeanifyFile(f, top.depth, top.level + 1))
      BY <2>1, <2>3, <2>4, LeanifyFileModest
    <3> QED
      BY <2>6, <3>1, CallKeepsModest DEF OpenWrapper
  <2>7. CASE OpenBook
    <3>1. Modest(Object("Base64", top.depth + 1, top.level))
      BY <2>1, <2>2, <2>7, ObjectModest DEF OpenBook, Plain
    <3> QED
      BY <2>7, <3>1, CallKeepsModest DEF OpenBook
  <2>8. CASE OpenDataURI
    <3>1. Modest(Object("Base64", top.depth, top.level))
      BY <2>1, <2>3, ObjectModest DEF Plain
    <3> QED
      BY <2>8, <3>1, CallKeepsModest DEF OpenDataURI
  <2>9. CASE OpenMessage
    <3>1. Modest(Object("Base64", 1, top.level))
      BY <2>1, ObjectModest DEF Plain
    <3> QED
      BY <2>9, <3>1, CallKeepsModest DEF OpenMessage
  <2>10. CASE OpenAsOther
    <3>1. /\ Modest(Object("DataURI", 1, top.level))
          /\ Modest(Object("Zip", 1, top.level))
      BY <2>1, ObjectModest DEF Plain, Kinds, ByName, Archives
    <3> QED
      BY <2>10, <3>1, CallKeepsModest DEF OpenAsOther
  <2>11. CASE OpenIcon
    <3>1. Modest(Object("Png", 1, top.level + 1))
      <4>1. "Png" \in Kinds /\ "Png" # Plain
        BY DEF Plain, Kinds
      <4>2. top.level + 1 \in Nat \ {0} /\ 1 <= top.level + 1
        BY <2>1
      <4> QED
        BY <4>1, <4>2, ObjectModest
    <3> QED
      BY <2>11, <3>1, CallKeepsModest DEF OpenIcon
  <2> QED
    BY <1>2, <1>3, <2>5, <2>6, <2>7, <2>8, <2>9, <2>10, <2>11 DEF Next
<1> QED
  BY <1>1, <1>2, <1>3
     DEF Next, OpenArchive, OpenWrapper, OpenBook, OpenDataURI, OpenMessage,
         OpenAsOther, OpenIcon

LEMMA ModestInit == Init => ModestCalls
<1> SUFFICES ASSUME Init PROVE ModestCalls
  OBVIOUS
<1>1. PICK f \in Files : stack = <<LeanifyFile(f, 1, 1)>>
  BY DEF Init
<1>2. max_depth \in Nat
  BY NestingAssumption DEF Init
<1>3. Modest(LeanifyFile(f, 1, 1))
  BY <1>2, NestingAssumption
     DEF Modest, LeanifyFile, GetType, Calls, LevelOf, Kinds, ByName, Archives, Plain
<1> QED
  BY <1>1, <1>2, <1>3 DEF ModestCalls, Modest

(* leanify.cpp:135-156: the open calls to Leanify are a stack of formats    *)
(* with the depths they were given, however far the files are nested.      *)
THEOREM NestingTypeCorrect == Spec => []TypeOK
<1>1. ModestCalls => TypeOK
  BY DEF ModestCalls, TypeOK
<1> QED  BY <1>1, ModestInit, ModestStep, PTL DEF Spec

(* leanify.cpp:35-38: whatever the files, their nesting and the limit, no  *)
(* file is passed over before its level is beyond the limit.               *)
THEOREM NothingSkippedEarly == Spec => []NotSkippedEarly
<1>1. ModestCalls => NotSkippedEarly
  <2> SUFFICES ASSUME ModestCalls, NEW k \in DOMAIN stack,
                      stack[k].file # Plain, stack[k].format = Plain
               PROVE  stack[k].level > max_depth
    BY DEF NotSkippedEarly
  <2>1. /\ Modest(stack[k]) /\ stack[k].level \in Nat /\ stack[k].depth \in Nat
        /\ max_depth \in Nat
    BY DEF ModestCalls, Modest, Calls
  <2> QED
    BY <2>1 DEF Modest, LevelOf, Plain
<1> QED
  BY <1>1, ModestInit, ModestStep, PTL DEF Spec

(* Every step keeps the depths exact inside formats that count.            *)
LEMMA ExactStep ==
  ASSUME ModestCalls, ExactCalls, [Next]_vars
  PROVE  ExactCalls'
<1>1. CASE UNCHANGED vars
  BY <1>1 DEF vars, ExactCalls, InsideCounting, Exact, LevelOf
<1>2. CASE Return
  BY <1>2, ReturnKeeps
<1>3. CASE stack # <<>> /\ Next
  <2> DEFINE top == Top
  <2>1. /\ top \in Calls /\ max_depth \in Nat
        /\ top.depth \in Nat \ {0} /\ top.level \in Nat \ {0}
    BY <1>3, TopCall DEF ModestCalls, Top, Calls
  <2>2. \A f \in Inside, d, n \in Nat \ {0} :
          /\ LeanifyFile(f, d, n) \in Calls
          /\ d = n => Exact(LeanifyFile(f, d, n))
    BY <2>1, NestingAssumption
       DEF Exact, LeanifyFile, GetType, Calls, LevelOf, Inside, Kinds, ByName,
           Archives, Plain
  <2>3. \A g \in Kinds \cup {"Base64"}, d, n \in Nat \ {0} :
          Object(g, d, n) \in Calls
    BY DEF Object, Calls
  <2>4. CASE OpenArchive
    <3>1. Exact(top) => top.depth + 1 = top.level + 1
      BY <2>4, <2>1 DEF OpenArchive, Archives, Exact, LevelOf
    <3> QED
      BY <1>3, <2>4, <3>1, <2>1, <2>2, CallKeepsExact DEF OpenArchive
  <2>5. CASE OpenWrapper
    <3>1. Exact(top) /\ top.format \in Counting => top.depth = top.level + 1
      BY <2>5, <2>1 DEF OpenWrapper, Wrappers, Exact, LevelOf, Counting, Archives, Plain
    <3> QED
      BY <1>3, <2>5, <3>1, <2>1, <2>2, CallKeepsExact DEF OpenWrapper
  <2>6. CASE OpenBook
    <3> DEFINE c == Object("Base64", top.depth + 1, top.level)
    <3>1. c \in Calls /\ (Exact(top) => Exact(c))
      BY <2>6, <2>1 DEF OpenBook, Object, Calls, Exact, LevelOf, Plain
    <3> QED
      BY <1>3, <2>6, <3>1, CallKeepsExact DEF OpenBook
  <2>7. CASE OpenDataURI \/ OpenMessage \/ OpenAsOther \/ OpenIcon
    <3>1. top.format \notin Counting
      BY <2>7
         DEF OpenDataURI, OpenMessage, OpenAsOther, OpenIcon, Counting, Archives, Plain
    <3>2. \E g \in Kinds \cup {"Base64"}, d, n \in Nat \ {0} : Call(Object(g, d, n))
      <4>1. {"DataURI", "Zip", "Png"} \subseteq Kinds
        BY DEF Kinds, ByName, Archives
      <4>2. \/ Call(Object("Base64", top.depth, top.level))
            \/ Call(Object("Base64", 1, top.level))
            \/ Call(Object("DataURI", 1, top.level))
            \/ Call(Object("Zip", 1, top.level))
            \/ Call(Object("Png", 1, top.level + 1))
        BY <2>7 DEF OpenDataURI, OpenMessage, OpenAsOther, OpenIcon
      <4>3. top.level + 1 \in Nat \ {0} /\ 1 \in Nat \ {0}
        BY <2>1
      <4> QED
        BY <2>1, <4>1, <4>2, <4>3
    <3> QED
      BY <1>3, <2>3, <3>1, <3>2, CallKeepsExact
  <2> QED
    BY <1>2, <1>3, <2>4, <2>5, <2>6, <2>7 DEF Next
<1> QED
  BY <1>1, <1>2, <1>3
     DEF Next, OpenArchive, OpenWrapper, OpenBook, OpenDataURI, OpenMessage,
         OpenAsOther, OpenIcon

(* main.h:16-18: inside archives and e-books, however nested and whatever  *)
(* else lies beside them, the limit is kept.                               *)
THEOREM ArchivesKeepTheLimit == Spec => []DepthBounded
<1>1. Init => ExactCalls
  BY NestingAssumption
     DEF Init, ExactCalls, Exact, LeanifyFile, GetType, LevelOf, Kinds, ByName,
         Archives, Plain
<1>2. ModestCalls /\ ExactCalls => DepthBounded
  <2> SUFFICES ASSUME ModestCalls, ExactCalls, NEW k \in DOMAIN stack,
                      InsideCounting(k), stack[k].format # Plain
               PROVE  stack[k].level <= max_depth
    BY DEF DepthBounded
  <2>1. /\ Exact(stack[k]) /\ stack[k].level \in Nat /\ stack[k].depth \in Nat
        /\ max_depth \in Nat
    BY DEF ModestCalls, ExactCalls, Modest, Calls
  <2> QED
    BY <2>1 DEF Exact, LevelOf
<1> QED
  BY <1>1, <1>2, ModestInit, ModestStep, ExactStep, PTL DEF Spec
=============================================================================
