----------------------------- MODULE JpegProofs -----------------------------
(***************************************************************************)
(* Proofs about Jpeg.  With any number of threads, whatever they do to     *)
(* each other, no image is replaced by nothing unless in fast mode, and as *)
(* long as no error leads into another call the smallest result is taken.  *)
(* An error never leads into a call that was made before the one it is     *)
(* raised in, and with one thread always into that one.                    *)
(***************************************************************************)
EXTENDS Jpeg, TLAPS

(* A thread that is in the library came there through a setjmp.            *)
BufferSet == \A t \in Threads : pc[t] \in InLibrary => setjmp_buffer \in Images

(* jpeg.cpp:143-166: once the progressive result was tried the outbuffer   *)
(* holds something.                                                        *)
ResultTried ==
  is_fast \/ \A t \in Threads :
               pc[t] \in {"baseline", "finish"} => outbuffer[t] # "nothing"

ThreadsInv == TypeOK /\ BufferSet /\ ResultTried /\ EmptyOnlyInFastMode

LEMMA ThreadsInit == Init => ThreadsInv
<1> SUFFICES ASSUME Init
             PROVE  ThreadsInv
  OBVIOUS
<1>1. TypeOK
  BY JpegAssumption DEF Init, TypeOK, InLibrary, Results
<1>2. BufferSet /\ ResultTried
  BY DEF Init, BufferSet, ResultTried, InLibrary
<1>3. EmptyOnlyInFastMode
  BY JpegAssumption DEF Init, EmptyOnlyInFastMode, NeverEmpty, Results
<1> QED  BY <1>1, <1>2, <1>3 DEF ThreadsInv

(* A call of the library goes on to the next one.                          *)
LEMMA LibraryStep ==
  ASSUME ThreadsInv, NEW t \in Threads,
         Setjmp(t) \/ ReadSource(t) \/ TryProgressive(t) \/ TryBaseline(t) \/ Error(t)
  PROVE  ThreadsInv'
<1> USE JpegAssumption DEF ThreadsInv, TypeOK, BufferSet, ResultTried,
        EmptyOnlyInFastMode, NeverEmpty, Goto, Calls, InLibrary, settings
<1>1. CASE Setjmp(t)
  BY <1>1 DEF Setjmp, Begin, Begun, Results
<1>2. CASE ReadSource(t)
  BY <1>2 DEF ReadSource
<1>3. CASE TryProgressive(t)
  BY <1>3 DEF TryProgressive, Results, Tried
<1>4. CASE TryBaseline(t)
  BY <1>4 DEF TryBaseline, Results, Tried
<1>5. CASE Error(t)
  BY <1>5 DEF Error
<1> QED  BY <1>1, <1>2, <1>3, <1>4, <1>5

(* A call of Leanify returns, be it the one of another thread.             *)
LEMMA ReturnStep ==
  ASSUME ThreadsInv, NEW t \in Threads,
         Finish(t) \/ Recover(t) \/ RecoverElsewhere(t) \/ CrashesElsewhere(t)
  PROVE  ThreadsInv'
<1> USE JpegAssumption DEF ThreadsInv, TypeOK, BufferSet, ResultTried,
        EmptyOnlyInFastMode, NeverEmpty, Goto, Calls, InLibrary, settings
<1>1. ASSUME NEW f \in Threads, image[f] \in Images, NEW r \in Results,
             r # "nothing" \/ is_fast, Returns(f, r), UNCHANGED settings
      PROVE  /\ result' \in [Images -> Results \cup {NoOne}]
             /\ srcinfo' \in [Threads -> {"none", "created", "destroyed"}]
             /\ EmptyOnlyInFastMode'
  BY <1>1 DEF Returns
<1>2. CASE Finish(t)
  <2> DEFINE r == IF SizeOf(image[t], outbuffer[t]) < sizes[image[t]]["original"]
                  THEN outbuffer[t] ELSE "original"
  <2>1. r \in Results /\ (r # "nothing" \/ is_fast)
    BY <1>2 DEF Finish, Results, Tried
  <2>2. image[t] \in Images
    BY <1>2 DEF Finish
  <2>3. Returns(t, r) /\ UNCHANGED settings
    BY <1>2 DEF Finish
  <2>4. /\ result' \in [Images -> Results \cup {NoOne}]
        /\ srcinfo' \in [Threads -> {"none", "created", "destroyed"}]
        /\ EmptyOnlyInFastMode'
    BY <2>1, <2>2, <2>3, <1>1
  <2> HIDE DEF r
  <2> QED
    BY <1>2, <2>4 DEF Finish, Leaves
<1>3. CASE Recover(t)
  <2>1. image[t] \in Images /\ "original" \in Results
    BY <1>3 DEF Recover, Results, Tried
  <2>2. /\ result' \in [Images -> Results \cup {NoOne}]
        /\ srcinfo' \in [Threads -> {"none", "created", "destroyed"}]
        /\ EmptyOnlyInFastMode'
    BY <1>1, <1>3, <2>1 DEF Recover
  <2>3. /\ pc' = [pc EXCEPT ![t] = "idle"]
        /\ image' = [image EXCEPT ![t] = NoOne] /\ stack' = [stack EXCEPT ![t] = NoOne]
        /\ UNCHANGED <<is_fast, pool, sizes, setjmp_buffer, outbuffer, crashed, earlier>>
    BY <1>3 DEF Recover, Leaves
  <2>4. /\ \A u \in Threads : pc'[u] \in InLibrary => pc[u] = pc'[u]
        /\ \A u \in Threads : pc'[u] # "idle" <=> image'[u] \in Images
    BY <2>3
  <2> QED  BY <2>2, <2>3, <2>4
<1>4. CASE RecoverElsewhere(t)
  <2>1. /\ pc' = [pc EXCEPT ![t] = "lost"]
        /\ UNCHANGED <<is_fast, pool, sizes, setjmp_buffer, stack, image,
                       outbuffer, crashed, earlier>>
    BY <1>4 DEF RecoverElsewhere
  <2>2. /\ \A u \in Threads : pc'[u] \in InLibrary => pc[u] = pc'[u]
        /\ \A u \in Threads : pc'[u] # "idle" <=> image[u] \in Images
    BY <1>4, <2>1 DEF RecoverElsewhere
  <2>3. /\ result' \in [Images -> Results \cup {NoOne}]
        /\ srcinfo' \in [Threads -> {"none", "created", "destroyed"}]
        /\ EmptyOnlyInFastMode'
    <3>1. CASE \E u \in Threads : image[u] = stack[t] /\ Returns(u, "original")
      <4>1. PICK u \in Threads : image[u] = stack[t] /\ Returns(u, "original")
        BY <3>1
      <4>2. CASE image[u] \in Images
        BY <1>1, <2>1, <4>1, <4>2 DEF Results, Tried
      <4>3. CASE image[u] \notin Images
        <5>1. result' = result
          <6>1. result' = [result EXCEPT ![image[u]] = "original"] /\ DOMAIN result = Images
            BY <4>1 DEF Returns
          <6>2. \A i \in Images : result'[i] = result[i]
            BY <4>3, <6>1
          <6> QED  BY <6>1, <6>2
        <5>2. srcinfo' = [srcinfo EXCEPT ![u] = "destroyed"]
          BY <4>1 DEF Returns
        <5> QED  BY <2>1, <5>1, <5>2
      <4> QED  BY <4>2, <4>3
    <3>2. CASE UNCHANGED <<result, srcinfo>>
      BY <2>1, <3>2
    <3> QED  BY <1>4, <3>1, <3>2 DEF RecoverElsewhere
  <2> QED  BY <2>1, <2>2, <2>3
<1>5. CASE CrashesElsewhere(t)
  BY <1>5 DEF CrashesElsewhere
<1> QED  BY <1>2, <1>3, <1>4, <1>5

LEMMA ThreadsStep == ThreadsInv /\ [Next]_vars => ThreadsInv'
<1> SUFFICES ASSUME ThreadsInv, [Next]_vars
             PROVE  ThreadsInv'
  OBVIOUS
<1>1. ASSUME NEW t \in pool, LeanifyStep(t)
      PROVE  ThreadsInv'
  <2>1. t \in Threads
    BY JpegAssumption DEF ThreadsInv, TypeOK
  <2> QED  BY <1>1, <2>1, LibraryStep, ReturnStep DEF LeanifyStep
<1>2. CASE UNCHANGED vars
  BY <1>2 DEF vars, settings, ThreadsInv, TypeOK, BufferSet, ResultTried,
     EmptyOnlyInFastMode, NeverEmpty
<1> QED  BY <1>1, <1>2 DEF Next, Ended

(* jpeg.cpp:143-177: whatever the threads, the images and the errors, no   *)
(* image is replaced by nothing unless in fast mode.                       *)
THEOREM NothingEmptied == Spec => []EmptyOnlyInFastMode
<1>1. ThreadsInv => EmptyOnlyInFastMode
  BY DEF ThreadsInv
<1> QED  BY ThreadsInit, ThreadsStep, <1>1, PTL DEF Spec
-----------------------------------------------------------------------------
(* The calls that were made do not become fewer.                           *)
LEMMA BegunGrows ==
  ASSUME TypeOK, NEW t \in Threads, LeanifyStep(t)
  PROVE  Begun \subseteq Begun'
<1>1. CASE Setjmp(t)
  <2>1. PICK i \in Images : Begin(t, i)
    BY <1>1 DEF Setjmp
  <2>2. \A u \in Threads : image[u] \in Images => image'[u] \in Images
    BY <2>1 DEF Begin, TypeOK
  <2>3. UNCHANGED result
    BY <2>1 DEF Begin
  <2>4. ASSUME NEW j \in Begun
        PROVE  j \in Begun'
    <3>1. CASE result[j] # NoOne
      BY <2>3, <2>4, <3>1 DEF Begun
    <3>2. CASE \E u \in Threads : image[u] = j
      <4>1. PICK u \in Threads : image[u] = j
        BY <3>2
      <4>2. u # t
        BY <2>1, <2>4, <4>1, JpegAssumption DEF Begin, TypeOK, Begun
      <4>3. image'[u] = j
        BY <2>1, <4>1, <4>2 DEF Begin, TypeOK
      <4> QED  BY <2>4, <4>3 DEF Begun
    <3> QED  BY <2>4, <3>1, <3>2 DEF Begun
  <2> QED  BY <2>4
<1>2. CASE ReadSource(t) \/ TryProgressive(t) \/ TryBaseline(t) \/ Error(t) \/ CrashesElsewhere(t)
  BY <1>2 DEF ReadSource, TryProgressive, TryBaseline, Error, CrashesElsewhere, Begun
<1>3. CASE Finish(t) \/ Recover(t)
  <2>1. PICK r \in Results : result' = [result EXCEPT ![image[t]] = r]
    BY <1>3 DEF Finish, Recover, Returns, TypeOK, Results, Tried
  <2>2. image[t] \in Images /\ image' = [image EXCEPT ![t] = NoOne] /\ r # NoOne
    <3>1. pc[t] # "idle" /\ image' = [image EXCEPT ![t] = NoOne]
      BY <1>3 DEF Finish, Recover, Leaves, Calls
    <3> QED  BY <3>1, JpegAssumption DEF TypeOK, Results, Tried
  <2>3. ASSUME NEW j \in Begun
        PROVE  j \in Begun'
    <3>1. CASE j = image[t]
      BY <2>1, <2>2, <2>3, <3>1 DEF Begun, TypeOK
    <3>2. CASE j # image[t]
      BY <2>1, <2>2, <2>3, <3>2 DEF Begun, TypeOK
    <3> QED  BY <3>1, <3>2
  <2> QED  BY <2>3
<1>4. CASE RecoverElsewhere(t)
  BY <1>4, JpegAssumption DEF RecoverElsewhere, Returns, Begun, TypeOK
<1> QED  BY <1>1, <1>2, <1>3, <1>4 DEF LeanifyStep

(* jpeg.cpp:84-88: while a call of the library can raise an error, the     *)
(* jump buffer leads into the call of Leanify that made it or, with -p,    *)
(* into a later one; only calls that were made were made earlier.          *)
CallsInv ==
  /\ crashed => ~ Sequential
  /\ \A i \in Images : earlier[i] \subseteq Begun
  /\ \A t \in Threads :
       /\ pc[t] # "idle" => t \in pool
       /\ pc[t] \in InLibrary => OwnOrLater(t, setjmp_buffer)
       /\ pc[t] \in InLibrary /\ Sequential => srcinfo[t] = "created"
       /\ pc[t] \in {"recover", "lost"} => OwnOrLater(t, stack[t])

LEMMA CallsInit == Init => CallsInv
BY JpegAssumption DEF Init, CallsInv, InLibrary

(* The first steps of a call: it is later than all others.                 *)
LEMMA SetjmpCalls ==
  ASSUME TypeOK, CallsInv, NEW t \in pool, t \in Threads, Setjmp(t)
  PROVE  CallsInv'
<1>1. PICK i \in Images : Begin(t, i) /\ setjmp_buffer' = i
  BY DEF Setjmp
<1>2. /\ i \notin Begun /\ i \in Begun' /\ Begun \subseteq Begun'
      /\ image' = [image EXCEPT ![t] = i] /\ pc' = [pc EXCEPT ![t] = "read"]
      /\ earlier' = [earlier EXCEPT ![i] = Begun]
      /\ srcinfo' = [srcinfo EXCEPT ![t] = "created"]
      /\ stack' = [stack EXCEPT ![t] = i]
      /\ UNCHANGED <<pool, crashed>> /\ pc[t] = "idle"
  <2>1. Begun \subseteq Begun'
    BY BegunGrows DEF LeanifyStep
  <2>2. i \in Begun'
    BY <1>1 DEF Begin, Begun, TypeOK
  <2> QED  BY <1>1, <2>1, <2>2 DEF Begin, Goto, settings
<1>3. ASSUME NEW u \in Threads \ {t}, pc[u] # "idle"
      PROVE  /\ ~ Sequential /\ image[u] \in Begun /\ image'[u] = image[u]
             /\ earlier'[image[u]] = earlier[image[u]] /\ i \notin earlier[image[u]]
  <2>1. u \in pool /\ ~ Sequential
    BY <1>3 DEF CallsInv, Sequential
  <2>2. image[u] \in Begun /\ image[u] \in Images
    BY <1>3 DEF TypeOK, Begun
  <2> QED  BY <1>2, <1>3, <2>1, <2>2 DEF CallsInv, TypeOK
<1>4. Sequential' = Sequential
  BY <1>2 DEF Sequential
<1>5. \A j \in Images : earlier'[j] \subseteq Begun'
  BY <1>2 DEF CallsInv, TypeOK
<1>6. ASSUME NEW u \in Threads
      PROVE  /\ pc'[u] # "idle" => u \in pool
             /\ pc'[u] \in InLibrary => OwnOrLater(u, setjmp_buffer)'
             /\ pc'[u] \in InLibrary /\ Sequential => srcinfo'[u] = "created"
             /\ pc'[u] \in {"recover", "lost"} => OwnOrLater(u, stack[u])'
  <2>1. CASE u = t
    BY <1>1, <1>2, <2>1 DEF OwnOrLater, TypeOK
  <2>2. CASE u # t
    <3>1. pc'[u] = pc[u] /\ srcinfo'[u] = srcinfo[u] /\ stack'[u] = stack[u]
      BY <1>2, <2>2 DEF TypeOK
    <3>2. pc[u] \in InLibrary => OwnOrLater(u, setjmp_buffer)'
      BY <1>1, <1>2, <1>3, <1>4, <2>2 DEF OwnOrLater, InLibrary
    <3>3. pc[u] \in {"recover", "lost"} => OwnOrLater(u, stack[u])'
      BY <1>2, <1>3, <1>4, <2>2, <3>1 DEF OwnOrLater, CallsInv
    <3> QED  BY <3>1, <3>2, <3>3 DEF CallsInv
  <2> QED  BY <2>1, <2>2
<1> QED  BY <1>2, <1>4, <1>5, <1>6 DEF CallsInv

(* The other steps make no call.                                           *)
LEMMA OtherCalls ==
  ASSUME TypeOK, CallsInv, NEW t \in pool, t \in Threads, LeanifyStep(t), ~ Setjmp(t)
  PROVE  CallsInv'
<1>1. Begun \subseteq Begun'
  BY BegunGrows
<1>2. UNCHANGED <<pool, earlier, setjmp_buffer>>
  BY DEF LeanifyStep, ReadSource, TryProgressive, TryBaseline, Finish, Error,
     Recover, RecoverElsewhere, CrashesElsewhere, settings
<1>3. Sequential' = Sequential
  BY <1>2 DEF Sequential
<1>4. \A u \in Threads : \A f : image'[u] = image[u] /\ OwnOrLater(u, f) => OwnOrLater(u, f)'
  BY <1>1, <1>2, <1>3 DEF OwnOrLater
<1>5. Sequential => \A u \in Threads : u # t => pc[u] = "idle"
  BY DEF CallsInv, Sequential
<1>6. CASE ReadSource(t) \/ TryProgressive(t) \/ TryBaseline(t)
  BY <1>1, <1>2, <1>3, <1>4, <1>6
     DEF ReadSource, TryProgressive, TryBaseline, Calls, Goto, CallsInv, InLibrary, TypeOK
<1>7. CASE Error(t)
  <2>1. OwnOrLater(t, setjmp_buffer)
    BY <1>7 DEF Error, CallsInv
  <2>2. /\ stack' = [stack EXCEPT ![t] = setjmp_buffer] /\ pc' = [pc EXCEPT ![t] = "recover"]
        /\ UNCHANGED <<image, srcinfo, crashed>>
    BY <1>7 DEF Error, Goto
  <2>3. ASSUME NEW u \in Threads
        PROVE  pc'[u] \in {"recover", "lost"} => OwnOrLater(u, stack'[u])
    BY <2>1, <2>2 DEF CallsInv, TypeOK
  <2>4. \A u \in Threads : pc'[u] \in {"recover", "lost"} => OwnOrLater(u, stack[u])'
    BY <1>4, <2>2, <2>3 DEF OwnOrLater
  <2> QED
    BY <1>1, <1>2, <1>3, <1>4, <2>2, <2>4 DEF CallsInv, InLibrary, TypeOK
<1>8. CASE Finish(t) \/ Recover(t)
  <2>1. /\ pc' = [pc EXCEPT ![t] = "idle"] /\ UNCHANGED crashed
        /\ \A u \in Threads \ {t} : /\ image'[u] = image[u] /\ stack'[u] = stack[u]
                                    /\ srcinfo'[u] = srcinfo[u] /\ pc'[u] = pc[u]
    BY <1>8 DEF Finish, Recover, Returns, Leaves, Goto, TypeOK
  <2>2. \A u \in Threads \ {t} : pc'[u] \in {"recover", "lost"} => OwnOrLater(u, stack[u])'
    BY <1>4, <2>1 DEF CallsInv, OwnOrLater
  <2>3. \A u \in Threads \ {t} : pc'[u] \in InLibrary => OwnOrLater(u, setjmp_buffer)'
    BY <1>2, <1>4, <2>1 DEF CallsInv, OwnOrLater
  <2>4. pc'[t] = "idle"
    BY <2>1 DEF TypeOK
  <2> QED
    BY <1>1, <1>2, <1>3, <2>1, <2>2, <2>3, <2>4 DEF CallsInv, InLibrary, TypeOK
<1>9. CASE RecoverElsewhere(t)
  <2>1. /\ pc' = [pc EXCEPT ![t] = "lost"] /\ UNCHANGED <<image, stack, crashed>>
        /\ ~ Sequential
    BY <1>9 DEF RecoverElsewhere, Goto, CallsInv, OwnOrLater
  <2>2. \A u \in Threads : pc'[u] \in {"recover", "lost"} => OwnOrLater(u, stack[u])
    BY <1>9, <2>1 DEF CallsInv, RecoverElsewhere, TypeOK
  <2>3. \A u \in Threads : pc'[u] \in {"recover", "lost"} => OwnOrLater(u, stack[u])'
    BY <1>4, <2>1, <2>2 DEF OwnOrLater
  <2>4. \A u \in Threads : pc'[u] \in InLibrary => OwnOrLater(u, setjmp_buffer)'
    BY <1>2, <1>4, <2>1 DEF CallsInv, OwnOrLater, InLibrary, TypeOK
  <2> QED
    BY <1>1, <1>2, <1>3, <2>1, <2>3, <2>4 DEF CallsInv, TypeOK
<1>10. CASE CrashesElsewhere(t)
  <2>1. ~ Sequential
    BY <1>10 DEF CrashesElsewhere, CallsInv, OwnOrLater
  <2>2. UNCHANGED <<pc, image, stack, srcinfo>>
    BY <1>10 DEF CrashesElsewhere
  <2>3. \A u \in Threads : pc'[u] \in {"recover", "lost"} => OwnOrLater(u, stack[u])'
    BY <1>4, <2>2 DEF CallsInv, OwnOrLater
  <2>4. \A u \in Threads : pc'[u] \in InLibrary => OwnOrLater(u, setjmp_buffer)'
    BY <1>2, <1>4, <2>2 DEF CallsInv, OwnOrLater
  <2> QED
    BY <1>1, <1>2, <1>3, <2>1, <2>2, <2>3, <2>4 DEF CallsInv
<1> QED  BY <1>6, <1>7, <1>8, <1>9, <1>10 DEF LeanifyStep

LEMMA CallsStep == TypeOK /\ CallsInv /\ [Next]_vars => CallsInv'
<1> SUFFICES ASSUME TypeOK, CallsInv, [Next]_vars
             PROVE  CallsInv'
  OBVIOUS
<1>1. ASSUME NEW t \in pool, LeanifyStep(t)
      PROVE  CallsInv'
  <2>1. t \in Threads
    BY JpegAssumption DEF TypeOK
  <2> QED  BY <1>1, <2>1, SetjmpCalls, OtherCalls
<1>2. CASE UNCHANGED vars
  BY <1>2 DEF vars, settings, CallsInv, OwnOrLater, Begun, Sequential
<1> QED  BY <1>1, <1>2 DEF Next, Ended

(* jpeg.cpp:16,84-88: whatever threads there are and whatever images fail  *)
(* in whatever calls, an error leads into its own call or, with several    *)
(* threads, into a later one of another thread, never into an earlier one; *)
(* with one thread no error is the end of the process.                     *)
THEOREM ErrorsLeadForward == Spec => []ErrorsStayLocal
<1>1. ThreadsInv => TypeOK
  BY DEF ThreadsInv
<1>2. CallsInv => ErrorsStayLocal
  BY DEF CallsInv, ErrorsStayLocal
<1> QED  BY ThreadsInit, ThreadsStep, CallsInit, CallsStep, <1>1, <1>2, PTL DEF Spec
-----------------------------------------------------------------------------
(* Only a call that was led away, and is in the library no more, is in     *)
(* another stack frame than its own.                                       *)
Frames ==
  \A t \in Threads : pc[t] \in InLibrary \cup {"idle"} => stack[t] = image[t]

(* jpeg.cpp:143-166: the results tried for image i without fast mode, and  *)
(* the smallest of them.                                                   *)
TriedFor(i) ==
  {"progressive"} \cup IF sizes[i].original < SmallFile THEN {"baseline"} ELSE {}
IsSmallest(i, r) ==
  r \in TriedFor(i) /\ \A q \in TriedFor(i) : SizeOf(i, r) <= SizeOf(i, q)

(* What the outbuffer holds, and who may have to recover.                  *)
SmallestHeld ==
  \A t \in Threads :
    /\ ~ is_fast /\ pc[t] = "baseline" => outbuffer[t] = "progressive"
    /\ ~ is_fast /\ pc[t] = "finish" => IsSmallest(image[t], outbuffer[t])
    /\ pc[t] = "recover" => image[t] \in Damaged

(* What image i may be replaced by.                                        *)
Right(i, r) ==
  \/ IsSmallest(i, r) /\ SizeOf(i, r) < SizeOf(i, "original")
  \/ /\ r = "original"
     /\ i \in Damaged \/ \A q \in TriedFor(i) : SizeOf(i, "original") <= SizeOf(i, q)

ResultsRight ==
  \A i \in Images : ~ is_fast /\ result[i] # NoOne => Right(i, result[i])

SmallestInv == Frames /\ (InOwnFrames => SmallestHeld /\ ResultsRight)

LEMMA SizesAreNat ==
  ASSUME TypeOK, NEW i \in Images, NEW r \in Tried
  PROVE  SizeOf(i, r) = sizes[i][r] /\ SizeOf(i, r) \in Nat
<1>1. r # "nothing"
  BY DEF Tried
<1>2. sizes[i][r] \in Sizes
  BY DEF TypeOK
<1> QED  BY <1>1, <1>2, JpegAssumption DEF SizeOf

(* The frames stay as they are, but for those of calls that are led away.  *)
LEMMA FramesStep ==
  ASSUME TypeOK, Frames, NEW t \in Threads, LeanifyStep(t)
  PROVE  Frames' /\ (InOwnFrames' => InOwnFrames)
<1> USE DEF TypeOK, Frames, InOwnFrames, InLibrary, Goto, Calls
<1>1. CASE Error(t)
  <2>1. pc[t] \in InLibrary
    BY <1>1 DEF Error
  <2>2. /\ stack[t] = image[t] /\ pc' = [pc EXCEPT ![t] = "recover"]
        /\ \A u \in Threads \ {t} : stack'[u] = stack[u]
        /\ UNCHANGED <<image, crashed>>
    BY <1>1, <2>1 DEF Error
  <2> QED  BY <2>2
<1>2. CASE Setjmp(t) \/ Finish(t) \/ Recover(t)
  <2>1. stack[t] = image[t]
    BY <1>2 DEF Setjmp, Begin, Finish, Recover
  <2>2. /\ \A u \in Threads \ {t} : /\ stack'[u] = stack[u] /\ image'[u] = image[u]
                                    /\ pc'[u] = pc[u]
        /\ UNCHANGED crashed
    BY <1>2 DEF Setjmp, Begin, Finish, Recover, Leaves
  <2>3. stack'[t] = image'[t]
    BY <1>2 DEF Setjmp, Begin, Finish, Recover, Leaves
  <2> QED  BY <2>1, <2>2, <2>3
<1>3. CASE ReadSource(t) \/ TryProgressive(t) \/ TryBaseline(t)
  BY <1>3 DEF ReadSource, TryProgressive, TryBaseline
<1>4. CASE RecoverElsewhere(t)
  BY <1>4 DEF RecoverElsewhere
<1>5. CASE CrashesElsewhere(t)
  BY <1>5 DEF CrashesElsewhere
<1> QED  BY <1>1, <1>2, <1>3, <1>4, <1>5 DEF LeanifyStep

(* What is known of a result stays true while the sizes stay.              *)
LEMMA RightStays ==
  ASSUME UNCHANGED sizes, NEW i, NEW r
  PROVE  (IsSmallest(i, r))' = IsSmallest(i, r) /\ (Right(i, r))' = Right(i, r)
BY DEF IsSmallest, Right, TriedFor, SizeOf

(* Each result that is tried leaves the smallest in the outbuffer.         *)
LEMMA TryStep ==
  ASSUME TypeOK, SmallestHeld, NEW t \in Threads,
         Setjmp(t) \/ ReadSource(t) \/ TryProgressive(t) \/ TryBaseline(t) \/ Error(t)
  PROVE  SmallestHeld'
<1>1. UNCHANGED <<is_fast, sizes>>
  BY DEF Setjmp, Begin, ReadSource, TryProgressive, TryBaseline, Error, settings
<1>2. \A i, r : (IsSmallest(i, r))' = IsSmallest(i, r)
  BY <1>1, RightStays
<1>3. CASE Setjmp(t)
  BY <1>1, <1>2, <1>3 DEF Setjmp, Begin, Goto, TypeOK, SmallestHeld
<1>4. CASE ReadSource(t)
  BY <1>1, <1>2, <1>4 DEF ReadSource, Calls, Goto, TypeOK, SmallestHeld
<1>5. CASE TryProgressive(t)
  BY <1>1, <1>2, <1>5 DEF TryProgressive, Calls, Goto, TypeOK, SmallestHeld
<1>6. CASE TryBaseline(t)
  <2> DEFINE i == image[t]
  <2>1. i \in Images /\ pc[t] = "baseline" /\ (~ is_fast => outbuffer[t] = "progressive")
    BY <1>6 DEF TryBaseline, Calls, TypeOK, SmallestHeld
  <2>2. /\ SizeOf(i, "baseline") \in Nat /\ SizeOf(i, "progressive") \in Nat
    BY <2>1, SizesAreNat DEF Tried
  <2>3. ~ is_fast => IsSmallest(i, outbuffer'[t])
    <3> SUFFICES ASSUME ~ is_fast
                 PROVE  IsSmallest(i, outbuffer'[t])
      OBVIOUS
    <3> DEFINE b == /\ sizes[i].original < SmallFile
                    /\ SizeOf(i, "baseline") < SizeOf(i, "progressive")
    <3>1. outbuffer'[t] = IF b THEN "baseline" ELSE "progressive"
      BY <1>6, <2>1 DEF TryBaseline, TypeOK
    <3>2. TriedFor(i) = IF sizes[i].original < SmallFile
                        THEN {"progressive", "baseline"} ELSE {"progressive"}
      BY DEF TriedFor
    <3> HIDE DEF i
    <3> QED  BY <2>2, <3>1, <3>2 DEF IsSmallest
  <2>4. /\ pc' = [pc EXCEPT ![t] = "finish"] /\ image' = image
        /\ \A u \in Threads \ {t} : outbuffer'[u] = outbuffer[u]
    BY <1>6 DEF TryBaseline, Goto, TypeOK
  <2> QED  BY <1>1, <1>2, <2>3, <2>4 DEF TypeOK, SmallestHeld
<1>7. CASE Error(t)
  BY <1>1, <1>2, <1>7 DEF Error, Calls, Goto, TypeOK, SmallestHeld
<1> QED  BY <1>3, <1>4, <1>5, <1>6, <1>7

(* A call returns with the smallest result, or with what failed.           *)
LEMMA AnswerStep ==
  ASSUME TypeOK, SmallestHeld, ResultsRight, NEW t \in Threads, Finish(t) \/ Recover(t)
  PROVE  SmallestHeld' /\ ResultsRight'
<1> DEFINE i == image[t]
<1>1. /\ UNCHANGED <<is_fast, sizes, outbuffer>> /\ pc[t] \in {"finish", "recover"}
      /\ pc' = [pc EXCEPT ![t] = "idle"] /\ image' = [image EXCEPT ![t] = NoOne]
  BY DEF Finish, Recover, Leaves, Calls, Goto, settings
<1>2. \A j, r : (IsSmallest(j, r))' = IsSmallest(j, r) /\ (Right(j, r))' = Right(j, r)
  BY <1>1, RightStays
<1>3. SmallestHeld'
  BY <1>1, <1>2 DEF TypeOK, SmallestHeld
<1>4. i \in Images
  BY <1>1 DEF TypeOK
<1>5. PICK r : result' = [result EXCEPT ![i] = r] /\ (~ is_fast => Right(i, r))
  <2>1. CASE Finish(t)
    <3> DEFINE s == outbuffer[t]
    <3>1. ~ is_fast => IsSmallest(i, s)
      BY <2>1 DEF Finish, Calls, SmallestHeld
    <3>2. SizeOf(i, "original") = sizes[i].original /\ SizeOf(i, "original") \in Nat
      BY <1>4, SizesAreNat DEF Tried
    <3>3. \A q \in TriedFor(i) : SizeOf(i, q) \in Nat
      <4>1. TriedFor(i) \subseteq Tried
        BY DEF TriedFor, Tried
      <4> QED  BY <1>4, <4>1, SizesAreNat
    <3> DEFINE r == IF SizeOf(i, s) < sizes[i].original THEN s ELSE "original"
    <3>4. result' = [result EXCEPT ![i] = r]
      BY <2>1 DEF Finish, Returns
    <3>5. ~ is_fast => Right(i, r)
      <4> HIDE DEF i, s
      <4> QED  BY <3>1, <3>2, <3>3 DEF Right, IsSmallest
    <3> QED  BY <3>4, <3>5
  <2>2. CASE Recover(t)
    <3>1. i \in Damaged
      BY <2>2 DEF Recover, SmallestHeld
    <3> QED  BY <2>2, <3>1 DEF Recover, Returns, Right
  <2> QED  BY <2>1, <2>2
<1>6. ResultsRight'
  <2> SUFFICES ASSUME NEW j \in Images, ~ is_fast, result'[j] # NoOne
               PROVE  Right(j, result'[j])
    BY <1>1, <1>2 DEF ResultsRight
  <2>1. CASE j = i
    BY <1>4, <1>5, <2>1 DEF TypeOK
  <2>2. CASE j # i
    BY <1>5, <2>2 DEF TypeOK, ResultsRight
  <2> QED  BY <2>1, <2>2
<1> QED  BY <1>3, <1>6

LEMMA SmallestStep == TypeOK /\ SmallestInv /\ [Next]_vars => SmallestInv'
<1> SUFFICES ASSUME TypeOK, SmallestInv, [Next]_vars
             PROVE  SmallestInv'
  OBVIOUS
<1>1. ASSUME NEW t \in pool, LeanifyStep(t)
      PROVE  SmallestInv'
  <2>1. t \in Threads
    BY JpegAssumption DEF TypeOK
  <2>2. Frames' /\ (InOwnFrames' => InOwnFrames)
    BY <1>1, <2>1, FramesStep DEF SmallestInv
  <2> SUFFICES ASSUME InOwnFrames', SmallestHeld, ResultsRight
               PROVE  SmallestHeld' /\ ResultsRight'
    BY <2>2 DEF SmallestInv
  <2>3. CASE Setjmp(t) \/ ReadSource(t) \/ TryProgressive(t) \/ TryBaseline(t) \/ Error(t)
    <3>1. UNCHANGED <<is_fast, sizes, result>>
      BY <2>3 DEF Setjmp, Begin, ReadSource, TryProgressive, TryBaseline, Error, settings
    <3>2. \A j, r : (Right(j, r))' = Right(j, r)
      BY <3>1, RightStays
    <3>3. ResultsRight'
      BY <3>1, <3>2 DEF ResultsRight
    <3> QED  BY <2>1, <2>3, <3>3, TryStep
  <2>4. CASE Finish(t) \/ Recover(t)
    BY <2>1, <2>4, AnswerStep
  <2>5. ~ RecoverElsewhere(t) /\ ~ CrashesElsewhere(t)
    BY <2>1, <2>2 DEF RecoverElsewhere, CrashesElsewhere, InOwnFrames
  <2> QED  BY <1>1, <2>3, <2>4, <2>5 DEF LeanifyStep
<1>2. CASE UNCHANGED vars
  <2>1. UNCHANGED <<is_fast, pool, sizes, pc, stack, image, outbuffer, result, crashed>>
    BY <1>2 DEF vars, settings
  <2>2. \A j, r : (IsSmallest(j, r))' = IsSmallest(j, r) /\ (Right(j, r))' = Right(j, r)
    BY <2>1, RightStays
  <2> QED  BY <2>1, <2>2 DEF SmallestInv, Frames, InOwnFrames, SmallestHeld, ResultsRight
<1> QED  BY <1>1, <1>2 DEF Next, Ended

(* jpeg.cpp:143-177: as long as errors stay local, for any threads, images *)
(* and sizes, an image is replaced by the smallest of the results that     *)
(* were tried, or stays as it is.                                          *)
THEOREM SmallestTaken == Spec => []SmallestTried
<1>1. Init => SmallestInv
  <2> SUFFICES ASSUME Init
               PROVE  Frames /\ SmallestHeld /\ ResultsRight
    BY DEF SmallestInv
  <2>1. \A t \in Threads : pc[t] = "idle" /\ stack[t] = image[t]
    BY DEF Init
  <2>2. \A i \in Images : result[i] = NoOne
    BY DEF Init
  <2> QED  BY <2>1, <2>2 DEF Frames, SmallestHeld, ResultsRight
<1>2. ThreadsInv => TypeOK
  BY DEF ThreadsInv
<1>3. SmallestInv => SmallestTried
  BY DEF SmallestInv, SmallestTried, ResultsRight, Right, IsSmallest, TriedFor
<1> QED  BY ThreadsInit, ThreadsStep, SmallestStep, <1>1, <1>2, <1>3, PTL DEF Spec

(* jpeg.cpp:76-182: every variable keeps its type, and a thread in Leanify *)
(* keeps its image, whatever errors lead where.                            *)
THEOREM JpegTypeCorrect == Spec => []TypeOK
<1>1. ThreadsInv => TypeOK
  BY DEF ThreadsInv
<1> QED  BY ThreadsInit, ThreadsStep, <1>1, PTL DEF Spec
=============================================================================
