-------------------------------- MODULE Jpeg --------------------------------
(***************************************************************************)
(* Recompression of JPEG images by the threads of the executor (jpeg.cpp). *)
(* Every call of Jpeg::Leanify marks where to go on after an error of      *)
(* mozjpeg with setjmp; the error handler goes there with longjmp.  The    *)
(* jump buffer is a global variable, so all calls under way share it.      *)
(* Leanify is called once for every image, so an image stands for the call *)
(* and its stack frame as well, also after the call has returned.          *)
(*                                                                         *)
(* mozjpeg itself is external: an image has a size when compressed         *)
(* progressively and one when compressed as baseline, and a damaged image  *)
(* may raise an error in any call of the library.  Which markers are kept  *)
(* and the warning about the orientation are left out.                     *)
(***************************************************************************)
EXTENDS Naturals, FiniteSets

CONSTANTS
  Images,       \* the JPEG images to be processed
  Threads,      \* the threads there may be
  Pools,        \* the sets of them that the executor may be made with
  Damaged,      \* the images mozjpeg may raise an error for
  Sizes,        \* the sizes that images and results can have
  SmallFile,    \* images smaller than this are tried as baseline as well
  FastModes,    \* the values of is_fast considered
  NoOne         \* no thread, no image

(* What an image can be replaced by, and itself.                           *)
Tried == {"original", "progressive", "baseline"}
Results == Tried \cup {"nothing"}

ASSUME JpegAssumption ==
  /\ Damaged \subseteq Images
  /\ Pools \subseteq SUBSET Threads
  /\ Sizes \subseteq Nat \ {0}
  /\ SmallFile \in Nat
  /\ FastModes \subseteq BOOLEAN
  /\ NoOne \notin Threads \cup Images \cup Results

VARIABLES
  is_fast,        \* the setting of this run
  pool,           \* the executor's threads: one, or with -p several
  sizes,          \* of each image: as it is, progressive, baseline
  setjmp_buffer,  \* the call of Leanify that it leads into
  pc,             \* where each thread is in Leanify
  image,          \* the call that each thread has made
  stack,          \* the call on whose stack frame each thread works
  srcinfo,        \* its decompressor: "none", "created" or "destroyed"
  outbuffer,      \* which result its outbuffer holds
  result,         \* what each image was replaced by
  crashed,        \* did the process die?
  earlier         \* history: the calls that were made before each call

settings == <<is_fast, pool, sizes>>

vars == <<settings, setjmp_buffer, pc, stack, image, srcinfo, outbuffer,
          result, crashed, earlier>>

(* How long a result of image i is; an empty outbuffer has outsize 0.      *)
SizeOf(i, r) == IF r = "nothing" THEN 0 ELSE sizes[i][r]

Init ==
  /\ is_fast \in FastModes /\ pool \in Pools
  /\ sizes \in [Images -> [Tried -> Sizes]]
  /\ setjmp_buffer = NoOne
  /\ pc = [t \in Threads |-> "idle"]
  /\ stack = [t \in Threads |-> NoOne]
  /\ image = [t \in Threads |-> NoOne]
  /\ srcinfo = [t \in Threads |-> "none"]
  /\ outbuffer = [t \in Threads |-> "nothing"]
  /\ result = [i \in Images |-> NoOne]
  /\ crashed = FALSE
  /\ earlier = [i \in Images |-> {}]

Goto(t, l) == pc' = [pc EXCEPT ![t] = l]

Begun == {i \in Images : result[i] # NoOne \/ \E t \in Threads : image[t] = i}

(* Thread t is given image i.                                              *)
Begin(t, i) ==
  /\ pc[t] = "idle" /\ ~ crashed
  /\ i \in Images \ Begun
  /\ image' = [image EXCEPT ![t] = i] /\ stack' = [stack EXCEPT ![t] = i]
  /\ earlier' = [earlier EXCEPT ![i] = Begun]
  /\ srcinfo' = [srcinfo EXCEPT ![t] = "created"]
  /\ outbuffer' = [outbuffer EXCEPT ![t] = "nothing"]
  /\ Goto(t, "read")
  /\ UNCHANGED <<settings, result, crashed>>

(* fault: setjmp is only called for the first image.                       *)
Setjmp_Once(t) ==
  \E i \in Images :
    Begin(t, i) /\ setjmp_buffer' = IF setjmp_buffer = NoOne THEN i ELSE setjmp_buffer

(* A thread enters Leanify for the next image: the error handler is set    *)
(* up, setjmp and jpeg_create_decompress are called.                       *)
Setjmp(t) == \E i \in Images : Begin(t, i) /\ setjmp_buffer' = i

(* The library works for thread t: its decompressor must be there.         *)
Calls(t, l) == pc[t] = l /\ ~ crashed /\ srcinfo[t] = "created"

(* jpeg_read_header and jpeg_read_coefficients.                            *)
ReadSource(t) ==
  /\ Calls(t, "read")
  /\ Goto(t, "progressive")
  /\ UNCHANGED <<settings, setjmp_buffer, stack, image, srcinfo, outbuffer,
                 result, crashed, earlier>>

TryProgressive(t) ==
  /\ Calls(t, "progressive")
  /\ outbuffer' = IF is_fast THEN outbuffer
                  ELSE [outbuffer EXCEPT ![t] = "progressive"]
  /\ Goto(t, "baseline")
  /\ UNCHANGED <<settings, setjmp_buffer, stack, image, srcinfo, result,
                 crashed, earlier>>

(* fault: the larger of the two results is kept.                           *)
TryBaseline_Larger(t) ==
  /\ Calls(t, "baseline")
  /\ outbuffer' =
       IF /\ is_fast \/ sizes[image[t]].original < SmallFile
          /\ SizeOf(image[t], "baseline") > SizeOf(image[t], outbuffer[t])
       THEN [outbuffer EXCEPT ![t] = "baseline"] ELSE outbuffer
  /\ Goto(t, "finish")
  /\ UNCHANGED <<settings, setjmp_buffer, stack, image, srcinfo, result,
                 crashed, earlier>>

(* In fast mode or for a small file the baseline result takes the place of *)
(* what is in outbuffer if it is smaller.                                  *)
TryBaseline(t) ==
  /\ Calls(t, "baseline")
  /\ outbuffer' =
       IF /\ is_fast \/ sizes[image[t]].original < SmallFile
          /\ SizeOf(image[t], "baseline") < SizeOf(image[t], outbuffer[t])
       THEN [outbuffer EXCEPT ![t] = "baseline"] ELSE outbuffer
  /\ Goto(t, "finish")
  /\ UNCHANGED <<settings, setjmp_buffer, stack, image, srcinfo, result,
                 crashed, earlier>>

(* The call that thread t made returns: its image was replaced by r.       *)
Returns(t, r) ==
  /\ result' = [result EXCEPT ![image[t]] = r]
  /\ srcinfo' = [srcinfo EXCEPT ![t] = "destroyed"]

Leaves(t) ==
  image' = [image EXCEPT ![t] = NoOne] /\ stack' = [stack EXCEPT ![t] = NoOne]

(* fault: Leanify goes on after it destroyed the decompressor.             *)
Finish_GoesOn(t) ==
  /\ Calls(t, "finish")
  /\ Returns(t, IF SizeOf(image[t], outbuffer[t]) < sizes[image[t]].original
                THEN outbuffer[t] ELSE "original")
  /\ Leaves(t)
  /\ UNCHANGED <<settings, setjmp_buffer, pc, outbuffer, crashed, earlier>>

(* The decompressor is destroyed; a result that is smaller than the image  *)
(* takes its place.                                                        *)
Finish(t) ==
  /\ Calls(t, "finish")
  /\ Returns(t, IF SizeOf(image[t], outbuffer[t]) < sizes[image[t]].original
                THEN outbuffer[t] ELSE "original")
  /\ Leaves(t)
  /\ Goto(t, "idle")
  /\ UNCHANGED <<settings, setjmp_buffer, outbuffer, crashed, earlier>>

InLibrary == {"read", "progressive", "baseline", "finish"}

(* mozjpeg_error_handler: longjmp into the frame that setjmp_buffer        *)
(* describes.                                                              *)
Error(t) ==
  /\ pc[t] \in InLibrary /\ Calls(t, pc[t])
  /\ image[t] \in Damaged
  /\ stack' = [stack EXCEPT ![t] = setjmp_buffer]
  /\ Goto(t, "recover")
  /\ UNCHANGED <<settings, setjmp_buffer, image, srcinfo, outbuffer, result,
                 crashed, earlier>>

(* fault: after an error the image is tried again.                         *)
Recover_Retry(t) ==
  /\ pc[t] = "recover" /\ ~ crashed /\ stack[t] = image[t]
  /\ Goto(t, "read")
  /\ UNCHANGED <<settings, setjmp_buffer, stack, image, srcinfo, outbuffer,
                 result, crashed, earlier>>

(* fault: after an error the outbuffer is taken for the result.            *)
Recover_Copy(t) ==
  /\ pc[t] = "recover" /\ ~ crashed /\ stack[t] = image[t]
  /\ Returns(t, outbuffer[t])
  /\ Leaves(t)
  /\ Goto(t, "idle")
  /\ UNCHANGED <<settings, setjmp_buffer, outbuffer, crashed, earlier>>

(* setjmp returns for the second time: the image stays as it is.           *)
Recover(t) ==
  /\ pc[t] = "recover" /\ ~ crashed /\ stack[t] = image[t]
  /\ Returns(t, "original")
  /\ Leaves(t)
  /\ Goto(t, "idle")
  /\ UNCHANGED <<settings, setjmp_buffer, outbuffer, crashed, earlier>>

(* It returns into another call.  This is undefined; the build may destroy *)
(* the decompressor of that call and return from it, if it is still under  *)
(* way, after which this thread never returns to its own, ...              *)
RecoverElsewhere(t) ==
  /\ pc[t] = "recover" /\ ~ crashed /\ stack[t] # image[t]
  /\ \/ \E u \in Threads : image[u] = stack[t] /\ Returns(u, "original")
     \/ (\A u \in Threads : image[u] # stack[t]) /\ UNCHANGED <<result, srcinfo>>
  /\ Goto(t, "lost")
  /\ UNCHANGED <<settings, setjmp_buffer, stack, image, outbuffer, crashed,
                 earlier>>

(* ... and the process may die, at once or when the thread that made the   *)
(* other call next uses its decompressor.                                  *)
CrashesElsewhere(t) ==
  /\ ~ crashed
  /\ \/ pc[t] = "recover" /\ stack[t] # image[t]
     \/ pc[t] \in InLibrary /\ srcinfo[t] = "destroyed"
  /\ crashed' = TRUE
  /\ UNCHANGED <<settings, setjmp_buffer, pc, stack, image, srcinfo,
                 outbuffer, result, earlier>>

LeanifyStep(t) ==
  \/ Setjmp(t) \/ ReadSource(t) \/ TryProgressive(t) \/ TryBaseline(t)
  \/ Finish(t) \/ Error(t) \/ Recover(t) \/ RecoverElsewhere(t)
  \/ CrashesElsewhere(t)

Ended ==
  /\ crashed \/ \A t \in pool : pc[t] \in {"idle", "lost"}
  /\ crashed \/ Images \subseteq Begun \/ \A t \in pool : pc[t] = "lost"
  /\ UNCHANGED vars

Next == (\E t \in pool : LeanifyStep(t)) \/ Ended

Spec == Init /\ [][Next]_vars

(* The executor runs every thread that can go on.                          *)
Fairness == \A t \in Threads : WF_vars(t \in pool /\ LeanifyStep(t))

FairSpec == Spec /\ Fairness

-----------------------------------------------------------------------------
(* Properties.                                                             *)

(* Every variable has its type, and the threads in Leanify have an image.  *)
TypeOK ==
  /\ is_fast \in BOOLEAN /\ pool \in Pools
  /\ sizes \in [Images -> [Tried -> Sizes]]
  /\ setjmp_buffer \in Images \cup {NoOne}
  /\ pc \in [Threads -> InLibrary \cup {"idle", "recover", "lost"}]
  /\ stack \in [Threads -> Images \cup {NoOne}]
  /\ image \in [Threads -> Images \cup {NoOne}]
  /\ srcinfo \in [Threads -> {"none", "created", "destroyed"}]
  /\ outbuffer \in [Threads -> Results]
  /\ result \in [Images -> Results \cup {NoOne}]
  /\ crashed \in BOOLEAN
  /\ earlier \in [Images -> SUBSET Images]
  /\ \A t \in Threads : pc[t] # "idle" <=> image[t] \in Images

(* Without -p the executor has one thread.                                 *)
Sequential == \A t, u \in pool : t = u

(* No thread went on in the stack frame of another call than its own.      *)
InOwnFrames == ~ crashed /\ \A t \in Threads : stack[t] = image[t]

(* Call f is the one that thread t made, or a later one of another thread. *)
OwnOrLater(t, f) ==
  f = image[t] \/ (~ Sequential /\ f \in Begun \ earlier[image[t]])

(* jpeg.cpp:16,84-88: an error never leads into a call that was made       *)
(* before the one it is raised in, be it under way or long returned: it    *)
(* leads into its own call or, with -p, into a later one.  Without -p the  *)
(* process does not die of it.                                             *)
ErrorsStayLocal ==
  /\ crashed => ~ Sequential
  /\ \A t \in Threads : pc[t] \in {"recover", "lost"} => OwnOrLater(t, stack[t])

(* jpeg.cpp:143-177: as long as errors stay local, also with -p, an image  *)
(* is replaced by the smallest of the results that were tried, or stays as *)
(* it is when none is smaller; a damaged one may stay as it is.            *)
SmallestTried ==
  InOwnFrames =>
    \A i \in Images :
      LET tried == {"progressive"} \cup
                   IF sizes[i].original < SmallFile THEN {"baseline"} ELSE {}
      IN  ~ is_fast /\ result[i] # NoOne =>
            \/ /\ result[i] \in tried
               /\ SizeOf(i, result[i]) < SizeOf(i, "original")
               /\ \A r \in tried : SizeOf(i, result[i]) <= SizeOf(i, r)
            \/ /\ result[i] = "original"
               /\ \/ i \in Damaged
                  \/ \A r \in tried : SizeOf(i, "original") <= SizeOf(i, r)

(* README.md:4: an image is never replaced by nothing.                     *)
NeverEmpty == \A i \in Images : result[i] # "nothing"

(* jpeg.cpp:143-177: so it is except in fast mode, wherever an error goes. *)
EmptyOnlyInFastMode == is_fast \/ NeverEmpty

(* main.cpp:330: without -p every image is done with in the end, whatever  *)
(* errors mozjpeg raises for it.                                           *)
Answered == \A i \in Images : <>(Sequential => result[i] # NoOne)
=============================================================================
