---------------------------- MODULE AtomicStore ----------------------------
(***************************************************************************)
(* What Leanify promises its user about the files it is given: at any time *)
(* each file is whole, and the only thing that ever happens to it is that  *)
(* its contents are replaced, in one step, by a strictly shorter result of *)
(* leanifying those very contents.  fileio.h:13 ("Write data to file       *)
(* atomically") and main.cpp:163 ("new_size < original_size") are where    *)
(* the code makes that promise.                                            *)
(***************************************************************************)
EXTENDS Naturals, Sequences

CONSTANTS Names,         \* the user's files
          Original,      \* their contents when the program is first run
          Exts,          \* the file name extensions LeanifyFile tells apart
          Options,       \* the settings of the command line
          LeanifyFile(_, _, _)

VARIABLE store           \* the contents of each file

Init == store = Original

(* File n is replaced by the result of leanifying its contents under some  *)
(* extension and some settings.                                            *)
Replace(n) ==
  \E e \in Exts, o \in Options :
    LET r == LeanifyFile(e, store[n], o)
    IN  /\ Len(r) < Len(store[n])
        /\ store' = [store EXCEPT ![n] = r]

Next == \E n \in Names : Replace(n)

Spec == Init /\ [][Next]_store
=============================================================================
