------------------------- MODULE PipelineInvariant -------------------------
(***************************************************************************)
(* The inductive invariant behind the safety properties of Pipeline, and   *)
(* the condition under which it is one: that no two tasks under way work   *)
(* on the same file name or on the same library entry.                     *)
(***************************************************************************)
EXTENDS Pipeline

(* A name is not a library key, and there are finitely many names.         *)
ASSUME NamesAssumption ==
  /\ IsFiniteSet(Names)
  /\ \A k \in Keys : k \notin Names

(* The names whose files (temporary ones included) task t may touch.       *)
Held(t) == {t[2][1]} \cup (IF UseLibrary /\ data[t] # <<>> THEN {Key(t)} ELSE {})

(* main.cpp:310-330: tasks that run at the same time touch different       *)
(* files.  The code does not see to it: it is so when one task runs at a   *)
(* time, or when the command line and the contents of the files make it so.*)
Exclusive ==
  \A t, u \in Active : t # u => Held(t) \cap Held(u) = {}

NoHardLinks == \A p, q \in DOMAIN dir : dir[p] = dir[q] => p = q

UserPaths == \A n \in Names : <<n, 0>> \in DOMAIN dir

(* The file task t reads is the one that it measured.                      *)
Reading(t) ==
  pc[t] \in {"open", "read"} =>
    /\ Target(t) \in DOMAIN dir
    /\ size[t] = Len(body[dir[Target(t)]]) /\ size[t] > 0
    /\ pc[t] = "read" => fd[t] = dir[Target(t)]

CallsLibrary(t) ==
  call[t] = "lib" => UseLibrary /\ pc[t] \in ReadPCs \cup WritePCs

(* From reading it on, data is what the user's file holds.                 *)
HasData(t) ==
  /\ pc[t] \notin {"queued", "done"}
  /\ pc[t] \in ReadPCs => call[t] = "lib"

KnowsData(t) ==
  HasData(t) => /\ data[t] # <<>>
                /\ t[2][2] = 0 => data[t] = Content(t[2][1])

KnowsResult(t) ==
  /\ pc[t] \in WritePCs \cup {"compare"} => out[t] \in Outcomes(data[t])
  /\ pc[t] \in WritePCs =>
       IF call[t] = "lib"
       THEN out[t] = LeanifyFile(Extension(t[2]), data[t], opts)
       ELSE Len(out[t]) < Len(data[t])

(* The temporary file of task t holds what t has written of its result.    *)
Writing(t) ==
  LET tmp == Tmp(Target(t))
  IN  /\ pc[t] \in {"write", "close", "rename"} => tmp \in DOMAIN dir
      /\ pc[t] \in {"write", "close"} => dir[tmp] = fd[t]
      /\ pc[t] = "write" => /\ ~ Buffered(t)
                            /\ body[fd[t]] = SubSeq(out[t], 1, pos[t])
      /\ pc[t] = "close" => body[fd[t]] = IF Buffered(t) THEN <<>> ELSE out[t]
      /\ pc[t] = "rename" => body[dir[tmp]] = out[t]

TaskInv(t) == /\ Reading(t) /\ CallsLibrary(t) /\ KnowsData(t)
              /\ KnowsResult(t) /\ Writing(t)

(* fileio.cpp and library.cpp as a whole: what each task knows of the      *)
(* files it works on is true of them.                                      *)
IInv == /\ TypeOK /\ NoHardLinks /\ UserPaths /\ EntriesFaithful
        /\ \A t \in work : TaskInv(t)
=============================================================================
