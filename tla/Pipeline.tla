------------------------------ MODULE Pipeline ------------------------------
(***************************************************************************)
(* The core of Leanify: main() collects the files named on the command     *)
(* line, an executor runs one ProcessFile task per file on a pool of       *)
(* workers, and every task reads its file, looks its contents up in the    *)
(* library, leanifies them in memory, saves the result in the library and  *)
(* writes it back through a temporary file that is renamed over the        *)
(* original (main.cpp, fileio.cpp, library.cpp).                           *)
(*                                                                         *)
(* Tasks share nothing but the file system, so one action is one call that *)
(* reads or changes it.  LeanifyFile, which turns contents into contents   *)
(* in memory, is a constant operator here.                                 *)
(***************************************************************************)
EXTENDS FileSystem, FiniteSets

CONSTANTS
  Names,        \* the user's files
  Original,     \* [Names -> Data]: what they hold before the first run
  NameInode,    \* [Names -> Inodes]: the inodes they have then
  NameExt,      \* [Names -> Exts]: their extensions
  Exts,         \* the extensions; "tmp" is that of a temporary file
  Args,         \* the paths of the command line: a sequence of records
                \*   [isDirectory |-> BOOLEAN, names |-> SUBSET Names]
  Options,      \* the settings a run can have: a set of records
                \*   [level, json, rest], see LibraryTag; json is --json-lossy
                \*   in units of 10^-7
  LeanifyFile(_, _, _), \* extension, contents, settings |-> new contents
  UseLibrary,   \* was -l given?
  NumWorkers,   \* threads of the executor
  BufferSize,   \* contents up to this size stay in the ofstream's buffer
  MaxRuns,      \* bound on the number of times the program is started
  Faults,       \* the calls that can fail, and "crash"
  Nil           \* no inode

(* An argument that is a regular file has one name; a directory has the    *)
(* names of the files in it.                                               *)
ASSUME ArgsAssumption ==
  Args \in Seq([isDirectory : BOOLEAN, names : SUBSET Names])

ASSUME FilesAssumption ==
  /\ Original \in [Names -> Data]
  /\ NameInode \in [Names -> Inodes]
  /\ \A m, n \in Names : NameInode[m] = NameInode[n] => m = n
  /\ NameExt \in [Names -> Exts]
  /\ "tmp" \in Exts
  /\ Nil \notin Inodes

ASSUME BoundsAssumption ==
  /\ UseLibrary \in BOOLEAN
  /\ NumWorkers \in Nat \ {0}
  /\ BufferSize \in Nat
  /\ MaxRuns \in Nat

(* The contract of LeanifyFile (leanify.cpp:138-142): the result is no     *)
(* longer than the file it is made from, because it is built in place.     *)
ASSUME LeanifyAssumption ==
  \A e \in Exts, d \in Data, o \in Options :
    /\ LeanifyFile(e, d, o) \in Data
    /\ Len(LeanifyFile(e, d, o)) <= Len(d)

VARIABLES
  dir, body,    \* the file system: path |-> inode, inode |-> contents
  phase,        \* of the process: "off", "run", or how the last run ended
  runs,         \* how often it was started
  opts,         \* the settings of this run
  work,         \* its tasks: <<argument, path>>
  errors,       \* error_count
  pc,           \* where each task is in ProcessFile and the calls it makes
  call,         \* is ReadFile/WriteFile working on the user's file or on
                \*   the library entry ("user", "lib")?
  fd, size, pos,\* the open file, file_size, and how much was written to it
  data,         \* the contents read from the user's file
  out           \* the first new_size bytes of the buffer

files == <<dir, body>>
process == <<phase, runs, opts, work, errors>>
locals == <<call, fd, size, pos, data, out>>
vars == <<files, process, pc, locals>>

-----------------------------------------------------------------------------
(* Paths and library keys.                                                 *)

(* Variants marked "fault:" are definitions as a mistake in the code would  *)
(* make them; they are used to see that the properties notice.              *)

(* fault: WriteFile writes the file in place.                              *)
Tmp_InPlace(p) == p

Tmp(p) == <<p[1], p[2] + 1>>

Extension(p) == IF p[2] = 0 THEN NameExt[p[1]] ELSE "tmp"

(* std::to_string has six decimals.                                        *)
ToString(json) == (json + 5) \div 10

(* fault: the level of the run is forgotten.                               *)
LibraryTag_NoLevel(e, o) == IF e = "json" THEN <<"", ToString(o.json)>> ELSE <<"">>

(* The settings that enter the key of a library entry: iterations, lossy   *)
(* and fast (level), and the tolerance for a .json file.  All other        *)
(* settings (rest) do not.                                                 *)
LibraryTag(e, o) == IF e = "json" THEN <<o.level, ToString(o.json)>> ELSE <<o.level>>

Tags == {LibraryTag(e, o) : e \in Exts, o \in Options}
Keys == Data \X Tags
Paths == (Names \cup Keys) \X Nat

(* fault: the hash is read before it is finalized, so that neither a short *)
(* tag nor short contents have entered it (library.cpp:73-82).             *)
Key_NotFinalized(t) == <<<<>>, <<>>>>

(* SHA-1 is taken to be injective: the key is what is hashed.              *)
Key(t) == <<data[t], LibraryTag(Extension(t[2]), opts)>>
Entry(t) == <<Key(t), 0>>

(* The path that ReadFile or WriteFile is working on.                      *)
Target(t) == IF call[t] = "user" THEN t[2] ELSE Entry(t)

Outcomes(d) == {LeanifyFile(e, d, o) : e \in Exts, o \in Options}

Active == {t \in work : pc[t] \notin {"queued", "done"}}

Goto(t, l) == pc' = [pc EXCEPT ![t] = l]

CanFail(what) == what \in Faults

-----------------------------------------------------------------------------
(* Starting and ending the process.                                        *)

Init ==
  /\ dir = [p \in Names \X {0} |-> NameInode[p[1]]]
  /\ body = [i \in Inodes |->
               IF \E n \in Names : NameInode[n] = i
               THEN Original[CHOOSE n \in Names : NameInode[n] = i]
               ELSE <<>>]
  /\ phase = "off" /\ runs = 0 /\ errors = 0
  /\ opts \in Options
  /\ work = {}
  /\ pc = <<>> /\ call = <<>> /\ fd = <<>> /\ size = <<>>
  /\ pos = <<>> /\ data = <<>> /\ out = <<>>

(* A directory yields every regular file in it, temporary files that an    *)
(* earlier run left there included; a file yields itself if it exists.     *)
CollectFiles(a) ==
  {p \in DOMAIN dir : /\ p[1] \in Args[a].names
                      /\ Args[a].isDirectory \/ p[2] = 0}

(* main() up to the executor: every argument is collected on its own, so   *)
(* a file that two arguments lead to gets two tasks.                       *)
Start(o) ==
  /\ phase # "run" /\ runs < MaxRuns
  /\ phase' = "run" /\ runs' = runs + 1 /\ opts' = o /\ errors' = 0
  /\ work' = {t \in (DOMAIN Args) \X (DOMAIN dir) : t[2] \in CollectFiles(t[1])}
  /\ pc' = [t \in work' |-> "queued"]
  /\ call' = [t \in work' |-> "user"]
  /\ fd' = [t \in work' |-> Nil]
  /\ size' = [t \in work' |-> 0] /\ pos' = [t \in work' |-> 0]
  /\ data' = [t \in work' |-> <<>>] /\ out' = [t \in work' |-> <<>>]
  /\ UNCHANGED files

(* fault: main() does not wait for the tasks under way.                    *)
Exit_NoWait ==
  /\ phase = "run" /\ \A t \in work : pc[t] # "queued"
  /\ phase' = IF errors > 0 THEN "errors" ELSE "ok"
  /\ UNCHANGED <<files, runs, opts, work, errors, pc, locals>>

(* executor.run(taskflow).wait() returns and main() ends with its exit     *)
(* code.                                                                   *)
Exit ==
  /\ phase = "run" /\ \A t \in work : pc[t] = "done"
  /\ phase' = IF errors > 0 THEN "errors" ELSE "ok"
  /\ UNCHANGED <<files, runs, opts, work, errors, pc, locals>>

(* The process dies at any point: SignalHandler calls _exit, or it is      *)
(* killed.  Its memory is gone and its files are closed; what it wrote     *)
(* stays.                                                                  *)
Crash ==
  /\ phase = "run" /\ CanFail("crash")
  /\ phase' = "crashed"
  /\ work' = {} /\ pc' = <<>> /\ call' = <<>> /\ fd' = <<>>
  /\ size' = <<>> /\ pos' = <<>> /\ data' = <<>> /\ out' = <<>>
  /\ UNCHANGED <<files, runs, opts, errors>>

(* A worker of the executor takes a task.                                  *)
Dispatch(t) ==
  /\ pc[t] = "queued" /\ Cardinality(Active) < NumWorkers
  /\ Goto(t, "stat")
  /\ UNCHANGED <<files, process, locals>>

-----------------------------------------------------------------------------
(* ReadFile, called for the user's file and, by Load, for the entry.       *)

(* fault: an entry that cannot be read is looked up again.                 *)
NoContent_Retry(t) ==
  /\ Goto(t, IF call[t] = "user" THEN "done" ELSE "lookup")
  /\ call' = [call EXCEPT ![t] = "user"]
  /\ fd' = [fd EXCEPT ![t] = Nil]

(* ReadFile returned nothing, or an empty file: ProcessFile returns; Load  *)
(* returns 0 and ProcessFile leanifies after all.                          *)
NoContent(t) ==
  /\ Goto(t, IF call[t] = "user" THEN "done" ELSE "releanify")
  /\ call' = [call EXCEPT ![t] = "user"]
  /\ fd' = [fd EXCEPT ![t] = Nil]

Stat(t) ==
  /\ pc[t] = "stat"
  /\ Target(t) \in DOMAIN dir
  /\ body[dir[Target(t)]] # <<>>
  /\ size' = [size EXCEPT ![t] = Len(body[dir[Target(t)]])]
  /\ Goto(t, "open")
  /\ UNCHANGED <<files, process, call, fd, pos, data, out>>

StatFails(t) ==
  /\ pc[t] = "stat"
  /\ Target(t) \in DOMAIN dir => body[dir[Target(t)]] = <<>>
  /\ NoContent(t)
  /\ UNCHANGED <<files, process, size, pos, data, out>>

Open(t) ==
  /\ pc[t] = "open"
  /\ Target(t) \in DOMAIN dir
  /\ fd' = [fd EXCEPT ![t] = dir[Target(t)]]
  /\ Goto(t, "read")
  /\ UNCHANGED <<files, process, call, size, pos, data, out>>

OpenFails(t) ==
  /\ pc[t] = "open"
  /\ Target(t) \notin DOMAIN dir \/ CanFail("open")
  /\ NoContent(t)
  /\ UNCHANGED <<files, process, size, pos, data, out>>

(* fin.read of the size that was measured before the file was opened.  The *)
(* user's file becomes the task's data; an entry is copied over the front  *)
(* of it, cut at its length.                                               *)
Read(t) ==
  /\ pc[t] = "read"
  /\ Len(body[fd[t]]) >= size[t]
  /\ LET c == SubSeq(body[fd[t]], 1, size[t])
     IN  IF call[t] = "user"
         THEN /\ data' = [data EXCEPT ![t] = c]
              /\ Goto(t, "lookup")
              /\ UNCHANGED out
         ELSE /\ out' = [out EXCEPT ![t] = IF Len(c) < Len(data[t]) THEN c
                                           ELSE SubSeq(c, 1, Len(data[t]))]
              /\ Goto(t, "compare")
              /\ UNCHANGED data
  /\ call' = [call EXCEPT ![t] = "user"]
  /\ fd' = [fd EXCEPT ![t] = Nil]
  /\ UNCHANGED <<files, process, size, pos>>

ReadFails(t) ==
  /\ pc[t] = "read"
  /\ Len(body[fd[t]]) < size[t] \/ CanFail("read")
  /\ NoContent(t)
  /\ UNCHANGED <<files, process, size, pos, data, out>>

-----------------------------------------------------------------------------
(* ProcessFile between reading and writing.                                *)

(* GetEntry and isExists: an entry that exists is loaded.                  *)
Lookup(t) ==
  /\ pc[t] = "lookup"
  /\ IF UseLibrary /\ Entry(t) \in DOMAIN dir
     THEN call' = [call EXCEPT ![t] = "lib"] /\ Goto(t, "stat")
     ELSE Goto(t, "leanify") /\ UNCHANGED call
  /\ UNCHANGED <<files, process, fd, size, pos, data, out>>

(* LeanifyFile, followed by Save when there is a library.                  *)
Leanify(t) ==
  /\ pc[t] = "leanify"
  /\ out' = [out EXCEPT ![t] = LeanifyFile(Extension(t[2]), data[t], opts)]
  /\ IF UseLibrary
     THEN call' = [call EXCEPT ![t] = "lib"] /\ Goto(t, "create")
     ELSE Goto(t, "compare") /\ UNCHANGED call
  /\ UNCHANGED <<files, process, fd, size, pos, data>>

(* Load returned 0: LeanifyFile, and nothing is saved.                     *)
Releanify(t) ==
  /\ pc[t] = "releanify"
  /\ out' = [out EXCEPT ![t] = LeanifyFile(Extension(t[2]), data[t], opts)]
  /\ Goto(t, "compare")
  /\ UNCHANGED <<files, process, call, fd, size, pos, data>>

(* Creating the entry's directory or leanifying throws: the catch clauses  *)
(* of ProcessFile count an error and leave the file alone.                 *)
Throw(t) ==
  /\ pc[t] \in {"lookup", "leanify", "releanify"} /\ CanFail("throw")
  /\ errors' = errors + 1
  /\ Goto(t, "done")
  /\ UNCHANGED <<files, phase, runs, opts, work, locals>>

(* Only a strictly smaller result is written back.                         *)
Compare(t) ==
  /\ pc[t] = "compare"
  /\ Goto(t, IF Len(out[t]) < Len(data[t]) THEN "create" ELSE "done")
  /\ UNCHANGED <<files, process, locals>>

-----------------------------------------------------------------------------
(* WriteFile, called by Save for the entry and by ProcessFile for the      *)
(* user's file.  Both callers go on whatever it returns.                   *)

WriteReturns(t) ==
  /\ Goto(t, IF call[t] = "lib" THEN "compare" ELSE "done")
  /\ call' = [call EXCEPT ![t] = "user"]

Buffered(t) == Len(out[t]) <= BufferSize

(* The file i is open for writing and empty.                               *)
Opened(t, i) ==
  /\ fd' = [fd EXCEPT ![t] = i]
  /\ pos' = [pos EXCEPT ![t] = 0]
  /\ body' = [body EXCEPT ![i] = <<>>]
  /\ Goto(t, IF Buffered(t) THEN "close" ELSE "write")
  /\ UNCHANGED <<process, call, size, data, out>>

(* std::ofstream creates the temporary file ...                            *)
Create(t) ==
  /\ pc[t] = "create"
  /\ Tmp(Target(t)) \notin DOMAIN dir
  /\ FreeInodes(dir, fd) # {}
  /\ LET i == CHOOSE i \in FreeInodes(dir, fd) : TRUE
     IN  dir' = Link(dir, Tmp(Target(t)), i) /\ Opened(t, i)

(* ... or empties the one that is there.                                   *)
Truncate(t) ==
  /\ pc[t] = "create"
  /\ Tmp(Target(t)) \in DOMAIN dir
  /\ Opened(t, dir[Tmp(Target(t))])
  /\ UNCHANGED dir

CreateFails(t) ==
  /\ pc[t] = "create" /\ CanFail("create")
  /\ WriteReturns(t)
  /\ UNCHANGED <<files, process, fd, size, pos, data, out>>

(* fault: one write too many.                                              *)
Write_OneMore(t) ==
  /\ pc[t] = "write"
  /\ body' = [body EXCEPT ![fd[t]] =
                Overwrite(@, pos[t], SubSeq(out[t], pos[t] + 1, pos[t] + 1))]
  /\ pos' = [pos EXCEPT ![t] = @ + 1]
  /\ Goto(t, IF pos[t] < Len(out[t]) THEN "write" ELSE "close")
  /\ UNCHANGED <<dir, process, call, fd, size, data, out>>

(* One write to the file of contents too large for the buffer.             *)
Write(t) ==
  /\ pc[t] = "write"
  /\ body' = [body EXCEPT ![fd[t]] =
                Overwrite(@, pos[t], SubSeq(out[t], pos[t] + 1, pos[t] + 1))]
  /\ pos' = [pos EXCEPT ![t] = @ + 1]
  /\ Goto(t, IF pos[t] + 1 < Len(out[t]) THEN "write" ELSE "close")
  /\ UNCHANGED <<dir, process, call, fd, size, data, out>>

(* fault: a failed write goes unnoticed.                                   *)
WriteFails_Unnoticed(t) ==
  /\ pc[t] = "write" /\ CanFail("write")
  /\ Goto(t, "close")
  /\ UNCHANGED <<files, process, locals>>

WriteFails(t) ==
  /\ pc[t] = "write" /\ CanFail("write")
  /\ Goto(t, "remove")
  /\ UNCHANGED <<files, process, locals>>

(* The destructor of the ofstream writes what is still in the buffer.      *)
Close(t) ==
  /\ pc[t] = "close"
  /\ body' = [body EXCEPT ![fd[t]] =
                IF Buffered(t) THEN Overwrite(@, 0, out[t]) ELSE @]
  /\ fd' = [fd EXCEPT ![t] = Nil]
  /\ Goto(t, "rename")
  /\ UNCHANGED <<dir, process, call, size, pos, data, out>>

(* It cannot write all of it, and nobody asks.                             *)
FlushFails(t) ==
  /\ pc[t] = "close" /\ Buffered(t) /\ CanFail("flush")
  /\ \E n \in 0 .. Len(out[t]) - 1 :
       body' = [body EXCEPT ![fd[t]] = Overwrite(@, 0, SubSeq(out[t], 1, n))]
  /\ fd' = [fd EXCEPT ![t] = Nil]
  /\ Goto(t, "rename")
  /\ UNCHANGED <<dir, process, call, size, pos, data, out>>

Rename(t) ==
  /\ pc[t] = "rename"
  /\ Tmp(Target(t)) \in DOMAIN dir
  /\ dir' = Move(dir, Tmp(Target(t)), Target(t))
  /\ WriteReturns(t)
  /\ UNCHANGED <<body, process, fd, size, pos, data, out>>

(* fault: the temporary file stays after a failed rename.                  *)
RenameFails_NoRemove(t) ==
  /\ pc[t] = "rename"
  /\ Tmp(Target(t)) \notin DOMAIN dir \/ CanFail("rename")
  /\ WriteReturns(t)
  /\ UNCHANGED <<files, process, fd, size, pos, data, out>>

(* Another task may have renamed or removed the temporary file.            *)
RenameFails(t) ==
  /\ pc[t] = "rename"
  /\ Tmp(Target(t)) \notin DOMAIN dir \/ CanFail("rename")
  /\ Goto(t, "remove")
  /\ UNCHANGED <<files, process, locals>>

Remove(t) ==
  /\ pc[t] = "remove"
  /\ dir' = Unlink(dir, Tmp(Target(t)))
  /\ fd' = [fd EXCEPT ![t] = Nil]
  /\ WriteReturns(t)
  /\ UNCHANGED <<body, process, size, pos, data, out>>

(* remove() throws: through Save too, up to ProcessFile's catch clause.    *)
RemoveThrows(t) ==
  /\ pc[t] = "remove" /\ CanFail("remove")
  /\ errors' = errors + 1
  /\ fd' = [fd EXCEPT ![t] = Nil]
  /\ call' = [call EXCEPT ![t] = "user"]
  /\ Goto(t, "done")
  /\ UNCHANGED <<files, phase, runs, opts, work, size, pos, data, out>>

-----------------------------------------------------------------------------
ReadStep(t) == \/ Stat(t) \/ StatFails(t) \/ Open(t) \/ OpenFails(t)
               \/ Read(t) \/ ReadFails(t)

LeanifyStep(t) == \/ Lookup(t) \/ Leanify(t) \/ Releanify(t)
                  \/ Throw(t) \/ Compare(t)

WriteStep(t) == \/ Create(t) \/ Truncate(t) \/ CreateFails(t)
                \/ Write(t) \/ WriteFails(t) \/ Close(t) \/ FlushFails(t)
                \/ Rename(t) \/ RenameFails(t) \/ Remove(t) \/ RemoveThrows(t)

TaskStep(t) == Dispatch(t) \/ ReadStep(t) \/ LeanifyStep(t) \/ WriteStep(t)

(* Nothing is left to do: the process has ended and is not started again.  *)
Terminated == phase # "run" /\ runs = MaxRuns /\ UNCHANGED vars

Next == \/ \E o \in Options : Start(o)
        \/ Exit
        \/ Crash
        \/ \E t \in work : TaskStep(t)
        \/ Terminated

Spec == Init /\ [][Next]_vars

(* The executor's threads run as long as a task can go on, and main() is   *)
(* woken when the last one has.                                            *)
Fairness == WF_vars(\E t \in work : TaskStep(t)) /\ WF_vars(Exit)

FairSpec == Spec /\ Fairness

-----------------------------------------------------------------------------
(* Properties.                                                             *)

Content(n) == body[dir[<<n, 0>>]]

ReadPCs == {"stat", "open", "read"}
WritePCs == {"create", "write", "close", "rename", "remove"}
PCs == {"queued", "lookup", "leanify", "releanify", "compare", "done"}
         \cup ReadPCs \cup WritePCs

(* Every variable has its type; a task has an open file exactly while it   *)
(* reads or writes one, and never claims to have written more than it has. *)
TypeOK ==
  /\ dir \in [DOMAIN dir -> Inodes] /\ DOMAIN dir \subseteq Paths
  /\ body \in [Inodes -> Data]
  /\ phase \in {"off", "run", "ok", "errors", "crashed"}
  /\ runs \in Nat /\ errors \in Nat /\ opts \in Options
  /\ work \subseteq (DOMAIN Args) \X (Names \X Nat)
  /\ pc \in [work -> PCs]
  /\ call \in [work -> {"user", "lib"}]
  /\ fd \in [work -> Inodes \cup {Nil}]
  /\ size \in [work -> 0..MaxSize] /\ pos \in [work -> 0..MaxSize]
  /\ data \in [work -> Data] /\ out \in [work -> Data]
  /\ \A t \in work :
       /\ pc[t] \in {"read", "write", "close"} => fd[t] \in Inodes
       /\ pc[t] = "write" => pos[t] < Len(out[t])

(* fileio.h:13: seen from outside, a user's file is only ever replaced, in *)
(* one step, by a strictly shorter result of leanifying what it holds,     *)
(* whatever fails and wherever the program dies.                           *)
Store == INSTANCE AtomicStore WITH store <- [n \in Names |-> Content(n)]

AtomicFiles == Store!Spec

(* main.cpp:128-141: what a file is replaced by is what LeanifyFile makes  *)
(* of it under this run's own settings and its own extension, also when it *)
(* comes from the library.                                                 *)
OwnResult ==
  [][\A n \in Names :
       \/ Content(n)' = Content(n)
       \/ Content(n)' = LeanifyFile(NameExt[n], Content(n), opts)]_vars

(* library.cpp:57-59: an entry is never poisoned.  One that exists holds,  *)
(* whole, a result of leanifying the contents it is keyed by under         *)
(* settings with its tag.                                                  *)
EntriesFaithful ==
  \A p \in DOMAIN dir :
    p[2] = 0 /\ p[1] \notin Names =>
      \E e \in Exts, o \in Options :
        /\ LibraryTag(e, o) = p[1][2]
        /\ body[dir[p]] = LeanifyFile(e, p[1][1], o)

(* fileio.cpp:34-61: from the creation of its temporary file to the rename *)
(* a task is the only one that writes or moves it, so the file that it     *)
(* renames holds exactly its result.                                       *)
TmpIsMine ==
  \A t \in work :
    LET tmp == Tmp(Target(t))
    IN  /\ pc[t] \in {"write", "close"} => tmp \in DOMAIN dir /\ dir[tmp] = fd[t]
        /\ pc[t] = "rename" => tmp \in DOMAIN dir /\ body[dir[tmp]] = out[t]

(* fileio.cpp:48,57: a program that ran to its end leaves no temporary     *)
(* file, whichever writes and renames failed.                              *)
NoLeftoverTmp ==
  phase \in {"ok", "errors"} => \A p \in DOMAIN dir : p[2] = 0

(* main.cpp:163-166,340: when the program ends with exit code 0, every     *)
(* file it read that has a smaller result holds that result.               *)
CompleteAtExit ==
  phase = "ok" =>
    \A t \in work : LET r == LeanifyFile(Extension(t[2]), data[t], opts)
                    IN  Len(r) < Len(data[t]) => body[dir[t[2]]] = r

(* main.cpp:329-330: the program ends.                                     *)
Terminates == phase = "run" ~> phase # "run"
=============================================================================
