--------------------------- MODULE PipelineProofs ---------------------------
(***************************************************************************)
(* Pipeline keeps its types, for every command line, every contents of the *)
(* files, every LeanifyFile that keeps its contract and any number of      *)
(* workers and runs; and IInv is inductive as long as tasks under way hold *)
(* different files and no buffered write is lost when a file is closed:    *)
(* AtomicFiles follows.  Then what a run leaves its user with: two ways of *)
(* using the program under which tasks under way hold different files;     *)
(* which result a file is replaced by; that none is forgotten, and that    *)
(* nothing else is left behind.                                            *)
(***************************************************************************)
EXTENDS PipelineInvariant, FiniteSetTheorems, TLAPS

-----------------------------------------------------------------------------
(* What the operations of FileSystem return, preserve and bound.           *)

(* Contents are the sequences of bytes of bounded length.                  *)
LEMMA DataIsSeq ==
  ASSUME NEW d
  PROVE  d \in Data <=> d \in Seq(Bytes) /\ Len(d) \in 0..MaxSize
<1>1. ASSUME d \in Data PROVE d \in Seq(Bytes) /\ Len(d) \in 0..MaxSize
  <2>1. PICK n \in 0..MaxSize : d \in [1..n -> Bytes]
    BY <1>1 DEF Data
  <2>2. n \in Nat
    BY <2>1, FileSystemAssumption
  <2>3. d \in Seq(Bytes) /\ Len(d) = n
    BY <2>1, <2>2
  <2> QED
    BY <2>1, <2>3
<1>2. ASSUME d \in Seq(Bytes), Len(d) \in 0..MaxSize PROVE d \in Data
  <2>1. d \in [1..Len(d) -> Bytes]
    BY <1>2
  <2> QED
    BY <1>2, <2>1 DEF Data
<1> QED
  BY <1>1, <1>2

LEMMA EmptyIsData == <<>> \in Data /\ Len(<<>>) = 0
<1>1. <<>> \in Seq(Bytes) /\ Len(<<>>) = 0
  OBVIOUS
<1>2. 0 \in 0..MaxSize
  BY FileSystemAssumption
<1> QED
  BY <1>1, <1>2, DataIsSeq

(* A prefix of contents is contents.                                       *)
LEMMA PrefixIsData ==
  ASSUME NEW d \in Data, NEW n \in 0..Len(d)
  PROVE  SubSeq(d, 1, n) \in Data /\ Len(SubSeq(d, 1, n)) = n
<1>1. d \in Seq(Bytes) /\ Len(d) \in 0..MaxSize
  BY DataIsSeq
<1>2. n \in Nat /\ n <= MaxSize
  BY <1>1, FileSystemAssumption
<1>3. SubSeq(d, 1, n) \in Seq(Bytes) /\ Len(SubSeq(d, 1, n)) = n
  BY <1>1, <1>2
<1>4. Len(SubSeq(d, 1, n)) \in 0..MaxSize
  BY <1>2, <1>3, FileSystemAssumption
<1> QED
  BY <1>3, <1>4, DataIsSeq

(* The longest prefix is the whole.                                        *)
LEMMA WholePrefix ==
  ASSUME NEW d \in Data
  PROVE  SubSeq(d, 1, Len(d)) = d
BY DataIsSeq

(* Writing within the bound on file sizes makes contents of contents.      *)
LEMMA OverwriteIsData ==
  ASSUME NEW s \in Data, NEW k \in Nat, NEW c \in Seq(Bytes), k + Len(c) <= MaxSize
  PROVE  Overwrite(s, k, c) \in Data
<1> DEFINE end == k + Len(c)
           n == IF end > Len(s) THEN end ELSE Len(s)
<1>1. s \in Seq(Bytes) /\ Len(s) \in 0..MaxSize /\ Len(c) \in Nat
  BY DataIsSeq
<1>2. n \in 0..MaxSize
  BY <1>1, FileSystemAssumption
<1>3. \A i \in 1..n : /\ i \in k+1 .. end => i - k \in 1..Len(c)
                      /\ i <= Len(s) => i \in 1..Len(s)
  BY <1>1, <1>2
<1>4. Overwrite(s, k, c) \in [1..n -> Bytes]
  BY <1>1, <1>3, FileSystemAssumption DEF Overwrite
<1> QED
  BY <1>2, <1>4 DEF Data

(* Writing everything to an empty file gives what was written.             *)
LEMMA OverwriteEmpty ==
  ASSUME NEW c \in Data
  PROVE  Overwrite(<<>>, 0, c) = c
<1>1. c \in Seq(Bytes) /\ Len(c) \in Nat /\ Len(<<>>) = 0
  BY DataIsSeq
<1>2. Overwrite(<<>>, 0, c) = [i \in 1..Len(c) |-> c[i]]
  BY <1>1 DEF Overwrite
<1> QED
  BY <1>1, <1>2

(* Writing the next unit after a prefix gives the next prefix.             *)
LEMMA OverwriteNext ==
  ASSUME NEW c \in Data, NEW k \in Nat, k < Len(c)
  PROVE  Overwrite(SubSeq(c, 1, k), k, SubSeq(c, k + 1, k + 1)) = SubSeq(c, 1, k + 1)
<1> DEFINE p == SubSeq(c, 1, k)
           u == SubSeq(c, k + 1, k + 1)
<1>1. c \in Seq(Bytes) /\ Len(c) \in Nat
  BY DataIsSeq
<1>2. Len(p) = k /\ Len(u) = 1 /\ u[1] = c[k + 1] /\ \A i \in 1..k : p[i] = c[i]
  BY <1>1
<1>3. SubSeq(c, 1, k + 1) = [i \in 1..(k + 1) |-> c[i]]
  BY <1>1
<1>4. Overwrite(p, k, u) = [i \in 1..(k + 1) |-> c[i]]
  <2> HIDE DEF p, u
  <2>1. \A i \in 1..(k + 1) : (IF i \in k+1 .. k+1 THEN u[i - k]
                               ELSE IF i <= k THEN p[i] ELSE Hole) = c[i]
    BY <1>2
  <2> QED
    BY <1>2, <2>1 DEF Overwrite
<1> QED
  BY <1>3, <1>4

-----------------------------------------------------------------------------
(* Types.                                                                  *)

LEMMA ArgNames ==
  \A a \in DOMAIN Args : Args[a].names \subseteq Names
<1> DEFINE Arg == [isDirectory : BOOLEAN, names : SUBSET Names]
<1>1. Args \in Seq(Arg)
  BY ArgsAssumption
<1> HIDE DEF Arg
<1>2. \A a \in DOMAIN Args : Args[a] \in Arg
  BY <1>1
<1> QED
  BY <1>2 DEF Arg

LEMMA TagIsTag ==
  ASSUME NEW e \in Exts, NEW o \in Options
  PROVE  LibraryTag(e, o) \in Tags
BY DEF Tags

(* The path of a task has an extension, and leanifying what it read gives  *)
(* contents that are no longer.                                            *)
LEMMA ResultType ==
  ASSUME TypeOK, NEW t \in work
  PROVE  /\ t[2] = <<t[2][1], t[2][2]>> /\ t[2][1] \in Names /\ t[2][2] \in Nat
         /\ Extension(t[2]) \in Exts
         /\ LeanifyFile(Extension(t[2]), data[t], opts) \in Outcomes(data[t])
         /\ LeanifyFile(Extension(t[2]), data[t], opts) \in Data
<1>1. t[2] \in Names \X Nat /\ data[t] \in Data /\ opts \in Options
  BY DEF TypeOK
<1>2. t[2] = <<t[2][1], t[2][2]>> /\ t[2][1] \in Names /\ t[2][2] \in Nat
  BY <1>1
<1>3. Extension(t[2]) \in Exts
  BY <1>2, FilesAssumption DEF Extension
<1> QED
  BY <1>1, <1>2, <1>3, LeanifyAssumption DEF Outcomes

LEMMA TargetType ==
  ASSUME TypeOK, NEW t \in work
  PROVE  /\ Key(t) \in Keys /\ Entry(t) = <<Key(t), 0>>
         /\ Target(t) \in Paths /\ Target(t) = <<Target(t)[1], Target(t)[2]>>
         /\ Tmp(Target(t)) \in Paths
         /\ Tmp(Target(t)) = <<Target(t)[1], Target(t)[2] + 1>>
         /\ Tmp(Target(t)) # Target(t)
<1>1. Key(t) \in Keys /\ Key(t) = <<data[t], LibraryTag(Extension(t[2]), opts)>>
  BY ResultType, TagIsTag DEF TypeOK, Key, Keys
<1>2. Target(t) \in (Names \cup Keys) \X Nat
  BY <1>1, ResultType DEF Target, Entry
<1> QED
  BY <1>1, <1>2 DEF Tmp, Paths, Entry

LEMMA TypeInit == Init => TypeOK
<1> SUFFICES ASSUME Init PROVE TypeOK
  OBVIOUS
<1>1. dir \in [DOMAIN dir -> Inodes] /\ DOMAIN dir \subseteq Paths
  BY FilesAssumption DEF Init, Paths
<1>2. body \in [Inodes -> Data]
  BY FilesAssumption, EmptyIsData DEF Init
<1> QED
  BY <1>1, <1>2 DEF Init, TypeOK

LEMMA TypeStart ==
  ASSUME TypeOK, NEW o \in Options, Start(o)
  PROVE  TypeOK'
<1>1. work' \subseteq (DOMAIN Args) \X (Names \X Nat)
  <2> SUFFICES ASSUME NEW t \in work' PROVE t \in (DOMAIN Args) \X (Names \X Nat)
    OBVIOUS
  <2>1. /\ t \in (DOMAIN Args) \X (DOMAIN dir)
        /\ t[2] \in DOMAIN dir /\ t[2][1] \in Args[t[1]].names
    BY DEF Start, CollectFiles
  <2>2. t[2] \in Paths
    BY <2>1 DEF TypeOK
  <2>3. t[2][1] \in Names
    BY <2>1, ArgNames
  <2> QED
    BY <2>1, <2>2, <2>3 DEF Paths
<1>2. 0 \in 0..MaxSize
  BY FileSystemAssumption
<1> QED
  BY <1>1, <1>2, EmptyIsData DEF TypeOK, Start, files, PCs

LEMMA NoContentType ==
  ASSUME TypeOK, NEW t \in work, NoContent(t),
         UNCHANGED <<files, process, size, pos, data, out>>
  PROVE  TypeOK'
<1> USE DEF PCs, ReadPCs, WritePCs
<1>1. UNCHANGED <<dir, body, phase, runs, opts, work, errors, size, pos, data, out>>
  BY DEF files, process
<1>2. call' \in [work -> {"user", "lib"}] /\ fd' \in [work -> Inodes \cup {Nil}]
  BY DEF TypeOK, NoContent
<1>3. pc' \in [work -> PCs] /\ pc'[t] \in {"done", "releanify"}
  BY DEF TypeOK, NoContent, Goto
<1>4. \A u \in work : u # t => pc'[u] = pc[u] /\ fd'[u] = fd[u]
  BY DEF TypeOK, NoContent, Goto
<1> QED
  BY <1>1, <1>2, <1>3, <1>4 DEF TypeOK

LEMMA TypeRead ==
  ASSUME TypeOK, NEW t \in work, ReadStep(t)
  PROVE  TypeOK'
<1> USE DEF PCs, ReadPCs, WritePCs
<1>1. CASE Stat(t)
  <2>1. Target(t) \in DOMAIN dir /\ dir[Target(t)] \in Inodes
    BY <1>1 DEF Stat, TypeOK
  <2>2. Len(body[dir[Target(t)]]) \in 0..MaxSize
    BY <2>1, DataIsSeq DEF TypeOK
  <2> QED
    BY <1>1, <2>2 DEF TypeOK, Stat, Goto, files, process
<1>2. CASE StatFails(t)
  BY <1>2, NoContentType DEF StatFails
<1>3. CASE Open(t)
  BY <1>3 DEF TypeOK, Open, Goto, files, process
<1>4. CASE OpenFails(t)
  BY <1>4, NoContentType DEF OpenFails
<1>5. CASE Read(t)
  <2> DEFINE c == SubSeq(body[fd[t]], 1, size[t])
  <2>1. body[fd[t]] \in Data /\ size[t] \in 0..Len(body[fd[t]])
    <3>1. fd[t] \in Inodes /\ size[t] \in 0..MaxSize
      BY <1>5 DEF Read, TypeOK
    <3>2. body[fd[t]] \in Data
      BY <3>1 DEF TypeOK
    <3> QED
      BY <1>5, <3>1, <3>2, DataIsSeq, FileSystemAssumption DEF Read
  <2>2. c \in Data /\ Len(c) \in Nat
    BY <2>1, PrefixIsData, DataIsSeq
  <2>3. data[t] \in Data /\ Len(data[t]) \in Nat
    BY DataIsSeq DEF TypeOK
  <2> HIDE DEF c
  <2>4. ASSUME ~ Len(c) < Len(data[t]) PROVE SubSeq(c, 1, Len(data[t])) \in Data
    <3>1. Len(data[t]) \in 0..Len(c)
      BY <2>2, <2>3, <2>4
    <3> QED
      BY <2>2, <3>1, PrefixIsData
  <2>5. data' \in [work -> Data] /\ out' \in [work -> Data]
    BY ZenonT(30), <1>5, <2>2, <2>4 DEF Read, TypeOK, c
  <2> QED
    BY ZenonT(30), <1>5, <2>5 DEF TypeOK, Read, Goto, files, process
<1>6. CASE ReadFails(t)
  BY <1>6, NoContentType DEF ReadFails
<1> QED
  BY <1>1, <1>2, <1>3, <1>4, <1>5, <1>6 DEF ReadStep

LEMMA TypeLeanify ==
  ASSUME TypeOK, NEW t \in work, LeanifyStep(t)
  PROVE  TypeOK'
<1> USE DEF PCs, ReadPCs, WritePCs, Goto, files, process, locals
<1>1. CASE Lookup(t)
  BY <1>1 DEF TypeOK, Lookup
<1>2. CASE Leanify(t)
  BY ZenonT(30), <1>2, ResultType DEF TypeOK, Leanify
<1>3. CASE Releanify(t)
  BY <1>3, ResultType DEF TypeOK, Releanify
<1>4. CASE Throw(t)
  BY <1>4 DEF TypeOK, Throw
<1>5. CASE Compare(t)
  BY <1>5 DEF TypeOK, Compare
<1> QED
  BY <1>1, <1>2, <1>3, <1>4, <1>5 DEF LeanifyStep

LEMMA LinkType ==
  ASSUME NEW d, d \in [DOMAIN d -> Inodes], DOMAIN d \subseteq Paths,
         NEW p \in Paths, NEW i \in Inodes
  PROVE  /\ Link(d, p, i) \in [DOMAIN Link(d, p, i) -> Inodes]
         /\ DOMAIN Link(d, p, i) \subseteq Paths
BY DEF Link

LEMMA UnlinkType ==
  ASSUME NEW d, d \in [DOMAIN d -> Inodes], DOMAIN d \subseteq Paths, NEW p
  PROVE  /\ Unlink(d, p) \in [DOMAIN Unlink(d, p) -> Inodes]
         /\ DOMAIN Unlink(d, p) \subseteq Paths
BY DEF Unlink

LEMMA OpenedType ==
  ASSUME TypeOK, NEW t \in work, NEW i \in Inodes, Opened(t, i),
         dir' \in [DOMAIN dir' -> Inodes], DOMAIN dir' \subseteq Paths
  PROVE  TypeOK'
<1> USE DEF PCs, ReadPCs, WritePCs
<1>1. UNCHANGED <<phase, runs, opts, work, errors, call, size, data, out>>
  BY DEF Opened, process
<1>2. fd' \in [work -> Inodes \cup {Nil}] /\ fd'[t] = i
  BY DEF TypeOK, Opened
<1>3. pos' \in [work -> 0..MaxSize] /\ pos'[t] = 0
  BY FileSystemAssumption DEF TypeOK, Opened
<1>4. body' \in [Inodes -> Data]
  BY EmptyIsData DEF TypeOK, Opened
<1>5. pc' \in [work -> PCs] /\ (pc'[t] = "write" => 0 < Len(out[t]))
  <2>1. Len(out[t]) \in Nat
    BY DataIsSeq DEF TypeOK
  <2>2. ~ Buffered(t) => 0 < Len(out[t])
    BY <2>1, BoundsAssumption DEF Buffered
  <2> QED
    BY <2>2 DEF TypeOK, Opened, Goto
<1>6. \A u \in work : u # t => pc'[u] = pc[u] /\ fd'[u] = fd[u] /\ pos'[u] = pos[u]
  BY DEF TypeOK, Opened, Goto
<1> QED
  BY <1>1, <1>2, <1>3, <1>4, <1>5, <1>6 DEF TypeOK

LEMMA TypeWrite ==
  ASSUME TypeOK, NEW t \in work, WriteStep(t)
  PROVE  TypeOK'
<1> USE DEF PCs, ReadPCs, WritePCs
<1>0. /\ Tmp(Target(t)) \in Paths /\ Target(t) \in Paths
      /\ out[t] \in Data /\ out[t] \in Seq(Bytes) /\ Len(out[t]) \in 0..MaxSize
  BY TargetType, DataIsSeq DEF TypeOK
<1>1. CASE Create(t)
  <2> DEFINE i == CHOOSE i \in FreeInodes(dir, fd) : TRUE
  <2>1. i \in Inodes
    BY <1>1 DEF Create, FreeInodes
  <2>2. Opened(t, i) /\ dir' = Link(dir, Tmp(Target(t)), i)
    BY <1>1 DEF Create
  <2> HIDE DEF i
  <2>3. dir' \in [DOMAIN dir' -> Inodes] /\ DOMAIN dir' \subseteq Paths
    BY <1>0, <2>1, <2>2, LinkType DEF TypeOK
  <2> QED
    BY <2>1, <2>2, <2>3, OpenedType
<1>2. CASE Truncate(t)
  <2>1. /\ Opened(t, dir[Tmp(Target(t))]) /\ dir[Tmp(Target(t))] \in Inodes
        /\ dir' \in [DOMAIN dir' -> Inodes] /\ DOMAIN dir' \subseteq Paths
    BY <1>2 DEF TypeOK, Truncate
  <2> QED
    BY <2>1, OpenedType
<1>3. CASE CreateFails(t)
  BY <1>3 DEF TypeOK, CreateFails, WriteReturns, Goto, files, process
<1>4. CASE Write(t)
  <2> DEFINE u == SubSeq(out[t], pos[t] + 1, pos[t] + 1)
  <2>1. /\ pc[t] = "write" /\ fd[t] \in Inodes /\ pos[t] \in Nat
        /\ pos[t] + 1 \in 1..Len(out[t]) /\ pos[t] + 1 <= MaxSize
    BY <1>0, <1>4, FileSystemAssumption DEF TypeOK, Write
  <2>2. u \in Seq(Bytes) /\ Len(u) = 1
    BY <1>0, <2>1
  <2>3. Overwrite(body[fd[t]], pos[t], u) \in Data
    <3>1. pos[t] + Len(u) <= MaxSize /\ body[fd[t]] \in Data
      BY <2>1, <2>2 DEF TypeOK
    <3> HIDE DEF u
    <3> QED
      BY <2>1, <2>2, <3>1, OverwriteIsData
  <2> HIDE DEF u
  <2>4. body' \in [Inodes -> Data]
    BY <1>4, <2>1, <2>3 DEF TypeOK, Write, u
  <2>5. pos' \in [work -> 0..MaxSize] /\ pos'[t] = pos[t] + 1
    BY <1>0, <1>4, <2>1, FileSystemAssumption DEF TypeOK, Write
  <2> QED
    BY <1>4, <2>4, <2>5 DEF TypeOK, Write, Goto, process
<1>5. CASE WriteFails(t)
  BY <1>5 DEF TypeOK, WriteFails, Goto, files, process, locals
<1>6. CASE Close(t)
  <2>1. fd[t] \in Inodes /\ Overwrite(body[fd[t]], 0, out[t]) \in Data
    <3>1. fd[t] \in Inodes /\ body[fd[t]] \in Data /\ 0 + Len(out[t]) <= MaxSize
      BY <1>0, <1>6, FileSystemAssumption DEF TypeOK, Close
    <3> QED
      BY <1>0, <3>1, OverwriteIsData
  <2>2. body' \in [Inodes -> Data]
    BY <1>6, <2>1 DEF TypeOK, Close
  <2> QED
    BY <1>6, <2>2 DEF TypeOK, Close, Goto, process
<1>7. CASE FlushFails(t)
  <2>1. PICK n \in 0 .. Len(out[t]) - 1 :
          body' = [body EXCEPT ![fd[t]] = Overwrite(@, 0, SubSeq(out[t], 1, n))]
    BY <1>7 DEF FlushFails
  <2>2. /\ SubSeq(out[t], 1, n) \in Seq(Bytes)
        /\ Len(SubSeq(out[t], 1, n)) \in 0..MaxSize
    BY <1>0, <2>1, PrefixIsData, DataIsSeq, FileSystemAssumption
  <2>3. fd[t] \in Inodes /\ Overwrite(body[fd[t]], 0, SubSeq(out[t], 1, n)) \in Data
    <3> DEFINE c == SubSeq(out[t], 1, n)
    <3>1. fd[t] \in Inodes /\ body[fd[t]] \in Data /\ 0 + Len(c) <= MaxSize
      BY <1>7, <2>2, FileSystemAssumption DEF TypeOK, FlushFails
    <3>2. c \in Seq(Bytes)
      BY <2>2
    <3> HIDE DEF c
    <3>3. Overwrite(body[fd[t]], 0, c) \in Data
      BY <3>1, <3>2, OverwriteIsData
    <3> QED
      BY <3>1, <3>3 DEF c
  <2>4. body' \in [Inodes -> Data]
    BY <2>1, <2>3 DEF TypeOK
  <2> QED
    BY <1>7, <2>4 DEF TypeOK, FlushFails, Goto, process
<1>8. CASE Rename(t)
  <2>1. dir' \in [DOMAIN dir' -> Inodes] /\ DOMAIN dir' \subseteq Paths
    BY <1>0, <1>8, LinkType, UnlinkType DEF Rename, Move, TypeOK
  <2> QED
    BY <1>8, <2>1 DEF TypeOK, Rename, WriteReturns, Goto, process
<1>9. CASE RenameFails(t)
  BY <1>9 DEF TypeOK, RenameFails, Goto, files, process, locals
<1>10. CASE Remove(t)
  <2>1. dir' \in [DOMAIN dir' -> Inodes] /\ DOMAIN dir' \subseteq Paths
    BY <1>10, UnlinkType DEF Remove, TypeOK
  <2> QED
    BY <1>10, <2>1 DEF TypeOK, Remove, WriteReturns, Goto, process
<1>11. CASE RemoveThrows(t)
  BY <1>11 DEF TypeOK, RemoveThrows, Goto, files
<1> QED
  BY <1>1, <1>2, <1>3, <1>4, <1>5, <1>6, <1>7, <1>8, <1>9, <1>10, <1>11 DEF WriteStep

LEMMA TypeStep == TypeOK /\ [Next]_vars => TypeOK'
<1> SUFFICES ASSUME TypeOK, [Next]_vars PROVE TypeOK'
  OBVIOUS
<1> USE DEF PCs, ReadPCs, WritePCs
<1>1. ASSUME NEW o \in Options, Start(o) PROVE TypeOK'
  BY <1>1, TypeStart
<1>2. CASE Exit
  BY <1>2 DEF TypeOK, Exit, files, locals
<1>3. CASE Crash
  BY <1>3 DEF TypeOK, Crash, files
<1>4. ASSUME NEW t \in work, Dispatch(t) PROVE TypeOK'
  BY <1>4 DEF TypeOK, Dispatch, Goto, files, process, locals
<1>5. ASSUME NEW t \in work, TaskStep(t) PROVE TypeOK'
  BY <1>4, <1>5, TypeRead, TypeLeanify, TypeWrite DEF TaskStep
<1>6. CASE UNCHANGED vars
  BY <1>6 DEF TypeOK, vars, files, process, locals
<1> QED
  BY <1>1, <1>2, <1>3, <1>5, <1>6 DEF Next, Terminated

(* The type invariant holds of Pipeline, whatever the command line, the    *)
(* faults and the number of workers.                                       *)
THEOREM TypeCorrect == Spec => []TypeOK
<1>1. Init => TypeOK
  BY TypeInit
<1>2. TypeOK /\ [Next]_vars => TypeOK'
  BY TypeStep
<1> QED
  BY <1>1, <1>2, PTL DEF Spec

-----------------------------------------------------------------------------
(* What a step of one task leaves alone.                                   *)

(* The files at all paths but those in S stay as they are.                 *)
Frame(S) ==
  \A p \in Paths \ S :
    /\ p \in DOMAIN dir' <=> p \in DOMAIN dir
    /\ p \in DOMAIN dir => dir'[p] = dir[p] /\ body'[dir[p]] = body[dir[p]]

(* So does what another task knows.                                        *)
SameLocals(u) ==
  /\ pc'[u] = pc[u] /\ call'[u] = call[u] /\ fd'[u] = fd[u] /\ size'[u] = size[u]
  /\ pos'[u] = pos[u] /\ data'[u] = data[u] /\ out'[u] = out[u]

LEMMA OthersStay ==
  ASSUME TypeOK, NEW t \in work, NEW u \in work, u # t, TaskStep(t)
  PROVE  work' = work /\ opts' = opts /\ SameLocals(u)
<1> USE DEF SameLocals, TypeOK, Goto, files, process, locals
<1>1. CASE Dispatch(t)
  BY <1>1 DEF Dispatch
<1>2. CASE ReadStep(t)
  BY <1>2 DEF ReadStep, Stat, StatFails, Open, OpenFails, Read, ReadFails, NoContent
<1>3. CASE LeanifyStep(t)
  BY <1>3 DEF LeanifyStep, Lookup, Leanify, Releanify, Throw, Compare
<1>4. CASE WriteStep(t)
  <2>1. CASE Create(t) \/ Truncate(t) \/ CreateFails(t)
    BY <2>1 DEF Create, Truncate, CreateFails, Opened, WriteReturns
  <2>2. CASE Write(t) \/ WriteFails(t) \/ Close(t) \/ FlushFails(t)
    BY <2>2 DEF Write, WriteFails, Close, FlushFails
  <2>3. CASE Rename(t) \/ RenameFails(t) \/ Remove(t) \/ RemoveThrows(t)
    BY <2>3 DEF Rename, RenameFails, Remove, RemoveThrows, WriteReturns
  <2> QED
    BY <1>4, <2>1, <2>2, <2>3 DEF WriteStep
<1> QED
  BY <1>1, <1>2, <1>3, <1>4 DEF TaskStep

LEMMA WorkStays ==
  ASSUME NEW t \in work, TaskStep(t)
  PROVE  work' = work
<1> USE DEF files, process
<1>1. CASE Dispatch(t) \/ ReadStep(t)
  BY <1>1 DEF Dispatch, ReadStep, Stat, StatFails, Open, OpenFails, Read, ReadFails
<1>2. CASE LeanifyStep(t)
  BY <1>2 DEF LeanifyStep, Lookup, Leanify, Releanify, Throw, Compare
<1>3. CASE WriteStep(t)
  BY <1>3 DEF WriteStep, Create, Truncate, CreateFails, Opened, Write, WriteFails,
              Close, FlushFails, Rename, RenameFails, Remove, RemoveThrows
<1> QED
  BY <1>1, <1>2, <1>3 DEF TaskStep

(* A task under way works on files it holds.                               *)
LEMMA TargetHeld ==
  ASSUME IInv, NEW t \in Active
  PROVE  /\ Target(t)[1] \in Held(t) /\ Tmp(Target(t))[1] \in Held(t)
         /\ t[2][1] \in Held(t)
         /\ Target(t)[2] \in Nat /\ Tmp(Target(t))[2] # 0
<1>1. t \in work /\ TaskInv(t) /\ TypeOK
  BY DEF Active, IInv
<1>2. Target(t)[1] \in Held(t) /\ Target(t)[2] \in Nat
  <2>1. CASE call[t] = "user"
    BY <1>1, <2>1, ResultType DEF Target, Held
  <2>2. CASE call[t] = "lib"
    <3>1. UseLibrary /\ pc[t] \in ReadPCs \cup WritePCs
      BY <1>1, <2>2 DEF TaskInv, CallsLibrary
    <3>2. data[t] # <<>>
      BY <1>1, <2>2, <3>1 DEF TaskInv, KnowsData, HasData, ReadPCs, WritePCs
    <3> QED
      BY <2>2, <3>1, <3>2 DEF Target, Entry, Held
  <2> QED
    BY <1>1, <2>1, <2>2 DEF TypeOK
<1> QED
  BY <1>1, <1>2, TargetType DEF Held, Tmp

(* What another task under way knows stays true, because it is about files *)
(* that the task that moves does not hold.                                 *)
LEMMA OthersInv ==
  ASSUME IInv, Exclusive, NEW t \in Active, NEW u \in work, u # t,
         opts' = opts, SameLocals(u),
         NEW S \in SUBSET {Target(t), Tmp(Target(t))}, Frame(S)
  PROVE  TaskInv(u)'
<1> USE DEF SameLocals
<1>0. TaskInv(u) /\ TypeOK
  BY DEF IInv
<1>1. Target(u)' = Target(u)
  BY DEF Target, Entry, Key
<1>2. CASE u \notin Active
  BY <1>0, <1>2
     DEF Active, TaskInv, Reading, CallsLibrary, KnowsData, HasData, KnowsResult,
         Writing, ReadPCs, WritePCs, Buffered
<1>3. CASE u \in Active
  <2> DEFINE tgt == Target(u)
             tmp == Tmp(Target(u))
             own == <<u[2][1], 0>>
  <2>1. \A p \in S : p[1] \in Held(t)
    BY TargetHeld
  <2>2. tgt[1] \in Held(u) /\ tmp[1] \in Held(u) /\ own[1] \in Held(u)
    BY <1>3, TargetHeld
  <2>3. tgt \notin S /\ tmp \notin S /\ own \notin S
    BY <1>3, <2>1, <2>2 DEF Exclusive
  <2>4. tgt \in Paths /\ tmp \in Paths /\ own \in Paths /\ own \in DOMAIN dir
    BY <1>0, TargetType, ResultType DEF Paths, IInv, UserPaths
  <2>5. \A p \in {tgt, tmp, own} :
          /\ p \in DOMAIN dir' <=> p \in DOMAIN dir
          /\ p \in DOMAIN dir => dir'[p] = dir[p] /\ body'[dir[p]] = body[dir[p]]
    BY <2>3, <2>4 DEF Frame
  <2>6. Tmp(Target(u))' = Tmp(Target(u))
    BY <1>1 DEF Tmp
  <2>7. Reading(u)'
    BY <1>0, <1>1, <2>5 DEF TaskInv, Reading
  <2>8. CallsLibrary(u)'
    BY <1>0 DEF TaskInv, CallsLibrary
  <2>9. KnowsData(u)'
    BY <1>0, <2>4, <2>5 DEF TaskInv, KnowsData, HasData, Content
  <2>10. KnowsResult(u)'
    BY <1>0 DEF TaskInv, KnowsResult, Outcomes
  <2>11. Writing(u)'
    BY <1>0, <2>5, <2>6 DEF TaskInv, Writing, Buffered
  <2> QED
    BY <2>7, <2>8, <2>9, <2>10, <2>11 DEF TaskInv
<1> QED
  BY <1>2, <1>3

(* An entry of the library other than the one that is renamed into place   *)
(* stays as it is.                                                         *)
LEMMA EntriesStay ==
  ASSUME IInv, TypeOK', NEW t \in Active, Frame({Tmp(Target(t))})
  PROVE  EntriesFaithful'
<1> SUFFICES ASSUME NEW p \in DOMAIN dir', p[2] = 0, p[1] \notin Names
             PROVE  \E e \in Exts, o \in Options :
                      /\ LibraryTag(e, o) = p[1][2]
                      /\ body'[dir'[p]] = LeanifyFile(e, p[1][1], o)
  BY DEF EntriesFaithful, LibraryTag
<1>1. p \in Paths /\ p # Tmp(Target(t))
  BY TargetHeld DEF TypeOK
<1>2. p \in DOMAIN dir /\ body'[dir'[p]] = body[dir[p]]
  BY <1>1 DEF Frame
<1> QED
  BY <1>2 DEF IInv, EntriesFaithful

LEMMA UserPathsStay ==
  ASSUME IInv, NEW t \in Active, Frame({Tmp(Target(t))})
  PROVE  /\ UserPaths'
         /\ \A n \in Names : Content(n)' = Content(n)
<1>1. ASSUME NEW n \in Names
      PROVE  <<n, 0>> \in DOMAIN dir' /\ Content(n)' = Content(n)
  <2>1. <<n, 0>> \in Paths /\ <<n, 0>> # Tmp(Target(t)) /\ <<n, 0>> \in DOMAIN dir
    BY TargetHeld DEF Paths, IInv, UserPaths
  <2> QED
    BY <2>1 DEF Frame, Content
<1> QED
  BY <1>1 DEF UserPaths

-----------------------------------------------------------------------------
(* Steps that do not change the file system.                               *)

LEMMA StillFrame ==
  ASSUME UNCHANGED files, NEW S
  PROVE  Frame(S)
BY DEF Frame, files

(* A failing ReadFile: what a task that was loading an entry knows of its  *)
(* data stays true.                                                        *)
LEMMA NoContentInv ==
  ASSUME IInv, NEW t \in work, pc[t] \in ReadPCs, NoContent(t),
         UNCHANGED <<files, process, size, pos, data, out>>
  PROVE  TaskInv(t)'
<1>1. /\ dir' = dir /\ body' = body /\ data'[t] = data[t] /\ call'[t] = "user"
      /\ pc'[t] = IF call[t] = "user" THEN "done" ELSE "releanify"
  BY DEF IInv, TypeOK, NoContent, Goto, files
<1>2. TaskInv(t) /\ call[t] \in {"user", "lib"}
  BY DEF IInv, TypeOK
<1> QED
  BY <1>1, <1>2
     DEF TaskInv, Reading, CallsLibrary, KnowsData, HasData, KnowsResult, Writing,
         ReadPCs, WritePCs, Content

LEMMA ReadInv ==
  ASSUME IInv, NEW t \in work, ReadStep(t)
  PROVE  TaskInv(t)' /\ UNCHANGED files
<1> USE DEF ReadPCs, WritePCs
<1>0. TaskInv(t) /\ TypeOK
  BY DEF IInv
<1>1. CASE Stat(t)
  <2>1. Target(t) \in DOMAIN dir /\ body[dir[Target(t)]] \in Data
    BY <1>0, <1>1 DEF Stat, TypeOK
  <2>2. Len(body[dir[Target(t)]]) > 0
    BY <1>1, <2>1, DataIsSeq DEF Stat
  <2>3. Target(t)' = Target(t)
    BY <1>1 DEF Stat, Target, Entry, Key, process
  <2> QED
    BY <1>0, <1>1, <2>1, <2>2, <2>3
       DEF TypeOK, Stat, Goto, files, process, TaskInv, Reading, CallsLibrary,
           KnowsData, HasData, KnowsResult, Writing, Content
<1>2. CASE StatFails(t)
  BY <1>2, NoContentInv DEF StatFails
<1>3. CASE Open(t)
  <2>1. Target(t)' = Target(t)
    BY <1>3 DEF Open, Target, Entry, Key, process
  <2> QED
    BY <1>0, <1>3, <2>1
       DEF TypeOK, Open, Goto, files, process, TaskInv, Reading, CallsLibrary,
           KnowsData, HasData, KnowsResult, Writing, Content
<1>4. CASE OpenFails(t)
  BY <1>4, NoContentInv DEF OpenFails
<1>5. CASE Read(t)
  <2> DEFINE b == body[dir[Target(t)]]
  <2>1. /\ Target(t) \in DOMAIN dir /\ fd[t] = dir[Target(t)]
        /\ size[t] = Len(b) /\ Len(b) > 0 /\ b \in Data
    BY <1>0, <1>5 DEF Read, TaskInv, Reading, TypeOK
  <2>2. SubSeq(body[fd[t]], 1, size[t]) = b /\ b # <<>>
    BY <2>1, WholePrefix, DataIsSeq
  <2>3. /\ dir' = dir /\ body' = body /\ call'[t] = "user"
        /\ opts' = opts /\ pc[t] = "read"
    BY <1>0, <1>5 DEF Read, files, process, TypeOK
  <2>4. CASE call[t] = "user"
    <3>1. data'[t] = b /\ pc'[t] = "lookup"
      BY <1>0, <1>5, <2>2, <2>4 DEF Read, Goto, TypeOK
    <3>2. t[2][2] = 0 => b = Content(t[2][1])
      BY <1>0, <2>4, ResultType DEF Target, Content
    <3> HIDE DEF b
    <3>3. Content(t[2][1])' = Content(t[2][1])
      BY <2>3 DEF Content
    <3>4. KnowsData(t)'
      BY <2>2, <3>1, <3>2, <3>3 DEF KnowsData
    <3>5. Reading(t)' /\ CallsLibrary(t)' /\ KnowsResult(t)' /\ Writing(t)'
      BY <2>3, <3>1 DEF Reading, CallsLibrary, KnowsResult, Writing
    <3> QED
      BY <2>3, <3>4, <3>5 DEF TaskInv, files
  <2>5. CASE call[t] = "lib"
    <3>1. Target(t) = <<Key(t), 0>> /\ Key(t)[1] = data[t] /\ Key(t) \notin Names
      BY <1>0, <2>5, TargetType, NamesAssumption DEF Target, Key
    <3>2. PICK e \in Exts, o \in Options : b = LeanifyFile(e, data[t], o)
      BY <2>1, <3>1 DEF IInv, EntriesFaithful
    <3>3. data[t] \in Data /\ Len(b) <= Len(data[t]) /\ b \in Outcomes(data[t])
      BY <1>0, <3>2, LeanifyAssumption DEF TypeOK, Outcomes
    <3>4. Len(b) = Len(data[t]) => SubSeq(b, 1, Len(data[t])) = b
      BY <2>1, WholePrefix
    <3>5. Len(b) \in Nat /\ Len(data[t]) \in Nat
      BY <2>1, <3>3, DataIsSeq
    <3>6. out'[t] = b /\ pc'[t] = "compare" /\ data'[t] = data[t]
      <4> HIDE DEF b
      <4>1. out' = [out EXCEPT ![t] = IF Len(b) < Len(data[t]) THEN b
                                      ELSE SubSeq(b, 1, Len(data[t]))]
        BY <1>5, <2>2, <2>5 DEF Read
      <4>2. out'[t] = b
        BY <1>0, <3>3, <3>4, <3>5, <4>1 DEF TypeOK
      <4> QED
        BY <1>0, <1>5, <2>5, <4>2 DEF Read, Goto, TypeOK
    <3>7. KnowsData(t)'
      BY <1>0, <2>3, <2>5, <3>6 DEF TaskInv, KnowsData, HasData, Content
    <3>8. KnowsResult(t)'
      BY <3>3, <3>6 DEF KnowsResult, Outcomes
    <3>9. Reading(t)' /\ CallsLibrary(t)' /\ Writing(t)'
      BY <2>3, <3>6 DEF Reading, CallsLibrary, Writing
    <3> QED
      BY <2>3, <3>7, <3>8, <3>9 DEF TaskInv, files
  <2> QED
    BY <1>0, <1>5, <2>4, <2>5 DEF Read, TypeOK, files
<1>6. CASE ReadFails(t)
  BY <1>6, NoContentInv DEF ReadFails
<1> QED
  BY <1>1, <1>2, <1>3, <1>4, <1>5, <1>6
     DEF ReadStep, Stat, StatFails, Open, OpenFails, ReadFails

LEMMA LeanifyInv ==
  ASSUME IInv, NEW t \in work, LeanifyStep(t) \/ Dispatch(t)
  PROVE  TaskInv(t)' /\ UNCHANGED files
<1> USE DEF ReadPCs, WritePCs
<1>0. TaskInv(t) /\ TypeOK
  BY DEF IInv
<1>1. \/ Lookup(t) \/ Leanify(t) \/ Releanify(t)
      \/ Throw(t) \/ Compare(t) \/ Dispatch(t)
  BY DEF LeanifyStep
<1>2. /\ dir' = dir /\ body' = body /\ data' = data /\ opts' = opts
      /\ pc[t] \in {"queued", "lookup", "leanify", "releanify", "compare"}
  BY <1>1 DEF Lookup, Leanify, Releanify, Throw, Compare, Dispatch, files, process,
              locals
<1>3. call[t] = "user"
  BY <1>0, <1>2 DEF TaskInv, CallsLibrary, TypeOK
<1>4. LET r == LeanifyFile(Extension(t[2]), data[t], opts)
      IN  \/ pc'[t] = "stat" /\ call'[t] = "lib" /\ UseLibrary /\ pc[t] = "lookup"
          \/ pc'[t] = "stat" /\ call'[t] = "user"
          \/ pc'[t] = "leanify" /\ call'[t] = "user" /\ pc[t] = "lookup"
          \/ /\ pc'[t] = "create" /\ call'[t] = "lib" /\ UseLibrary
             /\ out'[t] = r /\ pc[t] = "leanify"
          \/ pc'[t] = "compare" /\ call'[t] = "user" /\ out'[t] = r /\ pc[t] # "queued"
          \/ pc'[t] = "done" /\ call'[t] = "user"
          \/ /\ pc'[t] = "create" /\ call'[t] = "user" /\ pc[t] = "compare"
             /\ out'[t] = out[t] /\ Len(out[t]) < Len(data[t])
  BY <1>0, <1>1, <1>3
     DEF TypeOK, Lookup, Leanify, Releanify, Throw, Compare, Dispatch, Goto, locals
<1>5. KnowsData(t)'
  BY <1>0, <1>2, <1>3, <1>4 DEF TaskInv, KnowsData, HasData, Content
<1>6. KnowsResult(t)'
  BY <1>0, <1>2, <1>3, <1>4, ResultType DEF TaskInv, KnowsResult, Outcomes
<1>7. Reading(t)' /\ CallsLibrary(t)' /\ Writing(t)'
  BY <1>4 DEF Reading, CallsLibrary, Writing
<1> QED
  BY <1>2, <1>5, <1>6, <1>7 DEF TaskInv, files

-----------------------------------------------------------------------------
(* WriteFile.                                                              *)

(* Only the file at the temporary path, at an inode that no other path     *)
(* refers to, is changed.                                                  *)
LEMMA TmpFrame ==
  ASSUME IInv, NEW t \in work, NEW i,
         \A p \in DOMAIN dir : p # Tmp(Target(t)) => dir[p] # i,
         DOMAIN dir' \cup {Tmp(Target(t))} = DOMAIN dir \cup {Tmp(Target(t))},
         \A p \in DOMAIN dir \cap DOMAIN dir' : p # Tmp(Target(t)) => dir'[p] = dir[p],
         \A j \in Inodes : j # i => body'[j] = body[j]
  PROVE  Frame({Tmp(Target(t))})
<1> SUFFICES ASSUME NEW p \in Paths, p # Tmp(Target(t))
             PROVE  /\ p \in DOMAIN dir' <=> p \in DOMAIN dir
                    /\ p \in DOMAIN dir => dir'[p] = dir[p] /\ body'[dir[p]] = body[dir[p]]
  BY DEF Frame
<1>1. p \in DOMAIN dir' <=> p \in DOMAIN dir
  OBVIOUS
<1>2. ASSUME p \in DOMAIN dir PROVE dir'[p] = dir[p] /\ body'[dir[p]] = body[dir[p]]
  BY <1>1, <1>2 DEF IInv, TypeOK
<1> QED
  BY <1>1, <1>2

(* Between two steps of WriteFile a task goes on knowing its data and its  *)
(* result.                                                                 *)
LEMMA StillKnows ==
  ASSUME IInv, NEW t \in work, pc[t] \in WritePCs, pc'[t] \in WritePCs,
         Frame({Tmp(Target(t))}), opts' = opts,
         call'[t] = call[t], data'[t] = data[t], out'[t] = out[t]
  PROVE  /\ Reading(t)' /\ CallsLibrary(t)' /\ KnowsData(t)' /\ KnowsResult(t)'
         /\ Tmp(Target(t))' = Tmp(Target(t)) /\ Buffered(t)' = Buffered(t)
<1> USE DEF ReadPCs, WritePCs
<1>1. t \in Active /\ TaskInv(t) /\ t[2][1] \in Names
  BY ResultType DEF IInv, Active
<1>2. Content(t[2][1])' = Content(t[2][1])
  BY <1>1, UserPathsStay
<1>3. Reading(t)' /\ CallsLibrary(t)'
  BY <1>1 DEF TaskInv, Reading, CallsLibrary
<1>4. KnowsData(t)'
  BY <1>1, <1>2 DEF TaskInv, KnowsData, HasData
<1>5. KnowsResult(t)'
  BY <1>1 DEF TaskInv, KnowsResult, Outcomes
<1>6. Tmp(Target(t))' = Tmp(Target(t)) /\ Buffered(t)' = Buffered(t)
  BY DEF Tmp, Target, Entry, Key, Buffered
<1> QED
  BY <1>3, <1>4, <1>5, <1>6

(* The temporary file has just been opened and is empty.                   *)
LEMMA OpenedInv ==
  ASSUME IInv, NEW t \in work, pc[t] = "create", NEW i \in Inodes, Opened(t, i),
         Frame({Tmp(Target(t))}), Tmp(Target(t)) \in DOMAIN dir', dir'[Tmp(Target(t))] = i
  PROVE  TaskInv(t)'
<1>1. TypeOK /\ out[t] \in Data /\ out[t] \in Seq(Bytes)
  BY DataIsSeq DEF IInv, TypeOK
<1>2. /\ pc'[t] = IF Buffered(t) THEN "close" ELSE "write"
      /\ fd'[t] = i /\ pos'[t] = 0 /\ body'[i] = <<>>
      /\ call' = call /\ data' = data /\ out' = out /\ opts' = opts
  BY <1>1 DEF Opened, Goto, process, TypeOK
<1>3. /\ Reading(t)' /\ CallsLibrary(t)' /\ KnowsData(t)' /\ KnowsResult(t)'
      /\ Tmp(Target(t))' = Tmp(Target(t)) /\ Buffered(t)' = Buffered(t)
  BY <1>2, StillKnows DEF WritePCs
<1>4. SubSeq(out[t], 1, 0) = <<>>
  BY <1>1
<1>5. Writing(t)'
  BY <1>2, <1>3, <1>4 DEF Writing
<1> QED
  BY <1>3, <1>5 DEF TaskInv

(* WriteFile returns; when it has written an entry, the user's file is     *)
(* what it was.                                                            *)
LEMMA ReturnInv ==
  ASSUME IInv, NEW t \in work, pc[t] \in WritePCs, WriteReturns(t),
         opts' = opts, data'[t] = data[t], out'[t] = out[t],
         call[t] = "lib" => Content(t[2][1])' = Content(t[2][1])
  PROVE  TaskInv(t)'
<1> USE DEF ReadPCs, WritePCs
<1>1. TaskInv(t) /\ TypeOK
  BY DEF IInv
<1>2. /\ call'[t] = "user"
      /\ pc'[t] = IF call[t] = "lib" THEN "compare" ELSE "done"
  BY <1>1 DEF WriteReturns, Goto, TypeOK
<1>3. KnowsData(t)'
  BY <1>1, <1>2 DEF TaskInv, KnowsData, HasData
<1>4. KnowsResult(t)'
  BY <1>1, <1>2 DEF TaskInv, KnowsResult, Outcomes
<1>5. Reading(t)' /\ CallsLibrary(t)' /\ Writing(t)'
  BY <1>2 DEF Reading, CallsLibrary, Writing
<1> QED
  BY <1>3, <1>4, <1>5 DEF TaskInv

LEMMA CreateInv ==
  ASSUME IInv, NEW t \in work, Create(t)
  PROVE  TaskInv(t)' /\ NoHardLinks' /\ Frame({Tmp(Target(t))})
<1> DEFINE i == CHOOSE i \in FreeInodes(dir, fd) : TRUE
           tmp == Tmp(Target(t))
<1>1. i \in FreeInodes(dir, fd)
  BY DEF Create
<1>2. pc[t] = "create" /\ tmp \notin DOMAIN dir /\ dir' = Link(dir, tmp, i) /\ Opened(t, i)
  BY DEF Create
<1> HIDE DEF i
<1>3. i \in Inodes /\ \A p \in DOMAIN dir : dir[p] # i
  BY <1>1 DEF FreeInodes
<1>4. /\ DOMAIN dir' = DOMAIN dir \cup {tmp} /\ dir'[tmp] = i
      /\ \A p \in DOMAIN dir : dir'[p] = dir[p]
  BY <1>2 DEF Link
<1>5. \A j \in Inodes : j # i => body'[j] = body[j]
  BY <1>2 DEF Opened, IInv, TypeOK
<1>6. Frame({tmp})
  BY <1>3, <1>4, <1>5, TmpFrame
<1>7. NoHardLinks'
  BY <1>2, <1>3, <1>4 DEF IInv, NoHardLinks
<1> QED
  BY <1>2, <1>3, <1>4, <1>6, <1>7, OpenedInv

LEMMA TruncateInv ==
  ASSUME IInv, NEW t \in work, Truncate(t)
  PROVE  TaskInv(t)' /\ NoHardLinks' /\ Frame({Tmp(Target(t))})
<1> DEFINE tmp == Tmp(Target(t))
<1>1. pc[t] = "create" /\ tmp \in DOMAIN dir /\ dir' = dir /\ Opened(t, dir[tmp])
  BY DEF Truncate
<1>2. dir[tmp] \in Inodes /\ \A p \in DOMAIN dir : p # tmp => dir[p] # dir[tmp]
  BY <1>1 DEF IInv, TypeOK, NoHardLinks
<1>3. \A j \in Inodes : j # dir[tmp] => body'[j] = body[j]
  BY <1>1 DEF Opened, IInv, TypeOK
<1>4. Frame({tmp})
  BY <1>1, <1>2, <1>3, TmpFrame
<1>5. NoHardLinks'
  BY <1>1 DEF IInv, NoHardLinks
<1> QED
  BY <1>1, <1>2, <1>4, <1>5, OpenedInv

(* Writing to the open temporary file.                                     *)
LEMMA BodyFrame ==
  ASSUME IInv, NEW t \in work, pc[t] \in {"write", "close"}, dir' = dir, NEW c,
         body' = [body EXCEPT ![fd[t]] = c]
  PROVE  /\ NoHardLinks' /\ Frame({Tmp(Target(t))})
         /\ body'[fd[t]] = c
         /\ Tmp(Target(t)) \in DOMAIN dir /\ dir[Tmp(Target(t))] = fd[t]
<1> DEFINE tmp == Tmp(Target(t))
<1>1. tmp \in DOMAIN dir /\ dir[tmp] = fd[t]
  BY DEF IInv, TaskInv, Writing
<1>2. \A p \in DOMAIN dir : p # tmp => dir[p] # fd[t]
  BY <1>1 DEF IInv, NoHardLinks
<1>3. \A j \in Inodes : j # fd[t] => body'[j] = body[j]
  BY DEF IInv, TypeOK
<1>4. Frame({tmp})
  BY <1>2, <1>3, TmpFrame
<1>5. NoHardLinks' /\ body'[fd[t]] = c
  BY <1>1 DEF IInv, NoHardLinks, TypeOK
<1> QED
  BY <1>1, <1>4, <1>5

LEMMA WriteInv ==
  ASSUME IInv, NEW t \in work, Write(t)
  PROVE  TaskInv(t)' /\ NoHardLinks' /\ Frame({Tmp(Target(t))})
<1> DEFINE c == Overwrite(body[fd[t]], pos[t], SubSeq(out[t], pos[t] + 1, pos[t] + 1))
<1>1. /\ TaskInv(t) /\ TypeOK /\ pc[t] = "write" /\ out[t] \in Data
      /\ out[t] \in Seq(Bytes) /\ Len(out[t]) \in Nat
      /\ pos[t] \in Nat /\ pos[t] < Len(out[t])
  BY DataIsSeq, FileSystemAssumption DEF IInv, TypeOK, Write
<1>2. dir' = dir /\ body' = [body EXCEPT ![fd[t]] = c]
  BY DEF Write
<1>3. c = SubSeq(out[t], 1, pos[t] + 1)
  BY <1>1, OverwriteNext DEF TaskInv, Writing
<1> HIDE DEF c
<1>4. /\ NoHardLinks' /\ Frame({Tmp(Target(t))}) /\ body'[fd[t]] = c
      /\ Tmp(Target(t)) \in DOMAIN dir /\ dir[Tmp(Target(t))] = fd[t]
  BY <1>1, <1>2, BodyFrame
<1>5. /\ fd' = fd /\ pos'[t] = pos[t] + 1
      /\ pc'[t] = IF pos[t] + 1 < Len(out[t]) THEN "write" ELSE "close"
      /\ call' = call /\ data' = data /\ out' = out /\ opts' = opts
  BY <1>1 DEF Write, Goto, process, TypeOK
<1>6. /\ Reading(t)' /\ CallsLibrary(t)' /\ KnowsData(t)' /\ KnowsResult(t)'
      /\ Tmp(Target(t))' = Tmp(Target(t)) /\ Buffered(t)' = Buffered(t)
  BY <1>1, <1>4, <1>5, StillKnows DEF WritePCs
<1>7. ~ Buffered(t)
  BY <1>1 DEF TaskInv, Writing
<1>8. pc'[t] = "close" => c = out[t]
  <2>1. pc'[t] = "close" => pos[t] + 1 = Len(out[t])
    BY <1>1, <1>5
  <2> QED
    BY <1>1, <1>3, <2>1, WholePrefix
<1>9. Writing(t)'
  BY <1>2, <1>3, <1>4, <1>5, <1>6, <1>7, <1>8 DEF Writing
<1> QED
  BY <1>4, <1>6, <1>9 DEF TaskInv

LEMMA CloseInv ==
  ASSUME IInv, NEW t \in work, Close(t)
  PROVE  TaskInv(t)' /\ NoHardLinks' /\ Frame({Tmp(Target(t))})
<1> DEFINE c == IF Buffered(t) THEN Overwrite(body[fd[t]], 0, out[t]) ELSE body[fd[t]]
<1>1. TaskInv(t) /\ TypeOK /\ pc[t] = "close" /\ out[t] \in Data
  BY DEF IInv, TypeOK, Close
<1>2. dir' = dir /\ body' = [body EXCEPT ![fd[t]] = c]
  BY <1>1 DEF Close, TypeOK
<1>3. c = out[t]
  BY <1>1, OverwriteEmpty DEF TaskInv, Writing
<1> HIDE DEF c
<1>4. /\ NoHardLinks' /\ Frame({Tmp(Target(t))}) /\ body'[fd[t]] = c
      /\ Tmp(Target(t)) \in DOMAIN dir /\ dir[Tmp(Target(t))] = fd[t]
  BY <1>1, <1>2, BodyFrame
<1>5. /\ pc'[t] = "rename"
      /\ call' = call /\ data' = data /\ out' = out /\ opts' = opts
  BY <1>1 DEF Close, Goto, process, TypeOK
<1>6. /\ Reading(t)' /\ CallsLibrary(t)' /\ KnowsData(t)' /\ KnowsResult(t)'
      /\ Tmp(Target(t))' = Tmp(Target(t)) /\ Buffered(t)' = Buffered(t)
  BY <1>1, <1>4, <1>5, StillKnows DEF WritePCs
<1>7. Writing(t)'
  BY <1>2, <1>3, <1>4, <1>5, <1>6 DEF Writing
<1> QED
  BY <1>4, <1>6, <1>7 DEF TaskInv

(* WriteFile gives up.                                                     *)
LEMMA FailInv ==
  ASSUME IInv, NEW t \in work,
         CreateFails(t) \/ WriteFails(t) \/ RenameFails(t) \/ RemoveThrows(t)
  PROVE  TaskInv(t)' /\ NoHardLinks' /\ Frame({Tmp(Target(t))})
<1> USE DEF ReadPCs, WritePCs
<1>1. /\ dir' = dir /\ body' = body /\ data' = data /\ out' = out /\ opts' = opts
      /\ pc[t] \in WritePCs /\ TypeOK
  BY DEF CreateFails, WriteFails, RenameFails, RemoveThrows, files, process, locals, IInv
<1>2. NoHardLinks' /\ Frame({Tmp(Target(t))})
  BY <1>1 DEF IInv, NoHardLinks, Frame
<1>3. Content(t[2][1])' = Content(t[2][1])
  BY <1>1 DEF Content
<1>4. CASE CreateFails(t)
  BY <1>1, <1>2, <1>3, <1>4, ReturnInv DEF CreateFails
<1>5. CASE WriteFails(t) \/ RenameFails(t)
  <2>1. pc'[t] = "remove" /\ call' = call
    BY <1>1, <1>5 DEF WriteFails, RenameFails, Goto, locals, TypeOK
  <2>2. Reading(t)' /\ CallsLibrary(t)' /\ KnowsData(t)' /\ KnowsResult(t)'
    BY <1>1, <1>2, <2>1, StillKnows
  <2>3. Writing(t)'
    BY <2>1 DEF Writing
  <2> QED
    BY <1>2, <2>2, <2>3 DEF TaskInv
<1>6. CASE RemoveThrows(t)
  <2>1. pc'[t] = "done" /\ call'[t] = "user"
    BY <1>1, <1>6 DEF RemoveThrows, Goto, TypeOK
  <2>2. TaskInv(t)'
    BY <2>1 DEF TaskInv, Reading, CallsLibrary, KnowsData, HasData, KnowsResult, Writing
  <2> QED
    BY <1>2, <2>2
<1> QED
  BY <1>4, <1>5, <1>6

LEMMA RemoveInv ==
  ASSUME IInv, NEW t \in work, Remove(t)
  PROVE  TaskInv(t)' /\ NoHardLinks' /\ Frame({Tmp(Target(t))})
<1> DEFINE tmp == Tmp(Target(t))
<1>1. /\ pc[t] = "remove" /\ dir' = Unlink(dir, tmp) /\ WriteReturns(t)
      /\ body' = body /\ data' = data /\ out' = out /\ opts' = opts
  BY DEF Remove, process
<1>2. /\ DOMAIN dir' = DOMAIN dir \ {tmp}
      /\ \A p \in DOMAIN dir' : dir'[p] = dir[p]
  BY <1>1 DEF Unlink
<1>3. NoHardLinks' /\ Frame({tmp})
  BY <1>1, <1>2 DEF IInv, NoHardLinks, Frame
<1>4. t \in Active /\ t[2][1] \in Names
  BY <1>1, ResultType DEF Active, IInv
<1>5. Content(t[2][1])' = Content(t[2][1])
  BY <1>3, <1>4, UserPathsStay
<1> QED
  BY <1>1, <1>3, <1>5, ReturnInv DEF WritePCs

(* The rename replaces the target by the result, and nothing else changes. *)
LEMMA RenameInv ==
  ASSUME IInv, TypeOK', NEW t \in work, Rename(t)
  PROVE  /\ TaskInv(t)' /\ NoHardLinks' /\ UserPaths' /\ EntriesFaithful'
         /\ Frame({Target(t), Tmp(Target(t))})
         /\ \A n \in Names :
              \/ Content(n)' = Content(n)
              \/ /\ call[t] = "user" /\ t[2] = <<n, 0>>
                 /\ Content(n)' = out[t]
<1> DEFINE tgt == Target(t)
           tmp == Tmp(Target(t))
<1>1. /\ pc[t] = "rename" /\ tmp \in DOMAIN dir /\ dir' = Move(dir, tmp, tgt)
      /\ WriteReturns(t)
      /\ body' = body /\ data' = data /\ out' = out /\ opts' = opts
  BY DEF Rename, process
<1>2. TypeOK /\ TaskInv(t) /\ t \in Active
  BY <1>1 DEF IInv, Active
<1>3. tmp # tgt /\ tgt \in Paths /\ tmp[2] # 0
  BY <1>2, TargetType, TargetHeld
<1>4. /\ DOMAIN dir' = (DOMAIN dir \ {tmp}) \cup {tgt} /\ dir'[tgt] = dir[tmp]
      /\ \A p \in DOMAIN dir \ {tmp, tgt} : dir'[p] = dir[p]
  BY <1>1 DEF Move, Link, Unlink
<1>5. body[dir[tmp]] = out[t]
  BY <1>1, <1>2 DEF TaskInv, Writing
<1>6. NoHardLinks'
  <2> SUFFICES ASSUME NEW p \in DOMAIN dir', NEW q \in DOMAIN dir', dir'[p] = dir'[q]
               PROVE  p = q
    BY DEF NoHardLinks
  <2> DEFINE old(r) == IF r = tgt THEN tmp ELSE r
  <2>1. \A r \in DOMAIN dir' : old(r) \in DOMAIN dir /\ dir'[r] = dir[old(r)] /\ r # tmp
    BY <1>1, <1>3, <1>4
  <2>2. old(p) = old(q)
    BY <2>1 DEF IInv, NoHardLinks
  <2> QED
    BY <2>1, <2>2
<1>7. Frame({tgt, tmp})
  BY <1>1, <1>4 DEF Frame
<1>8. ASSUME NEW n \in Names
      PROVE  /\ <<n, 0>> \in DOMAIN dir'
             /\ \/ Content(n)' = Content(n)
                \/ call[t] = "user" /\ t[2] = <<n, 0>> /\ Content(n)' = out[t]
  <2>1. <<n, 0>> \in DOMAIN dir /\ <<n, 0>> # tmp
    BY <1>3 DEF IInv, UserPaths
  <2>2. CASE <<n, 0>> = tgt
    <3>1. call[t] = "user"
      BY <1>2, <2>2, TargetType, NamesAssumption DEF Target, TypeOK
    <3> QED
      BY <1>1, <1>4, <1>5, <2>2, <3>1 DEF Target, Content
  <2>3. CASE <<n, 0>> # tgt
    BY <1>1, <1>4, <2>1, <2>3 DEF Content
  <2> QED
    BY <2>2, <2>3
<1>9. UserPaths'
  BY <1>8 DEF UserPaths
<1>10. EntriesFaithful'
  <2> SUFFICES ASSUME NEW p \in DOMAIN dir', p[2] = 0, p[1] \notin Names
               PROVE  \E e \in Exts, o \in Options :
                        /\ LibraryTag(e, o) = p[1][2]
                        /\ body'[dir'[p]] = LeanifyFile(e, p[1][1], o)
    BY DEF EntriesFaithful, LibraryTag
  <2>1. CASE p = tgt
    <3>1. call[t] = "lib"
      BY <1>2, <2>1, ResultType DEF Target, TypeOK
    <3>2. p[1] = <<data[t], LibraryTag(Extension(t[2]), opts)>>
      BY <2>1, <3>1 DEF Target, Entry, Key
    <3>3. out[t] = LeanifyFile(Extension(t[2]), data[t], opts)
      BY <1>1, <1>2, <3>1 DEF TaskInv, KnowsResult, WritePCs
    <3> QED
      BY SMTT(30), <1>1, <1>2, <1>4, <1>5, <2>1, <3>2, <3>3, ResultType DEF TypeOK
  <2>2. CASE p # tgt
    <3>1. p \in DOMAIN dir /\ dir'[p] = dir[p]
      BY <1>4, <2>2
    <3> QED
      BY <1>1, <3>1 DEF IInv, EntriesFaithful
  <2> QED
    BY <2>1, <2>2
<1>11. TaskInv(t)'
  <2>1. call[t] = "lib" => Content(t[2][1])' = Content(t[2][1])
    BY <1>2, <1>8, ResultType
  <2> QED
    BY <1>1, <2>1, ReturnInv DEF WritePCs
<1> QED
  BY <1>6, <1>7, <1>8, <1>9, <1>10, <1>11

-----------------------------------------------------------------------------
(* The invariant, and the specification that Pipeline implements.          *)

(* A step of one task.                                                     *)
LEMMA TaskStepInv ==
  ASSUME IInv, TypeOK', Exclusive, ~ CanFail("flush"), NEW t \in work, TaskStep(t)
  PROVE  /\ IInv'
         /\ \A n \in Names :
              \/ Content(n)' = Content(n)
              \/ /\ Rename(t) /\ call[t] = "user" /\ t[2] = <<n, 0>>
                 /\ out[t] \in Outcomes(Content(n)) /\ Len(out[t]) < Len(Content(n))
                 /\ Content(n)' = out[t]
<1>1. ASSUME NEW S \in SUBSET {Target(t), Tmp(Target(t))}, Frame(S),
             TaskInv(t)', t \in Active
      PROVE  \A u \in work' : TaskInv(u)'
  <2> SUFFICES ASSUME NEW u \in work, u # t PROVE TaskInv(u)'
    BY <1>1, WorkStays
  <2>1. opts' = opts /\ SameLocals(u)
    BY OthersStay DEF IInv
  <2> QED
    BY <1>1, <2>1, OthersInv
<1>2. CASE Dispatch(t)
  <2>1. TaskInv(t)' /\ UNCHANGED files /\ work' = work
    BY <1>2, LeanifyInv DEF Dispatch, process
  <2>2. ASSUME NEW u \in work, u # t PROVE TaskInv(u)'
    <3>1. opts' = opts /\ SameLocals(u)
      BY <2>2, OthersStay DEF IInv
    <3>2. TaskInv(u)
      BY DEF IInv
    <3> QED
      BY <2>1, <3>1, <3>2
         DEF SameLocals, files, TaskInv, Reading, CallsLibrary, KnowsData, HasData,
             KnowsResult, Writing, Target, Entry, Key, Content, Buffered, Outcomes, Tmp
  <2>3. NoHardLinks' /\ UserPaths' /\ EntriesFaithful'
    BY ZenonT(30), <2>1 DEF files, IInv, NoHardLinks, UserPaths, EntriesFaithful, LibraryTag
  <2> QED
    BY <2>1, <2>2, <2>3 DEF IInv, files, Content
<1>3. CASE ReadStep(t) \/ LeanifyStep(t)
  <2>1. t \in Active
    BY <1>3 DEF Active, ReadStep, Stat, StatFails, Open, OpenFails, Read, ReadFails,
                LeanifyStep, Lookup, Leanify, Releanify, Throw, Compare
  <2>2. TaskInv(t)' /\ UNCHANGED files
    BY <1>3, ReadInv, LeanifyInv
  <2>3. Frame({})
    BY <2>2, StillFrame
  <2>4. \A u \in work' : TaskInv(u)'
    BY <1>1, <2>1, <2>2, <2>3
  <2>5. NoHardLinks' /\ UserPaths' /\ EntriesFaithful'
    BY ZenonT(30), <2>2 DEF files, IInv, NoHardLinks, UserPaths, EntriesFaithful, LibraryTag
  <2> QED
    BY <2>2, <2>4, <2>5 DEF IInv, files, Content
<1>4. CASE WriteStep(t) /\ ~ Rename(t)
  <2>1. t \in Active
    BY <1>4 DEF Active, WriteStep, Create, Truncate, CreateFails, Write, WriteFails,
                Close, FlushFails, RenameFails, Remove, RemoveThrows
  <2>2. TaskInv(t)' /\ NoHardLinks' /\ Frame({Tmp(Target(t))})
    BY <1>4, CreateInv, TruncateInv, WriteInv, CloseInv, FailInv, RemoveInv
       DEF WriteStep, FlushFails
  <2>3. \A u \in work' : TaskInv(u)'
    BY <1>1, <2>1, <2>2
  <2> QED
    BY <2>1, <2>2, <2>3, EntriesStay, UserPathsStay DEF IInv
<1>5. CASE Rename(t)
  <2>1. t \in Active /\ TaskInv(t) /\ pc[t] = "rename"
    BY <1>5 DEF Active, Rename, IInv
  <2>2. /\ TaskInv(t)' /\ NoHardLinks' /\ UserPaths' /\ EntriesFaithful'
        /\ Frame({Target(t), Tmp(Target(t))})
        /\ \A n \in Names :
             \/ Content(n)' = Content(n)
             \/ call[t] = "user" /\ t[2] = <<n, 0>> /\ Content(n)' = out[t]
    BY <1>5, RenameInv
  <2>3. \A u \in work' : TaskInv(u)'
    BY <1>1, <2>1, <2>2
  <2>4. ASSUME NEW n \in Names, call[t] = "user", t[2] = <<n, 0>>
        PROVE  out[t] \in Outcomes(Content(n)) /\ Len(out[t]) < Len(Content(n))
    BY <2>1, <2>4
       DEF TaskInv, KnowsData, HasData, KnowsResult, ReadPCs, WritePCs
  <2> QED
    BY <1>5, <2>2, <2>3, <2>4 DEF IInv
<1> QED
  BY <1>2, <1>3, <1>4, <1>5 DEF TaskStep

LEMMA InitInv == Init => IInv
<1> SUFFICES ASSUME Init PROVE IInv
  OBVIOUS
<1>1. TypeOK
  BY TypeInit
<1>2. NoHardLinks
  BY FilesAssumption DEF Init, NoHardLinks
<1>3. UserPaths /\ EntriesFaithful /\ work = {}
  BY DEF Init, UserPaths, EntriesFaithful
<1> QED
  BY <1>1, <1>2, <1>3 DEF IInv

(* Starting the program, ending it and its dying do not touch the files,   *)
(* and no task is under way afterwards.                                    *)
LEMMA ProcessInv ==
  ASSUME IInv, TypeOK', (\E o \in Options : Start(o)) \/ Exit \/ Crash
  PROVE  IInv' /\ UNCHANGED files
<1>1. UNCHANGED files
  BY DEF Start, Exit, Crash
<1>2. NoHardLinks' /\ UserPaths' /\ EntriesFaithful'
  BY ZenonT(30), <1>1 DEF files, IInv, NoHardLinks, UserPaths, EntriesFaithful, LibraryTag
<1>3. ASSUME NEW t \in work' PROVE TaskInv(t)'
  <2>1. CASE \E o \in Options : Start(o)
    <3>1. pc'[t] = "queued" /\ call'[t] = "user"
      BY <2>1 DEF Start
    <3> QED
      BY <3>1 DEF TaskInv, Reading, CallsLibrary, KnowsData, HasData, KnowsResult,
                  Writing, ReadPCs, WritePCs
  <2>2. CASE Exit
    <3>1. TaskInv(t) /\ t \in work /\ pc[t] = "done" /\ pc' = pc /\ call' = call
      BY <2>2 DEF Exit, IInv, locals
    <3> QED
      BY <3>1 DEF TaskInv, Reading, CallsLibrary, KnowsData, HasData, KnowsResult,
                  Writing, ReadPCs, WritePCs
  <2>3. CASE Crash
    BY <2>3 DEF Crash
  <2> QED
    BY <2>1, <2>2, <2>3
<1> QED
  BY <1>1, <1>2, <1>3 DEF IInv

LEMMA StutterInv ==
  ASSUME IInv, UNCHANGED vars
  PROVE  IInv' /\ UNCHANGED files
<1> USE DEF vars, files, process, locals
<1>1. TypeOK'
  BY TypeStep DEF IInv
<1>2. NoHardLinks' /\ UserPaths' /\ EntriesFaithful'
  BY ZenonT(30) DEF IInv, NoHardLinks, UserPaths, EntriesFaithful, LibraryTag
<1>3. ASSUME NEW t \in work PROVE TaskInv(t)'
  <2>1. TaskInv(t)
    BY DEF IInv
  <2> QED
    BY <2>1
       DEF TaskInv, Reading, CallsLibrary, KnowsData, HasData, KnowsResult, Writing,
           Target, Entry, Key, Content, Buffered, Outcomes, Tmp
<1> QED
  BY <1>1, <1>2, <1>3 DEF IInv

(* Every step keeps the invariant and is a step of the abstract store, or  *)
(* leaves it alone.                                                        *)
LEMMA NextInv ==
  ASSUME IInv, Exclusive, ~ CanFail("flush"), [Next]_vars
  PROVE  /\ IInv'
         /\ \/ \A n \in Names : Content(n)' = Content(n)
            \/ \E n \in Names :
                 \E r \in Outcomes(Content(n)) :
                   /\ Len(r) < Len(Content(n)) /\ Content(n)' = r
                   /\ \A m \in Names : m # n => Content(m)' = Content(m)
<1>1. TypeOK'
  BY TypeStep DEF IInv
<1>2. CASE (\E o \in Options : Start(o)) \/ Exit \/ Crash
  BY <1>1, <1>2, ProcessInv DEF files, Content
<1>3. CASE UNCHANGED vars
  BY <1>3, StutterInv DEF files, Content
<1>4. ASSUME NEW t \in work, TaskStep(t)
      PROVE  /\ IInv'
             /\ \/ \A n \in Names : Content(n)' = Content(n)
                \/ \E n \in Names :
                     \E r \in Outcomes(Content(n)) :
                       /\ Len(r) < Len(Content(n)) /\ Content(n)' = r
                       /\ \A m \in Names : m # n => Content(m)' = Content(m)
  <2>1. /\ IInv'
        /\ \A n \in Names :
             \/ Content(n)' = Content(n)
             \/ /\ t[2] = <<n, 0>>
                /\ out[t] \in Outcomes(Content(n)) /\ Len(out[t]) < Len(Content(n))
                /\ Content(n)' = out[t]
    BY <1>1, <1>4, TaskStepInv
  <2> QED
    BY <2>1
<1> QED
  BY <1>2, <1>3, <1>4 DEF Next, Terminated

(* Where the files of tasks under way are kept apart and closing a file    *)
(* loses nothing, what each task knows of the files is true.               *)
THEOREM Invariance ==
  ASSUME ~ CanFail("flush")
  PROVE  Spec /\ []Exclusive => []IInv
<1>1. Init => IInv
  BY InitInv
<1>2. IInv /\ Exclusive /\ [Next]_vars => IInv'
  BY NextInv
<1> QED
  BY <1>1, <1>2, PTL DEF Spec

(* fileio.cpp:34-61: no other task gets at the temporary file of a task,   *)
(* so what a task renames is exactly its result.                           *)
COROLLARY OwnTmp ==
  ASSUME ~ CanFail("flush")
  PROVE  Spec /\ []Exclusive => []TmpIsMine
<1>1. IInv => TmpIsMine
  BY DEF IInv, TaskInv, Writing, TmpIsMine
<1> QED
  BY <1>1, Invariance, PTL

(* library.cpp:57-59: no entry of the library is ever partial or of other  *)
(* contents than those it is keyed by.                                     *)
COROLLARY EntriesStayFaithful ==
  ASSUME ~ CanFail("flush")
  PROVE  Spec /\ []Exclusive => []EntriesFaithful
<1>1. IInv => EntriesFaithful
  BY DEF IInv
<1> QED
  BY <1>1, Invariance, PTL

(* The pipeline implements the atomic store: every file is whole at any    *)
(* time, crashes included, and is only replaced by a shorter result of     *)
(* leanifying what it holds.                                               *)
THEOREM Atomicity ==
  ASSUME ~ CanFail("flush")
  PROVE  Spec /\ []Exclusive => AtomicFiles
<1> DEFINE store == [n \in Names |-> Content(n)]
<1>1. Init => store = Original
  <2> SUFFICES ASSUME Init PROVE store = Original
    OBVIOUS
  <2>1. ASSUME NEW n \in Names PROVE Content(n) = Original[n]
    <3>1. dir[<<n, 0>>] = NameInode[n] /\ NameInode[n] \in Inodes
      BY FilesAssumption DEF Init
    <3>2. (CHOOSE m \in Names : NameInode[m] = NameInode[n]) = n
      BY FilesAssumption
    <3> QED
      BY <3>1, <3>2 DEF Init, Content
  <2> QED
    BY <2>1, FilesAssumption
<1>2. IInv /\ Exclusive /\ [Next]_vars => [Store!Next]_store
  <2> SUFFICES ASSUME IInv, Exclusive, [Next]_vars PROVE [Store!Next]_store
    OBVIOUS
  <2>1. CASE \A n \in Names : Content(n)' = Content(n)
    BY <2>1
  <2>2. ASSUME NEW n \in Names, NEW r \in Outcomes(Content(n)),
               Len(r) < Len(Content(n)), Content(n)' = r,
               \A m \in Names : m # n => Content(m)' = Content(m)
        PROVE  Store!Replace(n)
    <3>1. PICK e \in Exts, o \in Options : r = LeanifyFile(e, Content(n), o)
      BY <2>2 DEF Outcomes
    <3>2. store' = [store EXCEPT ![n] = r] /\ store[n] = Content(n)
      BY <2>2
    <3> QED
      BY <2>2, <3>1, <3>2 DEF Store!Replace
  <2> QED
    BY <2>1, <2>2, NextInv DEF Store!Next
<1>3. Init => Store!Init
  BY <1>1 DEF Store!Init
<1> HIDE DEF store
<1> QED
  BY <1>2, <1>3, Invariance, PTL DEF Spec, AtomicFiles, Store!Spec, store

-----------------------------------------------------------------------------
(* Without -p the executor has one thread (main.cpp:325-329).              *)

OneActive ==
  /\ IsFiniteSet(DOMAIN dir) /\ IsFiniteSet(work)
  /\ \A t, u \in Active : t = u

LEMMA OneActiveInit == Init => OneActive
<1> SUFFICES ASSUME Init PROVE OneActive
  OBVIOUS
<1>1. IsFiniteSet(Names \X {0})
  BY NamesAssumption, FS_Product, FS_Singleton
<1>2. DOMAIN dir = Names \X {0} /\ work = {} /\ Active = {}
  BY DEF Init, Active
<1> QED
  BY <1>1, <1>2, FS_EmptySet DEF OneActive

LEMMA FiniteDir ==
  ASSUME TypeOK, IsFiniteSet(DOMAIN dir), NEW t \in work, TaskStep(t)
  PROVE  IsFiniteSet(DOMAIN dir')
<1> DEFINE larger == DOMAIN dir \cup {Target(t)} \cup {Tmp(Target(t))}
<1>1. CASE Create(t)
  <2>1. PICK i : dir' = Link(dir, Tmp(Target(t)), i)
    BY <1>1 DEF Create
  <2> QED
    BY <2>1 , FS_AddElement DEF Link
<1>2. CASE Rename(t)
  <2>1. DOMAIN dir' = (DOMAIN dir \ {Tmp(Target(t))}) \cup {Target(t)}
    BY <1>2 DEF Rename, Move, Link, Unlink
  <2>2. IsFiniteSet(DOMAIN dir \ {Tmp(Target(t))})
    BY FS_Subset
  <2> QED
    BY <2>1, <2>2, FS_AddElement
<1>3. CASE Remove(t)
  <2>1. DOMAIN dir' \subseteq DOMAIN dir
    BY <1>3 DEF Remove, Unlink
  <2> QED
    BY <2>1, FS_Subset
<1>4. CASE ~ (Create(t) \/ Rename(t) \/ Remove(t))
  <2>1. dir' = dir
    BY <1>4 DEF TaskStep, Dispatch, files,
       ReadStep, Stat, StatFails, Open, OpenFails, Read, ReadFails,
       LeanifyStep, Lookup, Leanify, Releanify, Throw, Compare,
       WriteStep, Truncate, CreateFails, Write, WriteFails, Close, FlushFails,
       RenameFails, RemoveThrows
  <2> QED
    BY <2>1
<1> QED
  BY <1>1, <1>2, <1>3, <1>4

LEMMA OneActiveStep ==
  ASSUME NumWorkers = 1, TypeOK, OneActive, [Next]_vars
  PROVE  OneActive'
<1>1. ASSUME NEW o \in Options, Start(o) PROVE OneActive'
  <2>1. IsFiniteSet((DOMAIN Args) \X (DOMAIN dir))
    <3>1. DOMAIN Args = 1..Len(Args) /\ Len(Args) \in Nat
      BY ArgsAssumption
    <3>2. IsFiniteSet(DOMAIN Args)
      BY <3>1, FS_Interval
    <3> QED
      BY <3>2, FS_Product DEF OneActive
  <2>2. work' \subseteq (DOMAIN Args) \X (DOMAIN dir) /\ dir' = dir
    BY <1>1 DEF Start, files
  <2>3. IsFiniteSet(work') /\ IsFiniteSet(DOMAIN dir')
    BY <2>1, <2>2, FS_Subset DEF OneActive
  <2>4. Active' = {}
    BY <1>1 DEF Start, Active
  <2> QED
    BY <2>3, <2>4 DEF OneActive
<1>2. CASE Exit \/ UNCHANGED vars
  BY <1>2 DEF OneActive, Active, Exit, vars, files, process
<1>3. CASE Crash
  BY <1>3, FS_EmptySet DEF OneActive, Active, Crash, files
<1>4. ASSUME NEW t \in work, TaskStep(t) PROVE OneActive'
  <2>1. work' = work /\ \A u \in work : u # t => pc'[u] = pc[u]
    BY <1>4, WorkStays, OthersStay DEF SameLocals
  <2>2. IsFiniteSet(DOMAIN dir') /\ IsFiniteSet(work')
    BY <1>4, <2>1, FiniteDir DEF OneActive
  <2>3. Active \subseteq {t}
    <3>1. CASE Dispatch(t)
      <4>1. Cardinality(Active) < 1 /\ IsFiniteSet(Active)
        BY <3>1, FS_Subset DEF Dispatch, OneActive, Active
      <4>2. Cardinality(Active) = 0
        BY <4>1, FS_CardinalityType
      <4> QED
        BY <4>1, <4>2, FS_EmptySet
    <3>2. CASE ~ Dispatch(t)
      <4>1. t \in Active
        BY <1>4, <3>2 DEF Active, TaskStep,
          ReadStep, Stat, StatFails, Open, OpenFails, Read, ReadFails,
          LeanifyStep, Lookup, Leanify, Releanify, Throw, Compare,
          WriteStep, Create, Truncate, CreateFails, Write, WriteFails, Close,
          FlushFails, Rename, RenameFails, Remove, RemoveThrows
      <4> QED
        BY <4>1 DEF OneActive
    <3> QED
      BY <3>1, <3>2
  <2>4. Active' \subseteq {t}
    BY <2>1, <2>3 DEF Active
  <2> QED
    BY <2>2, <2>4 DEF OneActive
<1> QED
  BY <1>1, <1>2, <1>3, <1>4 DEF Next, Terminated

(* One task at a time: whatever the command line, whatever the library     *)
(* holds and whatever an earlier, killed run left behind, no two tasks     *)
(* work on the same files.                                                 *)
THEOREM SequentialExclusive ==
  ASSUME NumWorkers = 1
  PROVE  Spec => []Exclusive
<1>1. Init => TypeOK /\ OneActive
  BY TypeInit, OneActiveInit
<1>2. TypeOK /\ OneActive /\ [Next]_vars => TypeOK' /\ OneActive'
  BY TypeStep, OneActiveStep
<1>3. OneActive => Exclusive
  BY DEF OneActive, Exclusive
<1> QED
  BY <1>1, <1>2, <1>3, PTL DEF Spec

(* Without -p every file is whole at any time.                             *)
COROLLARY SequentialAtomicity ==
  ASSUME NumWorkers = 1, ~ CanFail("flush")
  PROVE  Spec => AtomicFiles
BY SequentialExclusive, Atomicity, PTL

-----------------------------------------------------------------------------
(* With -p, without -l, and with single files as arguments.                *)

DifferentFiles ==
  \A x, y \in DOMAIN Args :
    /\ ~ Args[x].isDirectory
    /\ x # y => Args[x].names \cap Args[y].names = {}

TasksOfArgs == \A t \in work : /\ t[1] \in DOMAIN Args /\ t[2][2] = 0
                              /\ t[2][1] \in Args[t[1]].names

LEMMA TasksOfArgsStep ==
  ASSUME DifferentFiles, TasksOfArgs, [Next]_vars
  PROVE  TasksOfArgs'
<1>1. ASSUME NEW o \in Options, Start(o) PROVE TasksOfArgs'
  BY <1>1 DEF Start, CollectFiles, TasksOfArgs, DifferentFiles
<1>2. CASE work' = work \/ work' = {}
  BY <1>2 DEF TasksOfArgs
<1>3. CASE Exit \/ Crash \/ UNCHANGED vars
  BY <1>2, <1>3 DEF Exit, Crash, vars, process
<1>4. ASSUME NEW t \in work, TaskStep(t) PROVE work' = work
  BY <1>4, WorkStays
<1> QED
  BY <1>1, <1>2, <1>3, <1>4 DEF Next, Terminated

LEMMA TasksOfArgsInvariant ==
  ASSUME DifferentFiles
  PROVE  Spec => []TasksOfArgs
<1>1. Init => TasksOfArgs
  BY DEF Init, TasksOfArgs
<1>2. TasksOfArgs /\ [Next]_vars => TasksOfArgs'
  BY TasksOfArgsStep
<1> QED
  BY <1>1, <1>2, PTL DEF Spec

(* main.cpp:315-330: tasks of a command line that names different files    *)
(* hold different files when there is no library.                          *)
THEOREM ParallelExclusive ==
  ASSUME DifferentFiles, ~ UseLibrary
  PROVE  Spec => []Exclusive
<1>1. TypeOK /\ TasksOfArgs => Exclusive
  <2> SUFFICES ASSUME TypeOK, TasksOfArgs, NEW t \in Active, NEW u \in Active, t # u
               PROVE  Held(t) \cap Held(u) = {}
    BY DEF Exclusive
  <2>1. t \in work /\ u \in work
    BY DEF Active
  <2>2. t = <<t[1], <<t[2][1], 0>>>> /\ u = <<u[1], <<u[2][1], 0>>>>
    BY <2>1 DEF TypeOK, TasksOfArgs
  <2>3. t[2][1] # u[2][1]
    BY <2>1, <2>2 DEF TasksOfArgs, DifferentFiles
  <2> QED
    BY <2>3 DEF Held
<1> QED
  BY <1>1, TypeCorrect, TasksOfArgsInvariant, PTL

(* In parallel, the files of a command line that names different files     *)
(* are whole at any time when there is no library.                         *)
COROLLARY ParallelAtomicity ==
  ASSUME DifferentFiles, ~ UseLibrary, ~ CanFail("flush")
  PROVE  Spec => AtomicFiles
BY ParallelExclusive, Atomicity, PTL

-----------------------------------------------------------------------------
(* Which result a file is replaced by.                                     *)

(* library.cpp:57-59 leaves all settings but the level and, for a .json    *)
(* file, the tolerance out of the key: what LeanifyFile makes of contents  *)
(* must not depend on anything else when there is a library.               *)
TagDecides ==
  \A e, f \in Exts, o, q \in Options, d \in Data :
    LibraryTag(e, o) = LibraryTag(f, q) => LeanifyFile(e, d, o) = LeanifyFile(f, d, q)

OwnOutput ==
  \A t \in work :
    pc[t] \in WritePCs \cup {"compare"} =>
      out[t] = LeanifyFile(Extension(t[2]), data[t], opts)

(* A task's result is its own, also when it is read from the library.      *)
LEMMA OwnOutputTask ==
  ASSUME UseLibrary => TagDecides, IInv, OwnOutput, NEW t \in work, TaskStep(t),
         pc'[t] \in WritePCs \cup {"compare"}
  PROVE  out'[t] = LeanifyFile(Extension(t[2]), data'[t], opts')
<1> USE DEF ReadPCs, WritePCs
<1> DEFINE r == LeanifyFile(Extension(t[2]), data[t], opts)
<1>0. TaskInv(t) /\ TypeOK
  BY DEF IInv
<1>1. CASE Read(t) /\ call[t] = "lib"
  <2> DEFINE b == body[dir[Target(t)]]
  <2>1. /\ Target(t) \in DOMAIN dir /\ fd[t] = dir[Target(t)] /\ size[t] = Len(b)
        /\ UseLibrary /\ b \in Data /\ data[t] \in Data /\ opts \in Options
    BY <1>0, <1>1 DEF Read, TaskInv, Reading, CallsLibrary, TypeOK
  <2>2. SubSeq(body[fd[t]], 1, size[t]) = b
    BY <2>1, WholePrefix
  <2>3. /\ Target(t) = <<Key(t), 0>> /\ Key(t) \notin Names
        /\ Key(t)[1] = data[t] /\ Key(t)[2] = LibraryTag(Extension(t[2]), opts)
    BY <1>0, <1>1, TargetType, NamesAssumption DEF Target, Key
  <2>4. PICK e \in Exts, o \in Options :
          LibraryTag(e, o) = Key(t)[2] /\ b = LeanifyFile(e, data[t], o)
    BY <2>1, <2>3 DEF IInv, EntriesFaithful
  <2>5. b = r /\ Len(b) <= Len(data[t])
    <3>1. Extension(t[2]) \in Exts /\ LibraryTag(e, o) = LibraryTag(Extension(t[2]), opts)
      BY <1>0, <2>3, <2>4, ResultType
    <3>2. LeanifyFile(e, data[t], o) = r
      BY <2>1, <3>1 DEF TagDecides
    <3>3. Len(LeanifyFile(e, data[t], o)) <= Len(data[t])
      BY <2>1, LeanifyAssumption
    <3> QED
      BY <2>4, <3>2, <3>3
  <2>6. Len(b) = Len(data[t]) => SubSeq(b, 1, Len(data[t])) = b
    BY <2>1, WholePrefix
  <2>7. Len(b) \in Nat /\ Len(data[t]) \in Nat
    BY <2>1, DataIsSeq
  <2>8. out'[t] = b
    <3> HIDE DEF b, r
    <3>1. out' = [out EXCEPT ![t] = IF Len(b) < Len(data[t]) THEN b
                                    ELSE SubSeq(b, 1, Len(data[t]))]
      BY <1>1, <2>2 DEF Read
    <3> QED
      BY <1>0, <2>5, <2>6, <2>7, <3>1 DEF TypeOK
  <2> QED
    BY <1>1, <2>5, <2>8 DEF Read, process
<1>2. CASE Leanify(t) \/ Releanify(t)
  BY <1>0, <1>2 DEF Leanify, Releanify, TypeOK, process
<1>3. CASE /\ pc[t] \in WritePCs \cup {"compare"}
           /\ opts' = opts /\ data' = data /\ out' = out
  BY <1>3 DEF OwnOutput
<1>4. CASE WriteStep(t)
  <2>1. /\ opts' = opts /\ data' = data /\ out' = out /\ pc[t] \in WritePCs
    BY <1>4 DEF WriteStep, Create, Truncate, CreateFails, Opened, Write, WriteFails,
               Close, FlushFails, Rename, RenameFails, Remove, RemoveThrows,
               process, locals
  <2> QED
    BY <1>3, <2>1
<1>5. CASE Compare(t)
  BY <1>3, <1>5 DEF Compare, process, locals
<1>6. CASE Dispatch(t) \/ Lookup(t) \/ Throw(t)
  BY <1>0, <1>6 DEF Dispatch, Lookup, Throw, Goto, TypeOK
<1>7. CASE ReadStep(t) /\ ~ (Read(t) /\ call[t] = "lib")
  BY SMTT(30), <1>0, <1>7 DEF ReadStep, Stat, StatFails, Open, OpenFails, Read, ReadFails,
                    NoContent, Goto, TypeOK
<1> QED
  BY <1>1, <1>2, <1>4, <1>5, <1>6, <1>7 DEF TaskStep, ReadStep, LeanifyStep

LEMMA OwnOutputStep ==
  ASSUME UseLibrary => TagDecides, IInv, OwnOutput, [Next]_vars
  PROVE  OwnOutput'
<1>1. ASSUME NEW t \in work, TaskStep(t) PROVE OwnOutput'
  <2> SUFFICES ASSUME NEW u \in work, pc'[u] \in WritePCs \cup {"compare"}
               PROVE  out'[u] = LeanifyFile(Extension(u[2]), data'[u], opts')
    BY <1>1, WorkStays DEF OwnOutput, Extension, WritePCs
  <2>1. CASE u = t
    BY <1>1, <2>1, OwnOutputTask
  <2>2. CASE u # t
    BY <1>1, <2>2, OthersStay DEF IInv, SameLocals, OwnOutput
  <2> QED
    BY <2>1, <2>2
<1>2. CASE \E o \in Options : Start(o)
  BY <1>2 DEF Start, OwnOutput, WritePCs
<1>3. CASE Exit \/ UNCHANGED vars
  BY <1>3 DEF Exit, vars, locals, process, OwnOutput, WritePCs, Extension
<1>4. CASE Crash
  BY <1>4 DEF Crash, OwnOutput
<1> QED
  BY <1>1, <1>2, <1>3, <1>4 DEF Next, Terminated

LEMMA OwnOutputInvariant ==
  ASSUME UseLibrary => TagDecides, ~ CanFail("flush")
  PROVE  Spec /\ []Exclusive => [](IInv /\ OwnOutput)
<1>1. Init => OwnOutput
  BY DEF Init, OwnOutput
<1>2. IInv /\ OwnOutput /\ [Next]_vars => OwnOutput'
  BY OwnOutputStep
<1> QED
  BY <1>1, <1>2, Invariance, PTL DEF Spec

(* main.cpp:128-141: where the files of tasks under way are kept apart, a  *)
(* file is only replaced by what LeanifyFile makes of it under this run's  *)
(* own settings, also when the result was saved by an earlier run, as long *)
(* as the key of an entry decides its contents.                            *)
THEOREM OwnResults ==
  ASSUME UseLibrary => TagDecides, ~ CanFail("flush")
  PROVE  Spec /\ []Exclusive => OwnResult
<1>1. IInv /\ OwnOutput /\ Exclusive /\ [Next]_vars =>
        \A n \in Names :
          \/ Content(n)' = Content(n)
          \/ Content(n)' = LeanifyFile(NameExt[n], Content(n), opts)
  <2> SUFFICES ASSUME IInv, OwnOutput, Exclusive, [Next]_vars, NEW n \in Names
               PROVE  \/ Content(n)' = Content(n)
                      \/ Content(n)' = LeanifyFile(NameExt[n], Content(n), opts)
    OBVIOUS
  <2>1. TypeOK'
    BY TypeStep DEF IInv
  <2>2. CASE (\E o \in Options : Start(o)) \/ Exit \/ Crash \/ UNCHANGED vars
    BY <2>1, <2>2, ProcessInv, StutterInv DEF files, Content
  <2>3. ASSUME NEW t \in work, TaskStep(t)
        PROVE  \/ Content(n)' = Content(n)
               \/ Content(n)' = LeanifyFile(NameExt[n], Content(n), opts)
    <3> SUFFICES ASSUME Rename(t), t[2] = <<n, 0>>
                 PROVE  out[t] = LeanifyFile(NameExt[n], Content(n), opts)
      BY <2>1, <2>3, TaskStepInv
    <3>1. pc[t] = "rename" /\ TaskInv(t)
      BY DEF Rename, IInv
    <3>2. data[t] = Content(n)
      BY <3>1 DEF TaskInv, KnowsData, HasData, ReadPCs
    <3>3. out[t] = LeanifyFile(Extension(t[2]), data[t], opts)
      BY <3>1 DEF OwnOutput, WritePCs
    <3> QED
      BY <3>2, <3>3 DEF Extension
  <2> QED
    BY <2>2, <2>3 DEF Next, Terminated
<1> QED
  BY <1>1, OwnOutputInvariant, PTL DEF Spec, OwnResult

(* Without -p, a file is only replaced by its own result and no entry of   *)
(* the library is ever partial, whatever the command line and the faults.  *)
COROLLARY SequentialResults ==
  ASSUME NumWorkers = 1, UseLibrary => TagDecides, ~ CanFail("flush")
  PROVE  Spec => OwnResult /\ []EntriesFaithful
BY SequentialExclusive, OwnResults, EntriesStayFaithful, PTL

-----------------------------------------------------------------------------
(* No result is forgotten.                                                 *)

(* main() waits for the tasks (main.cpp:329-330).                          *)
Ended == phase # "run" => \A t \in work : pc[t] = "done"

LEMMA UnderWay ==
  ASSUME NEW t \in work, TaskStep(t)
  PROVE  pc[t] # "done" /\ phase' = phase
BY DEF TaskStep, Dispatch,
       ReadStep, Stat, StatFails, Open, OpenFails, Read, ReadFails,
       LeanifyStep, Lookup, Leanify, Releanify, Throw, Compare,
       WriteStep, Create, Truncate, CreateFails, Opened, Write, WriteFails, Close,
       FlushFails, Rename, RenameFails, Remove, RemoveThrows, files, process

LEMMA EndedStep ==
  ASSUME Ended, [Next]_vars
  PROVE  Ended'
<1>1. ASSUME NEW t \in work, TaskStep(t) PROVE Ended'
  BY <1>1, UnderWay DEF Ended
<1>2. CASE (\E o \in Options : Start(o)) \/ Exit \/ Crash
  BY <1>2 DEF Start, Exit, Crash, Ended
<1>3. CASE UNCHANGED vars
  BY <1>3 DEF vars, process, Ended
<1> QED
  BY <1>1, <1>2, <1>3 DEF Next, Terminated

(* A task that has not read its file yet has no data, and one that is done *)
(* has put its result in place unless some task has failed.                *)
Settled(t) ==
  /\ pc[t] # "remove"
  /\ pc[t] \in {"queued"} \cup ReadPCs /\ call[t] = "user" => data[t] = <<>>
  /\ pc[t] = "done" /\ errors = 0 =>
       LET r == LeanifyFile(Extension(t[2]), data[t], opts)
       IN  Len(r) < Len(data[t]) => body[dir[t[2]]] = r

AllSettled ==
  /\ \A t \in work : Settled(t)
  /\ phase = "ok" => errors = 0

(* What nothing is made of is no shorter than it.                          *)
LEMMA NothingShorter ==
  ASSUME NEW e \in Exts, NEW o \in Options
  PROVE  ~ (Len(LeanifyFile(e, <<>>, o)) < Len(<<>>))
<1>1. LeanifyFile(e, <<>>, o) \in Data
  BY EmptyIsData, LeanifyAssumption
<1>2. Len(LeanifyFile(e, <<>>, o)) \in Nat /\ Len(<<>>) = 0
  BY <1>1, DataIsSeq, EmptyIsData, FileSystemAssumption
<1> QED
  BY <1>2

(* The task that moves, when none of its writes fails.                     *)
LEMMA SettledTask ==
  ASSUME \A what \in {"create", "write", "flush", "rename"} : ~ CanFail(what),
         IInv, TypeOK', OwnOutput, NEW t \in work, Settled(t), TaskStep(t)
  PROVE  Settled(t)'
<1> USE DEF ReadPCs, WritePCs
<1> DEFINE r == LeanifyFile(Extension(t[2]), data[t], opts)
<1>0. /\ TaskInv(t) /\ TypeOK /\ Extension(t[2]) \in Exts /\ opts \in Options
      /\ Len(r) \in Nat /\ Len(data[t]) \in Nat /\ errors \in Nat
  <2>1. TypeOK /\ TaskInv(t)
    BY DEF IInv
  <2>2. Extension(t[2]) \in Exts /\ r \in Data
    BY <2>1, ResultType
  <2>3. data[t] \in Data /\ opts \in Options /\ errors \in Nat
    BY <2>1 DEF TypeOK
  <2> QED
    BY <2>1, <2>2, <2>3, DataIsSeq
<1>1. CASE Dispatch(t) \/ Stat(t) \/ Open(t)
  BY <1>0, <1>1 DEF Dispatch, Stat, Open, Goto, locals, TypeOK, Settled
<1>2. CASE StatFails(t) \/ OpenFails(t) \/ ReadFails(t)
  <2>1. /\ pc[t] \in ReadPCs /\ NoContent(t) /\ data' = data /\ opts' = opts
    BY <1>2 DEF StatFails, OpenFails, ReadFails, process
  <2>2. pc'[t] = IF call[t] = "user" THEN "done" ELSE "releanify"
    BY <1>0, <2>1 DEF NoContent, Goto, TypeOK
  <2>3. CASE call[t] = "user"
    BY <1>0, <2>1, <2>2, <2>3, NothingShorter DEF Settled, Extension
  <2>4. CASE call[t] # "user"
    BY <2>2, <2>4 DEF Settled
  <2> QED
    BY <2>3, <2>4
<1>3. CASE Read(t)
  BY <1>0, <1>3 DEF Read, Goto, TypeOK, Settled
<1>4. CASE Lookup(t) \/ Leanify(t) \/ Releanify(t)
  BY <1>0, <1>4 DEF Lookup, Leanify, Releanify, Goto, TypeOK, Settled
<1>5. CASE Throw(t)
  <2>1. errors' = errors + 1 /\ pc'[t] = "done"
    BY <1>0, <1>5 DEF Throw, Goto, TypeOK
  <2> QED
    BY <1>0, <2>1 DEF Settled
<1>6. CASE Compare(t)
  <2>1. /\ pc'[t] = IF Len(out[t]) < Len(data[t]) THEN "create" ELSE "done"
        /\ opts' = opts /\ data' = data /\ out[t] = r
    BY <1>0, <1>6 DEF Compare, Goto, TypeOK, OwnOutput, process, locals
  <2> QED
    BY <1>0, <2>1 DEF Settled, Extension
<1>7. CASE Create(t) \/ Truncate(t) \/ Write(t) \/ Close(t)
  <2>1. pc'[t] \in {"write", "close", "rename"}
    BY <1>0, <1>7 DEF Create, Truncate, Opened, Write, Close, Goto, TypeOK
  <2> QED
    BY <2>1 DEF Settled
<1>8. CASE Rename(t)
  <2>1. /\ pc[t] = "rename" /\ dir' = Move(dir, Tmp(Target(t)), Target(t))
        /\ body' = body /\ opts' = opts /\ data' = data /\ WriteReturns(t)
    BY <1>8 DEF Rename, process
  <2>2. pc'[t] = IF call[t] = "lib" THEN "compare" ELSE "done"
    BY <1>0, <2>1 DEF WriteReturns, Goto, TypeOK
  <2>3. CASE call[t] = "user"
    <3>1. dir'[t[2]] = dir[Tmp(Target(t))]
      BY <2>1, <2>3 DEF Move, Link, Target
    <3>2. body[dir[Tmp(Target(t))]] = out[t] /\ out[t] = r
      BY <1>0, <2>1 DEF TaskInv, Writing, OwnOutput
    <3> QED
      BY <2>1, <2>2, <2>3, <3>1, <3>2 DEF Settled, Extension
  <2>4. CASE call[t] = "lib"
    BY <2>2, <2>4 DEF Settled
  <2> QED
    BY <1>0, <2>3, <2>4 DEF TypeOK
<1>9. ~ (CreateFails(t) \/ WriteFails(t) \/ FlushFails(t))
  BY DEF CreateFails, WriteFails, FlushFails
<1>10. ~ RenameFails(t)
  BY <1>0 DEF RenameFails, TaskInv, Writing
<1>11. ~ (Remove(t) \/ RemoveThrows(t))
  BY DEF Settled, Remove, RemoveThrows
<1> QED
  BY <1>1, <1>2, <1>3, <1>4, <1>5, <1>6, <1>7, <1>8, <1>9, <1>10, <1>11
     DEF TaskStep, ReadStep, LeanifyStep, WriteStep

(* What another task has put in place stays.                               *)
LEMMA SettledOther ==
  ASSUME DifferentFiles, TasksOfArgs, Exclusive, ~ CanFail("flush"), IInv, TypeOK',
         NEW t \in work, TaskStep(t), NEW u \in work, u # t, Settled(u)
  PROVE  Settled(u)'
<1>1. opts' = opts /\ SameLocals(u) /\ TypeOK
  BY OthersStay DEF IInv
<1>2. errors' = 0 => errors = 0
  <2>1. errors \in Nat
    BY <1>1 DEF TypeOK
  <2>2. errors' = errors \/ errors' = errors + 1
    BY DEF TaskStep, Dispatch,
       ReadStep, Stat, StatFails, Open, OpenFails, Read, ReadFails,
       LeanifyStep, Lookup, Leanify, Releanify, Throw, Compare,
       WriteStep, Create, Truncate, CreateFails, Opened, Write, WriteFails, Close,
       FlushFails, Rename, RenameFails, Remove, RemoveThrows, files, process
  <2> QED
    BY <2>1, <2>2
<1>3. body'[dir'[u[2]]] = body[dir[u[2]]]
  <2>1. /\ t = <<t[1], <<t[2][1], 0>>>> /\ u = <<u[1], <<u[2][1], 0>>>>
        /\ u[2][1] \in Names
    BY <1>1 DEF TypeOK, TasksOfArgs
  <2>2. t[2][1] # u[2][1]
    BY <2>1 DEF TasksOfArgs, DifferentFiles
  <2>3. Content(u[2][1])' = Content(u[2][1])
    BY <2>1, <2>2, TaskStepInv
  <2> QED
    BY <2>1, <2>3 DEF Content
<1>4. /\ pc'[u] = pc[u] /\ call'[u] = call[u] /\ data'[u] = data[u]
      /\ Extension(u[2])' = Extension(u[2])
  BY <1>1 DEF SameLocals, Extension
<1> QED
  BY <1>1, <1>2, <1>3, <1>4 DEF Settled

LEMMA SettledStep ==
  ASSUME DifferentFiles, \A what \in {"create", "write", "flush", "rename"} : ~ CanFail(what),
         IInv, OwnOutput, TasksOfArgs, Exclusive, Ended, AllSettled, [Next]_vars
  PROVE  AllSettled'
<1>1. TypeOK /\ TypeOK'
  BY TypeStep DEF IInv
<1>2. ASSUME NEW o \in Options, Start(o) PROVE AllSettled'
  BY <1>2 DEF Start, AllSettled, Settled, ReadPCs
<1>3. CASE Exit
  <2>1. phase' = "ok" => errors' = 0
    BY <1>1, <1>3 DEF Exit, TypeOK
  <2>2. ASSUME NEW t \in work PROVE Settled(t)'
    BY <1>3 DEF Exit, AllSettled, Settled, Extension, files, locals
  <2> QED
    BY <1>3, <2>1, <2>2 DEF AllSettled, Exit
<1>4. CASE Crash
  BY <1>4 DEF Crash, AllSettled
<1>5. CASE UNCHANGED vars
  BY <1>5 DEF AllSettled, Settled, Extension, vars, files, process, locals
<1>6. ASSUME NEW t \in work, TaskStep(t) PROVE AllSettled'
  <2>1. work' = work /\ phase' # "ok"
    BY <1>6, WorkStays, UnderWay DEF Ended
  <2>2. ASSUME NEW u \in work PROVE Settled(u)'
    <3>1. CASE u = t
      BY <1>1, <1>6, <3>1, SettledTask DEF AllSettled
    <3>2. CASE u # t
      BY <1>1, <1>6, <3>2, SettledOther DEF AllSettled
    <3> QED
      BY <3>1, <3>2
  <2> QED
    BY <2>1, <2>2 DEF AllSettled
<1> QED
  BY <1>2, <1>3, <1>4, <1>5, <1>6 DEF Next, Terminated

(* main.cpp:163-166,340: exit code 0 means that every file that was read   *)
(* and has a smaller result holds it, when the command line names          *)
(* different files, no two tasks under way meet, and no write fails (the   *)
(* code does not report one that does).                                    *)
THEOREM NothingForgotten ==
  ASSUME DifferentFiles, UseLibrary => TagDecides,
         \A what \in {"create", "write", "flush", "rename"} : ~ CanFail(what)
  PROVE  Spec /\ []Exclusive => []CompleteAtExit
<1>1. Init => Ended /\ AllSettled
  BY DEF Init, Ended, AllSettled
<1>2. Ended /\ [Next]_vars => Ended'
  BY EndedStep
<1>3. IInv /\ OwnOutput /\ TasksOfArgs /\ Exclusive /\ Ended /\ AllSettled /\ [Next]_vars
        => AllSettled'
  BY SettledStep
<1>4. Ended /\ AllSettled => CompleteAtExit
  BY DEF Ended, AllSettled, Settled, CompleteAtExit
<1>5. ~ CanFail("flush")
  OBVIOUS
<1> QED
  BY <1>1, <1>2, <1>3, <1>4, <1>5, TasksOfArgsInvariant, OwnOutputInvariant, PTL DEF Spec

(* Without -p or without -l the tasks of such a command line never meet.   *)
COROLLARY NothingForgottenAlone ==
  ASSUME NumWorkers = 1 \/ ~ UseLibrary,
         DifferentFiles, UseLibrary => TagDecides,
         \A what \in {"create", "write", "flush", "rename"} : ~ CanFail(what)
  PROVE  Spec => []CompleteAtExit
<1>1. CASE NumWorkers = 1
  BY <1>1, SequentialExclusive, NothingForgotten, PTL
<1>2. CASE ~ UseLibrary
  BY <1>2, ParallelExclusive, NothingForgotten, PTL
<1> QED
  BY <1>1, <1>2

-----------------------------------------------------------------------------
(* Nothing else is left behind.                                            *)

(* Every temporary file belongs to a task that is going to move it or to   *)
(* remove it.                                                              *)
TmpOwned ==
  /\ \A t \in work : t[2][2] = 0
  /\ \A p \in DOMAIN dir : p[2] # 0 =>
       \E t \in work : pc[t] \in WritePCs \ {"create"} /\ p = Tmp(Target(t))

LEMMA TmpOwnedTask ==
  ASSUME ~ CanFail("remove"), TypeOK, TypeOK', TmpOwned, NEW t \in work, TaskStep(t)
  PROVE  TmpOwned'
<1> USE DEF WritePCs
<1> DEFINE tmp == Tmp(Target(t))
<1>1. work' = work /\ \A u \in work : u # t => opts' = opts /\ SameLocals(u)
  BY WorkStays, OthersStay
<1>2. \A u \in work : u # t => Tmp(Target(u))' = Tmp(Target(u)) /\ pc'[u] = pc[u]
  BY <1>1 DEF SameLocals, Tmp, Target, Entry, Key
<1>3. Target(t)[2] = 0
  BY DEF TmpOwned, Target, Entry
<1> DEFINE Kept == pc'[t] \in WritePCs \ {"create"} /\ Tmp(Target(t))' = tmp
<1>4. \/ pc[t] \notin WritePCs \ {"create"} /\ dir' = dir
      \/ Kept /\ DOMAIN dir' \subseteq DOMAIN dir \cup {tmp}
      \/ DOMAIN dir' \subseteq (DOMAIN dir \cup {Target(t)}) \ {tmp}
  <2>1. CASE Dispatch(t) \/ ReadStep(t)
    BY <2>1 DEF Dispatch, ReadStep, Stat, StatFails, Open, OpenFails, Read, ReadFails, files
  <2>2. CASE LeanifyStep(t) \/ CreateFails(t)
    BY <2>2 DEF LeanifyStep, Lookup, Leanify, Releanify, Throw, Compare, CreateFails, files
  <2>3. CASE Create(t) \/ Truncate(t)
    <3>1. /\ call' = call /\ data' = data /\ opts' = opts
          /\ pc'[t] \in {"write", "close"}
      BY <2>3 DEF Create, Truncate, Opened, Goto, TypeOK, process
    <3>2. DOMAIN dir' \subseteq DOMAIN dir \cup {tmp}
      BY <2>3 DEF Create, Truncate, Link
    <3> QED
      BY <3>1, <3>2 DEF Tmp, Target, Entry, Key
  <2>4. CASE Write(t) \/ WriteFails(t) \/ Close(t) \/ FlushFails(t) \/ RenameFails(t)
    <3>1. /\ call' = call /\ data' = data /\ opts' = opts /\ dir' = dir
          /\ pc'[t] \in {"write", "close", "rename", "remove"}
      BY <2>4 DEF Write, WriteFails, Close, FlushFails, RenameFails, Goto, TypeOK,
                  process, locals, files
    <3> QED
      BY <3>1 DEF Tmp, Target, Entry, Key
  <2>5. CASE Rename(t)
    <3>1. tmp # Target(t)
      BY TargetType
    <3> QED
      BY <2>5, <3>1 DEF Rename, Move, Link, Unlink
  <2>6. CASE Remove(t)
    BY <2>6 DEF Remove, Unlink
  <2>7. ~ RemoveThrows(t)
    BY DEF RemoveThrows
  <2> QED
    BY <2>1, <2>2, <2>3, <2>4, <2>5, <2>6, <2>7 DEF TaskStep, WriteStep
<1>5. ASSUME NEW p \in DOMAIN dir', p[2] # 0
      PROVE  \E u \in work' : pc'[u] \in WritePCs \ {"create"} /\ p = Tmp(Target(u))'
  <2>1. CASE p = tmp
    <3>1. CASE pc[t] \notin WritePCs \ {"create"} /\ dir' = dir
      <4>1. PICK u \in work : pc[u] \in WritePCs \ {"create"} /\ p = Tmp(Target(u))
        BY <1>5, <3>1 DEF TmpOwned
      <4> QED
        BY <1>1, <1>2, <3>1, <4>1
    <3> QED
      BY <1>1, <1>4, <1>5, <2>1, <3>1
  <2>2. CASE p # tmp
    <3>1. p \in DOMAIN dir
      BY <1>3, <1>4, <1>5, <2>2
    <3>2. PICK u \in work : pc[u] \in WritePCs \ {"create"} /\ p = Tmp(Target(u))
      BY <1>5, <3>1 DEF TmpOwned
    <3> QED
      BY <1>1, <1>2, <2>2, <3>2
  <2> QED
    BY <2>1, <2>2
<1> QED
  BY <1>1, <1>5 DEF TmpOwned, Tmp

LEMMA TmpOwnedStep ==
  ASSUME ~ CanFail("remove"), ~ CanFail("crash"), TypeOK, Ended, TmpOwned, [Next]_vars
  PROVE  TmpOwned'
<1>1. TypeOK'
  BY TypeStep
<1>2. ASSUME NEW o \in Options, Start(o) PROVE TmpOwned'
  <2>1. dir' = dir /\ \A p \in DOMAIN dir : p[2] = 0
    BY <1>2 DEF Start, files, Ended, TmpOwned, WritePCs
  <2> QED
    BY <1>2, <2>1 DEF Start, TmpOwned
<1>3. CASE Exit \/ UNCHANGED vars
  BY <1>3 DEF Exit, vars, files, process, locals, TmpOwned, Tmp, Target, Entry, Key
<1>4. ASSUME NEW t \in work, TaskStep(t) PROVE TmpOwned'
  BY <1>1, <1>4, TmpOwnedTask
<1> QED
  BY <1>2, <1>3, <1>4 DEF Next, Terminated, Crash

(* fileio.cpp:48,57: a program that ran to its end has left no temporary   *)
(* file, for every command line and library, however many tasks meet at    *)
(* one file, and whichever creates, writes, flushes and renames failed.    *)
THEOREM CleansUp ==
  ASSUME ~ CanFail("remove"), ~ CanFail("crash")
  PROVE  Spec => []NoLeftoverTmp
<1>1. Init => Ended /\ TmpOwned
  BY DEF Init, Ended, TmpOwned
<1>2. Ended /\ [Next]_vars => Ended'
  BY EndedStep
<1>3. TypeOK /\ Ended /\ TmpOwned /\ [Next]_vars => TmpOwned'
  BY TmpOwnedStep
<1>4. Ended /\ TmpOwned => NoLeftoverTmp
  BY DEF Ended, TmpOwned, NoLeftoverTmp, WritePCs
<1> QED
  BY <1>1, <1>2, <1>3, <1>4, TypeCorrect, PTL DEF Spec
=============================================================================
