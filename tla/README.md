# A TLA+ model of Leanify

Leanify makes files smaller without changing what they mean. It walks the
files and folders of its command line, recognises each file's format and
rewrites it in memory, recursing into the files that containers hold; a result
that is smaller replaces the file. This directory holds TLA+ modules that
model it, TLC configurations that check them on small instances, and proofs,
checked by TLAPS, of what matters most. Line numbers are those of the
repository.

## 1. The system

| part | state it keeps | operations |
|---|---|---|
| `main.cpp`: `main`, `ProcessFile` | settings (globals), the task list, `error_count` | parse the command line; collect files; one task per collected path, on one thread or (`-p`) on all CPUs; exit code; signal handlers |
| `fileio.cpp` | none of its own; the file system | `ReadFile` (size, open, read), `WriteFile` (write `<path>.tmp`, rename, remove on failure), `CollectFiles` |
| `library.cpp` | a folder of results, one file per SHA-1 of contents and settings | `GetEntry`, `isExists`, `Save`, `Load` |
| `leanify.cpp` | `depth` of the recursion, as a parameter | `GetType` picks a format from the name, the magic or a trial parse; `LeanifyFile`; `ZlibRecompress` |
| containers: `zip`, `gz`, `tar`, `dwf`, `rdb`, `ico`, `pe`, `swf`, `gft` | a read and a write cursor in one buffer | walk the records, leanify each payload, move everything to the front of the buffer, fix offsets and checksums |
| text containers: `xml` (SVG, FB2, HTML), `mime`, `vcf`, `data_uri`, `base64` | cursors, or a DOM tree | find embedded Base64 and recurse; drop what is redundant |
| leaves: `jpeg`, `png`, `json`, `lua`, `bmp` | local, except jpeg's global `jmp_buf` | recompress, strip metadata, normalise numbers |
| `utils`, printing, CLI11, Windows handlers, `src/lib` (vendored) | none that matters here | conversions, logging, third-party codecs |

Interaction. The parts call each other synchronously; the tasks of `-p` run
`ProcessFile` on a pool of threads and meet in three places only: the file
system (user files, temporary files, library entries), `error_count`, and the
global `setjmp_buffer` of `jpeg.cpp`. Containers call `LeanifyFile` on a part
of the buffer they are themselves working on, and pass how many bytes they
have already saved in front of it, so that the callee can move its result
there.

What is hard, and what correctness means:

* *Replacing files* (`fileio.cpp`, `main.cpp`). Tasks interleave, any call may
  fail, the process may be killed and started again over what it left. A file
  must at any time be whole, and replaced only by a smaller result of its own
  contents (`AtomicFiles`); no temporary file may stay behind
  (`NoLeftoverTmp`); the exit code must tell the truth (`CompleteAtExit`); the
  program must end (`Terminates`).
* *Reusing results* (`library.cpp`). Entries are shared by tasks and by runs,
  read while they are written, and keyed by some of the settings only. They
  must be complete and right for their key (`EntriesFaithful`), and what is
  reused must be what this run would have made (`OwnResult`).
* *Error handling by `longjmp`* (`jpeg.cpp`) in a program with threads.
* *Working in place* (every format but `jpeg` and `bmp`). A callee may write
  only where nothing unread is left (`UnreadIntact`) and nowhere outside its
  region (`InItsRegion`), must report the size it really wrote, and every early
  exit must leave the rest of the buffer where the caller expects it.
* *Meaning.* The members of an archive, the images of an icon, the tags of a
  film, the sections and resources of an executable, the functions of a
  program, the nodes of a document: offsets, sizes and checksums that refer to
  what moved or shrank must still say the truth (`SameMembers`, `SameContents`,
  `SameEntries`, `SameFiles`, `SameImages`, `SameTags`, `SameChunks`,
  `SameProgram`, `SameText`, `SameDocument`, `SameNumbers`, `SameImage`,
  `SameRest`), and every loop must end (`Ends`).
* *Recursion* (`leanify.cpp`). `--max_depth` must bound it on every path.

The complete list of hazards, each at its line, is in `PROJECT.json`.

## 2. Modules

| module | models | its state | its actions |
|---|---|---|---|
| `FileSystem` | what the code asks of the operating system (external) | — | operators on `dir` (path → inode) and `body` (inode → contents) |
| `AtomicStore` | the promise of `fileio.h:13`: a file is only ever replaced, in one step, by a smaller result of leanifying what it holds | `store` | `Replace` |
| `Pipeline` | `main`, `ProcessFile`, `ReadFile`, `WriteFile`, `CollectFiles`, `LibraryEntry::Save`/`Load`, the executor, the death of the process | the file system; per task the program counter, `call` (which of the two files ReadFile/WriteFile works on), `fd`, `size`, `pos`, `data`, `out`; `phase`, `runs`, `opts`, `work`, `errors` | one per call that another task or a crash can come in between: `Stat`, `Open`, `Read`, `Lookup`, `Leanify`, `Create`, `Truncate`, `Write`, `Close`, `Rename`, `Remove`, …, each with its failure |
| `PipelineInvariant` | — | — | the inductive invariant `IInv` and the condition `Exclusive` |
| `Jpeg` | `Jpeg::Leanify` and `mozjpeg_error_handler` on the threads of the executor | `setjmp_buffer`, which holds a call; per thread the place in Leanify, the call it has made, the one on whose stack frame it works, its decompressor and outbuffer; per call those that were made before it (history) | `Setjmp`, one per library call, `Error` (longjmp), `Recover`, and what the build may do after a jump into another call's frame |
| `Nesting` | who hands which depth to whom, `GetType`'s choice by depth | the stack of calls of Leanify | one per kind of container |
| `Memory` | `memcpy`, `memmove`, `memset` (external) and the contract between `LeanifyFile` and a container that works in place | — | `Leanified`: the result lies as far in front as there was room, what is behind it is junk |
| `Format` | `format.h`: what all calls of a `Leanify` have in common; `ZlibRecompress` and `LeanifyFile` as a container sees them | the file as given, the settings, the buffer, `p_read`, `pc`, `size` | `MovedAsItIs` |
| `LeanifyFile` | `leanify.cpp`: `GetType`, and the composition of the formats below; `Gft` and `Dwf` | `format`, and the variables of all formats | `Leanify`: a step of the format that `GetType` chose |
| `Tar`, `Gz`, `Zip`, `Rdb`, `Ico`, `Png`, `Swf` | the `Leanify` of these formats, in place | what the code keeps in local variables: cursors, headers, an index, flags | one per way through an iteration of the loop |
| `Lua` | `Lua::Leanify` and the recursive `FunctionParser` | the stack of functions and the two cursors | one per part of a function |
| `Embedded` | `DataURI`, `Vcf`, `Mime` and `Base64` | the cursors | one per way through the loops |
| `Xml` | `Xml::Leanify`, `IsOverride`, `IsDefaultAttribute`, `RemovePCDataSingle`: what is dropped from SVG, FictionBook and other documents | the cells of the document that are removed, those leanified, how far the traversal is | one per element or binary that is visited, and saving |
| `Json` | `Json::Leanify` and `TryShortenFloat` | the tree and how many of its nodes were visited | one per node, and saving |
| `Pe` | `Pe::Leanify`, `TraverseRSRC`, `IsRSRCValid` | the local variables of `Leanify`, the entries of resources | one per section, per resource, and per phase |

`FileSystem` is used by `Pipeline`; `Pipeline` instantiates `AtomicStore` with
the refinement mapping `store[n]` = what the file named `n` holds. All formats
extend `Format`, which extends `Memory`, and are instantiated by `LeanifyFile`,
so that one specification is that of a call of `LeanifyFile` on a file of any
kind. The MC modules give the constants of their instances; those of the
formats hold the calls (files with settings) and are put together by
`MCLeanifyFile`.

How code became model:

* **Files and paths** (`Pipeline`). A file is a short sequence of units, a
  path is a pair of a name (a user's file or a library key) and how many
  `.tmp` were appended. What `LeanifyFile` makes of contents is a constant
  operator of extension, contents and the settings; it never returns more than
  it was given. A library key is the contents and the tag that
  `main.cpp:118-125` builds, so SHA-1 is taken to be injective. A stream writes
  nothing before it is closed if its contents fit its buffer (`BufferSize`),
  and one unit at a time if they do not; so a full disk shows either in
  `WriteFails`, which the code notices, or in `FlushFails`, which it does not.
  `Crash` is the death of the process; the file system survives it.
* **Buffers** (`Memory`, `Format` and the formats). A buffer is a function
  from addresses to cells. A header, whatever its real length, is one cell or
  a few, a unit of contents or of compressed data is one; which cells are
  moved, overwritten and counted is as in the code, and the guards of the
  loops are those of the code. Checksums are injective: the checksum of some
  contents is these contents. Data that does not inflate is data whose cells
  do not belong together. The memory in front of a file (`room`) is what
  `size_leanified` promises, and there is one cell behind it (`Beyond`), so
  that a write on either side is seen.
* **Files inside files.** A container does not look into what `LeanifyFile`
  makes of a part: that may have any size up to the old one, and the rest of
  its region becomes `Junk`. That every format keeps this contract is
  `InItsRegion`, so that the formats need not be nested in the instances.
* **Trees** (`Xml`, `Json`). A document is the sequence of its nodes with
  their levels, as they stand in the file; the parser is external. A number is
  a decimal in hundredths, the largest integer is a constant (`IntMax`), the
  tolerance is in percent, and the digits of a number are counted as `%g`
  writes them.
* **Undefined behaviour.** A jump into the stack frame of another call, which
  may have returned, may return from that call if it is under way, or end the
  process (`Jpeg`; a jump buffer is written in one step). What `memmove` reads
  behind the end of the buffer is `Junk` (`Pe`). A double that is too large for
  an integer becomes the smallest or the largest one (`Json`). Where the loop of
  `Tar` looks behind an archive it may find zeros, or something that the model
  does not follow (`ReadBehind`, `pc = "lost"`); so may the search of `Vcf` that
  begins behind the end of a file (`PhotoAtEnd`).
* Definitions marked `fault:` are what a definition would be had a plausible
  mistake been made in the code; putting one in the place of the real one must
  make a property fail (`PROJECT.json`, `mutants`).

## 3. Runs

| run | instance | what it shows |
|---|---|---|
| `pipeline_faults` | two files, two workers, no library, two starts; everything but a flush may fail, the process may die anywhere | `TypeOK`; a task alone writes its temporary file (`TmpIsMine`); `IInv`; `AtomicFiles`: the pipeline implements `AtomicStore` |
| `pipeline_library` | two files, two workers, a library that outlives two starts under settings that differ; unreadable files, a `LeanifyFile` that throws, crashes | tasks hold different files (`Exclusive`), entries are whole (`EntriesFaithful`), what is reused is what this run would have made (`OwnResult`), exit code 0 means that all results are in place (`CompleteAtExit`) |
| `pipeline_live` | a folder of two files, library, two starts, everything but `remove` may fail, a full disk included; fair workers | the program ends (`Terminates`), and without a temporary file (`NoLeftoverTmp`) |
| `pipeline_shared_entry` | three equal files in a folder, `-p -l` | **violates** `CompleteAtExit` |
| `jpeg_threads` | two images, one of which may raise errors, all combinations of three sizes, one thread or two, fast mode or not; fair threads | `TypeOK`; `ErrorsStayLocal`: with one thread an error comes back to its own call and never to one that has returned, with two it may lead into a later call but never into one made before; `SmallestTried` as long as errors stay in their calls, `EmptyOnlyInFastMode` always, `Answered` with one thread |
| `jpeg_fast_mode` | one thread, fast mode | **violates** `NeverEmpty` |
| `nesting_formats` | all formats nested three deep, limits 0 to 3 | `TypeOK`, `NotSkippedEarly`, `DepthBounded` |
| `leanify_file` | the calls of all formats, below | of every format: `UnreadIntact`, `InItsRegion`, `Ends`; of each its meaning |
| `file_ends` | archives of up to two members that end with no record of zeros, with one, two or three; vCards that end with the magic of a photo | `EndsInTime`: `Tar` looks behind an archive only if no record of zeros ends it, and only after something was saved |
| `gz_nested_fast` | healthy gzip files with room in front, fast mode | **violates** `SameContents` |
| `lua_nested` | Lua programs with room in front | **violates** `SameProgram` |
| `swf_deblock` | Flash films in which a `DefineBitsJPEG4` tag follows one that may become shorter | **violates** `SameTags` |

The calls of `leanify_file` (122,353 states, one `MC` module per format; room
in front from 0 to 3 cells everywhere unless noted):

| format | files |
|---|---|
| tar | up to two members: files, others, empty ones, damaged headers; two or three records of zeros at the end; with and without recursion |
| gz | all combinations of the four optional sections, up to three cells of data, healthy, damaged or cut off; fast mode or not |
| zip | one entry of eleven kinds with four comments and three layouts of what lies in front, or two entries with the directory in reverse order; normal, fast, forced deflate |
| rdb | up to three files of four sizes, one of which is larger than the archive; names of two lengths; indexes that are cut off |
| ico | up to two images (PNG, bitmap, neither), gaps between them, the directory in both orders, cut off |
| png | images with every kind of chunk that is kept or removed, on both sides of one or two IDATs; cut off everywhere; with and without `--keep-icc` |
| swf | films of up to three tags of eight types with both lengths of headers, too short, too long or without a length, in the three compressions or not to be unpacked; in fast mode and not |
| lua | programs of one function with all combinations of lists, and of two and four functions (no room) |
| vcf, mime, data URI | texts of up to three pieces, Base64 that ends in padding where it should, folded with blanks or tabs, headers that lack a part |
| xml | SVG images of two containers with attributes that are defaults, inherited ones and others; FictionBooks of two binaries; blank texts under `xml:space` |
| json | objects of up to two members, with equal keys and others, 19 numbers, four tolerances, comments and garbage |
| pe | eleven orders of sections, seven kinds of resources, with and without stub, overlapped headers, something behind; DLL or not |
| gft, dwf, others | headers of three sizes; a DWF header that no archive follows; files of no format; any file too deep |

**Why the bounds are enough.** Two tasks are enough for every race on one
temporary file, three for one that needs a reader besides two writers of an
entry; two starts are what it takes to meet what a crash left behind. Files of
two and three units have a first, a last and a partial write. In the in-place
formats a record that shrinks, one that does not and one that follows are what
a cursor can be wrong about, hence two or three records; the room is either
nothing or more than what one record leaves. Every way through each loop is
taken, alone, first and after another. Base64 comes in whole groups, in groups
broken by a line end or a tab and with one or two pads. An executable has at most one
section in front of, between and behind the two that change. In a document two
levels have a parent whose attribute is inherited, dropped or an override.
Three levels of nesting have an outermost, an inner and a next one, and Base64
adds a call in between.

**Fairness.** `Pipeline`: weak fairness of "some task takes a step" (an
executor whose threads run as long as any of them can) and of `Exit` (`main` is
woken when the last task ends). Starting the program and dying are not fair.
`Jpeg`: weak fairness per thread of the pool. `LeanifyFile`: weak fairness of
`Next`, the one thread that executes `Leanify` goes on. No stronger fairness is
used anywhere.

**Deadlock** is checked except for calls of `Leanify` and of `LeanifyFile`,
where a behaviour ends with the return.

### What the runs found

* `pipeline_shared_entry`: tasks with equal contents save the same library
  entry through the same `.tmp` file, and a third one takes any entry that is
  not empty for complete (`main.cpp:134`). The program ends with exit code 0
  and a truncated file.
* `jpeg_fast_mode`: in fast mode no progressive result is made, so `outsize`
  is 0, no baseline result is smaller, and 0 is smaller than the image: it is
  replaced by nothing (`jpeg.cpp:143-177`).
* `gz_nested_fast`: `gz.cpp:77` and `:92` subtract `size_leanified` from the
  size although only the position moved: a gzip file inside a tar archive loses
  its end.
* `lua_nested`: the header of a program is skipped (`lua.cpp:83`) and never
  moved, so a program inside a container that has become smaller in front of
  it loses its header.
* `swf_deblock`: of the 8 bytes of a `DefineBitsJPEG4` header 6 are moved
  (`swf.cpp:212-225`); the `DeblockParam` becomes what lay there before.

### Conditions of the properties that hold

The instances and the properties above leave out some states in which the
code does something else than the property says. Each is a deliberate
condition; to see it fail, change the instance as noted (`Calls` in
`LeanifyFile_formats.cfg`, everything else in that of the run).

| condition | without it |
|---|---|
| No file is named twice, by itself or through its folder, when `-p` is given (`Exclusive`) | two tasks share `<path>.tmp` (`fileio.cpp:36`): `pipeline_faults` with `Args <- FileAndItsFolder`, `Names = {fileA}` violates `IInv`, and `AtomicFiles` |
| A buffered result can be flushed | the destructor of the stream fails after the check at `fileio.cpp:46`: `"flush"` in `Faults` violates `TmpIsMine`, and `AtomicFiles` |
| Folders hold no `.tmp` file of a killed run when `-p` is given | it is collected as an input (`fileio.cpp:69`): `OneFolder`, `Original <- Longer`, `LeanifyFile <- PartialLeanifyFile`, `MaxSize = 4` violates `AtomicFiles` |
| Runs that share a library agree on `--keep-exif`, `--keep-icc`, `--jpeg-*`, `--zip-deflate`, `--max_depth` | they are not part of the tag (`main.cpp:118-125`): `Options <- RestDiffers` violates `OwnResult` |
| Their tolerances differ in the first six decimals | `std::to_string` writes no more (`main.cpp:124`): `Options <- TinyTolerance` in `pipeline_library` violates `OwnResult` |
| Equal files have equal extensions | the extension is not part of the key although `LeanifyFile` depends on it: `Original <- Same`, `NameExt <- HtmlAndText`, `LeanifyFile <- HtmlLeanifyFile`, one worker, violates `CompleteAtExit` |
| No write fails, for `CompleteAtExit` | `ProcessFile` ignores the result of `WriteFile` (`main.cpp:164`): `"create"` in `Faults` violates it |
| One thread, for `Answered` | `setjmp_buffer` is one variable for all threads (`jpeg.cpp:17`): with `-p` an error leads into the call that another thread made last, perhaps after that has returned; the image is then never done with, or the process dies. Without `Sequential =>` in `Answered` two threads violate it, and `InOwnFrames` as an invariant |
| Errors have stayed in their calls and the process is alive (`InOwnFrames`), for `SmallestTried` | what a jump into another call leaves of images is undefined |
| `InsideCounting`, for `DepthBounded` | `DataURI`, `Gft`, `Swf` and `Base64` hand on their own depth, `Vcf`, `Mime`, `Dwf`, `Ico` and SVG start again at 1 |
| Base64 ends in its padding | `Base64Encode` pads what was not padded, so the result may be longer than what it replaces (`base64.cpp:124`): `Calls <- Unpadded` violates `UnreadIntact`, `InItsRegion` and `SameText` |
| No text ends at the beginning of a data URI, or in a vCard in front of the colon of a photo in Base64 | `data_uri.cpp:31` passes the end of the buffer by 8 bytes, `vcf.cpp:42` by one: `Calls <- CutOff` violates `SameText` and `InItsRegion` |
| A vCard does not end right behind the magic of a photo | `vcf.cpp:28` searches from one byte behind the end: `Calls <- AnyEnd` (`file_ends`), where `Ends` fails |
| A tar archive ends with two records of zeros, for `InItsRegion`, `SameMembers` and `Ends` | the loop may look behind the archive (`tar.cpp:48`), two records of zeros are written all the same (`tar.cpp:106`): `Calls <- AnyEnd` violates all three (the result may be 1024 bytes longer than the archive); `UnreadIntact` and `EndsInTime` do not need it |
| The two headers of a ZIP entry agree, and a stored entry is not encrypted (`Sound`) | sizes and checksums of encrypted stored entries are overwritten (`zip.cpp:222-224`); after an entry that does not fit, the directory lists entries that were not moved (`zip.cpp:211`) |
| gzip files inside other ones are neither damaged nor in fast mode; Lua programs are not inside other files; no `DefineBitsJPEG4` tag is moved | three of the runs above: `FastInside`, `Inside`, `Deblocked` |
| Numbers do not round to more than `IntMax` | `json.cpp:75` compares with `INT64_MAX` as a double, which is 2^63, and casts what passes although `json.cpp:74` says that it fits: `Calls <- Huge` violates `SameNumbers` |
| The contents that the headers of a tar archive speak of lie inside it (`Tar!IsConsidered`); a gzip file is longer than its header and trailer; offsets and lengths do not wrap around (`ico.cpp:51`, `png.cpp:42`) | the code reads elsewhere, where the model has nothing to say |
| An executable whose PE header already overlaps its DOS header is a file of its own (`Pe!IsConsidered`) | `optional_header` goes on pointing to the old place, which sections are moved over (`pe.cpp:76-80`) |
| An import table inside the resources does not follow a relocation table that is removed (`Wanted` in `MCPe`) | `pe.cpp:283` compares its old address with the new one of the resources and cuts it off: dropping `Wanted` violates `SameImage` |
| If the relocation section is the first one, the headers of an executable say their right size and there is no delay import table | section -1, which is a part of the data directories, is taken for the end of the headers (`pe.cpp:133-145`) |

## 4. Proofs

All proofs are checked by TLAPS, for all values of the constants that satisfy
the named assumptions of the modules.

| theorem | states | assumes |
|---|---|---|
| `PipelineProofs!TypeCorrect` | `Spec => []TypeOK` | — |
| `PipelineProofs!Invariance` | `Spec /\ []Exclusive => []IInv` | no flush fails |
| `PipelineProofs!OwnTmp`, `EntriesStayFaithful` | the same for `TmpIsMine` and for `EntriesFaithful` | no flush fails |
| `PipelineProofs!Atomicity` | `Spec /\ []Exclusive => AtomicFiles` | no flush fails |
| `PipelineProofs!SequentialExclusive`, `SequentialAtomicity` | `Spec => []Exclusive`, `Spec => AtomicFiles` | one worker (no `-p`); for the second no flush fails |
| `PipelineProofs!ParallelExclusive`, `ParallelAtomicity` | the same | `DifferentFiles`: the arguments are different files; no library; for the second no flush fails |
| `PipelineProofs!OwnResults` | `Spec /\ []Exclusive => OwnResult` | no flush fails; with a library, `TagDecides`: options under which an entry has the same tag give the same result |
| `PipelineProofs!SequentialResults` | `Spec => OwnResult /\ []EntriesFaithful` | the same, one worker |
| `PipelineProofs!NothingForgotten`, `NothingForgottenAlone` | `Spec /\ []Exclusive => []CompleteAtExit`; for one worker or without a library `Spec => []CompleteAtExit` | `DifferentFiles`, `TagDecides`; no create, write, flush or rename fails (crashes, and files that cannot be read, included) |
| `PipelineProofs!CleansUp` | `Spec => []NoLeftoverTmp` | nothing crashes, no remove fails |
| `JpegProofs!NothingEmptied` | `Spec => []EmptyOnlyInFastMode` | — |
| `JpegProofs!ErrorsLeadForward` | `Spec => []ErrorsStayLocal` | — |
| `JpegProofs!SmallestTaken` | `Spec => []SmallestTried` | — |
| `JpegProofs!JpegTypeCorrect` | `Spec => []TypeOK` | — |
| `NestingProofs!NestingTypeCorrect` | `Spec => []TypeOK` | — |
| `NestingProofs!NothingSkippedEarly` | `Spec => []NotSkippedEarly` | — |
| `NestingProofs!ArchivesKeepTheLimit` | `Spec => []DepthBounded` | — |
| `TarProofs!WorksInPlace`, `LoopEndsInTime` | `Spec => []UnreadIntact`, `Spec => []EndsInTime` | `TarAssumption`: headers are considered; the archive may end anyhow |
| `TarProofs!KeepsToTheArchive` | `Spec => []InItsRegion` | `ArchiveAssumption`: and members follow each other up to two records of zeros |
| `TarProofs!KeepsMembers` | `Spec => []SameMembers` | `MembersAssumption`: and a zero is no header |
| `GzProofs!ReadsTheUnwritten` | `Spec => []UnreadIntact` | `GzAssumption` |
| `GzProofs!KeepsToTheFile`, `KeepsContents` | `Spec /\ []MovedAlone => []InItsRegion`, the same for `SameContents` | `GzAssumption` |
| `GzProofs!KeepsContentsAlone` | `Spec => []SameContents /\ []InItsRegion` | `GzAssumption`, no room in front |
| `PngProofs!ReadsUnwritten` | `Spec => []UnreadIntact` | `PngAssumption` |
| `PngProofs!KeepsToTheImage` | `Spec => []InItsRegion` | `PngAssumption` |
| `PngProofs!KeepsItsChunks` | `Spec => []SameChunks` | `PngAssumption`, a signature in front |
| `EntryProofs!DocumentsKeepNumbers` | `Spec => []SameNumbers` | `NumbersFit`: no number rounds to more than the largest integer |
| `EntryProofs!IconsKeepImages` | `Spec => []SameImages` | — |
| `EntryProofs!ArchivesKeepFiles` | `Spec => []SameFiles` | — |
| `LeanifyFileProofs!ArchivesEndInTime` | `Spec => []EndsInTime` | — |
| `LeanifyFileProofs!ArchivesKeepTheirMembers` | `Spec => []SameMembers` | `ArchivesAssumption`, which is `MembersAssumption` of the archives |
| `LeanifyFileProofs!GzipFilesKeepContents` | `Spec /\ [](format = "Gz" => GzP!MovedAlone) => []SameContents` | `GzP!GzAssumption` |
| `LeanifyFileProofs!ImagesKeepChunks` | `Spec => []SameChunks` | `PngP!PngAssumption` |
| `LeanifyFileProofs!TheRestStays` | `Spec => []SameRest` | — |
| `LeanifyFileProofs!ContractKept` | `Spec /\ [](format = "Gz" => GzP!MovedAlone) => [](format \in Proved => InItsRegion)` | the assumptions on archives, gzip files, PNG images and Flash films |
| `LeanifyFileProofs!UnreadLeftAlone` | `Spec => [](format \in Proved => UnreadIntact)` | those on gzip files, PNG images and Flash films |

`Spec` is that of the module a proof module is about; the rows of `EntryProofs`
and `LeanifyFileProofs` speak of `LeanifyFile` as a whole. What they need to
know of the files, `LeanifyFileAssumption`, TLC evaluates on all calls.

*Pipeline.* `AtomicFiles` is not inductive: that a rename puts a whole result
in place depends on what the temporary file holds, which depends on every write
before it. `IInv` says for every task what it knows of the file system: the
file it opened is the one it measured; from `Read` on `data` is what the user's
file holds; `out` is a result of `data`; while writing, the temporary file is
the open one and holds exactly the first `pos` units of `out`; no two paths
share an inode; library entries are whole. A step of one task keeps what
another task knows because the two hold different names (`Exclusive`), which is
why that is the hypothesis; it is discharged for one worker
(at most one task is active) and for different arguments without a library (a
task only holds the name of its argument). Every step then either leaves the
users' files alone or is a `Replace` of `AtomicStore`, which is the refinement.
A failed flush breaks `IInv` at `Writing`, hence the assumption.

*Results.* `AtomicFiles` would let a task put the result of other settings in
place. `OwnOutput` adds to `IInv` that `out` is what `LeanifyFile` makes of
`data` under the options of this run, which an entry of the library is if its
tag decides the result (`TagDecides`; `OwnResult` fails where it does not, see
above). For `CompleteAtExit` every task that is done has settled its file
(`Settled`): the file holds the task's result, or is as short as that. Later
steps keep it so because different files are held by different tasks.
`NoLeftoverTmp` needs none of this: each temporary file in a folder is the
target of some task that still has to rename or to remove it (`TmpOwned`),
even when two tasks meet at it.

*Jpeg.* `EmptyOnlyInFastMode` follows from: a call that is past the
progressive attempt has something in its outbuffer; that a jump goes wrong does
not matter, as `Recover` always leaves the original. `ErrorsStayLocal` is proved
for any number of threads, from two facts about calls (`CallsInv`). A call that
is in the library is either the one the jump buffer holds or was made before
that one, which a history of the calls made before each call (`earlier`) tells:
every call writes the buffer when it begins, so no call can find one in it that
was there before, whether that one is under way or has returned. And with one
thread no call can begin while another is under way, so the two are the same.
That the later call may be another one, with `-p`, is what the code does wrong.
`SmallestTried` says nothing of a
state in which some call was led into another frame, so its invariant keeps the
two cases apart: `Frames` says that only such a call is in another frame, and
never comes back; otherwise (`SmallestHeld`) the outbuffer holds the
progressive result after that attempt and the smallest of those tried after
the baseline one, and a call that recovers has a damaged image.

*Nesting.* No call is deeper than the level it is really on (`Modest`); inside
formats that count, depth and level are the same (`Exact`).

*Tar.* `UnreadIntact` needs `p_read = p_write + size_leanified`, the relation
of the three cursors that every way through the loop must keep, rounding
included: the callee may write `size_leanified` cells in front of its file,
which is just down to `p_write`, and a file of n cells that shrinks to r,
padded to whole records, ends in front of where the next header is read because
rounding up is monotonic. This holds of every archive, however it ends.

The loop has no test for where it reads, only for where it writes
(`tar.cpp:103`), and `p_write` lags behind. `EndsInTime` says when that goes
wrong: only in an archive whose members follow each other right to its very end
with no record of zeros among them, and only if something was saved. The
invariant (`LoopInv`) collects the places that `p_read` has been at: none holds
a record of zeros, and each leads to the next. As all sizes are whole records,
and what follows a header lies in the archive, `p_read` can only reach the end
exactly; and as `p_read = p_write + size_leanified`, the loop is still going
there only if `size_leanified` has grown.

The contract and the members need more, as two records of zeros are written in
any case. `ArchiveAssumption` says that there is a set of places, among them the
first, at each of which there is a record of zeros with another one behind it or
a whole member with a place of the set behind it, and the invariant says that
`p_read` is at one of them: archives as tar writes them. `KeepsMembers` compares the list of the members of the archive
with that of the result. Both are recursive functions, and the loop writes the
second one from the front, so the invariant is about a prefix (`Chain`): there
are n members between the beginning and `p_read` and as many between the front
and `p_write`, and the k-th of the one has become the k-th of the other,
looked at in nothing but what was written up to its end, so that later steps do
not change it. In the end both lists are read off their chains.

*Gzip.* Behind the three cells of the header the file is as it was until one
move at the end (`DataThere`); that the sections end behind where they begin
takes that the length of the extra field is read from the file as it was, so
that field has to come first. What is moved as it is loses its end if there is
room in front (`gz.cpp:77`, `gz.cpp:92`, the run `gz_nested_fast`), so the
theorems about the result have the hypothesis `MovedAlone`: data that are not
compressed again are those of a file with no room in front. `KeepsContentsAlone`
has no such hypothesis; `ReadsTheUnwritten` needs none, as the size does not
matter before the end.

*Png.* The cursors keep `p_write + fp <= p_read <= End`: the room in front of
the image is never used up, so that what is moved lands in front of what is
read. That needs to know that there is a length wherever a chunk is looked
for, though nothing but the bounds is checked by the loop: `PngAssumption`
gives, for each image, a set of places that contains the first one and the one
behind each chunk, and the invariant says that `p_read` is in it. The last IDAT
lies inside what was written (`IdatThere`), so that compressing it again and
moving what follows touches nothing behind it.

For `SameChunks` the chunks are told apart by where they begin (`Places`), which
is a function of the file, with whether an IDAT was in front of each. The
invariant (`ChunksInv`) is that the first j chunks are walked: there is a list
of the places where what is left of them ends, a chunk that is needed is a copy
at its place, one that is not takes no room, the rest of the file is still as it
was, and `idat_addr`, which decides on tRNS and on what is compressed again, is
the place of the last IDAT among them (`IdatIs`). When the walk ends at IEND
(`AllDone`) or where the file breaks off, the places of the result
(`NewPlaces`) are computed from that list. Compressing the last IDAT again
writes its data, its length and its checksum and moves what follows
(`Recompressed`): the list is shifted behind it (`RecompressedRight`).

*JSON.* The parser keeps, of the members with the same key, the last one, and
puts them in the order of the keys, whatever that is: the invariant
(`IsDocument`) says that the nodes are the last members of their keys, each once,
and that each of those visited is what it was or a shorter number within the
tolerance. A shorter one may be an integer, for which the double must fit; that
is `NumbersFit`, and `SameNumbers` fails without it (see the conditions above). Then the lookup of
a key finds in the result the node of the member that it finds in the file.

*Icons.* The images are visited in the order of their offsets. The invariant
(`IcoInv`) is that the first i are placed, one behind the other and each as it
was or leanified, up to `NewOffset`, that those to come are still as they were,
and that `NewOffset` is not behind the next one's offset, so that the callee,
which may write down to there, keeps to the gap that the first ones left. That
all of the images lie inside the file although the code only compares neighbours
and the last one (`ico.cpp:50-60`) is `ImagesFit`. The directory is written at
the end, from a list in which every entry still stands for its image.

*RDB.* Where an entry and its file are is a function of the archive (`Places`):
a file begins where the one of the entry in front of it ends, whatever its own
entry says, and an entry begins behind the size of the one in front. The
invariant (`RdbInv`) is that the first i entries are done (`EntriesDone`): there
is a list of the places where their files end now, none of them behind where it
was, and in each entry stands the size that this list gives and an offset that
is off by as much as it was. The cursors are those of the next place, the index
is as it was from there on, and so is what has not been read. Once an entry
cannot be read the rest is moved to the end of that list (`RestMoved`). From this
`Places` of the result is computed, entry by entry (`DoneRight`), and an entry
that cannot be read still cannot be (`RestRight`), as its size and the cells
behind its place are the same. What is assumed of the archive (`IsConsidered`)
is that the index lies behind the header, that offset and size follow a name,
and that an index does not end between the two, where the code would read
behind it; file sizes and the number of entries may be wrong.

*Flash films.* The contract only: what was saved never exceeds what was read,
and every write of a tag's step lies in front of the end of that tag
(`SwfInv`, `InTags`), whatever the images in it become. A tag whose length points
behind the end ends the loop after its header was read, so that only what is
behind that counts as the rest (`TagTooLong`). What is assumed of films that are not compressed
(`FilmsAssumption`) is that there is a set of places with the header of a tag
at each, from the first one on, that the size of an image in a JPEG tag is a
number, and that a FileAttributes tag is not empty; the films of `MCSwf` are
such.

*LeanifyFile.* `TarProofs`, `GzProofs` and `PngProofs` are taken over by
instances for those calls for which `GetType` can pick the format: a call
starts as one of the format's own specification (which needs `GetType`, the
extension and the depth to say what they exclude), each of its steps is one of
that specification, and the format does not change. `TheRestStays` is about
what the module does itself; the callee of a GFT file may write down to where
the header was moved to, and not below.

*Induction.* What holds of every number is proved by taking the least one for
which it does not (`LeastNat`, from `WFMin` and `NatLessThanWellFounded` of the
library, neither of which takes an operator), or the greatest one below a bound
(`GreatestNat`). That is how the chains of
`TarProofs` are shown to be the recursive functions of `Tar`, and the first
zero behind a name to be behind its beginning. `ListExists` shows that a
recursive function over the places of an archive exists, `PlacesAre` the same
for the entries of an index and the chunks of an image.

*The contract.* `Memory!Leanified` is what containers assume of the file
inside, `InItsRegion` is what each format is checked to provide, and
`ContractKept` proves for nine of the classes that `GetType` picks (`Proved`),
for every size. So `UnreadIntact` of a container with one of these in it does
not rest on the instances.

**Only model-checked:** liveness (`Terminates`, `Answered`, `Ends`), which the
prover has no rules for under fairness; `UnreadIntact` and `InItsRegion` of the
formats that are not in `Proved`, and what a result means for these
(`SameEntries`, `SameTags`, `SameProgram`, `SameText`, `SameDocument`,
`SameImage`). There the result is a list whose elements are told apart by what
is in front of them (`Swf`), which takes a chain as in `PngProofs`; or it is defined by filtering and sorting
sequences (`Zip`, `Xml`, `Pe`) or by nesting (`Lua`), that is by recursion over
data, of which the prover cannot compute what it yields.

## 5. Not modelled

* Parsing of the command line, printing, conversions of names, Windows code.
* Which markers of a JPEG image are kept; the conversion of a bitmap in an
  icon (`bmp.cpp` and lodepng), of which `Ico` knows that its result may be
  smaller; the text of numbers, and doubles beyond decimals of a few digits
  (`Json`); style sheets and references in SVG, which are a renderer's matter,
  and of the tables of attributes all but one of each group (`Xml`).
* The vendored libraries under `src/lib`, which are most of the lines of the
  repository and third-party code; each module says what it assumes of them.
* Power failures: what the kernel has not written yet is taken to be written.
* Damaged files whose sizes make the code read outside of its buffer.

What could come next: `SameTags` of `Swf`, along the lines of `KeepsItsChunks`.
