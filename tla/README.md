# mylibc: specification and proofs

mylibc is the freestanding C and C++ library of myOS: one static archive whose
functions reach the kernel through `int 0x80`. This directory holds TLA+ modules
that model its stateful parts, TLC configurations that check them on small
instances, and proofs, checked by TLAPS, of the results that hold for every
instance. Paths such as `stdlib.cpp:140` are below `src/src/`, and those of
headers (`mutex`, `vector`, `myos`) below `src/include/`.

Contents: [system](#the-system), [modules](#the-modules), [runs](#the-runs),
[proofs](#what-is-proved), [disagreements](#disagreements-found),
[limits](#what-is-not-modelled), [open](#what-stays-open).

## The system

A program linked with mylibc starts at `_start` (myos.cpp:19), which calls
`_before_main` (three `FILE`s), `main` and `_after_main` (close stdin, `exit`).
Everything else runs in calls of the program. The parts and how they use each
other:

| part | state | operations | uses | hard about it | correct if |
|---|---|---|---|---|---|
| slab heap, stdlib.cpp:83-244 | `chunk_heads[10]`, a `chunk_header` per chunk, a `slot_header` or `MMapHeader` per block | `malloc`, `free`, `realloc` | mmap, munmap | long histories; failure of mmap inside realloc; four structures that must agree | blocks disjoint, mapped, contents kept; nothing leaks; calls return |
| bump heap, stdlib.cpp:48-81 | `heap_curr` | `_malloc` | brk, mmap | failure of brk; sizes that wrap | blocks disjoint, with room |
| `operator new`, new.cpp | `__new_handler` | new, delete, set/get_new_handler | heap | the handler runs inside the retry loop | returns memory or null; ends if the handler frees |
| `call_once`, mutex | `once_flag::state` | `call_once` | (threads) | races, nesting | once, and nobody returns early |
| streams, stdio.cpp | `FILE`: one buffer with cursor and limit, push-back word, dirty | fopen ... rewind | read, write, lseek, heap | one buffer for both directions; short and failing calls | the file's bytes in order, each once |
| formatting, stdio.cpp:54-201, 258-382, 482-513 | none | printf, scanf, snprintf | streams | conversions, bounds | value printed = value read |
| process end, stdlib.cpp:245-274, myos.cpp:19-30, 325-365 | two vectors of handlers | atexit, `__cxa_atexit`, exit | streams, vector | handlers that register, print, exit | every handler due runs, output is written |
| windows, myos.cpp:231-297 | shared buffer, static screen info | constructor, draw_frame, destroy | `call_once`, messages, shared memory | the answer shares a queue with all other messages | takes the server's answer and no other |
| font and drawing, myos.cpp:369-708 | file tables, glyph cache | draw, drawText, setFont | streams, vector | cache against changed font | draws the text given |
| sockets, net.cpp, myos.cpp:709-780 | socket id | connect, send, recv | system calls | widths of results | size received, or -1 |
| directories, dirent.cpp | pool of 8 | opendir, readdir, closedir | open, read, close | handles reused, records in two reads | one entry per record |
| pipes and processes, pipe.cpp, unistd.cpp | two descriptors of a pipe; what fork copies | read, write, close_*, fork, execv, wait | system calls, stdout | descriptors closed twice; a buffer copied unflushed | closes only what it owns; texts in order, once |
| vector, string | data, size, capacity | containers' | heap, new | lifetimes through growth | a sequence |
| cstring.cpp, strings.cpp, algorithm | none | pure functions | | boundaries, loops without a bound of their own | reference definitions |
| system queries, console, timers; math; random, bit | none | one call each; series; mixing | | | |

The library has no lock except `once_flag`; heap and streams are written for one
thread. Concurrency is therefore that of `call_once` (threads), of callbacks
(exit handlers, `new_handler`), of other processes (the window server, a forked
child) and of the kernel (failing and short calls). No part keeps anything across
a crash.

## The modules

| component | specification | promise | properties | proofs | TLC |
|---|---|---|---|---|---|
| slab heap | `HeapGeometry`, `Heap` | `AbstractHeap` | in `Heap`, `ChunkSizing` | `HeapGeometryProofs`, `HeapProofs`, in `ChunkSizing`, `MemoryProofs` | `MCHeap`, `MCMemory` |
| bump heap, large blocks | `BumpHeap` | | in it | `MemoryProofs` | `MCMemory` |
| operator new | `OperatorNew` | | in it | `MemoryProofs` | `MCMemory` |
| call_once | `CallOnce` | `AbstractOnce` | in it | `CallOnceProofs` | `MCCallOnce` |
| streams | `Stream`, `StreamMisuse` | `AbstractStream` | `StreamProperties`, `StreamMisuse` | `StreamProofs` | themselves |
| formats | `Numerals`, `Printf`, `Scanf` | meanings given with the calls | in them | | `MCText` |
| C strings | `CString` | reference definitions | in it | | `MCText` |
| process end | `Exit` | | in it | `SystemProofs` | `MCSystem` |
| processes, pipes | `Process` | | in it | `SystemProofs` | `MCSystem` |
| windows | `Window` | | in it | `DesktopProofs` | `MCDesktop` |
| font, drawing | `FontFile`, `WinDraw` | | in them | `DesktopProofs` | `MCDesktop` |
| UTF-8, glyphs | `Utf8`, `Glyph` | | in them | | `MCText`, `MCDesktop` |
| sockets, network | `Network` | | in it | `SystemProofs` | `MCSystem` |
| directories | `Directory` | | in it | `SystemProofs` | `MCSystem` |
| vector | `Vector` | `AbstractVector` | in it | `MemoryProofs` | `MCMemory` |
| string | `String` | `AbstractString` | in it | `MemoryProofs` | `MCMemory` |
| sort, rotate | `Algorithm` | reference definitions | in it | `MemoryProofs` | `MCMemory` |

`Memory`, `System`, `Desktop` and `MCText` are suites: each instantiates
several components, and a variable `part` says which of them a behaviour runs,
while the others keep an initial state. The components of a suite share no state,
so nothing is lost, and their states add up instead of multiplying. A property of
a suite is the conjunction of the properties of its components, each of which is
stated and explained in the component's own module. The first three are
written for any values of their constants, and theorems are about them;
`MCMemory`, `MCSystem` and `MCDesktop` give the values TLC takes. `MCText` is
about the sample of calls it lists.

Definitions marked `error` stand behind the definition they vary. No
specification uses them: they are plausible slips in the code, and every checked
property is known to fail when one is put in.

**Slab heap.** `HeapGeometry` holds the arithmetic: levels, slot sizes, pages of
a chunk, offsets. The literals 4096, 16, 512 and 2048 are constants. A pointer is
`<<region, offset>>` where a region is a mapping; offsets are real byte offsets.
`chunk_heads`, `chunk`, `hdr` are the source's structures; `maplen` is what the
kernel has mapped, `live` what callers own (with the contents they stored),
`call` is program counter and locals of the one call in progress. malloc's walk
through the list (stdlib.cpp:160-177) is one step per chunk, so that its end is a
question (`CallReturns`); `free` is one step, as the library is sequential.
`Munmap` subtracts the length it is given, so that a wrong length shows.
`ChunkSizing` runs the three loops of sizing with the source's own numbers and
compares them with the closed forms the heap uses.

**Other allocation.** `BumpHeap` has `_malloc` and malloc's path for large blocks
with sizes modulo `WORD`, which `Heap` leaves out. `OperatorNew` stands on a heap
whose blocks are sets of bytes, apart from each other: its question is the retry
loop, in which a handler may release memory, install another handler, remove
itself, or do nothing.

**call_once.** A thread is a stack of calls, since the function of a flag may
call `call_once`. Each atomic access (mutex:12, 16, 20) is a step, and the
function takes effect in two, like the lambda of `Window` (myos.cpp:232-254).
`Needs` says which flags the function of a flag needs.

**Streams.** A function of stdio.cpp is an operator giving the set of its
outcomes, one for each answer of the kernel; actions apply them. The loops of
fread, fwrite and fgets take one step per turn. `AbstractStream` knows a file, a
position, pending bytes and pushed-back bytes, and nothing of a buffer; the
refinement computes the position from the descriptor's offset, limit and cursor.
The program of `Stream` is the one the C standard allows: between output and
input there is a flush or a seek (`mode`), pushing back counts as reading, and
when write can fail it calls fflush, which reports, before fseek, which does not.
`StreamMisuse` calls the same operators without these rules, lets writes be
short, and records in `slips` which rule was broken: its properties say which slip
is needed for which harm. The buffer there has one byte of foreign memory behind
it.

**Formats.** A character is a one-letter string. `Numerals` has the printers and
readers of numbers with the widths as constants; `Printf` and `Scanf` take one
turn of the loop over the format as a step. The calls that TLC tries carry the
text they mean, which `MCText` finds by search among all numerals.

**C strings.** One step is one call on any small memory. memcpy and memset change
rdi in inline assembly that does not declare it; what they return is therefore
any address, and their effect on memory is what is checked.

**Process end.** `exits` is the stack of calls of `exit`, each with its loop and
index; a handler is program code and may register handlers, print, or call exit.
The handler vectors live in `.bss` and count as empty at the start: nothing in the
repository runs static constructors. (A loader that did would push the two
vectors' destructors; the second constructor would forget the first one.)

**Processes.** Two processes run scripts of calls. `fork` copies the descriptors,
the `Pipe` object and the unflushed buffer; a text is a number, so that each can be
found again on the console, in a file, in the pipe or with the reader. Here and in
`Exit` the kernel takes whole what is written to an open descriptor; fclose does
not look at fflush's answer, so a write that fails there loses its text, as
`AbstractStream` allows of a `FILE` (`Lossy`).

**Windows.** The process has one inbox; its constructor sends the request, waits
and receives (myos.cpp:263-269), while keys and timers arrive and the server
answers in its own time. A lost event is one a constructor took for its answer, a
stray answer one the program's own loop meets.

**Font and drawing.** `Utf8` steps through bytes, `WinDraw` through code points,
with the cache as a function from code points to the font and size it was filled
for. `FontFile` reads a file given as a directory of tables and what lies at each
offset. The code reads on where the file has nothing (a table that the directory
does not name, an entry behind a table's end, a subtable cut off), into locals that
it has not initialised: what it finds there is any of `Chance` or `Strays`. Only an
index table that is named and lies behind the file's end answers that the glyph is
missing. `Glyph` takes
the points of the contours as given and follows them to the grid: a turn of the
loop over the points and a row are steps, and crossings at one place come in
either order, as sort leaves them.

**Network, directories.** One call is one step; the width every answer is cut to is
modelled (`Cut`, `LowBits`). In `Directory` the program uses closed handles as it
likes. Each of readdir's two reads may fail or be short, and the code tests only for
`<= 0`: `Misread` then leaves the file anywhere further on, inside a record or at the
start of one, and answers null or an entry (record 0) whose name is what memory held,
of a length in `Stale`. `RecordsInOrder` is about the streams none of whose reads
failed or was short, `PoolOwnsFiles`, `HandlesApart` and `NamesFit` about all.

**vector, string, algorithm.** A slot of a vector's array is raw memory or an
element; making an element where one is, or assigning where none is, is a fault
that is recorded. A loop of vector that makes, assigns or destroys the elements of
some slots is one change of these slots, since no turn of it looks at another's
slot. A value given to push_back or resize is a reference: when it is an element of
the vector itself and the array grows first, it has been moved from, destroyed and
freed before it is read (`pushOwn`, `resizeOwn`), so that each new element may be any
value. `AbstractVector` allows that (`Break`) and no more: the call has its length,
and what was in the vector before stays. A string's arrays have a length, and what is read past it,
through null or from a freed array is recorded in `bad`. `Algorithm` is sort as a
stack of calls, with a scan, an exchange, an insertion of one element and a call
as steps, and rotate.

## The runs

| run | question | bounds and why they are enough |
|---|---|---|
| HeapStructure | lists, bitmaps, counts, mappings consistent in every history? | 160-byte pages: level 0 holds 2 slots on one page, level 1 three on two pages; three regions let a chunk be first, middle, last; at most 5 blocks alive (constraint `FewBlocks`), more than a chunk holds, so chunks fill up; regions symmetric |
| HeapContract | does the heap implement AbstractHeap, and do calls return? | two regions, contents; no symmetry, because of liveness |
| CallOnce | once, early returns, refinement, who hangs and who returns? | three threads on five flags: two need each other, one needs these, one leads into none; a thread is nested while two others race |
| StreamContract | bytes in order, positions, complete lines | buffer of 2, file up to 3, so that refills, direct reads and wrap-around happen; bytes 10 (newline) and 200 (negative as a char); short and failing reads |
| StreamFailing | nothing lost or doubled when write fails; end only at the end; loops end | the same with failing writes, file up to 4 |
| StreamMisuse | how far does a store fall outside, what is lost or written back, after which slip? | buffer of 2 and file of 4, grown beyond by what is written back |
| StreamRecycled, StreamStdout | violated, see [below](#disagreements-found) | a recycled `FILE`; a start limit above the buffer's end |
| Memory | the sizing loops, `_malloc`, operator new, string, vector, sort and rotate | see the next table |
| Text | printf, scanf, C strings, UTF-8 | |
| Desktop | windows, drawing, font files, glyphs | |
| System | exit, processes and pipes, directories, network | |

| suite: part | question | bounds and why they are enough |
|---|---|---|
| Memory: sizing | do the loops compute HeapGeometry's closed forms, and do slots tile the pages? | the source's constants; both ends of each of the eight levels in use |
| Memory: kernel | does heap_curr follow the break, and has every block room? | 16-bit sizes with both wraps among them; break refused at any call; three calls |
| Memory: new | when does new answer null, and when does it hang? | three bytes of memory, blocks of any of them; every handler |
| Memory: string, vector | lives of elements, ends of strings, refinement | two objects of up to three characters or elements, which grow twice |
| Memory: algorithm | sorted, inside the range, few calls open, an end | every sequence of up to seven of three keys with insertion up to 2 |
| Text: printf, scanf | do they print and read what is meant, and end? | 7- and 4-bit ints, pairs of directives, buffers from 0 to 9 bytes |
| Text: cstring | do the calls agree with their definitions? | every memory of five bytes out of 0, `A`, `a` and 200, every address |
| Text: utf8 | is the text's end respected and text read back? | every text of four bytes out of eleven kinds; pairs of boundary code points |
| Desktop: window | whose answer does a constructor take? | three windows, two events, queues of two |
| Desktop: windraw | does painting stay in its cells and in its memory? | window of 3 by 2, places over every edge, two fonts and sizes |
| Desktop: fontfile | are tables, segments and glyphs found? | two orders of tables, whole, cut off and missing, each format; where the file has nothing the numbers 0 and 2 (`Chance`) and subtables of another format, of zeros, or one that finds everything (`Strays`) |
| Desktop: glyph | do contours close and fill what they wind around? | every triangle on a small grid, on and off the curve, left of the origin too; nested squares, wound either way |
| System: exit | do handlers run once in each call of exit, in reverse, and is output written, when handlers register, print and call exit? | three handlers, registration at any time, exit three deep |
| System: process | are only own descriptors closed, and is every text written once? | every three calls after a pipe and a print, and every call before and after a fork |
| System: pipeline | does a pipeline of two programs end, with its texts in order? | six pairs of programs, pipe reads of any length |
| System: directory | pool and descriptors agree; records in order | pool of two, two handles, three calls of readdir on open streams; names of 3, 270, 294 and 295 bytes, around the limits 256 and 300; after a failed or short read names of 300 bytes, longer than fits |
| System: network | sizes, byte order, masks, settings read back | one device, one socket, bytes that tell orders apart |

Bounds in guards: `MaxFile` (file length), `Counts`, `Offsets` in `Stream`;
`MaxExits` in `Exit`, where `printf` also stops after one print for each piece of
program code; `MaxCalls` in `BumpHeap` (`MaxKernelCalls` of `Memory`), `Directory`
(`MaxReads` of `System`) and `Window`; `MaxEvents` and
`MaxQueue` in `Window`; `MaxQueue` and `MaxSockets` in `Network`; `MaxLength` in
`Vector`, `String` and `Algorithm` (`MaxVector`, `MaxString`, `MaxInput`);
`MaxFonts` in `WinDraw`; `MaxFd` in `Process`. `Shades` and `Covered` of `WinDraw`
are the channel values and coverages tried. The theorems about containers suppose
`MaxLength` at most 2^16 for vectors and below it for strings, which is where the
doubling of a capacity is cut off in `Reserved` and `bit_ceil`.
`CHECK_DEADLOCK FALSE` stands in the four suites: computations end there
(sizing, printf, scanf, cstring, utf8, algorithm, fontfile, glyph), a bound or a
fault ends the program (kernel, window, string), and a process may wait for
ever for a pipe whose writing end it holds itself. The constants not mentioned are
model values.

**Fairness.** `HeapContract`: a call that has begun goes on (one weak fairness on
the library's own steps; callers are free). `CallOnce`: each thread's next step is
weakly fair, which is a scheduler that forgets no thread; calling is not.
`StreamFailing`: the loops of a call go on. In the suites the fair actions are
those of the library and of whom it waits for, never the program's: the sizing
loop, the retry loop of operator new with its handler, sort and rotate
(`Memory`); printf and scanf (`Text`); the constructor of a window, the server,
which answers in its own time (events need not arrive), the font's constructor
and the drawing of a glyph (`Desktop`); the steps of exit and of the handlers it
runs, and each of the two processes of a pipeline (`System`). For exit this means
that handlers return and that nested calls of exit stop at some depth; a handler
that calls exit unconditionally recurses for ever. The progress property of a
suite says of the part that runs that it comes to its end (`Settled`, `Ended`) or
that it does not stay `Busy`.

## What is proved

All for every value of the constants under the named assumptions, which TLC
evaluates on the values of the runs: `GeometryAssumption`, `SizingAssumption`,
`HeapAssumption`, `NeedsAssumption`, `BumpAssumption`, `StreamAssumption`,
`ProgramAssumption`, and `MemoryAssumption`, `SystemAssumption` and
`DesktopAssumption`, which join those of the components. Most give constants their
types and say that what is counted is finite. Four say more:

* `HeapAssumption` keeps requests 16 bytes away from 2^64; `BumpHeap` has the others.
* `FontFileAssumption`: what stands at the offset a directory names for a tag is a
  table of that tag, if anything stands there; the order of the tables, where the
  file ends, and what the tables hold are free.
* `SystemAssumption`: in a pipeline the parent does not print. Otherwise
  `PipeInOrder` is false: a text that waits in the buffer while fork copies it
  comes through the pipe again. `TextOnce`, about scripts of any kind, allows for it.
* `VectorAssumption`, `StringAssumption`: the bounds on lengths; no character of a
  literal is 0 (resize fills with 0 all the same), no value is the one that stands
  for `T()`.

A theorem about streams names what else it supposes (below).

| module | theorem | states |
|---|---|---|
| HeapProofs | `TypeCorrect`, `WellFormedness` (with `Disjointness`, `Mapped`, `BitmapsMatch`, `Linked`, `EmptyAlone`) | `TypeOK`, `WellFormed` |
| | `NoLeaks` | `NothingLeaks` |
| | `Refinement` | `AbstractSpec` of `AbstractHeap` |
| CallOnceProofs | `TypeCorrect`, `Once`, `Returns` | `RunsOnce`, `ReturnsAfterEffect` |
| | `NoLock` | `LockedOnCycles` |
| | `Refinement` | `AbstractSpec` of `AbstractOnce` |
| StreamProofs | `TypeCorrect`, `Mirrored`, `Lines` | `TypeOK`, `BufferMirrorsFile`, `CompleteLinesOut` |
| | `Implements` | `AbstractSpec` of `AbstractStream` |
| | `Positions`, `Ends` | `PositionsAgree`, `EndOnlyAtEnd` |
| | `Misused`, `Fronts` | `MisuseContained`, `WritesFronts` |
| ChunkSizing, MemoryProofs | `Shaped`, `Chunks` | `ChunksShaped` |
| MemoryProofs | `Break`, `Apart`, `Room`, `Rooms` | `RoomAnswered` |
| | `Implement` (with `StringImplements`, `StringFaults`, `VectorImplements`, `VectorFaults`) | `ContainersImplement`: `AbstractSpec` of `AbstractString` and of `AbstractVector`, and both `FaultsFrom` |
| | `Containers` | `ContainersSound` |
| SystemProofs | `Handlers` | `HandlersRun` |
| | `Directories` | `DirectoriesRead` |
| | `Networks` | `NetworkMeant` |
| | `Texts` | `TextsArrive` |
| DesktopProofs | `WindowsServed` | `WindowsKnown` |
| | `TextDrawn` | `DrawnInside` |
| | `FontsRead` | `GlyphsFound` |

*Slab heap.* None of the invariants is inductive: free believes the header in
front of a block; the header is right because the bitmap gave the slot out once;
the bitmap's chunk is mapped because it is unmapped only with no bit set. `HeapInv`
ties the four structures; `CallInv` adds what the search knows (every chunk passed
is full, so adding one in front leaves no empty chunk behind, which
`EmptyChunkIsAlone` needs) and that the block realloc has obtained is not yet
anybody's. Each action's effect on the heap is one lemma (`TakeSlotInv`,
`NewChunkInv`, `ReleaseChunkInv`, ...), used by malloc and realloc alike.
`NothingLeaks` says that a chunk is reached from its list's head. `Reached` is the
least set closed under `next`, written as the intersection of all closed sets and
not as a recursion, so that it can be reasoned about: `NewChunkReached` and
`ReleaseChunkReached` show, for any set closed under the new links, that adding or
removing a chunk makes it a set closed under the old ones. `HeapGeometryProofs`
proves the arithmetic, non-linear as it is: the page loop has an end
(`PagesSuffice`), the slots fit (`SlotsFit`), and free's division inverts malloc's
multiplication (`SlotPlace`).

*Chunk sizes.* `Shaped` proves of the three loops of sizing, by their loop
invariants (`LevelKept`, `PagesKept`, `BitsKept`, together `SizingInv`), that they end
at the closed forms `Heap` relies on; `Chunks` is the same in `Memory`.

*Bump heap and large blocks.* heap_curr is the kernel's break, blocks are
disjoint, and none is smaller than what was asked. The invariant: the break is
aligned, every block of the bump heap ends at or below it, and blocks of the other
path carry the room they were mapped with. Sizes near `WORD`, which wrap, are
included.

*operator new.* Null is answered only for want of memory. That a call which began
with a releasing handler gives up only for more than all the memory needs the
disjunct in `NewInv`: while the call lasts, either a handler that releases, or
installs one that does, is still there, or there is none and no block is left.

*call_once.* A frame past the exchange owns its flag, no two frames, of one thread
or of two, own the same flag (`OwnerInv`), and the flag's word and its effect are
where that frame is (`FrameInv`, `FlagInv`). `Needs` is arbitrary here, cyclic too.
`NoLock` looks at a set of threads that wait for each other: each frame of a stack
is needed by the one below it (`ChainInv`), so the flags they wait for are a set
that `Needs` never leaves and each of whose members is needed by another, for which a
cycle has to be there.

*Streams.* `Orderly` (a buffer, zeroed memory, no start limit) is supposed
throughout, since the two violated runs show that nothing holds otherwise.
`TypeOK` is not inductive: that fputc's store lies in the buffer follows only if a
full buffer can be flushed, and fflush does nothing to a clean one. `IInv` says
what makes it so: a dirty buffer has limit 0 and bytes in it, and while the
program may write the buffer is empty or dirty (`Writable`), which the program's
discipline (`mode`) upholds and each function of stdio.cpp preserves (`FlushInv`,
`FputcInv`, `FgetcInv`, `FreadInv`, `FseekInv`, `OpenedInv`). `Lines` supposes that
writes do not fail.

For the refinement each function gets a lemma on what the program sees of it:
bytes put, taken, pushed back, or written out (`FputcEffect`, `FgetcEffect`,
`FreadEffect`, `FseekEffect`), with the position computed from offset, limit and
cursor; the heart is that two overlays in a row are one (`OverlayTwice`) and that
what the buffer holds is what the file holds there. `Implements` supposes
`Dependable`: besides `Orderly`, that a write is not short, since the code drops the
rest of one (`StreamMisuse` says what is lost), and that 255 is not among the
bytes, since pushed back it reads as the end of file. With the same reasons
`Positions` supposes full writes and `Ends` the absence of 255. Failing writes,
failing reads and short reads are allowed in all of them.

`Misused` is about any order of calls, with a buffer of any size but 0, any start
limit, line-buffered or not. `MisuseInv` adds to what is to be shown that a cursor
past its limit belongs to a dirty buffer (`Wide`), and that what waits while no
rule is broken is not empty. `Fronts` is about streams as fopen makes them, which
are not line-buffered: there the byte of the call itself is not yet in `put`.

*exit.* `ExitInv` says of every call on the stack of calls of exit what it has
behind it: handlers due and passed have run (`DueRan`); a handler has run at most
as often as there are calls that have passed it (`Bounded`, by counting); until a
handler calls exit the order of `ran` is the reverse of the lists' (`InOrder`); and
a stream that is closed holds nothing (`Output`). Handlers register others while
the loop runs, so the loop's index has to stay right in a growing list
(`Registers`).

*Directories.* `DirectoryInv`: a slot in use has an open descriptor and no other
slot has it; until a handle is closed twice, an open handle is the only one on its
slot (`Held`); and a descriptor whose records all fit and whose reads were all whole
is in step with its listing (`Reads`). *Network.* Turning bytes round is its own inverse (`Swap`), and the mask of
a prefix has that many ones (`PrefixMask`), for all addresses and lengths;
`SocketsHeld` and `Told` relate what was set, what is read back, and the sizes. Of a
call of recv that fails `SizesTold` says only what the cut to 16 bits leaves true: it
passes for no datagram below 65535 bytes.

*Vectors.* `VectorInv`: every vector is `VecOf(e, n, {})` for some sequence `e` of
values and capacity `n`, that is, an array of `n` slots whose first hold `e` and
whose others are raw. For each helper of `Vector` one lemma says what it makes of
`VecOf(e, n, f)`, whatever faults `f` there were (`MovedVec`, `ReservedVec`,
`VecResized`, `VecErased`, ...): a sequence operation on `e`; only the resize that
assigns adds a fault, and only a call given an own element reads a freed one. `LivesOnce`, `SlotsMatchSize`
and the refinement (`VectorMoves`) all follow from these lemmas. That the loop of
`reserve` finds a capacity is `EachPower`, about doubling.

*Strings.* `IsStr(o, t)`: the array of `o` begins with the text `t` and a 0 behind
it, or there is no array and no text. The lemmas are those of vector again, with
the undefined reads: the characters a call leaves are those of the promise unless
it read something it had no right to, and then `Excused` says in which of the
three situations of `FaultsFrom` it was.

*sort.* The invariant of a recursive sort with the calls made explicit is
`InOrder`: of two positions, either some call still open has both, or the elements
there are in order. It holds at the start, where one call has all, and says at the
end, where no call is open, that the sequence is sorted. A turn of the partition
only exchanges elements inside its call (`RearrangedOrder`); what a split
separates is in order because of the pivot. That the two scans stop inside the
range, with no test that they do (algorithm:42-43), is the part of `Parting` that
names for each scan an element that stops it: first the pivot itself, then one
that was exchanged to the other side. `Deep` gives the depth: the call in place
q has at most the length over 2^(q-1), because the shorter part is the one that
is called. `Kept` says that elements move and none is lost.

*rotate.* `Turning` says where every element is to be found in the middle of the
loop: `SourceOf` names the place the element due at `k` has at present, among what
follows `next`, what lies between `middle` and `next`, and what lies between
`first` and `middle`. A turn moves these places along. For the iterator that is
answered, the common divisors of the two lengths left to turn stay those of the
two given, as in Euclid's algorithm, and when the first is 0 their greatest is the
second (`DivisorsOfOne`).

*Processes.* `TextInv` counts every text in all the places where it can lie: the
console, the file, the pipe, what was read, and the two buffers. The count is at
most 2, at most 1 for a text that fork did not double, and not 0 unless the text is
lost. Each call is first shown to be one of six things (`Effect`): it changes no
text, prints one, writes the buffer somewhere, loses it, fetches a front of the
pipe, or doubles the buffer; the invariant is then proved for the six and not for
the calls. `Own` says that a process that never closed an end by itself has the two
ends in its object, so that the destructor closes these. `PipeInv`: what was read,
what lies in the pipe and what waits in the child's buffer is one rising row.

*Windows.* `WindowInv`: the requests in the queue are in order (`InOrder`: a window
drawn is there, was destroyed, or is asked for earlier in the queue), a waiting constructor's request or its answer is before it (`AnswerComing`), and a
window with memory is known to the server, was destroyed, or its request is in the
queue (`WindowsThere`). `AnswersOwed` is inductive with these. `LateWindows`
follows by counting: each late window has a request in the queue of its own.

*Drawing.* `DrawInv`: a cached glyph of the font in use has the size of the cell in
use (`CacheFits`), and neither changes while a text is drawn (`JobFits`); clipping
is arithmetic on rows and columns, for cells and places of any sign and size.

*Font files.* `StoredSoFar` is the loop invariant over the directory: of each tag
the last record passed is the one stored; `NotYetFour` the one over the subtables.
Neither says anything of what came by chance: `ByChance` and `TablesKept` bound its
type, and `GlyphDataFound` speaks of files that have a `loca` and a `head`.

Where a proof needs induction over numbers it takes a least element
(`NatLessThanWellFounded` and `WFMin` of the library, in `LeastOf`), which needs no
operator as parameter. The powers of two that bound sort's depth are counted as sets
of subsets (`PowerDoubles`), and those that bound a capacity are listed
(`EachPower`): 2^n has no recursion that the provers could unfold.

**Model-checked only,** and why:

* Liveness (`CallReturns`, `CallsReturn`, `CallsEnd`, `MemoryEnds`, `TextEnds`,
  `DesktopProceeds`, `SystemEnds`): it needs ENABLED and well-founded induction
  under fairness, which TLAPS has not got here.
* `PrintsWhatIsMeant`, `ReadsWhatIsPrinted`, `StringsKept`, `TextDecoded`: what loops
  over digits, characters and bytes compute is defined by recursion or folds over
  the data, and the provers can neither unfold those for every input nor take the
  operator that an induction rule has as its parameter. These properties also
  speak of the meanings that `MCText` gives with the calls it lists.
* `OutlinesFilled`: the contours are folds, and the crossings of a row are sorted by
  an operator of the community modules.

## Disagreements found

PROJECT.json quotes the lines. Two are runs that TLC finds violated:

* `fopen` leaves `limit` and `unget_count` as malloc's memory has them
  (stdio.cpp:210-219). When that is the memory of a closed `FILE`, `fread` takes
  limit - cursor bytes out of a buffer nothing was read into. `StreamRecycled`; a
  stale `unget_count` is in the model too and not what the run shows.
* `stdout` starts with `limit = 1024` (myos.cpp:340), so `ftell(stdout)` subtracts
  a read-ahead that never was. `StreamStdout`.

The others are in the models as the code has them, in the definition named:

* stderr's buffer, "allocated" by its comment, is null with size 0
  (myos.cpp:353-354): the first character is stored through it. `Fputc` of
  `Stream`: `Fflush` of a clean stream does nothing, and the store follows.
* printf parses a width and does not use it (stdio.cpp:83, 111). `Directive` and
  `Number` of `Printf`.
* An unknown directive after `%l` prints its last character twice
  (stdio.cpp:154-157). `Long` of `Printf`. `PrintsWhatIsMeant` claims nothing of
  the text and the count of calls with one of these two (`DisputedPieces` of
  `MCText`), only that they end and stay in the buffer.
* `%%` in a scanf format skips nothing (stdio.cpp:374). `Other` of `Scanf`.
* `strncpy` writes zeros without end when the source is longer than n
  (cstring.cpp:115). `Strncpyed` of `CString`; `StrncpyPads` claims that nothing
  behind the n bytes changes only of sources that end within them.
* `strcmp` has the wrong sign for bytes 128 or more apart (cstring.cpp:57, 67).
  `SignedByte` of `CString`; `OrderedAsBytes` asks for the sign only of bytes closer
  than that.
* `setFont` keeps the glyphs of the old font and cell size (include/myos:236, 243).
  `setFont` of `WinDraw`; `OwnGlyphsFit` speaks of what was filled since.
* `Socket::recv` answers 65535 where its declaration says -1 (myos.cpp:768,
  include/myos:266). `SizesTold` of `Network`.

Passing properties also state behaviour that no document of the repository
speaks of and a user should know: `atoi` drops the sign (`AtoiReadsMagnitude`);
`vfscanf` reads the whole input and never returns for a literal in the format
(`NoEndAtLiterals`, `Settled`); the constructor of `Window` loses an event that
comes before the answer (`OneEventEach`); what moved-from strings, self-append
and growth read (`FaultsFrom`); `resize(n, value)`, which assigns to elements never made, and an own element given
to `push_back` or `resize` (`FaultsFrom` of `Vector`); `rotate`'s answer (`Rotates`); a byte stored behind a stream's
buffer, and bytes written back behind themselves (`OutsideByOne`,
`ReadAheadClean`).

## What is not modelled

System calls without state in the library (queries, timers, console, power,
chdir, mkdir, unlink, rmdir, getpid) have nothing to check on this side of the
call. Floating-point functions have no property TLC can evaluate. Of the random
engines and the bit functions only what other parts use (`bit_ceil`) is modelled:
the rest is 64-bit mixing, equal to its own definition. Of a glyph the decoding of
flags and coordinates is left out, the points being given, and `int` overflow of
coordinates; of `WinDraw` the shapes other than text. What a handler of exit may
read from stdin, which is closed on one way out of main and open on the other, is
nowhere stated and has no property. In `Byte` of the streams the value 255 is left
out: pushed back, it reads as end of file. Requests within 16 bytes of 2^64 are
excluded from `Heap` by `HeapAssumption` and checked in `BumpHeap`.

## What stays open

The model is complete as far as the sections above say. Of the safety properties
that runs check, the five named under *Model-checked only* have no theorem. For
`OutlinesFilled` and `TextDecoded` that could change with the loops of `Glyph` and
`Utf8` written as steps over one element, as those of `Vector` and `Algorithm` are;
the meaning of a format needs a definition of numerals that is not recursive.
Liveness waits for a prover that has fairness.
