# A TLA+ development of uwin

uwin runs a 32-bit Windows program (Heroes of Might and Magic III) on a foreign
host. The program's x86 code is executed by the halfix emulator (`USE_HALFIX`,
the default) or by a just-in-time compiler (`USE_JIT`). The Windows API is
provided by guest DLLs (`src/uwin/target_dlls`), which call the host through a
syscall; the host side (`src/uwin`) keeps handles, threads, message queues,
files and surfaces. Paths below are relative to the repository root, which is
`src/` in PROJECT.json.

## Inventory

| component | state | operations | interacts with |
|---|---|---|---|
| handle table (`handletable.cpp`) | `handle_table`, `next_handle`, `mut`, reference counts of the objects | put, put_dummy, get, get_dummy, newref, delref | every syscall that takes a handle; threads and surfaces are objects in it |
| threads (`thread.cpp`) | per thread `running`, `suspend_request_count`, `suspended`, `self_handle`; the handshake's parameter | create, suspend, resume, leave, wait | handle table, cpu loop, message queues |
| cpu loops (`halfix_cpu_loop.cpp`, `jit_cpu_loop.cpp`) | `exec_lock` (JIT) | run a slice or a block, enter and exit a syscall, break | threads, syscalls, block cache |
| message queue of a thread (`win32_mq.cpp`) | linked list, mutex, semaphore | post, try_pop, pop | posted to by guest threads and by the main thread |
| message pump (`main.cpp`, `sdl_ui_gmq.cpp`, `win32_mq.cpp`) | SDL's event queue, subscription list | gmq_post, gmq_poll, subscribe, publish | main thread, message queues, handle table |
| critical sections (`KERNEL32/kernel32.c`) | `LockCount`, `OwningThread`, `RecursionCount`, a ksem | initialise, enter, leave, delete | ksem, in guest memory |
| events and waits (`kernel32.c`, `kmut.h`, `kcond.h`, `ksem.h`) | event state, mutex, condition variable | create, set, wait with time-out, wait for several | handle table (dummies), threads |
| surfaces (`ksurf_sdl.cpp`) | requests on the stack of the asking thread | alloc, free, lock, blit, fill | executed by the main thread |
| memory map (`memory_map.cpp`) | `map_base`, protections | map fixed, map dynamic, unmap, protect | loader, threads, surfaces |
| loader (`ldr.cpp`, `INIT/init.c`) | module table, list of init routines | load module, resolve import, load executable | memory map |
| block cache, executable memory (`uwin-jit`) | map from addresses to blocks, predictions; boundary tags | get block, compile; alloc, free | cpu loop of the JIT |
| code generator (`uwin-jit/aarch64_code_generator.cpp`) | the guest's registers and EFLAGS in host registers | one emitter per instruction | blocks |
| interpreter (`halfix/eflags.c`, `ops/arith.c`, `opcodes.c`) | `lop1`, `lop2`, `lr`, `laux`, `laux2`, `eflags` | one routine per instruction; flags worked out when read | cpu loop of halfix |
| decoder (`halfix/decoder.c`) | `rawp`, the copy `prefetch` of bytes from two pages, `seg_prefix`, `sse_prefix`, `state_hash` of a thread | decode a trace of up to 32 instructions | cpu loop of halfix |
| SIMD unit (`halfix/ops/simd.c`) | `xmm`, `mxcsr`, the MMX registers inside `fpu.st`; softfloat's status | SSE, SSE2 and MMX instructions, LDMXCSR | cpu loop of halfix |
| FPU (`halfix/fpu.c`) | stack, tags, control and status word of a thread; `partial_sw` and `bits_to_clear` of the process | x87 instructions, FXSAVE, FXRSTOR | cpu loop of halfix |
| wave output (`WINMM/winmm.c`) | pending and enqueued buffers | write, reset, the polling thread's messages | critical sections |
| files, configuration, time, USER32, DDRAW, stub DLLs | see PROJECT.json | | |

What is hard here: guest threads are host threads, and their syscalls run
concurrently even in the JIT build, where `exec_lock` serialises guest code
only. Several protocols rest on fields that are read without a lock
(`suspended`, `OwningThread`, `LockCount`, `map_base`), on two primitives used
together (semaphore and mutex of a message queue, LockCount and ksem of a
critical section), on objects that are freed by one side of a handshake, and on
waits that end only if somebody else does something. Apart from concurrency
there are two pieces of arithmetic that no test of single instructions
reaches: the interpreter works flags out long after the instruction that left
them, and the JIT gets them from a host whose flags are those of full
registers. PROJECT.json lists these places under "hazards", with the
properties that cover them or the reason why none does.

What makes each component correct:

- handle table: an object lives exactly as long as it has open handles; a
  closed handle never comes to mean another object; the pointer handed out by
  `uw_ht_get` stays valid while the handle is open; every operation unlocks;
- message queue: the list, its two ends and the semaphore agree; messages come
  out once, in order, and all of them;
- critical section: it is a recursive mutex without lost wake-ups;
- execution lock: one block at a time; never lost; not held in a syscall;
- threads: the handshake frees its parameter last; a handle means a started
  thread; suspend returns when the thread has stopped; wait returns when it has
  left;
- message pump: a subscriber gets every message, a dead one leaves the list;
- events: a wait succeeds only if the event was set; the mutex is really held;
- surfaces: the requester sees its result, and its stack is not touched later;
- memory map: no two live mappings overlap;
- loader: every module is loaded once, and initialised after its imports;
- block cache: no thread executes a destroyed block;
- executable memory: blocks tile their chunk, and none is given out twice;
- interpreter and code generator: results, flags and conditions are those of
  the x86, whatever instructions follow each other.

## Modules

```
Fifo <- Win32Mq        RecursiveLock <- CriticalSection     Heap <- XmemAllocator
X86Flags <- LazyFlags       X86Machine <- Interpreter, JitCode   (A <- B: B implements A)
ExecLock <- BlockCache      MemoryMap <- Loader            (B extends and composes A)
X86Flags <- X86Machine      LazyFlags <- Interpreter       X86Decode <- Decoder   (B extends A)
CriticalSection <- CriticalSectionHalfix
HandleTable, ThreadLife, MainLoop
```

Each component has an MC module with a configuration of the same name, and those
that are proved about a module `...Proofs` (`BlockCacheProofs` is also about ExecLock,
`LoaderProofs` about MemoryMap); `MCEngines` has the two engines
that execute guest instructions.

### HandleTable

State: the mutex `mut`, `next_handle`, `handle_table` (a function whose domain
is the set of open handles), `use_count` and `alive` of the objects, and for
each thread the operation it is in. A call is three steps (call, lock, body),
so that calls of several threads overlap; `uw_ht_get` has a fourth, the use of
the returned pointer after the unlock. `uw_ht_put_dummy` locks `mut` and calls
`uw_ht_put`, which locks it again. Locking a `std::mutex` twice is undefined:
the constant `RelockPasses` selects between a build where it returns (to see the
rest of the table's behaviour) and one where the thread waits for itself.
Handles are numbers below `HandleSpace` (2^32 in the code) and start at
`UserSpace` (2^31). `crashed` records a failed assertion or a bad cast; the
guest may call with any handle that was open when it called.

`next_handle` is never reset: after 2^31 handles it wraps into guest addresses.
The theorems on handles therefore have the hypothesis that fewer have been
issued.

### Win32Mq and Fifo

`Win32Mq` has the linked list as pointers (`first`, `last`, `next`), a heap of
cells that are recycled, the semaphore and the mutex; each step between two
synchronisation operations is an action: `Alloc`, `PostLock`, `Link`, `SemPost`,
`PostUnlock` of a poster, `SemWait`, `PopLock`, `Unlink`, `PopUnlock`, `CopyOut`
of the owner (`uw_win32_mq_try_pop` and `uw_win32_mq_pop` differ in their first
step only). The owner may post to itself. `list` is a history variable: the
cells linked and not yet unlinked. `Fifo` is the abstract queue; a message
enters it with the post of the semaphore and leaves it when the semaphore is
taken (`abs_q`, `abs_res`).

### CriticalSection and RecursiveLock

Each access to `LockCount`, `OwningThread` and `RecursionCount` is an action;
they are guest memory without a lock. The semaphore is `ksem`, whose operations
are atomic under its own mutex. Only a thread that is inside leaves.
`RecursiveLock` is the abstraction: a holder and a depth.

An increment of `LockCount` is one step in `CriticalSection`, as it is in the JIT
build, where `exec_lock` lets one guest thread run at a time. The interpreter has
no such lock and its LOCK XADD is a load and a store of the host:
`CriticalSectionHalfix` splits the increments and decrements in two.

### ExecLock and BlockCache

`ExecLock` is the loop of `uw_cpu_loop` in `jit_cpu_loop.cpp`: look the next
block up without the lock, spin, execute, clear; in between a syscall, which
clears the flag on entry and spins on exit; `uw_thread_leave`, which clears it a
second time through `uw_break_cpu_loop`. `breaks` counts the calls of the latter.

`BlockCache` puts the look-up in: `cache` maps addresses to blocks, `blocks` are
all blocks ever compiled, `work[t]` the activations of
`get_native_basic_block_recur` of a thread. A block's prediction is filled in by
the recursion, to `MaxDepth`. To insert a block for an address that has one
destroys the older one; `raced` is set when two threads are compiling one address
at a time. `Predicted` is what the compiler knows of the successors of a block,
`Jumps` what they really are.

The map is a `std::unordered_map` that nothing guards, and a look-up or an insertion
of any address may rehash or relink what another thread is in the middle of reading.
So `find` and `cache[eip] = ...` have a beginning and an end each (`Reading`,
`writing`), and `overlapped` says that a write has been under way together with
another access, of whatever address. From then on an access may miss a block that was
filed, come upon an older one of the address, or a node without a block (`Meets`,
`FindUnfilled`), `MaxAfter` times. It may also crash or go round for ever, as a thread
may that uses a destroyed block: a crash is a behaviour that ends there, so that the
safety properties need no state for it, and the liveness property claims nothing once
one is possible (`~Sound`). What a wild pointer does to memory without a crash is not
modelled.

### ThreadLife

`uw_thread_create` in the creator and `host_thread_entry` in the new thread, step
by step through the handshake; `uw_thread_suspend` with its busy wait,
`uw_thread_resume`, `uw_thread_wait`, `uw_thread_leave`, the close of the handle;
and the suspend check of the halfix cpu loop. `ChecksSuspend = FALSE` gives the
cpu loop of the JIT, which never reads `suspend_request_count`: there
`uw_thread_suspend` of a running thread spins for ever. A thread is named by a
handle the guest got from `uw_thread_create`, or by the number that
`GetCurrentThread` returned in it, which is `self_handle` itself and which any
thread of the guest may have been told (`known`); numbers the guest makes up are
not modelled. The first thread is in its cpu loop at the start
(`uw_start_initial_thread` has run the same handshake in main).

`CloseHandle` accepts the number of `GetCurrentThread` (`ksvc.h:110` only asks not to),
so there are two ways to lose `self_handle` while somebody still needs it. The
created thread may have left, or may have closed the number, before the creator
duplicates it; or the number is closed and the thread leaves afterwards. The
assertion in `uw_ht_newref` or `uw_ht_delref` then fails, and
`SelfHandleLostByLeaveOrClose` says that there is no third way. `uw_thread_destroy`
frees nothing at this commit, so a thread outlives its handles.

### MainLoop

The main thread (`main`) takes events from `events`, publishes mouse messages
to the subscribed threads under `subMut`, and executes surface requests. Guest
threads subscribe, ask for the allocation, the use or the free of a surface, and
leave. `open` are the open handles, with the mutex `mut` of the handle table.
The request is on the stack of the thread that asks: `rq[t]`, `done[t]`, and the
place of `t` in `execute_remote` (test of the predicate, between test and
sleep, asleep). `done` is set without the mutex and the condition variable
notified afterwards, so a notification can be lost, and it can come after the
requester has returned; `Notify` then does nothing or takes the process down.
`uw_ht_delref` destroys a surface with the table's mutex held, and the
destructor waits for the main thread, which may wait for that mutex in the
publisher (`FreeDeadlock`). `ksurf_sdl.cpp:17` has a placeholder where the type
of the request event should be registered; `SurfEventRegistered` says whether
it is (the run says yes: otherwise no request is ever executed).
`log`, `since`, `effects` and `requests` are history.

### MemoryMap and Loader

`MemoryMap` has `map_base` and the protection of each page. A call
(`uw_target_map_memory_dynamic`, `_fixed`, `uw_unmap_memory`,
`uw_set_memprotect`) is a sequence of steps, one per access to `map_base`, which
has no lock. Pages are the unit; whether an address and a size are whole pages of the
host (and the size not 0, for which mmap fails) is a field of the call (`whole`), and a
call that is not fails its assertion. `clashed` records that two calls have
overlapped in time, or that a caller chose a range that was taken or lies outside the
space, which nothing checks; `oom` that a request did not fit, `aborted` a failed
assertion, `spoiled` the pages whose protection was changed by a call about other pages:
`uw_set_memprotect` changes the pages at `map_base`, not those it is given.
`AbortMeansExhausted` has to except `map_base = Pages`: `uw_target_map_memory_dynamic`
hands out a range that ends with the space (`<=`), `check_memory_range` refuses one (`<`),
so the owner of the last page can neither commit nor unmap it.

`Loader` has the recursion of `load_pe_module` per thread (`stack`), the module
table, the list of init routines, the set-up of a thread (GDT, TEB, TLS, guard,
stack, guard), the calls of the libraries' entry points by INIT, and of the
running program `LoadLibraryA`, `VirtualAlloc`, unmapping and `CreateThread`;
meanwhile the main thread maps surfaces. An image without relocations
(`graph.fixed`), library or executable, is mapped at its ImageBase over whatever is
there, and so is `VirtualAlloc` at an address (`AllocateAt`; `Commit` when the range is
the program's). `VirtualAlloc`, the stack size of `CreateThread` and the headers of an
image pass on sizes and addresses that are not whole pages. The process ends when a
file is missing or no PE image (`Unloadable`), when an exporter lacks a symbol
(`Links`), and when `DllMain` returns FALSE. A module enters the table only when it
is complete, so that a cycle of imports recurses until the host's stack is full
(`StackMax`, deep enough for every module inside another: only a cycle overflows it). What a
module imports, itself or through others, is the least closed set with its imports (`Imports`);
`LoadLibraryA` with a directory in the name calls an entry point again;
the entry point of a library is called even when it is 0.

### XmemAllocator and Heap

`alloc` and `free` of `executable_memory_allocator.cpp` on the headers of a chunk
(`mem`), the list of free blocks in its order, and the two counters from which
the release of a chunk is decided. A mutex makes an operation one step. The writes
to headers are operators of their own (`Put`, `Drop`, `Tag`; `Cut` and `Join` are made
of them), of which the proofs say what they do. `Heap` is the promise: pieces large
enough and disjoint.

### X86Flags, X86Machine, X86Simd, X86Fpu and X86Decode; LazyFlags, Interpreter, JitCode, Simd, Fpu and Decoder

`X86Flags` is the architecture: every instruction leaves its result and the six
flags at once, or any value where they are undefined. `X86Machine` adds what an
instruction does to registers, memory, the stack and EIP: it reads all it reads
before it writes anything, and of two destinations the manual says which is
written last.

`LazyFlags` is the interpreter's arithmetic: what each instruction stores
(`lop1`, `lop2`, `lr`, the method, the corrections of sign and parity, the
explicit carry, auxiliary and overflow flags) and how each flag is worked out of
it by the instructions that read one. `Interpreter` has the handlers around it, in
the order in which they read and write: operands in registers, immediates and
memory, pushes and pops, relative jumps cut to the operand size, and string
instructions, a call of which moves at most `Chunk` elements and is made again.
`JitCode` is the code the JIT emits: host operations on full registers, the
fix-up of carry, overflow and sign of narrow operands, EFLAGS, and the operands
of the instructions that move (registers and memory that may be the same cell,
the stack). In all of them an instruction is a step, and the actions enumerate its
operands. The memory of the JIT's machines has cells of half a register, so that an
operand of 16 bits is one cell and one of 32 bits two. They implement the architecture,
except after the instructions that
`Deviates` and `DeviatesOn` list; every disjunct was seen to be needed.

In the interpreter: SHRD of 16 bits by 16 loses its carry; DAA and DAS
(`opcodes.c:2097`, `:2115`) leave the corrections of an earlier instruction in
`laux`; CALL through ESP jumps to the ESP after the push; ENTER with a nesting
level above 1 copies one frame pointer several times; BT, BTS, BTR and BTC on
memory take a negative offset for a large one, and let an immediate offset above
the width move the address. In the JIT: IDIV takes a negative divisor as
the large positive number of its bits, for it is loaded with zeros above and divided by
in 64 bits (10 / -1 gives 0, remainder 10); the loop of CMPSD compares bytes; PUSH and
POP of 16 bits move 32; CMPXCHG does not load EAX when it fails; SAHF
takes the flags from AL and not from AH; SHLD and SHRD by a multiple of the
register's width (32, 64, ... before the count is masked) change flags; REP SCAS
and CMPS with a count of zero change flags; POP into ESP or to an address formed
with ESP; XADD of a register with itself; REP MOVS on overlapping operands copies
as `memmove` does. PF and AF are not kept at all, as the source says, though JP
tests PF: `Tracked` leaves them out.

`X86Simd` says what an SSE, SSE2 or MMX instruction does to registers, memory,
flags of exceptions and the transition into MMX mode, and which fault it takes;
`Simd` has the decode tables of `simd.c` and its handlers, in the order in which
they read cells, write results and look at exceptions. A register is a sequence
of cells; an arithmetic on floating-point numbers is a parameter (`Float`,
`Raises`, `Relation`), for softfloat is vendored. In a run an LDMXCSR is followed
by any instruction, and `Deviates` names the parts of the machine an instruction
may leave different from X86Simd:
- results: subtraction of bytes, words or doublewords when source and destination
  are one register; PSRAW and PSRAD by a count of the width or more (0 instead of
  the sign); PAVG, which does not round up; PSLLDQ and PSRLDQ by 0, by other
  counts below 8 bytes, and by 32 or more; SHUFPD with bit 1 of its immediate clear; UNPCKLPS and UNPCKHPS of
  a register with itself; MOVQ2DQ and MOVDQ2Q (one register number for both);
  MOVLPS from memory, which is run as MOVHLPS; RCPSS and RSQRTSS, which write the
  packed result; CMPPS with "not equal" on unordered operands;
- exceptions: the result is written before an unmasked exception is taken; the
  masks are those of the thread that loaded MXCSR last, for softfloat's status is
  one for the process (hazard `simd.c:17`); #GP on alignment is missing from some
  instructions and raised by others that have no such rule;
- MMX mode: exponents are set to ones for the source register too and not set by
  PSLLx; PINSRW from memory and the conversions between MMX and XMM registers
  make no transition.

A thread starts with OSXMMEXCPT in CR4 and without OSFXSR
(`halfix_cpu_loop.cpp:116`): until the guest writes CR4, which MOV does not
restrict to the system, every SSE instruction ends the process with an invalid
opcode. The run has that state as well as those with OSFXSR.

`X86Fpu` is the x87 unit: the stack of registers and which of them are full, the
control and status words, exceptions that are noticed before an instruction or
with its result, the pointers to the last instruction, the environment. Numbers
have a class, a sign and a magnitude, and their arithmetic is a parameter.
`Fpu` is `fpu.c`, a definition per case of its two big switches; its tag word and
the exceptions softfloat collects are those of the thread, and `partial_sw` and
`bits_to_clear`, the bits a store has still to commit to the status word, are the
statics of the process (`cpu`): in a run a store of any thread (`Before`) comes first, then any
instruction (`Run`), and another thread's store may fall between the two halves of
a store. `Deviates` lists:
- stack: only `fpu_check_push` answers an overflow; every other overflow or
  underflow is not recorded, produces no indefinite number, and inverts C1; FXCH tests
  ST(1) whatever it exchanges, FCMOVcc gives up only if both registers are empty,
  FPREM1 and FBSTP test nothing;
- exceptions: P is lost with O and U, and O, U and P with D; an unmasked O or U
  keeps the result from its register; FCOMI clears the flags before an unmasked
  exception; a denormal in memory raises D although the other operand is a NaN;
  FLDCW, FLDENV and FRSTOR do not wait for a pending exception, and FLDCW finds
  none that it unmasks; FSTENV does not mask;
- condition codes: FPREM1 leaves an old C1, FSIN, FCOS and FSINCOS an old C2; FPTAN
  pushes no 1.0 and looks at no exception;
- stores: what a store collected and did not commit, because an exception ended
  it or another thread's came in between, shows in a later status word;
- packed decimals: FBLD takes the digits in the wrong order and adds the sign as a
  bit; FBSTP writes the digits of a negative number's complement;
- the rest: undefined encodings that are executed or do nothing, the tag of -0,
  FWAIT under EM or under TS without MP, and the order of #GP and #NM in FXSAVE.

`X86Decode` reads the manual's opcode map of 32-bit code: prefixes, opcode,
ModR/M and SIB give the name of an instruction, its operands, its length and
whether its bytes can be fetched. `Decoder` has the tables and the decode
functions of `decoder.c`, with the measuring of an instruction before it is read
(`find_instruction_length`, by tables of its own), the copy of bytes that cross a
page, and the end of a trace. A handler is a name with the operands it accesses: a
register by where it lies in the register file and how many bits of it are read,
an address by base, index, scale, segment and the bytes of its displacement, a
constant by its bytes and what the handler makes of them. Code is 32-bit
(`state_hash` of a guest thread is 0). After an instruction that leaves
`seg_prefix` behind a second one is decoded. `Deviates` lists:
- LOCK is allowed by opcode: with a register as destination, on CMP, on FF /2 to
  /6 and on BT it passes; on NOT, NEG and 82 it is an invalid opcode. That error
  leaves the segment of a prefix for the next instruction that has none;
- an instruction of 16 bytes is accepted, and a longer one is #UD, not #GP;
- 0F 18, C2 and C4 to C6 are measured too short, so that the bytes behind a page
  are read unchecked; C8, CA, 0F 77 to 7D, C6, C7 and 0F BA with an undefined REG
  are measured too long, which is a page fault at the end of the last page;
- the last of 66, F2 and F3 selects an SSE instruction; both REP bits stay on CMPS
  and SCAS;
- 66 0F B7 and BF between registers move R/M from REG; LMSW of a register under 66
  takes another register;
- undefined forms run as their neighbours: 8F, 0F C7 with any REG, 8C and 8E with
  CS or segments 6 and 7, SIDT of a register, 0F AE /5 and /6 with memory, 0F D0
  (before the start of its table); 0F 00 /6 and /7 end the process;
- F1, 0F 08, 0F 33, 0F 19 to 1E and MOV of control registers with a memory form are
  #UD though they are instructions.

## Runs

| run | bounds | what it shows |
|---|---|---|
| handle_table | 2 threads; 2 dummies, 1 object; handles from 5 in a space of 8, 3 issued | lifetimes, dangling handles, releases and pointers in all interleavings |
| handle_table_relock | 2 threads, 2 dummies, re-lock blocks | violation: the first `uw_ht_put_dummy` keeps the table locked for ever |
| win32_mq | 2 posters and the owner, 3 cells, 2 messages | assertion and semaphore, refinement of `Fifo`, delivery |
| critical_section | 4 threads, nesting 2 | exclusion, owner, exact counts, a post per waiter, refinement of `RecursiveLock`, entry |
| exec_lock_break | 3 threads | violation: two blocks at a time after a thread has left |
| thread_life | 2 threads, suspend counts from -2 to 2, closing of handles and of the number of GetCurrentThread | handshake, suspension, how `self_handle` is lost, return of create, suspend and wait |
| block_cache | 3 threads, 3 addresses in a loop, recursion to 1, 3 blocks, 1 access after the table was damaged | code of the right address, the newest block cached, destruction and damage only by a race, progress |
| main_loop | 2 threads, 1 surface, 2 mouse messages, 2 requests | delivery to subscribers, one execution per request before its return, the ways to go wrong are the three known ones |
| loader | 28 pages (some runs of the program use them up), 5 import graphs, recursion to 5, 2 calls of the program; sizes of 1, 2 and of nearly twice the space (the sum wraps), 3 addresses of its own choice | disjoint regions, one load per module, initialisation before the program, guards, reasons for every end, and that loading ends |
| xmem_allocator | 2 chunks of 6 units (1 of overhead), requests of 2 and 6 | tiling with an exact free list, exact counters, release, refinement of `Heap` |
| critical_section_halfix | 2 threads, nesting 2 | violation: two threads inside when an increment is a load and a store |
| x86_engines | flags: registers of 16 bits, widths 8 and 16, boundary operands, two instructions and a reader; handlers: registers of 16 bits in 2 cells, 19 memory cells, 4 machines, 8 patterns of flags, chunks of 2; SIMD: cells of 3 bits, 4 values of the registers and 6 other states of the processor, 2 masks; FPU: numbers of 11 kinds rotated through the registers, 38 states of stack, masks and status, 2 digits of 100 in a packed decimal; decoder: 13 sequences of prefixes, 512 opcodes and 16 ModR/M bytes, every ModR/M byte with 5 SIB bytes on 4 opcodes, pages that end with the instruction or a byte before, 8 to 15 prefixes, a full trace; JIT: registers of 8 bits, widths 4 and 8, any flags, one instruction, a reader | refinement of `X86Flags`, `X86Machine`, `X86Simd`, `X86Fpu` and `X86Decode` but for the listed deviations |

Some properties group what belongs together: `ChunksTiled` is the tiling and the free
list, `BookkeepingExact` types and counters; `Accounted` of MainLoop is types, open subscriptions, the place of
each request and its result; `RegionsKept`, `LoadedOnce` and `EndHasReason` of
Loader, `CacheHoldsNewest` and `BlocksExecute` (look-ups end, and spinners get
in) of BlockCache, `WaitersAreServed` (with the exact `LockCount`) of
CriticalSection, `CallsReturn` of ThreadLife likewise.

The bounds. Two threads are enough for the handle table because the mutex
admits one body at a time, and what two threads can do to each other is to close
or use what the other holds; the three handles fill the space above
`UserSpace`, a duplicate, a closed one and a fresh one, so the run ends where the
counter would wrap. Three cells make the list empty,
single and longer and force cells to be reused while a pop is copying. Four
threads at a critical section are a holder, two waiters and a newcomer; nesting 2
separates the inner from the outer leave. Two threads are a creator that
suspends and awaits, and its creature. For the block cache three threads are two
that compile and one that executes, and the blocks are a loop with an
edge nobody predicts; a thread that compiles the second of them looks the first one up
while others compile it, and the third block may be a second compilation of an address.
In MainLoop two requests make one thread free a surface while another
subscribes or leaves, two messages show order. The import graphs are a diamond
of which the executable and one library have no relocations, a library loaded at run time
with an import that refuses, two that import each other, a missing file, and a
library without relocations that lies over the executable, with a missing symbol. The ranges of the
program's choice lie inside an image, over its end, and so that the sum wraps. Chunks of
six units hold the layouts up to three blocks, so that a free block has neighbours on both sides, free or not. For
flags, narrow widths keep what matters: the boundary between the operand's width
and the register's, all values of a 4-bit operand (the JIT) or the values next to
nibble, sign and width (both), counts below, at and above the width. The machines
of the handlers have pointers at both ends of memory, an EIP next to the cut of
16 bits, repeated bytes for the comparisons, and a count above a chunk; memory
wraps, so that an operand overlaps another, and the stack its operand. For SIMD,
cells of three bits make every operation on a lane one on 1 to 8 cells, with
values at the ends of the signed and unsigned ranges for the saturating ones, and
counts next to the width of a lane. Deadlock is
checked for the message queue; the others stop at a bound, in a crash, when
threads have left, or after their last instruction. The critical section's
threads may stay outside.

The three violations are listed under "findings" in PROJECT.json with the comments
they contradict. Deviations of the code that no comment or test contradicts are
named in the properties themselves (`LostWakeup`, `FreeDeadlock`, `Deviates`,
`DeviatesOn`, `Cyclic`, `raced`, `overlapped`, `clashed`), so
that the passing runs show that nothing else goes wrong.

## Fairness

- Win32Mq: a thread inside an operation keeps running (the host schedules it),
  the owner keeps popping (the guest's message loop, which drains the queue
  through USER32), and the mutex starves nobody for ever (strong
  fairness of the two lock steps). Nothing is assumed about new posts.
- CriticalSection: threads inside the functions keep running; a thread that is
  inside leaves in the end, at each nesting depth (a property of the guest,
  without which a waiter waits rightly); a waiter is not passed over for ever
  by the semaphore. Nobody is assumed to enter.
- ExecLock, BlockCache: looking up and compiling go on; blocks end or make a
  syscall; nothing is assumed of a thread in a syscall, which may block for
  ever; the flag does not evade a spinning thread for ever (strong fairness: the
  spinlock is unfair in theory, but every holder gives it up after each block).
  A look-up or an insertion in the table ends, as long as the table is intact.
- ThreadLife: steps inside uwin are taken, and guest code comes back to the cpu
  loop again and again, as `cpu_run` is called with a bounded number of ticks.
- MainLoop: the main thread runs, and so does a guest thread inside uwin. Sleeping
  on the condition variable is left only by a notification or spuriously, and
  nothing is assumed of the latter.
- Loader: somebody goes on as long as anybody can (weak fairness of the steps of all
  threads together), until the program runs; calls of the program are its choice.
- HandleTable: a thread that has the mutex goes on; the operations have no wait
  of their own.
- XmemAllocator and the engines: safety only.

## Proofs

The theorems hold for all threads, objects, cells, messages and bounds, under
the ASSUMEs of the modules: null values are not members of the sets they are
used with, the initial thread is a thread, bounds are natural numbers, the sets
whose cardinality is used are finite, an image or a stack is smaller than the
guest's space, imports name modules of the model (whose files may be missing) and
never init.dll, which has an entry point, and the host's stack has room for every module's
activation at once. Type invariants and some structural
invariants (`HandlesAreNotPointers`, `ListShape`, `CellsOwned`, `LockHasHolder`,
`HandleMeansStarted`) are proved and not repeated in the runs.

- **HandleTableProofs.** `IInv` is `TypeOK`, `ObjectLifetime` and two facts
  about calls: the mutex is owned by exactly the thread that is inside
  (`LockInv`), and the arguments of a call are what its body needs
  (`CallInv`). Counts change by one per entry that appears or disappears, for
  which the finite-set theorems are used. `HandlesNeverReused`,
  `HandlesAboveMemory` and `PointersValid` hold below 2^31 issued handles, the
  hypothesis that the wrap of the counter makes necessary.
  `DummyReleaseCorrect` follows from the exactness of the counts.
  `CrashCorrect` needs that a handle a thread has passed is open or was
  (`ArgInv`), which no step of another thread undoes: the table only aborts on the
  caller's mistake.
- **Win32MqProofs.** `IInv` adds to the checked invariants who holds the
  mutex (`MutexInv`), which steps posters are in (`OwnerInv`) and what a thread
  knows of its cell (`CellInv`). From it: the invariants, the assertion of
  `uw_win32_mq_pop`, the ownership of every cell, and that every step maps to a
  step or stutter of `Fifo`.
- **CriticalSectionProofs.** Mutual exclusion is not inductive: it needs that
  the right to the lock is a single token, which is with a thread inside, with
  one about to post, or in the semaphore (`TokenInv`), that `LockCount` is not
  -1 while the token exists (`CountInv`), and where `OwningThread` may name a
  thread (`OwnerInv`). The refinement of `RecursiveLock` follows. For
  `NoLostWakeup` the counter is made exact: `LockCount + 1` is the cardinality of the
  set of waiters plus the share of the thread inside (`ShareInv`), and while it is not
  0 the token exists (`ServerInv`), so a waiter has a post to come or one to take. The
  set of waiters is finite because it grows by one at a time; threads may be infinitely
  many.
- **ThreadLifeProofs.** One creator per created thread (`OneCreator`); the new
  thread holds the mutex around its store to `init_done`, so a creator that
  reads the store finds it past the handshake (`Handshake`); `running` and
  `handles` follow the thread's place (`Progress`). `SelfHandleCorrect` needs in addition where a
  thread is while `self_handle` is open, left or closed (`SelfHandleInv`).
- **BlockCacheProofs.** First the lock of `ExecLock`: `TicketInv` says that executors
  plus a clear flag are at most one plus the number of breaks, and `LockHasHolder` is
  inductive with it. Then `CacheSpec => Spec`: the cpu loop with its cache takes only
  steps of ExecLock, so that what is proved of the lock holds of the composition
  (`CacheKeepsExclusion`). On top of ExecLock's invariant `CacheInv` says that the
  return stack predicts only blocks that were filed (`PredictionsFiled`), the cache
  maps an address to the newest block of it (`CacheFiled`), a thread's current
  block is of the address it is at (`CurFiled`), what the activations of the
  cpu loop that a thread is inside of hold (`Stacks`), who is inside an insertion
  (`Writers`), and that until two threads have compiled an address at a time or accesses to the
  table have overlapped no block is destroyed (`NoRace`). That the cache has the
  newest block (`CacheFiled`) holds until accesses overlap; that a block is filed under its own
  address holds even then, for an access that finds anything finds a block of its key.
  `NewestCached`, `OwnAddressExecuted` and `DestructionIsRace` follow.
- **MainLoopProofs.** `IInv` ties the steps of the main loop to what it holds
  (`MainOK`), what was published to what each queue has received (`HistoryOK`,
  `PublisherInv`, `SubscriptionInv`, `DeliveryInv`) and each request to its one place (`RequestInv`).
  From it: the accounting, the delivery to subscribers, and that of the crashes modelled
  only the notification of a frame that is gone happens.
- **XmemAllocatorProofs.** `HeapInv`: every mapped chunk is tiled, forwards
  (`Onward`) and backwards (`Backward`), up to one greatest header, the terminator, and
  no two free blocks touch (`Chunks`); the list is injective and holds exactly
  the free blocks (`Linked`); the blocks in use are exactly the pieces handed out
  (`Held`). Lemmas say what writing, dropping and tagging a header do, that cutting, joining and
  refilling keep a layout, and what pushing and unlinking do to the list. After the first
  of free's two joins two free blocks may touch, at one place only, hence
  `Apart(h, E)`. Every alloc is a step `Handed` and every free a step `Taken`, from
  which the tiling, the emptiness of a chunk that is given back, and the refinement
  of `Heap` follow, for any sizes that meet `XmemAssumption`.

  `Counters` says that `total_size` and `allocated_size` are sums over the mapped chunks
  and over the pieces. A sum over a set is defined by recursion on its subsets, in the
  order in which CHOOSE picks the elements; what is needed of it (that it exists, that the
  order does not matter, what one element adds, that equal weights give equal sums) is
  proved by a counterexample of least size instead of induction (`SumsUpTo` to `SumAdds`).
  A step counts the block it hands out and the capacity of a new chunk (`Paid`), or takes
  both off again (`Repaid`): what a released chunk counted for is the size of the one free
  block in it, because that block begins at 0 and ends at the terminator
  (`ReleasedEmpty`). `FoldOfCaps` and `FoldOfSizes` show that the sums are the folds that
  `CountersExact` is stated with, and `BookkeepingKept` follows.

- **LoaderProofs.** About the memory map with all its callers: the loader, the set-up
  of threads, the program and the main thread. `Inv` says that unless calls have
  clashed (`clashed`: overlapped in time, or a range of a caller's choice was not
  free) everything is well (`Good`), and every step keeps that. `MapOK` is the claim about
  the regions; why `uw_target_map_memory_fixed` may raise `map_base` and map over what is there
  is that its range lies in a region the caller may use (`CallOK`), an image that is still
  mapped (`SecOK`) or memory it owns, or is free and about to become a region
  (`Reserving`, `Fits`). An image and a guard page must therefore never be unmapped: what is
  not the program's to give up is `Pinned`, and every step keeps pinned memory and guard
  pages (`PinnedKept`, `GuardsKept`). `SetOK` says where a thread has its guard pages
  before it has stored their addresses, and `Undisturbed` that what it maps next adjoins
  them. `RegionsStayKept` and `StacksStayGuarded` follow.

  What is loaded does not depend on `clashed`: `LinkInv` holds whether or not calls clash.
  It says of the recursion of `load_pe_module` that every activation waits for the one above it
  to load the import it has come to, and that what it has come past is in the table
  (`Waits`); so the table is closed under imports (`Linked`), and an activation stack deeper than
  there are modules shows a cycle (`OverflowsCyclic`, by the pigeonhole principle). `Started`
  follows the start of the process: the list of entry points has those of the table, once
  each and imports first (`Listed`), the calls of the initial thread follow the list
  (`Following`), and when it enters the program they have reached the end of it
  (`AllInitialised`). `Unraced` is about loads that have not overlapped: what is
  being loaded is not in the table and was mapped at most once. `ModulesLoadedOnce` and
  `ProgramIsInitialised` follow. A cycle of imports is an exception that the code makes:
  the modules are mapped until the stack overflows.

  `LowInv` is why an assertion of the memory map fails only for the reasons of
  `AbortMeansExhausted`: what the loader has mapped and goes on with lies below `map_base`
  (`Low`), so the range of every section, of a commit and of an unmapping is inside the space
  unless the last page is handed out; what remains is a range that is not whole pages, or one
  a caller chose. It needs `Good` (no clash) and that `map_base` only rises (`BaseGrows`).
  `CrashHasReason`, a part of `LinkInv`, has a case for each way out of the loader (`Lacks`,
  `Unlinked`, `NoEntry`); together they give `ProcessEndsForAReason`.

Only model-checked: the liveness properties (fairness and ENABLED are outside
the prover's reach), and that the engines do what the architecture says
(`InterpreterIsX86`, `JitIsX86`): both are compared with `X86Machine` and `X86Simd`, which are
built on the module `Bitwise`, and `Interpreter` has recursive operators; the prover
supports neither.

## Plan

1. Events and waits of KERNEL32, once their first step no longer panics.

## Not modelled

- Events and waits of KERNEL32: every wait asks for the type of its handle first
  (`SYSCALL_HT_GETTYPE`), whose case in `syscall.cpp:79` is a panic. `kmut_lock(-1)`
  passes a time-out of -1 microseconds, the 32-bit product of `kernel32.c:648`
  wraps above 71 minutes, and a wait that timed out would report success; none of
  this can be reached until the panic is gone.
- A guest that suspends itself, or threads that suspend each other
  (`thread.cpp:196`), spins: ThreadLife has these calls, but `CallsReturn` makes no
  claim about a target that is inside a syscall itself.
- Wave output: the kernel side is commented out at this commit.
- Files, configuration, registry, time, windows of USER32, DDRAW: one thread's
  bookkeeping over host calls; the stub DLLs return constants.
- In the interpreter: segments, far transfers, protected mode, port I/O, the slow
  paths of the TLB, the cut of 16-bit addresses, and XCHG of two byte registers with memory
  (`opcodes.c:1923` passes the TLB entry unshifted).
- In the decoder: 16-bit code, the cache of traces and the detection of code that
  is written to. A handler is what its name says; what it computes is in the other
  modules of the engines.
- softfloat, rpmalloc and printf are vendored code; the rest of the code generator
  is not modelled yet.
- Crashes outside what is modelled: failed assertions on host calls (`SDL_*`, `mmap` without
  memory, files that cannot be read to the end), the panics of the guest DLLs on parameters
  they do not know, and in MainLoop those of the memory map under a surface and the loss of a
  subscriber's `self_handle` to a guest that closes it (`win32_mq.cpp:44` asserts that it is
  open; ThreadLife has that close). `CrashIsLateNotify` is about the crashes MainLoop has.
- PE parsing, relocation, drawing, and the layout of windows. Of an image the loader's
  model keeps its imports, base and sections, which lie inside SizeOfImage, a page each.
