# A TLA+ verification of IPUpy

IPUpy runs a MicroPython interpreter on every tile (core) of a Graphcore IPU and
builds applications on top: a REPL made of thousands of REPLs, a Jupyter kernel,
and older one-tile examples with a file system. What is IPUpy's own, and hard, is
how these interpreters are *driven*: a Poplar control program runs compute sets in
bulk-synchronous steps, while the interpreters suspend themselves in the middle of
python code with `longyield` (a pair of `setjmp` / `longjmp`) and are resumed in a
later compute set. This project models that machinery, the heap each interpreter
works on, the terminal a user sees, and the applications, checks them with TLC and
proves the central invariants with TLAPS.

Paths below are relative to the repository (`src/`). `libIPUpy.c` is
`libIPUpy/libIPUpy.c`, the single-file copy of MicroPython with IPUpy's changes.

## 1. The system

| Part | State | Operations | Interacts with |
|---|---|---|---|
| Event REPL (`libIPUpy.c` 47481-47687) | mode (friendly, raw), continuation and paste flags, `repl_line`, start of the line being edited | one character; execution of the line; forced exit | readline; called by the multi-REPL's vertex |
| Coroutines (`libIPUpy.c` 38588, codelets) | `IPUpy_exit_env`, `IPUpy_checkpoint_env`, `checkpoint_is_live` | yield, resume, return | every application below |
| Multi-REPL (`examples/`) | `doneFlag`, `coroutineFlag`, `printBuf`, `inBuf`, `commsOutBuf`, `commsInBuf` per tile | `InitVertex`, `RuntimeVertex<true/false>`, `Any`, the copies and loops of the control program | host callbacks type a character and print the reports |
| Multi-kernel (`notebooks/multikernel_*`) | the same, and `displayBuf`; on the host the result queue and the display | init, `execute`, `getResult`, `getDisplay` | called by the front end through ctypes |
| Jupyter front end (`notebooks/ipumultikernel.py`) | lines gathered, block, repetitions, `first_display` | `do_execute`, `do_single_execute` | multi-kernel library, Jupyter messages |
| RAM disk (example 4) | the disk image | `readblocks`, `writeblocks`, `ioctl` | MicroPython's VFS |
| Exchange disk (examples 6, 7) | a block on tile 0, a byte of each block on each other tile, `rwFlag`, `diskPos` | the same calls, suspended at every exchange | storage vertices, VFS |
| On-chip shell (example 7) | `syscallArg`, `programSelector`, `vfsPos`, `inBuf`, `shutdownFlag`; the shell's line, history and suspended stack | system calls: a key, a block, a program, a host command, shutdown | the host and the storage tiles serve the calls; launched programs (examples 1 to 5, 8) use the same tensors |
| readline (`libIPUpy.c` 47940-48451) | line, cursor, escape sequence, history | one character; the bytes that redraw the line | called by the event REPL, writes to stdout |
| Host report (`multirepl_host.cpp` 158-183) | the last character; the terminal | passes tile 0's output through, or counts and trims everybody's | print buffers, the user's terminal |
| Heap (`libIPUpy.c` 588-1365, 48729) | allocation table, hint, mark stack, overflow flag | allocate, free, resize, collect | every python object |
| Port layer (`libIPUpy.c` 48700-48950) | stdout buffer, heap roots, relocatable arrays | `set_stdout`, `gc_collect`, `add_memory_*` | everything |
| IPUpyc, examples 1 to 3 | - | text preprocessing, one-shot runs | - |

What is hard: vertices of different tiles run in any order; the number of passes
of one round depends on the tile that yields most; one flag (`coroutineFlag[0]`)
is both tile 0's own and the loop's; two global jump buffers are rewritten by
some passes and must survive others; buffers are cleared in one pass and copied
to the host passes later; a queue is filled by a callback and emptied by another
process; an array that maps device memory can change its length; a collection
follows every pointer with a stack that may be too small; two programs make system
calls through one set of tensors; what the terminal shows is drawn by two parties.

What makes the parts correct: each character or piece is handled once by every
interpreter and its whole answer reaches the host; the coroutine loop ends, and
ends with nobody suspended; every `longjmp` goes to a frame that is still there;
`alltoall` collects the payloads of the same call; a report belongs to the run it
is shown for; a device holds what was written to it; a collection frees the garbage
and nothing else; the terminal shows the line that is being edited; a system call is
served once, by its service, before its caller goes on.

`PROJECT.json` lists every part with its status and the hazards line by line.

## 2. The modules

| Module | Models | Uses |
|---|---|---|
| `EventRepl` | what one character does to one REPL, as operators | - |
| `Multirepl` | control program, vertices, flags, buffers and jump buffers of the multi-REPL | `EventRepl` (one copy per tile), `ReplService` (refinement) |
| `ReplService` | abstract: one REPL made of many | - |
| `MCMultirepl` | the character sets of the runs | `Multirepl` |
| `MultireplProofs` | theorems about `Multirepl` | `Multirepl`, `TLAPS` |
| `Multikernel` | device program, host library and `do_single_execute` of the Jupyter kernel | - |
| `MultikernelProofs` | theorems about `Multikernel` | `Multikernel`, `TLAPS` |
| `KernelCell` | `do_execute`: cutting a cell into pieces | - |
| `KernelCellProofs` | theorems about `KernelCell` | `KernelCell`, `TLAPS` |
| `BlockDevice` | abstract: a block device byte by byte; it is what example 4 does | - |
| `ExchangeBlockDevice` | the disk of example 6 | `BlockDevice` (refinement) |
| `ExchangeBlockDeviceProofs` | theorems about `ExchangeBlockDevice` | `ExchangeBlockDevice`, `TLAPS` |
| `GarbageCollector` | the heap: allocation, resizing, mark and sweep | - |
| `GarbageCollectorProofs` | theorems about marking | `GarbageCollector`, `TLAPS` |
| `GarbageCollectorHeapProofs` | theorems about the allocator and the whole collection | `GarbageCollectorProofs` |
| `Readline` | what one character does to the line and writes to the terminal, as operators | - |
| `ReplTerminal` | friendly REPL, print buffers, host report and the terminal's row | `Readline` |
| `ReplTerminalProofs` | theorems about `ReplTerminal` | `ReplTerminal`, `TLAPS` |
| `MCReplTerminal` | letters, completions and texts of the run | `ReplTerminal` |
| `Shell` | the on-chip shell of example 7 and the programs it launches | - |
| `ShellProofs` | theorems about `Shell` | `Shell`, `TLAPS` |
| `MCShell` | example 5's messages | `Shell` |

### EventRepl and Multirepl

A REPL is a record with the fields of `repl_t`, the pending line as a sequence of
classes of bytes, and the start of the line being edited. `ProcessChar` is
`pyexec_event_repl_process_char`; it answers what the handler does next: return,
exit, execute the line, or never return. Execution is split off (`Executed`)
because a command may be suspended in the middle of it. Characters are classes:
the five control characters a handler names, carriage return, `A` (which raw mode
tells apart), any other printable byte, NUL, and a byte nobody names (0xFF, which
the host makes of the end of its input). `AddByte` stops at `MaxLine` bytes: no
handler distinguishes lines of three bytes or more.

In `Multirepl`, `pc` is the element of the control program being executed and
`ran` the tiles whose vertex of this compute set has run; a vertex is one atomic
action on its own tile's state, because a vertex sees only its own tensors and
memory until the compute set is over. `RuntimeVertex(v, t)` is
`RuntimeVertex<firstRun>::compute`, with `v = "first"` for `firstRun`. Its
disjuncts are the ways through the function: resume and yield again, resume and
finish, return early (`Idle`, after the buffer was emptied), handle the character
and finish, handle it and yield. `LongYield` is the byte code that saves the
checkpoint and jumps to `IPUpy_exit_env`; whether that marks the tile as suspended
depends on the *template variant whose frame the jump lands in*, which is why
`exit_env` is state. `frame` remembers on which frame the suspended stack sits.
`Any`, `Exchange` (the copy of `commsOutBuf`), `CopyPrintBuf`, `Stop` and
`TypeChar` are the elements of the control program.

The python text is the environment: for each character the user also decides how
often the command it may complete calls `alltoall` on each tile (`script`, equal on
all tiles unless `Divergent`) and whether the line needs a continuation (`more`, a
matter of each tile's text: without `COMMS` the texts differ once some tiles have
yielded and kept their line, so each tile's answer is its own). Commands terminate. Output is a set of pieces per tile, enough to tell whether something is
missing. A payload is the parity of the round and the number of the call.

### Multikernel and KernelCell

The device part has the same pass structure; a tile executes a whole piece, which
yields, prints one of a few texts and may set the tile's pixel. What the first
execution of a piece does on each tile is the user's choice (`piece`). Where `Any` has
raised tile 0's flag and tile 0 executes the piece again, it does so on globals the
first execution has changed, after its pixel and its buffer were cleared: what that
execution does is chosen anew (`Plan`), yields included, and `work` holds what the last
execution begun on each tile does. Texts and pixels
carry the parity of the run that made them, so that a stale one is recognised.
`Deduplicated` is the `printBuf-stream` callback, with the keys of its `std::map` in order (`InOrder`); `FetchResult`, `CountHidden` and
`NoMoreResults` are the loop of `do_single_execute` over `getResult`, with its
limit of 100 as `MaxResults`; `NotExecuted` is `execute` refusing a piece;
`Display` sends the picture. `KernelCell` is the loop of `do_execute`, one action
per branch, over cells whose lines are code or one of the two markers.

### BlockDevice and ExchangeBlockDevice

The methods `readblocks` and `writeblocks` are cut at their `longyield`s: each
stretch is an action that ends with `ExchangeBlock` or with `Return`. The storage
tiles move their byte in any order. Arrays are modelled with the slice semantics
of `array_subscr` (a slice assigned with another length moves the rest, changes
the length and clears what is freed), because the methods depend on it.

### GarbageCollector

`at` is the allocation table with one entry more than it has: the loops over a chain
(`ChainLen`, and `gc_free`'s) look at the entry after the last block, which lies in the
gap between table and pool; `TableWellFormed` says that nothing is ever written there.
Operations of the interpreter (`gc_alloc`, `gc_free`, `gc_realloc`) are atomic until they
need a collection, which is then taken apart: `CollectRoot` marks the next root's target,
`MarkChild` and `MarkPop` are the iterations of `gc_mark_subtree`, `RescanBlock`,
`RescanRound` and `RescanDone` those of `gc_deal_with_stack_overflow`, `Sweep` is
`gc_sweep`, whose loop has no choice to make, and `Retry` the second round of
`gc_alloc`'s loop, for an allocation as for a move. `Copy`, `Store` and `Drop` are what the
interpreter does to pointers; `gc_free` and `gc_realloc` are called by a buffer's only
owner (`SoleReference`), as `m_free` and `m_realloc` are. A freed block is overwritten with
`Stale`, so that a block handed out uncleared is seen. Finalisers and the allocation
threshold are off in this port's configuration (`MICROPY_CONFIG_ROM_LEVEL_MINIMUM`) and
left out; `MICROPY_GC_CONSERVATIVE_CLEAR` is on.

### Readline and ReplTerminal

`Readline!ProcessChar` is `readline_process_char` on bytes: which edit a character stands
for (`PlainEdit`, `BracketEdit`, `DigitEdit`, `EscOEdit` by the state of the escape
sequence), then `Redraw`, the end of the function, with the cursor commands written out as
bytes (`MoveBack` has the fast path, and the decimal number). `ReplTerminal` feeds the
characters to it as `pyexec_friendly_repl_process_char` does, one action per outcome
(`Type`, `Continue`, `Execute`, `Cancel`), cuts the output at the size of the buffer, lets
the host's callback (`Answer`) pass it through or report on it, and shows the result on the
last row of a terminal (`Display`, external). `dots` remembers whether the bytes 2 to 4 of
the print buffer, which the callback looks at, are dots: `IPUpy_set_stdout` clears the first
byte only. `synced` is FALSE while the host's own prompt stands in front of a line that is
not empty (after TAB) or part of the output was cut; the interpreters draw relative to where
they think the cursor is, so the row is meaningless until the next fresh prompt.

The constants have assumptions. Letters are none of the control bytes the code names
(`ReadlineAssumption`), and completions are made of them (`TerminalAssumption`). Lines stay below
1000 bytes (`BoundsAssumption`), as `mp_hal_move_cursor_back` asserts. What commands print
(`TextsAssumption`) holds no escape sequence and no backspace, and a carriage return in it is
followed by a newline: that is what `mp_hal_stdout_tx_strn_cooked` makes of the newlines of a
program that does not drive the terminal itself. A program that does, by printing an escape
sequence without a newline after it, can leave the cursor anywhere in front of the next prompt;
nothing is claimed about the row then.

### Shell

`pc` is the element of the control program; a step of a vertex is the python code between
two `longyield`s, and ends with `Yield`, a system call, or with `BodyEnds`, an exception
nobody caught. `at` says where the python stack is suspended. The control program's two
switches are `Switch`, `ReadKey` and `Launch`, and `Example8Switch` of the loop that runs
while example 8 does; examples 1 to 3 run at once. Example 8 has its own tile, checkpoint
and calls, but the same `syscallArg` and `vfsPos`. `call` and `served` are histories: what a
caller asked for last and what was done about it before it is resumed. What a line means is
a choice among commands that need nothing, move blocks, launch a program, call the host, or
raise. Example 5 is part of this module (`Example5Pass`): the same code, launched more than
once.

## 3. The runs

| Run | Instance | Checks | Result |
|---|---|---|---|
| `spmd` | 3 tiles, up to 2 yields, equal on all tiles, every class of character but `A` | `HandledOnce`, `ResponsesDelivered`, `Lockstep`, `NoDeafTile`, `CharacterAnswered`, `ImplementsService` | pass |
| `mimd` | 3 tiles, up to 2 yields each, freely; characters x, CR, CTRL-D | `TypeOK`, `NoAbandonedCoroutine`, `CheckpointFrameIsExitFrame`, `AllToAllCollects`, `OthersHandleOnce`, `LastResponsesDelivered`, `DoneIsFinal` | pass |
| `nocomms` | 2 tiles, up to 1 yield each, freely, build without COMMS, every class of character but `A` | `InterruptRecovers`, `ResponsesDelivered` | pass |
| `mimd_lost` | 2 tiles, 1 yield, freely | `ResponsesDelivered` | violated |
| `mimd_stuck` | 2 tiles, 2 yields, freely | `CharacterAnswered` | violated |
| `kernel` | 2 tiles, up to 2 yields, freely; 3 texts, 1 result shown | `TypeOK`, `ReportAddsUp`, `PictureIsOfThisRun`, `ExecutedOnce`, `PieceAnswered` | pass |
| `kernel_cell` | every cell of up to 6 lines, repetitions 0, 1, 2 | `EveryLineExecuted`, `PiecesAreRuns` | pass |
| `blockdev` | 2 blocks of 3 bytes of 2 values, writes that reach the end of the block they start inside | `TypeOK`, `BlockIsWhole`, `ImplementsBlockDevice` | pass |
| `blockdev_short` | the same, all writes | `OnlyWrittenBytesChange` | violated |
| `gc` | 4 blocks of 2 words, 2 roots, a mark stack of 1, up to 3 pointers in the heap | `TypeOK`, `TableWellFormed`, `ReachableIsAllocated`, `ReachableIsMarked`, `GarbageIsFreed`, `HintSkipsNothing`, `NothingStale`, `ObjectsKeepTheirBlocks`, `CollectionProgresses` | pass |
| `terminal` | 2 tiles, 2 letters, 2 history entries, a print buffer of 32 bytes | `TypeOK`, `ScreenShowsLine`, `EveryResponseReported` | pass |
| `shell` | 2 blocks, history of 1 line, 2 messages | `CallsServed`, `FormattedOnce`, `ShellComesBack` | pass |

What they show together: **the coroutine machinery is sound, the loop around it is
only meant for tiles in lockstep.** With tiles that call `alltoall` equally often
the multi-REPL implements the simple service (`spmd`). When tiles diverge, the
jumps, the exchange and the last tile's answer remain right (`mimd`), and two
things the README of the repository promises do not hold:

* `mimd_lost`: a tile that is not resumed has its print buffer emptied before it
  returns early, so the output of a tile that finished in an earlier pass never
  reaches the host.
* `mimd_stuck`: a tile 0 that is done returns before it clears the flag that `Any`
  set for another; `Any` then finds that flag itself, and the loop never ends. The cause
  is that `Any` writes the disjunction of all flags to `coroutineFlag[0]`, which is tile 0's
  own. It has a second effect: while another tile is suspended, a tile 0 that has answered
  and not exited handles the character again, so `HandledOnce`, `Lockstep` and `NoDeafTile`
  do not hold for tiles that diverge; `OthersHandleOnce` says that tile 0 is the only one.

One more disagreement, in another part:

* `blockdev_short`: `writeblocks` replaces the rest of the block by a slice as short
  as the buffer; the bytes after a short write are cleared on the device.

The other runs show properties that hold, and where they end:

* `nocomms`: nothing resumes a command that yields. Its line stays in `repl_line`, later
  characters are added to it, a carriage return executes it again from its start, and the
  tiles' lines and modes drift apart. `ResponsesDelivered` is about what was written until the
  yield; the rest of the command never runs. `InterruptRecovers` says what the user can do:
  CTRL-C discards the line on every tile, in every mode, and leaves nothing to resume.
* `kernel`: `PictureIsOfThisRun` is about the last execution of a piece on each tile. Unless it
  is tile 0 and tiles yield differently, that is the only one; a second execution that
  does not draw leaves the pixel the first one drew erased, as line 190 of the codelet does.
  The picture of an *earlier* piece, shown again after one that was refused, is outside it.

* `gc`: collections are complete and exact with the smallest mark stack there is, and each
  of their steps makes progress on a lexicographic measure (`CollectionProgresses`: blocks
  unmarked, overflow flag, phase, scan position, stack), which is how termination is shown,
  without fairness. That a freed relocatable array is still written by its vertex is outside
  (see section 5).
* `terminal`: `EveryResponseReported` needs its three conditions. A response that does not
  end in a newline loses its last byte, one that does not fit the buffer loses five more with
  the prompt it does not have, and one of tile 0 that starts with three dots is taken for a
  continuation prompt and shown alone. `ScreenShowsLine` holds whenever `synced`; after TAB,
  and after a carriage return that ended an escape sequence, the host has put a prompt in
  front of a line that is not empty.
* `shell`: launched programs and the shell do not disturb each other's calls, although the
  call that ends example 8 is the one that ends the shell. `FormattedOnce` rests on the fact
  that the mount of example 8 moves at least one block. `ShellComesBack` is about a shell that
  exists: when its set-up fails after the first block the body raises `NameError` for ever.

### Bounds

* Three tiles in the multi-REPL: tile 0, which `Any` treats differently, and two
  others that can be ahead of each other. Two yields: a yield from the first pass
  and one from a resumed pass, which leave through the same frame but by different
  branches. Three passes of one tile against none of another already show every
  order of "suspended", "finished" and "idle".
* `MaxLine` 3: see above. The divergent runs with `COMMS` leave out the mode-changing
  characters; `spmd` and `nocomms` have them all, and modes only matter to what a handler does
  next. One yield is enough in `nocomms`, where nothing gets past the first.
* `A` is left out of all runs: after CTRL-A, CTRL-E, `A`, CTRL-A the interpreter waits
  for input that never comes and the vertex never returns (listed as a hazard).
* Two tiles in `kernel`: tile 0 and another; two different non-empty texts overflow
  a limit of one. Three tiles with one yield, equal on all tiles, pass as well, in
  more time than a routine run should take.
* Blocks of 3 bytes: a read may end inside the block it starts inside, short of its
  end, which blocks of 2 do not allow; 2 blocks give a head and whole blocks, whole
  blocks and a tail, and a head and a tail. (Blocks of 2 bytes and 3 blocks, with a
  head, a whole block and a tail in one call, pass as well.)
* Cells of 6 lines hold two complete blocks, or nested, missing and doubled markers
  with code around them.
* `handled` and `executions` are histories; the second saturates at 2.
* Heap: four blocks in two table bytes (so that the hint can point at either, or at the end),
  requests of 1 or 2 blocks (`MaxRequest`), so that chains have tails, grow into a free
  neighbour, stop at the end of the table and have to move; two words per block, so that an
  object has two children and a mark stack of one overflows; three pointers at once
  (`MaxPointers`) besides the two roots: enough for a marked, untraced block whose child is
  reached through it alone. Mutants that forget the extra round or the flag are found.
* Terminal: `MaxLine` 3 bytes of any mixture, where every editing command has its effect in
  front, inside and at the end, and `MaxLong` 10 bytes of one letter, where the cursor
  command has a second digit and leaves the fast path; `MaxSubmit` 1 byte for executed lines,
  with 2 history entries: the history overflows. The texts are none, a line, one without a
  newline, three dots, and one that overflows the buffer.
* Shell: `MaxExchanges` 2: a command is resumed in the middle and at the end of its blocks;
  `MaxHistory` 2 lines with a limit of 1: commands that raise leave the history too long.
  Example 5's ring has three places: a message, STOP, and the padding the launch must also
  take.

### Fairness

Weak fairness is assumed of the machine only: `WF(Device)` in `Multirepl`,
`ExchangeBlockDevice` and `Shell`, `WF(System)` in `Multikernel`. The IPU runs the next element
of its program when there is one, and the front end's thread its next statement.
Nothing is assumed of the user, who may stop typing, nor of the file system.
Commands terminate because a script is finite; that a python command loops for ever
is the user's doing. `CharacterAnswered`, `PieceAnswered`, `ShellComesBack` and the two refinements
need this; the other properties do not.

Deadlock is checked in every run. Where a program really ends (`Terminated`, `Done`)
it stutters.

## 4. The proofs

Every theorem below is checked by `tlapm` and holds for every value of the constants that
the named assumptions of the modules allow (the types of the constants, and a few facts the
code fixes). Hardly any property of the runs is inductive as it stands. A proof therefore has an
invariant of its own, a conjunction of named parts, which was model-checked on the instance
of the run before it was proved; one lemma per action shows that the action keeps it.

Induction over numbers, where a proof needs it (the order of a finite set, the length of a
chain), is done by the least counterexample: `NatLessThanWellFounded` and `WFMin` take no
operator as parameter.

`MultireplProofs`, for any number of tiles, yields and characters:

* `TypeCorrect`: `Spec => []TypeOK`. Rests on `ProcessCharType` (a handler maps REPL
  states to REPL states, whatever is typed), itself resting on the lemmas about the
  line operators.
* `NoCoroutineAbandoned` and `JumpsWellFounded`, with `COMMS`: the loop ends with
  nobody suspended, and a suspended stack sits on the frame `IPUpy_exit_env` names.
  The first speaks only of the end of a round, so it needs what
  holds during the round; the second fails to be preserved unless a pass that moves
  `IPUpy_exit_env` is known to find nobody suspended on that tile. The strengthening
  is `CoroutineInv`:
    * `SuspendedIsFlagged`: a suspended interpreter has its flag set. `Any` may only
      raise flag 0 while somebody is flagged, so it cannot break this, and the loop
      cannot end while it says that somebody is;
    * `SuspendedOnlyInRound`: nobody is suspended between rounds, nor on a tile that
      `RuntimeVertex<true>` has not run on yet. That vertex never resumes, so a
      checkpoint it found would be lost;
    * `SuspendedIsNotDone`: a suspended tile has not exited;
    * `CheckpointFrameIsExitFrame` itself.
* `ExitIsFinal`, with `COMMS`: `Spec => DoneIsFinal`, from the same invariant: a done
  tile is not suspended, so no resumed command can process anything on it.
* `AllToAllIsCollective`, `OnlyTileZeroHandlesAgain` and `LastAnswersReachHost`, with
  `COMMS`, **however the tiles diverge**. `RoundInv` follows a round pass by pass. Its core
  is `PassesAreAligned`: all suspended tiles are at the same call of `alltoall`, and nobody
  else has made that call, so that the pass number is the call number and a payload found in
  the buffer (`SendBufIsLast`) belongs to it. It rests on `CodeIsRunOnce`: a tile 0 that is
  given its character a second time, because `Any` raised its flag, finds no code to run, so
  it cannot start a coroutine out of step. `FlagIsOwn` says that flag 0 is the only flag that
  can be up for another tile's sake; `AnswersSurvive` names the tiles whose output is still
  whole, and is where a lost answer is excluded for the tile that yields most.

`COMMS` is needed: without it nothing resumes a coroutine, and a checkpoint stays live from
one character to the next.

The same module, when every tile runs the same number of calls (`~Divergent`), or without `COMMS`:

* `TilesStayInLockstep`, `NoTileIsDeaf`: from `SpmdInv`. The tiles of one compute set run one
  after the other, so they are *not* in the same state in the middle of it: `PeersAgree` says
  that tiles equally far agree, `RanIsAhead` that a tile which has run is what the vertex
  makes of one which has not. When the compute set ends the two sides of the comparison have
  met (`FirstIsDeterministic`, `RtIsDeterministic`). Neither theorem is true of tiles that diverge.
* `EachCharacterHandledOnce`, `EveryResponseReachesHost`: from `AnswersOnce`, part of the same
  invariant; the second without `COMMS`, too, from `OnePassInv`.
* `RefinesService`: the initial states are initial states of `ReplService`, and every step is
  a step of it or a stutter, under the refinement mapping of `Multirepl`: the safety part of
  `ImplementsService`.

The same module, with and without `COMMS` and however the tiles diverge:

* `CtrlCRecovers`: `Spec => []InterruptRecovers`, from `InterruptInv`. Raw mode's CTRL-C resets
  the line and nothing else, so it needs `ReplShape`, which every handler keeps
  (`ProcessCharShape`): raw mode is entered at a first line only, and a first line starts at 0.
  `InterruptIsHandled` says that CTRL-C is answered in the first pass and that no other follows:
  a flag that `Any` finds up would belong to a suspended tile, and a tile that has handled
  CTRL-C is not one.

`GarbageCollectorProofs`, for any size of pool, table byte, mark stack and root set and any
pointer graph:

* `MarkingIsComplete`: `Spec => []ReachableIsMarked`: when `gc_sweep` starts, no reachable
  object is unmarked. The property says nothing before that moment, so it is strengthened to
  `MarkInv`, proved inductive as `MarkingInvariant`:
    * `MarkTypes`: the types of what marking uses, and an empty stack outside
      `gc_mark_subtree`;
    * `MarksBelong`: no marks outside a collection, and whatever is on the stack or being
      traced is marked;
    * `MarkedIsTraced`: a marked block is traced (none of its words points to an unmarked
      head), or is on the stack, or is the current block, or lies ahead of the round over
      the table; or `overflow` is set. From `gc_collect_end` on the roots are traced too.
  A mark never undoes "traced" and never moves the end of a chain (`MarkKeepsChains`,
  `MarkKeepsTraced`); between collections the table has no marks (`Quiet`, kept by every
  operation of the interpreter). When the last round ends with the flag clear, the marked
  blocks contain the roots' targets and are closed under pointers, so they contain
  `Reachable`, the smallest such set.

`GarbageCollectorHeapProofs`, for the same heaps, with the allocator included:

* `TableStaysWellFormed`, `HintIsSafe`, `MemoryIsCleared`, `NothingReachableIsFreed`,
  `NoGarbageSurvives`, `HeapTypeCorrect`: from `HeapInv`, whose core `Sound` is stated of a
  table, a memory, roots and a hint as arguments, so that a step is a statement about two of
  them: the table is a sequence of chains that end inside it, allocated blocks hold nothing
  stale, no free block lies before the hint, and the reachable objects are closed under every
  pointer python holds, so that none of these pointers dangles. `MarksReach` is the converse of
  `MarkingIsComplete`: the collector marks nothing that is garbage. `PendingMove` carries the object
  of a `gc_realloc` through the collection that its allocation starts. The lemmas about
  `ChainLen`, claiming, freeing and growing a chain, and clearing blocks are where the
  off-by-ones are.
* `ObjectsAreKept`: `Spec => ObjectsKeepTheirBlocks`, an action property.
* `CollectionsComeCloser`: `Spec => CollectionProgresses`, the lexicographic measure by which
  collections terminate; the measure decreases at every step and its parts are bounded, which is the
  argument for termination without fairness.

`MultikernelProofs`, for any number of tiles, texts, yields and results shown: `KernelTypeCorrect`,
`PieceExecutedOnce`, `PictureIsCurrent` and `ReportIsComplete`, from `KernelInv`. `Flags`,
`Executions`, `Together` and `Products` are the coroutine argument again, of a program that
executes pieces; `OnlyExecution` says that what a tile has executed last is what the user gave it,
but for tile 0 where tiles yield differently; `Picture` and `Report` carry what the device copied through the host's queue:
what was fetched, what is counted as hidden and what is still queued add up to the texts the
tiles wrote, at every step of `do_single_execute`.

`ExchangeBlockDeviceProofs`, for any number and size of blocks, and writes that reach the end of
the block they start inside (`~ShortHeads`):

* `DeviceTypeCorrect`, `BlockStaysWhole` from `DeviceInv`: `PositionOf` says where in the
  request the suspended method is, `ProgressOf` which bytes of the request are done, `Exchange`
  what the block holds while the storage tiles move their bytes one by one.
* `RefinesBlockDevice`: every step is a step of `BlockDevice` or a stutter, the safety part of
  `ImplementsBlockDevice`.
* `OthersAreUntouched`: such a write changes no byte outside it: `OnlyWrittenBytesChange`,
  which the run `blockdev_short` violates, fails for short writes only. `~ShortHeads` is
  therefore an assumption about the callers that cannot be dropped.

`ShellProofs`, for any disk, history and list of messages: `EachCallServedOnce` and
`FilesAreKept`, from `ShellInv`, which follows the shell's call through the control program
(`ShellsCall`), example 5 through its ring of messages (`Example5Fed`), example 8's calls through
the shared tensors (`Example8Call`), and says when `vfsPos` may deny a file system that is there
(`DiskIsKnown`). The assumption that STOP is the message before the padding, and nowhere else, is
what the host sends (`old_examples/example7_host.cpp` 298): with STOP elsewhere a launch would
leave the ring in the middle.

`KernelCellProofs`, for cells of any length and any mixture of markers: `EachLineExecuted` and
`PiecesInOrder`, from `CellInv`: what is gathered is a run that ends at the line handled last, after
a marker that is in no block itself (`Gathering`), and every line before it has been executed as
often as its markers say (`Counted`). `PieceExecuted` is the step all branches of the loop share.

`ReplTerminalProofs`, for any alphabet, number of tiles, size of the print buffers and of the
history, and sets of texts and completions within the assumptions of section 2.

`LineIsShown` and `TerminalTypeCorrect` follow from `TerminalInv`, which TLC has also checked on
the constants of `terminal`. `ScreenShowsLine` alone is not inductive: it does not say that the
state of readline is well formed, that the line is short enough for the cursor command, or that no
command of the terminal is unfinished (`num`), and its suffix has to be a split of the row into some
bytes, the prompt and the line (`ShowsLine`), so that what is in front can be carried along. The
argument has four layers.

1. `Display` is a recursive function over the bytes. The rows it goes through exist, by the least
   number of bytes for which they would not (`StepsExist`), and are unique (`StepsDisplay`); so the
   display of a concatenation is the display of its parts one after the other (`DisplayConcat`).
2. What each piece of output does to a row: plain bytes (`WriteTarget`), `ESC [ K` (`EraseShown`),
   and `MoveBack`, which moves by exactly what it is asked to, by backspaces or by a number of one
   to three digits that the terminal reads back (`MoveBackShown`).
3. `GoodEdit` says what the end of `readline_process_char` needs of an edit: it keeps what is in
   front of the cursor, and the steps back and forward stay inside the old and the new line.
   `RedrawShown` shows that what is written for a good edit turns the row of the old line and
   cursor into the row of the new ones, behind any prefix; `EditOfGood` that every edit in the code
   is good: insertion, completion, backspace, delete, recall, home, end, left and right.
4. One lemma per action (`TypeKeeps`, `ContinueKeeps`, `ExecuteKeeps`, `CancelKeeps`). A list of
   completions and a carriage return start a row, so they restore the row whatever it was;
   `AnswerCases` is the print callback, with output that is passed through, cut, or replaced by the
   host's report.

`ResponsesAreReported`: what a tile writes for a text is `Written`; the callback's cut gives the
text back but for its last byte (`WrittenTrimmed`), different texts stay different
(`WrittenInjective`), and `NotPassedThrough` is the case that matters: with a regular text of any
length in tile 0's buffer, one of the bytes 2 to 4 the callback looks at has been written by *this*
answer and is no dot, whatever earlier ones left behind. Here no strengthening is needed: the
step alone establishes the property.

Only model-checked: liveness under fairness (`CharacterAnswered`, `PieceAnswered`,
`ShellComesBack`) and the fairness of the abstract specifications in `ImplementsService` and
`ImplementsBlockDevice`, which the prover cannot handle. Every invariant and every action property
of the passing runs is stated by a theorem. The prover cannot use an induction theorem that takes
an operator as its parameter; where a proof needs induction over data, as `Display` does, it goes
by the least counterexample instead (`LeastOf`).

## 5. What is not modelled

* Lines that differ between tiles in whether they call for a continuation, with `COMMS`
  (without it they may). With it their texts can only come to differ where a tile 0 that
  handles a key again is put in another mode by it: CTRL-A, CTRL-B or CTRL-E on the blank
  line that ends a compound statement.
* The split of the input file, the frame of an `alltoall` payload, the clock: sequential code
  on strings and integers, without state.
* Which words are roots: `gc_collect` takes the stack pointer in assembly and subtracts
  addresses, and registers are not scanned. `GarbageCollector` assumes that the roots are all
  there. (The repository's README reports that `alltoall` ends in memory corruption.)
* Relocatable arrays: the vertex writes through the address of a field of a python object,
  which is no root. Once the name is rebound the collector frees the object (`GarbageIsFreed`)
  and the vertex goes on writing.
* The characters that change mode, in `ReplTerminal` (they are in `EventRepl`); lines of 1000
  columns and more, which `mp_hal_move_cursor_back` asserts against; the text of the host's
  list after TAB.
* The shell's output, file contents and directory; programs 1 to 3 beyond being launched.
* Examples 1, 2, 3 and IPUpyc: one-shot runs and text rewriting.
* MicroPython itself, beyond the REPL, readline, the heap, the array slices and `longyield`.
  It is third-party code: `libIPUpy.c` is a single-file copy of its compiler, virtual
  machine, types, file systems and regular expressions, and `libIPUpy/micropython/` holds
  its whole tree with ports, drivers and libraries that IPUpy does not build. Together they
  are over 98 % of the repository's lines, so the share of all lines this project maps is
  small by necessity (under 2 %). Of the code that is IPUpy's own, the examples and the
  notebooks, a third of the lines is mapped: the rest builds graphs, connects streams and
  attaches devices, or is repeated from one example to the next.
* Failure of the host process, of the device or of attaching to it: the code does not
  handle them.

## 6. Plan

All modules of section 2 are written, and the proofs of section 4 state every safety property of
the passing runs. What is left of the refinements, their fairness, and the other liveness
properties stay with TLC. When the code changes, the order in which to follow it is: the module,
its run, the mutants of its properties, and then the lemma of the action that changed.

## 7. Running it

`tlc -workers 2 -config <run>.cfg <module>` for each run of `PROJECT.json`, and `tlapm <module>.tla`
for each of the modules whose name ends in `Proofs` (five minutes or less for each; the longest are
those of the terminal, the heap, the kernel and the exchange disk).
Operators whose comment begins with "Mutant" are faulty variants of the definition after
them; each shows that a property is violated when the code has that fault
(`PROJECT.json`, "mutants").
