# QuadPawn in TLA+

QuadPawn is a runtime for the DS203 pocket oscilloscope. It runs programs
written in Pawn: it picks one from the disk, loads it, gives it functions for the
keys, the screen, the file system, the oscilloscope's inputs and the signal
generator, and reports how it ended. The runtime is C and Thumb assembly on one
Cortex-M3 core, with one timer interrupt, DMA controllers and an FPGA that go on
by themselves. This directory holds a formal model of it: TLA+ modules written
from `src/Runtime`, TLC configurations that check them on small instances, and
theorems checked by TLAPS.

File names below are relative to `src/Runtime`; `include/` is
`src/Compiler/include`, the documentation of the native functions.

## 1. Inventory

### Components

| Component | Source | State it keeps | Operations |
|---|---|---|---|
| Keys and timer interrupt | `buttons.c` | tick counter, pressed and held keys, three timestamps, beep countdown | `TIM3_IRQHandler` (1 ms), `get_keys`, `peek_keys`, `held_keys`, `delay_ms`, `beep`, `scroller_speed` |
| Supervisor | `main.c`, `msgbox.c` | the AMX, its copy `nested_amx`, `ABORT` | choose, load, run, sleep, idle, report, `TimerTick` |
| Event dispatch | `amx_menu.c`, `amx_time.c`, `amx_buttons.c` | handler numbers, timer period and last tick | `doevents`, `set_timer`, polling functions |
| Overlay pool | `amx/amxpool.c` | arena headers in the pool, use counter | init, alloc (evicting), free (joining), find |
| Overlays | `amx_overlays.c`, `amx/amx.c`, `amx/amxexec_thumb2_gas.s` | pointer cache, the overlay of each AMX | `overlay_callback`; `amx_Init`, `amx_Exec`, `CALL.OVL`, `RETN.OVL`, `SWITCH.OVL` |
| File table | `amx_file.c` | four entries: valid, first error, FIL | open, close, read, write, seek, truncate, set-up, clean-up |
| Capture | `amx_wavein.c` | trigger mode; the FPGA's FIFO, the DAC's DMA, TIM4 | settrigger, start (synchronised or not), read |
| Sample rates, waveform output | `amx_wavein.c`, `amx_waveout.c`, `mathutils.h` | registers of three timers, DMA | set a rate, analog and digital output |
| File selector | `file_selector.c`, `metadata.c`, `menubar.c` | page and index (static), what is on the screen | scroll, page, choose, redraw |
| Program memory | `main.c` (`loadprogram`) | the parts of `vm_data` | divide, refuse |
| FPGA images | `fpga.c`, `amx_fpga.c` | which image is in the FPGA, which pins are outputs, `have_custom_image` | load, configure outputs, restore |
| File names | `ds203_io.c`, `amx_file.c`, `main.c` | a static buffer with a name | `select_filename`, by programs and by the screenshot |
| Drawing, numbers, strings, FFT | `drawing.c`, `amx_draw.c`, `amx_core.c`, `amx_string.c`, `amx_fixed.c`, `amx_fourier.c`, `fix16_fft.c` | none | pure functions |
| Debugging | `debug.c`, `amx_debug.c`, `libc_glue.c` | none | tracebacks, fault handlers |
| Device functions, bitmaps | `amx_device.c`, `ds203_io.c` | none | wrappers, drawing files |
| Pawn libraries | `include/menu.inc`, `graph.inc`, `dialog.inc`, ... | in the program | menus, graphs, settings, compiled into programs |
| Third party | `amx/` otherwise, `baselibc`, `libfixmath`, `DS203`, `alterbios`, the compiler | | |

### How they interact

* The **interrupt** writes the words the thread reads: `KEYS_PRESSED`,
  `KEYS_DOWN` and their timestamps, `TICKCOUNT`, `BEEP_TIME`, `amx.debug`, `ABORT`.
  The thread clears bits of `KEYS_PRESSED` with `__sync_fetch_and_and`.
* The **supervisor** runs the program in `amx_Exec`. When `main()` executes the
  sleep instruction, the supervisor copies the AMX and calls `doevents` with the
  copy: event handlers run on the copy's stack until the time is over, then
  `main()` continues in the original. `TimerTick` installs the debug hook in the
  original, so it takes effect in copies made later, and in `main()`.
* The **overlay instructions** call `overlay_callback` from assembly; it takes
  blocks from the **pool**, which may evict those of any other overlay, including
  the one `main()` sleeps in.
* **Native functions** act on static tables (files, handlers, timer) that outlive
  a program; each library's `amxinit_` function is what resets them.
* **Capture** polls the FPGA and DMA registers; `ABORT` is its only way out when
  no trigger comes.
* The **screenshot** runs in the interrupt and looks for a file name with the same
  `select_filename`, in the same static buffer, as the program it interrupts.
* The **file selector** keeps page and index from one call to the next and reads the
  directory anew at each drawing and each choice, while programs and the USB host
  change it.
* **FPGA** image and pin directions change at different times, and outlive a program
  until `amxinit_fpga` of the next.

### Which behaviours are hard

The interrupt between any two instructions; get-and-clear of shared bits; a pair
of words read in two accesses; the tick counter's wrap; handlers that run nested
in a sleeping `main()`; cached pointers into a pool that evicts; free blocks to
be joined on both sides; a use counter that wraps; state left over from the
program before; failed opens, short writes and read errors; starting a capture
within one period of a running DMA; a shared buffer rewritten between print, test and
copy; a directory that shrinks under the cursor; a failed FPGA image left to the next
program; 16-bit registers at rates of 1 Hz. `PROJECT.json` lists each at its line, with
the properties about it.

### What makes each component correct

* Keys: no press is lost or delivered twice; neither a bounce nor a held key is flagged;
  what `held_keys` returns belongs together; delays are long enough; calls return.
* Supervisor: only the loaded program's functions are called; a key is taken only
  to call its handler; `main()` is what is resumed; a failure in a handler is
  reported as one; the user gets out of a program that hangs, though not out of every
  handler (section 6, item 20).
* Pool: blocks tile the pool; free neighbours are joined; an eviction always
  finds a block; the overlay used last stays; every allocation ends.
* Overlays: cached pointers are never stale; the code that runs is the verified
  overlay asked for.
* Files: the first error is kept; handles do not alias; entries are not lost.
* Capture: samples in order, presamples dropped, the start in step with the
  waveform; every call returns once the trigger or the user lets it.
* Rates: the registers fit 16 bits; the rate returned is the hardware's, not above
  the one asked for, and as close to it as the hardware can with the prescaler chosen.
* File selector: the script started is the one on the screen; scrolling walks the
  whole list across pages, never to a page that is not there, and to an empty one only
  behind an exactly full last page; there is always a way back to the first script, and
  every press of SCROLL1_LEFT is a step on it.
* Program memory and FPGA: header, data and code or pool do not overlap; a program
  finds the default pin directions, no file open, and the original image, or none if it
  could not be loaded; no pin is driven by both sides.
* File names: a program that creates the file it was given a name for overwrites none,
  but for the cases the code does not prevent (section 6, item 13).

## 2. Modules and what in the code they are

| Module | What it is |
|---|---|
| `KeyBuffer` | Abstract specification: a set of pressed keys, with `Press`, `Take` and `Look` as atomic steps. |
| `Keys` | `buttons.c`, one action per access to a shared word. Implements `KeyBuffer`. |
| `Supervisor` | `main.c`, `amx_menu.c`, `amx_time.c`; instantiates `KeyBuffer` for the keys. |
| `Allocator` | Abstract specification: a set of blocks with overlays in them; room is made for one overlay at a time. |
| `OverlayPool` | `amx/amxpool.c`, each turn of the eviction loop a step. Implements `Allocator`. |
| `OverlayStore` | Abstract specification: overlays at addresses; to load one is one step, in which any others may go. |
| `PoolHistory` | `OverlayPool` with a history variable, the overlays last to be seen when no request was pending. Implements `OverlayStore`. |
| `Overlays` | `amx_overlays.c` and its callers over the pool as `OverlayStore` has it. |
| `Files` | `amx_file.c` over a file system where each call may fail. |
| `FileNames` | `select_filename` and `f_exists` of `ds203_io.c`, called by a program and by the screenshot in the interrupt. |
| `FileSystem` | `Files` and `FileNames` together: a program opens the file it was given a name for. Implements `Files`. |
| `Capture` | `amx_wavein.c` against FPGA, DAC and timer. |
| `Rates` | The timer registers and results of `wavein_samplerate`, `waveout_analog` and `waveout_digital`. |
| `Selector` | `file_selector.c` against a directory that changes. |
| `Loader` | How `loadprogram` divides `vm_data`; FPGA images and pins (`amx_fpga.c`, `fpga.c`) from program to program. |
| `Session` | `Loader` and `FileSystem` together: programs one after the other, in the main loop of `main.c`. Implements both. |
| `KeysProofs`, `OverlayPoolProofs`, `OverlaysProofs`, `SessionProofs`, `CaptureProofs`, `SupervisorProofs`, `RatesProofs`, `SelectorProofs` | The theorems about those modules (`OverlayPoolProofs`: also about `PoolHistory`; `SessionProofs`: about `Files`, `FileNames`, `FileSystem`, `Loader` and `Session`). |
| `MCKeys`, `MCSupervisor`, `MCOverlayPool`, `MCOverlays`, `MCFiles`, `MCCapture`, `MCRates`, `MCSelector`, `MCSession` | Instances for TLC. |

**Keys.** `TICKCOUNT` .. `BEEP_TIME` are the static words of `buttons.c`. The
interrupt is one action, because nothing on the core runs inside it. `get_keys`
is a load (LDREX), a store that succeeds (STREX) and one that is refused because
an interrupt has cleared the exclusive monitor; `held_keys` is the read of the
timestamp, the read of the keys and the comparison; `delay_ms` is its busy loop;
`beep` is its two assignments. `W` is the number of values of the counter, 2^32
in the code; with `WRAPS` the counter wraps. `quiet`, a ghost, counts the ticks
since a key was down, up to `DEBOUNCE`: it says whether a key that goes down is a press
or a bounce.

**Supervisor.** A program is the set of public functions it defines. What its code
does is up to the environment: it may set the timer, poll keys, and return,
sleep, exit, fail or hang. `amx` and `nested` carry what the supervisor depends
on: the debug hook, the function to continue (`cont`) and PRI. `machine` says on
which of the two `doevents` works, `caller` who called `amx_Exec`. A handler's
`retval` is not main()'s `ret`, so the two are kept apart. Locals of a block are
reset when the block is left. `doevents` looks at the slots one after the other:
`PassSlots` goes by those without a key, `DispatchKey` takes one. `slept`, the time
main() has slept, and `failed`, the function that has failed or been aborted, are ghosts.

**OverlayPool.** `arena` maps the offset of each header to its fields, so that
freeing, splitting and joining are the source's pointer arithmetic. `EndWords` is
what the halfword behind the pool may hold: `amx_poolfree` reads it as the index
of one more header when the last block is freed. `AllocatesBlocks` is `Allocator`
with `AllocatedBlocks` (the blocks whose index is not -1) for its blocks: free
blocks, headers and use counts are forgotten, and what is left is that one request
at a time is served by evicting blocks one by one, the one used last only if it is
alone, and by placing one block apart from all others.

**OverlayStore, PoolHistory.** `amx_poolalloc` frees blocks one by one, but
`overlay_callback` sees the pool only when it has returned. `rest` keeps what was there
to be seen last; with it for the store's `pool`, a request is a stutter until the block
is placed, and that step is the store's `Load`. So the two sides of the interface are
held against one specification: `LoadsInOneStep` says that the pool implements it,
`UsesStore` that `Overlays` uses it and nothing else of the pool.

**Overlays.** Loading evicts any set of blocks and gives an address of none of those
kept, and no more is known of the pool, so the properties hold whatever the order of
eviction. `memory` says whose verified code an address holds.
`SWITCH.OVL`, `RETN.OVL` and `CALL.OVL` do not look at the callback's result, as
in the assembly.

**Files.** A handle is the number of its table entry. An `f_open` that fails
returns the entry all the same, and leaves it free. Each call to the file
system gives any status. `KEEPS_FAILED` says whether programs go on using the
handle of a failed open after they have opened another file.

**Capture.** The FPGA (`Trigger`, `Sample`), the DAC's DMA (`DacTick`) and TIM4
(`Tim4Overflow`) take steps at any time. Busy loops are actions enabled when the
flag lets them end. Samples are numbers from the start of the capture, so order,
loss and presamples can be told apart; 0 is a read from an empty FIFO. While
interrupts are off the thread is faster than the DAC, as the comment at
`amx_wavein.c:117` says (`POLLS`).

**FileNames.** A name is a format and a number. `print`, `test`, `copy` and `copying`
are the places in `select_filename` and `amx_SetString` at which the screenshot may
rewrite the buffer; the screenshot's own search runs in the interrupt and is one step. A
name copied while the buffer changes has bytes of both (`CopyRest`): it may be any. The
host on the USB removes and creates files at any time. `excused` is a ghost: it records
that the code has a reason to give a used name (section 6, item 13).

**Rates.** No state but the registers and the last call. The arithmetic is that of
`mathutils.h`, with `\div` for C's division of unsigned numbers.

**Selector.** A directory is its sequence of scripts and whether another file
follows: `render_screen` asks for one more entry after a full page and counts it
whatever it is. A turn of the loop in `select_file` is one action with the set of
keys `get_keys` returned: moving, turning pages, drawing and correcting the index,
in the source's order. `seen` and `homing` are ghosts.

**Loader.** A program is the fields of its header. `data` and `pool` are what
`loadprogram` computes from them, with and without overlays. Image and directions
are changed in the order of `amx_fpga.c`, a step per call to the FPGA; an image that
is missing, cannot be read to the end or is none leaves the FPGA blank or as it was, and
so may the original (`Configure(FALSE)`). `unloaded`, a ghost, says that the last load
of the original has failed.

**Session.** `pc` says where the thread is in loading a program or running it; the
program's calls to files and FPGA come in any order, one at a time; the disk changes at
any time. `amxinit_file` and `amxinit_fpga` belong to loading, `amxcleanup_file` to the
end, however the program ended.

### Names ending in `_BugN`

Next to some definitions stand faulty variants, the mistakes one could plausibly
make there. They are used by no specification. Put in place of the definition,
each makes TLC report the property named here, in the module's passing runs:

| Definition | Variant | Property |
|---|---|---|
| `Keys!FirstPress` | 1: no debounce | `FlagOnlyOnPress` |
| `Keys!LastDownAt` | 1: every tick, also without a key | `QuietPressFlagged` |
| `Keys!BeepCountdown` | 1: the volume is never set back | `BeepEnds` |
| `Keys!StoreExclusive` | 1: a plain store | `AtomicKeyBuffer` |
| `Keys!HeldCheck` | 1: no second look | `HeldConsistent` |
| `Keys!DelayOver` | 1: compares with the sum modulo W; 2: with the sum | `DelayWaits`; `CallReturns` |
| `Supervisor!TimerTick` | 1: the hook is installed at one instant only | `UserCanAbort` |
| `Supervisor!EventHandlers` | 1: old handlers are kept | `HandlersOfThisProgram` |
| `Supervisor!TakenFor` | 1: all keys are taken | `KeysTakenForHandlers` |
| `Supervisor!NextSlot` | 1: starts again at the first handler | `EventServed` |
| `Supervisor!SleepMachine` | 1: handlers run on the original | `MainResumes` |
| `Supervisor!SleepEnd` | 1: `get_time()` is forgotten | `SleepLasts` |
| `Supervisor!SleepBroken` | 1: the copy is not taken over, so the message is about `main()` | `FailuresAreReported` |
| `OverlayPool!Resident` | 1: the search stops a block early | `AllocatesBlocks`, `LoadsInOneStep` |
| `OverlayPool!Touched` | 1: no special case for the wrap | `AllocatesBlocks` |
| `OverlayPool!Joined` | 1: forgets the header | `Tiling` |
| `OverlayPool!JoinPrevious` | 1: the block before is not joined | `NoFreeNeighbours` |
| `OverlayPool!Fits` | 1: `>` for `>=` | `AllocationEnds` |
| `OverlayPool!LowestCount` | 1: the comparison turned round | `AllocatesBlocks` |
| `Overlays!Hit` | 1: the index is not compared | `RunsWhatItAskedFor` |
| `Overlays!CacheAfterAlloc` | 1: the cache is not cleared | `CacheSound` |
| `Overlays!Continue` | 1: the overlay is not asked for again | `RunsWhatItAskedFor` |
| `Files!FirstError` | 1: keeps the last error | `FirstErrorKept` |
| `Files!FreeEntries` | 1: entries in use too | `HandlesAreDistinct` |
| `Files!ValidAfterClose` | 1: a failed close keeps the entry | `NoEntryLost` |
| `Capture!ToSkip` | 1: one presample too few | `PresamplesSkipped` |
| `Capture!Available` | 1: does not wait for a sample | `SamplesInOrder` |
| `Capture!NextWait` | 1: does not wait for the last sample | `CaptureStartsWithPeriod` |
| `Capture!FlagCleared` | 1: the old flag stays | `CaptureStartsWithPeriod` |
| `Capture!LastSample` | 1: waits for a count that never comes | `CaptureReturns` |
| `FileNames!MoreNumbers` | 1: `<` for `<=`, the last number is not tried | `NothingIsOverwritten` |
| `Rates!prescale` | 1: taken for the rate plus one | `TypeOK` |
| `Rates!div_round_up` | 1: rounded down; 2: always one more | `RateIsBest` |
| `Rates!actual` | 1: returns what was asked for | `RateIsBest` |
| `Rates!fix16_mul` | 1: the product is cut off | `DutyIsNearest` |
| `Selector!Page` | 1: pages a row apart | `ChosenIsOnScreen` |
| `Selector!Unmarked` | 1: the old cursor stays | `CursorsMarkTheIndex` |
| `Selector!OnTo` | 1: a new page begins at its first slot | `ScrollWalksTheList` |
| `Selector!More` | 1: every page has a next one | `NoPageIsMissing` |
| `Selector!BackTo` | 1: not from a page that is not there | `LeftLeadsHome` |
| `Loader!static_size` | 1: without the stack | `MemoryIsDivided` |
| `Loader!TooLarge` | 1: without the stack | `MemoryIsDivided` |
| `Loader!InputsFirst` | 1: the directions stay as they are | `NoPinConflict` |
| `Loader!MustRestore` | 1: never | `NothingIsInherited` |

## 3. What is checked

| Run | Question | Bounds, and why they are enough |
|---|---|---|
| `keys` | Is the key buffer atomic against an interrupt anywhere? Is a bounce or a held key flagged, a press after quiet missed? Do keys and time of `held_keys` belong together? | Two keys, one of them repeating; 8 ms, which is longer than debounce, repeat delay and a repeat together (2, 3, 2 ms). `delay_ms` with 0 only: the counter does not wrap here, so a longer delay could come to the end of time. |
| `keys_wrap` | Are delays long enough, does every call return, does a beep end, across the wrap? | One key, a counter of 5 values that wraps for ever; delays up to 3, beeps of 1 and 2 ms. |
| `supervisor` | Whose handlers run, who gets the keys, what is resumed, is a failure in a handler reported? | Two programs that differ in their handlers, in idling and in using the timer; two keys; a clock of three values that wraps; all ways to end. Any number of programs run one after another. |
| `supervisor_live` | Does the user get out of what hangs? Is every key served? | One program with two key handlers and `@idle`; `main()` may hang before and after sleeping, and so may `@button1`, called while `main()` sleeps and while the program idles. |
| `overlay_pool` | Does the pool stay whole through evictions, splits, joins and the wrap of the use counter? Is it, to its caller, an allocator, and a store in which a load is one step? Does each allocation end? | A pool of 24 bytes, headers of 2, six overlays of 1 to 23 bytes: one fills the pool, one does not fit, odd sizes are rounded, two or more fit beside each other, some with a rest that is split off and some with one too small to split. The counter wraps at 6, more than the number of blocks. |
| `overlays` | Do cached pointers go stale, does the wrong code run? | Three overlays on two cache entries (two share one), two addresses (so one overlay is always evicted), calls nested two deep, any set of overlays too large. |
| `files` | Is the first error kept; do handles alias; are entries lost; is a file overwritten under a name that was given as unused? | Two entries and three variables, so that the table is full; two errors, so that the first and the last differ. Three numbers for names, so that the search goes on, and ends; one format besides the screenshot's; any disk, with files that the screenshot and the USB host create and the host removes at any time. |
| `capture` | Are samples in order and without presamples, does the capture start with the period, do calls return? | A FIFO of 4 with 1 presample, two samples to a cell, up to two cells for each of two channels (more than the FIFO holds), a period of 3. Where one program ends and the next begins makes no difference to this state. |
| `rates` | Do the registers fit; is the rate returned the best the hardware can do with the prescaler chosen; is the duty cycle met? | The real clock of 72 MHz and 16-bit registers; 13 rates, on both sides of each bound: the prescaler's first steps (1098, 1099), the clock itself, rates above it, 1 Hz. Duty cycles in steps of 1/256, not 1/65536, because TLC's numbers have 32 bits; the proofs are about any. |
| `selector` | Is the script on the screen started; does scrolling walk the list; does it lead to missing or empty pages; is there a way home? | Four slots in rows of two; seven directories: none, part of a page, a full page with and without a file behind it, two pages full and not, a third; any change from one to another, and up to page 3, which no directory has. |
| `session` | Do the parts of the memory overlap; are pins driven from both sides; which image, directions and open files does a program find that its predecessors left? | A memory of eight bytes, programs with and without overlays that just fit it, are one byte too large or leave no pool; three pins, one image that drives a default output. One entry and two variables for files, which is enough for one to be left open; one error, one name (`files` has more). Any number of programs, loaded or not; any load of an image, the original too, may fail. |
| `overlays_fault` | The one run that shows a disagreement: after a read error the overlay instructions run code that was not verified (section 6, item 2). | As `overlays`, with reads that fail. |

Type invariants are not listed in the runs, where they are theorems (section 4); in
`rates` it is, being the property that the registers fit. `EvictionFreesABlock`,
`NeverAnotherOverlay`, `UsesStore` (of `Overlays`), `UsesBuffer` (of `Supervisor`) and
the measures `BeepRunsOut`, `EachHandlerOnce`, `RequestsMakeProgress` and
`LeftMakesProgress` are in no run and are theorems, so they hold of the runs' instances
among others.

TLC checks deadlock in every run: each of the systems can always take a step.
Symmetry is used for pool addresses and for the variables that hold file
handles, only in runs without liveness properties.

**Fairness.** `Keys`: the timer interrupt goes on; the thread takes its steps.
Strong fairness for the store-exclusive and the end of the busy loop says that an
interrupt does not fall into the same few instructions, nor a polling loop miss
the same moment, each time for ever: tens of thousands of instructions run between two
interrupts. `CallReturns` supposes besides that the user stops playing with the
keys, since `held_keys` is retried at each change. `Supervisor`: the clock and the
main loop go on; functions that are not in `HangingFunctions` end; a function that
hangs still executes BREAK before each statement, as compiled programs do; the
sleep loop does not look away each time the sleep is over. `OverlayPool`: the
eviction loop goes on. `Capture`: the thread goes on, the hardware runs, the FPGA
samples once triggered; no fairness for the trigger or for the user's abort, which
is why `CaptureReturns` starts from one of them. `Selector`: the menu's loop goes on,
and the user who wants home, in a directory that stays, goes on scrolling left.
`UserCanAbort` has an escape, a handler that hangs on a copy without the hook (section 6,
item 20), and `EventServed` one, a function that never ends.
`UserCanAbort` is checked for a program driven by keys that sets no timer: with one, on
a clock of three values, the sleep loop would have to be supposed fair for each of its
kinds of step.

## 4. What is proved

All theorems are about every value of the constants that the modules' assumptions
allow (any number of keys, overlays, addresses and files, any pool size). Those
assumptions are as weak as the code: positive sizes, a counter with at least two
values, errors that include "invalid object" and exclude "OK".

* **`KeysProofs`**. `TypeCorrect`. `KeysImplementBuffer`: every behaviour of `Keys`
  is one of `KeyBuffer`, by the invariant `CopyIsCurrent` (while the monitor is set,
  the register holds `KEYS_PRESSED`: interrupts clear the monitor); a successful
  store maps to `Take`, the interrupt to `Press`, all others to `Look` or a
  stutter. `BouncesAreNotFlagged`, by `LastDownIsNow` (while keys are down,
  `KEYS_LAST_DOWN` is the present tick, so the debounce test fails for keys that are
  held) and `QuietCounted` (until `DEBOUNCE` ticks have been quiet, the difference to
  `KEYS_LAST_DOWN` is not more than were, so it fails for bounces too).
  `HeldKeysReadsAgree` and `QuietPressIsFlagged`, under `~WRAPS`, by `Chronology`
  (timestamps are not in the future and those read are not newer than the
  words): after 49 days a difference of timestamps may be small again, and both
  may fail. `DelayLastsLongEnough` also across the wrap, by `DelayMeasured` (the
  ticks counted are the difference of the counters, or already enough).
  `BeepsRunOut`, the safety half of `BeepEnds`, by `BeepIsTimed` (while a beep sounds
  there is time left, or the thread is between the two stores): every interrupt
  brings the end nearer. Its hypothesis is that programs ask for positive lengths; with
  a length of 0 the interrupt has nothing to count down.
* **`OverlayPoolProofs`**. `PoolInv`: the headers' types, the tiling, that no two
  free blocks touch, that indices are unique, that the use counts are below the
  counter and the last user's the highest, that a request fits the empty pool. The
  hard step is freeing: `MergeTiles` (joining two neighbours keeps the tiling) is
  used once for the block behind and once for the one before; `FreedSeparates`
  shows that after both no free blocks touch. Then: `PoolTypeCorrect`,
  `PoolIsTiled`, `FreeBlocksAreJoined`, `OverlaysAreUnique`,
  `MostRecentCountsHighest`, `EvictionFindsABlock` (a pool with no block in use is
  one free block, into which the request fits) and the action property
  `MostRecentIsEvictedLast`. Hypothesis `NothingBehind`: the halfword behind the
  pool does not look like a free header. Without it `Tiling` is false (section 6).
  `PoolImplementsAllocator`: every behaviour of the pool is one of `Allocator`, under
  the same hypothesis. `EvictIsEvict` shows that freeing the victim, with the
  joining of its neighbours, removes just its block; `PlaceIsPlace` that splitting a
  free block adds just one, inside the pool and apart from the others.
  `PoolImplementsStore`: with the history variable, every behaviour is one of
  `OverlayStore`. `HistInv` says how the pool differs from what was last seen while a
  request is pending: blocks are gone, but none has moved or come. When the block is
  placed (`PlaceIsLoad`), the blocks that are left are those the store's step keeps, and
  that the new one does not begin where one of them does is from its being apart.
  `RequestsComeToAnEnd` is the safety half of `AllocationEnds`: every step of a pending
  request is its last or leaves fewer allocated blocks, of which there are finitely many.
* **`OverlaysProofs`**. `OverlaysInv`, with or without read errors: types;
  `CachePointsToPool` and `PoolFilled` (what is in the pool did fit, and was verified
  unless there was a fault); `AllFit` (all overlays of a running program fit); and
  `NeverAnotherOverlay`. `CallbackKeepsPromise` is the contract of `overlay_callback`,
  used for each instruction that calls it. `OverlaysTypeCorrect` and
  `ProgramStaysInItsBlocks` need no hypothesis: after a read error a program may run
  what nobody has verified, but in no block the pool has given to another overlay.
  `CacheIsSound` and `ProgramRunsItsOverlays` have the hypothesis `~FileMayFail`,
  without which they are false (section 6). `ProgramsUseTheStore`: every step of
  `Overlays` is one of `OverlayStore`, or leaves the pool alone.
* **`SessionProofs`**, from the parts to the whole. `Files`: `FilesInv` is types,
  `NoneLeft` (nothing is held when no program runs), and the three properties, which
  need one another: that handles are distinct is what makes an error stay with its
  file. Hypothesis `~KEEPS_FAILED`: programs drop the handle of a failed open, without
  which `FirstErrorKept` is false (section 6). `TableInv` is types and that the table is
  empty between programs, without that hypothesis: `FilesTypeCorrect`.

  `FileSystem`: `NamesAreTyped`, `GivenNamesAreUnused` by `NamesInv` (the name
  tested last, and the one in the program's array, are unused or excused: only the
  interrupt's format comes into use meanwhile, or what the USB host creates), and
  `FileSystemKeepsTable`, that the
  whole implements `Files`, so that its theorems carry over.

  `Loader`: `LoaderInv` is types; `LaidOut` (once the memory is divided, `data` and
  `pool` are what the header gives, and a program without overlays fits); `FlagIsTrue`
  (the flag says whether the FPGA may have another image than the original, also while
  one is loaded and after that has failed; the pins are inputs meanwhile); and
  `NoPinConflict`. `LoaderTypeCorrect`, `MemoryIsAlwaysDivided` and `PinsNeverConflict`
  are for every memory, every header a compiler can lay out, all pins and images.

  `Session`: `SessionLoads` and `SessionKeepsFiles` map each step of the composition to a
  step or a stutter of `Loader` and of `FileSystem`, so that all of the above holds in
  it; `ProgramsInheritNothing` takes the flag from one and the empty table from the
  other.
* **`CaptureProofs`**. `CaptureInv`: types; `Room` (what is still to be read fits the
  FIFO, so no empty FIFO is read); `GroupFollows` (the channel's array, the group and
  the FIFO's position follow each other); `Skipped` (how far the presamples are gone);
  `InTime` (the thread sees the DAC's turn before the sample after it).
  Then `CaptureTypeCorrect`, `SamplesComeInOrder`, `NoPresampleIsRead` and the action
  property `CaptureIsInStep`, for every FIFO, number of presamples, set of channels and
  period of at least two samples.
* **`SupervisorProofs`**. `SupervisorInv`: types; `Loops` (which machine runs for which
  caller); `Loaded` (whatever may still be called or resumed belongs to the program
  loaded); `MainStays`, `FailureKept` (the status and the machine a failure has left are
  those the message will be about) and `Asleep` (what the clock shows while main()
  sleeps). Then `SupervisorTypeCorrect`, `OnlyThisProgramRuns`, `KeysGoToHandlers`,
  `SleepIsLongEnough` and `FailuresGetReported`, for any programs, keys and clocks, and
  one with a hypothesis without which it is false (section 6, item 7): `MainIsResumed`
  if only `main()` executes the sleep instruction.
  `RoundsGoForward` is the safety half of `EventServed`: a round of `doevents` calls each
  handler at most once, in their order, and then ends. `SupervisorUsesBuffer`: all that
  happens to the keys is a step of `KeyBuffer`; with `KeysImplementBuffer`, the
  interface between `buttons.c` and the event loop is held against one specification
  from both sides.
* **`RatesProofs`**. Lemmas about ceiling, rounding and the prescaler give
  `RegistersFit`, `RateIsTheBest` (by `RateIsNotAbove`: rounding the rate returned
  never brings it above the one asked for, as the counter was rounded up;
  `RateIsTheClosest`; `RateIsTheHardwares`) and `DutyIsMet`, for every rate and every
  clock. `RatesAssumption` supposes of the clock that the prescaler of the lowest
  rate, 1 Hz, makes the period shorter than `COUNTER`, so that the compare register
  fits for a duty cycle of 100 % too: at 72 MHz and 16 bits it does.
* **`SelectorProofs`**. `SelectorInv`: types, and that while the directory stays as
  it was drawn, `maxindex`, screen and page are what it says. Then `SelectorIsTyped`,
  `TheScriptOnTheScreenIsStarted`, `TheCursorIsAtTheIndex`, `NoPageIsMissed` (by
  `EmptyPage`: nothing drawn means that the scripts end with the page before) and
  `TheListIsWalked`, for every size of the screen and every set of directories.
  `LeftIsProgress` is the safety half of `LeftLeadsHome`: a press of SCROLL1_LEFT takes
  the position back by a row or arrives, and no turn in between, with its correction of
  the index, takes it forward. What is left to TLC is that presses go on.

The steps from the code's operations to the invariants are one lemma or step per
action. Temporal steps are by LS4, all others by Z3 and Zenon.

## 5. What is only model-checked, and what is not modelled

Only model-checked: the liveness properties (`CallReturns`, `BeepEnds`,
`UserCanAbort`, `EventServed`, `AllocationEnds`, `CaptureReturns`, `LeftLeadsHome`),
which are beyond the proof system's temporal reasoning. Every invariant and every
action property of a passing run is a theorem.

Left out of modelled components: `scroller_speed`; the parameter of `@scroll1`;
`amx_poolprotect`, which the runtime never calls; the bytes of files and bitmaps; that
the screenshot enters the FAT library in the interrupt (the library is external); in
`Overlays`, a handler that itself executes the sleep instruction (item 7 below); the
levels `fpga_write_pins` gives to pins; the
input stage and the statistics functions of `amx_wavein.c`; the DMA of
`waveout_analog`, which goes on reading the memory of a program that has ended;
waveforms of fewer than two samples, as what the DMA shows for them is not in the
source; icons and titles of the file selector; the bits of FPGA images.

Not modelled: drawing, strings, numbers, FFT (pure functions), device wrappers,
debugging output, the vendored code, the compiler.

## 6. Where code and documents disagree

Found while writing the modules. Item 2 is shown by the run `overlays_fault`; the
others were read in the code, and the properties make the exceptions named.

1. `amx_time.c:33`: "Set the period for the timertick callback, in milliseconds"
   (`include/time.inc:11`). `timer_last_tick` is not set again after a callback, so
   from the first period on `@timertick` is called in every turn of the event loop.
2. `amx/amxexec_thumb2_gas.s:1178`: "Verify the loaded code and rewrite it"
   (`amx_overlays.c:62`). The overlay instructions ignore the callback's result; after
   a read error they run what is in the block, and the block stays in the pool and
   the cache. The C interpreter tests the result (`amx/amx.c:2807`).
   (`overlays_fault`)
3. `amx_file.c:140`: f_close "Returns false if there has been any error since
   opening" (`include/file.inc:35-36`). A failed `f_truncate` and a write that a full
   disk cuts short are not recorded.
4. `amx_wavein.c:232`: "If the trigger has not yet occurred, this function will wait
   for it" (`include/wavein.inc:88`). `ABORT` is never set back, so in all programs
   run after an aborted one it does not wait.
5. `amx_time.c:17`: "Set to 0 (default) to disable the timer tick"
   (`include/time.inc:12`). The period of one program is the default of the next.
6. `main.c:406`: "Ignore exit(0), but inform about e.g. exit(1)". `ret` is what `main()`
   or `@idle` returned last, so an exit in an event handler is judged by that, whatever
   its code. In the other two functions `ret` is the code itself, so that there is
   nothing to check; the model has exits in handlers too (`ExitingFunctions`).
7. `main.c:389`: a handler that executes the sleep instruction while `main()` sleeps
   replaces `main()`'s continuation. `MainResumes` is checked with
   `SleepyFunctions` without handlers.
8. `amx/amxpool.c:104`: freeing the last block reads a header behind the pool; if it
   looks free, the block grows over the end, against `assert(sz<=pool_size)`
   (`amxpool.c:177`). `Tiling` is checked, and proved, with `EndWords = {"other"}`.
9. `amx_file.c:38`: f_error returns "the first one that occurred"
   (`include/file.inc:126-128`), but the handle of a failed open is given out again
   by the next. `FirstErrorKept` is for programs that drop such a handle.
10. `buttons.c:42`: keypresses "are flagged when the key first goes down"
    (`include/buttons.inc:16`), but a key pressed while another is held is not.
    `QuietPressFlagged` is about presses with no key down.
11. `buttons.c:54`: "Holding a key does not re-flag the key buffer"
    (`include/buttons.inc:17-18`), but scroller keys repeat. `FlagOnlyOnPress`, which
    is about bounces too, makes that exception.
12. `buttons.c:115`: an interrupt between the two assignments of `beep` that ends an
    earlier beep silences the new one; `beep(0, v)` does not end. `BeepEnds` is
    checked for positive lengths.

13. `ds203_io.c:41`: select_filename is to "Select an unused filename"
    (`include/file.inc:134`). Every failure of `f_open` counts as "does not exist"
    (`ds203_io.c:31`); after 999 a used name is given; a screenshot that comes between
    the print and the test, or the test and the copy, leaves its own name in the shared
    buffer; one that comes inside the copy, which `amx_SetString` makes byte by byte
    (`amx/amx.c:3492`), gives a name put together from both, which nobody has tested;
    and the USB host may create the file after the test. `NothingIsOverwritten` excuses
    these.
14. `amx_file.c`: f_unlink is documented (`include/file.inc:87`), but not among the
    functions `amxinit_file` registers: a program that calls it is not loaded.
15. `main.c:135`: a program with overlays whose header, data and stack leave no room
    for a pool is not refused; the size of the pool wraps. `MemoryIsDivided` is about
    those that leave one.
16. `amx_fpga.c:65`: after an `f_open` that fails, the pins stay inputs and the flag
    says that a custom image is there; the next program then loads the original again,
    which does no harm (`NothingIsInherited`). `amx_fpga.c:159-162` clears the flag before
    it loads the original and ignores whether that succeeds: after a failure this program
    and all later ones run with a blank FPGA. `NothingIsInherited` allows just that.
17. `amx_fpga.c:162-165`: "Sets all pins to inputs before loading, to avoid any
    conflicts" (`include/fpga.inc:24`) is not so when a new program restores the
    original image: until the directions are set, a pin may be driven by both sides.
    `NoPinConflict` excepts that moment.
18. `file_selector.c:268`: the cursor is drawn before the index is corrected, and with
    more than a screen of scripts the index may stand on the slot behind the last, where
    nothing is drawn: the rectangle is then around nothing, and BUTTON1 starts the first
    script of the next page, which is not on the screen. `CursorsMarkTheIndex` and
    `ChosenIsOnScreen` allow that slot. After a page that cannot be found (line 96)
    `maxindex` is that of the page before.
19. `main.c:384`: `get_time() < end` is not a difference: a sleep whose end wraps is
    over at once. `SleepLasts` excepts it.
20. `main.c:380`, `main.c:69`: when BUTTON4 has been held for three seconds, `TimerTick`
    installs the debug hook, which stops the program, in `amx`. While `main()` sleeps,
    handlers run on `nested_amx`, a copy made before; one that hangs there is not stopped,
    however long BUTTON4 is held. `UserCanAbort` makes that exception.
21. `file_selector.c:249`: behind 12, 24, ... scripts with nothing after them, scrolling
    on turns to a page without scripts, which asks to "Please copy some .AMX files to
    the USB drive" (line 139). `NoPageIsMissing` makes that exception, and shows that
    nothing can be chosen there; `ScrollWalksTheList` cannot tell it from the last
    script's place, as the index is -1.
22. `amx_fpga.c:28`: "By default, all pins are input" (`include/fpga.inc:27`), but
    `default_pins`, the state each program finds, has five outputs (0x03C2). The levels
    `fpga_write_pins` gives them are not set back for the next program.
23. `amx_wavein.c:164`: "the first 150 samples will be automatically discarded"
    (`include/wavein.inc:37`). The code discards 151. In `Capture` the FPGA's presamples
    and those discarded are the same number.

## 7. Plan

Done, in the order of their weight in the runtime: keys, supervisor, overlay pool with
its abstract allocator and store, overlays, files with names and screenshots, capture,
rates, file selector, memory and FPGA, and the session they make together; proofs of
all their invariants and action properties.

Left:

1. Measures, like those of `RoundsGoForward` and `RequestsComeToAnEnd`, under
   `CallReturns`, `CaptureReturns` and `UserCanAbort`.
2. Programs with timers in `UserCanAbort`.
3. The rest of what a program leaves to the next: DMA, timer period, trigger mode.
4. `scroller_speed`.
5. Pure algorithms against reference definitions: line drawing, text flow, `valstr`, the
   index arithmetic of the FFT.
