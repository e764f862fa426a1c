# Verification of NEMU, the NPC simulator and AM

The repository holds a computer built from the bottom up: **NEMU**, an
instruction-set emulator with a debugger; **NPC**, a processor core and the
simulator that runs it (the core itself is generated from Chisel and is not in
the repository); and **AM** (abstract-machine), the runtime on which guest
programs run on either of them or natively. NEMU is also built as a library and
serves as the reference of NPC's differential test.

This directory holds TLA+ models of the parts with control state of their own,
the TLC configurations that check them, and TLAPS proofs. `PROJECT.json` maps
each definition to the lines it models, and lists the runs, the mutants that
show each property can fail, the hazards and the findings.

    cd tla
    tlc -workers 2 -config nemu.cfg MCNemu      # one run
    tlapm NemuProofs.tla                        # one proof module

## 1. Inventory

### 1.1 Components

| Component | State | Operations | Hard behaviour |
|---|---|---|---|
| NEMU execution loop (`cpu/cpu-exec.c`, `engine/interpreter/hostcall.c`, `utils/state.c`) | `nemu_state` (state, halt_ret, halt_pc), the budget `n` | `cpu_exec`, `execute`, `exec_once`, `set_nemu_state`, `invalid_inst`, `is_exit_status_bad` | five calls per iteration overwrite one state variable; order decides which verdict survives |
| NEMU differential test (`cpu/difftest/dut.c`) | `is_skip_ref`, the reference's registers | `difftest_step`, `difftest_skip_ref`, `checkregs` | a flag set by one call is consumed by a later one |
| NEMU debugger (`monitor/sdb/sdb.c`) | none of its own | `c si x p w d q info help`, batch mode | long sessions; debugger reads share the guest's path to the devices |
| NEMU watchpoints (`monitor/sdb/watchpoint.c`) | two linked lists through one array, the strings the entries own | `add_wp`, `delete_wp`, `free_wp`, `check_wp` | entry is unlinked twice; pool limit |
| NEMU expressions (`monitor/sdb/expr.c`) | token array | `make_token`, `eval` | recursive algorithm, operator priorities |
| NEMU tracers (`utils/tracer.c`) | ring of instructions, call depth | `iringbuf`, `ftrace` | wrap-around, tail calls |
| NEMU memory and maps (`memory`, `device/io`) | map table | `paddr_read/write`, `map_read/write`, `add_mmio_map` | bounds, overlap |
| NEMU keyboard (`device/keyboard.c`, `device/device.c`) | SDL queue, ring of key codes, data register | `device_update`, `send_key`, `key_enqueue`, `key_dequeue` | user types while the poll drains the queue; full ring |
| NEMU audio (`device/audio.c`) | stream buffer and its count | `audio_io_handler`, `audio_callback` | SDL's thread against the guest's driver |
| NEMU timer (`device/timer.c`) | two clock registers | `rtc_io_handler` | 64-bit time through two loads |
| NEMU SD card (`device/sdcard.c`) and its Linux driver (`resource/sdcard/nemu.c`) | registers, mode and position of the card; pending request of the driver | register accesses; `nemu_request` and the nested finish functions | what a data access means depends on all commands before it; buffers that run out |
| NEMU serial, VGA, alarm | registers | port handlers | output only |
| riscv32 instructions (`isa/riscv32`) | gpr, csr, pc | `decode_exec`, `isa_raise_intr` | traps |
| NPC simulation loop (`npc/csrc/emulator`) | `sim_state`, budget, the core's displayed registers | `sim_exec`, `exec_once`, DPI-C functions | state set by callbacks of the core, of the test and of the window |
| NPC differential test (`difftest.cpp`) | `is_skip_ref`, a NEMU with a pc of its own | `difftest_step`, `checkregs` | reference may stray, end or panic by itself |
| NPC debugger, expressions, tracers, devices | as NEMU | as NEMU | as NEMU |
| AM for NEMU and NPC (`am/src/platform/nemu`, `am/src/riscv`) | driver locals, boot time, contexts on stacks | `__am_audio_play`, `__am_input_keybrd`, `__am_timer_uptime`, `__am_asm_trap`, `__am_irq_handle`, `kcontext`, `yield` | several register accesses per call; context switches, nested traps |
| AM native (`am/src/native`) | one Linux process per CPU, `thiscpu`, page lists in shared memory, device threads, pipes | `sig_handler`, `irq_handle`, `__am_switch`, `map`, `mpe_init`, `ioe_init`, `event_thread`, `audio_play` | signals, processes and threads that share memory without locks |
| klib and libgcc | heap pointer | `malloc`, `memmove`, `vsnprintf`, `__udivmoddi4`, ... | boundary values, overlapping areas, carries |
| qemu-diff (`nemu/tools/qemu-diff`) | the connection to QEMU's gdb stub | `difftest_memcpy`, `difftest_regcpy`, `difftest_exec`, `gdb_send`, `gdb_recv` | damaged packets, acknowledgements, no timeouts |
| Configuration (`nemu/tools/kconfig`, `fixdep`) | symbols with their kept values, `.config`, `auto.conf`, `autoconf.h`, touched files, objects | `sym_calc_value`, `sym_set_*`, `conf_read`, `conf_write*`, the modes of `conf`, menuconfig with its dialog boxes | values calculated on demand and kept; a tool killed between two files |

The kconfig and fixdep tools come from Linux and are kept, with changes, in the
repository; NEMU is not built without them. Not considered further: the other
instruction sets and the ports to x86, mips, loongarch and spike, which are
skeletons or not used by the project.

### 1.2 How they interact

* The debugger calls `cpu_exec`. Each iteration of `execute` is `exec_once`, then
  `trace_and_difftest` (difference test, then watchpoints), then the test of the
  state, then `device_update`. All of them write `nemu_state`.
* A device access, the guest's or the debugger's, passes through
  `find_mapid_by_addr`, which tells the differential test to skip.
* The keyboard's events come from SDL; SDL's audio thread calls
  `audio_callback`. These are the only other threads of NEMU.
* The guest's drivers (AM) talk to the devices in single loads and stores. Between
  two of them time passes, the other thread runs, and the window may be closed.
* An exception of the guest passes through NEMU (`ecall`), `trap.S`, `cte.c` and the
  guest's handler, and back through `mret`; the context on the stack is all they
  share.
* A CPU of the native AM is a process; what the CPUs share is a memory file, a pipe
  that starts them, and the window, which belongs to the first.
* `conf` and `mconf` leave files to the build; make and fixdep decide from their
  times which objects are old.
* The NPC simulator calls the core; the core calls back through DPI-C
  (`mem_read`, `ebreak_exit`, ...); the reference is NEMU, called as a library.

### 1.3 What makes each component correct

* Execution and differential test: a wrong result stops the run before another
  instruction is executed; nothing but a wrong result or an invalid instruction
  is reported as one; an ended program stays ended; the exit status tells the
  outcome; `si N` executes N instructions.
* Watchpoints: the lists never lose or share an entry; a command stops at the
  instruction on which a watched value changed.
* Keyboard: keys arrive once, in order, and do arrive.
* Audio: the driver never overwrites what is still to be played; nothing is lost
  or overtaken; calls return.
* Clock: on NEMU a returned time is one the clock showed; on NPC, where it may not
  be, two calls that no carry split agree on the time between them.
* Maps: an access to one region never changes another.
* Traces: the ring shows the last instructions in order, a return is printed at the
  depth of its call.
* Expressions, arithmetic, klib: the values and texts that C prescribes.
* SD card: a transfer reported as good moved the right words, once; every request
  is completed.
* qemu-diff: after a call the reference is exactly as asked.
* Configuration: what is shown is what a calculation from scratch would give; an
  accepted answer takes effect; what is saved can be loaded; no object is stale.
* AM: a flow that is resumed has the registers, stack and pages it had; devices are
  initialised once; keys and samples arrive in order.

## 2. Modules

| Module | Models | Proofs |
|---|---|---|
| `Nemu` (`MCNemu`) | execution loop, differential test, debugger commands, `check_wp`, window events | `NemuProofs` |
| `WatchSet`, `WatchpointPool` (`MCWatchpointPool`) | the watchpoint lists, and the list the user sees | `WatchpointPoolProofs` |
| `KeyFifo`, `KeyQueue` (`MCKeyQueue`) | event poll, key ring, data register, guest driver, and the bounded queue they promise | `KeyQueueProofs` |
| `Audio` (`MCAudio`) | stream buffer, SDL callback, guest driver | `AudioProofs` |
| `Rtc` (`MCDevices`) | clock registers and drivers of NEMU and of NPC | `DevicesProofs` |
| `IoMaps` (`MCDevices`) | memory, device regions and ports: registration, lookup, bounds | `DevicesProofs` |
| `Tracer` (`MCDevices`) | the ring of instructions and the call trace of both simulators | `DevicesProofs` |
| `NpcSim` (`MCNpcSim`) | the NPC simulator, its differential test and its debugger | `NpcSimProofs` |
| `SdCard`, `SdHost` (`MCSdHost`) | the SD card as a record of its registers; the Linux driver composed with it | `SdHostProofs` |
| `GdbLink` (`MCGdbLink`) | qemu-diff, a damaging line and QEMU's stub | |
| `RiscvCte` (`MCAm`) | `ecall`, trap entry, `__am_irq_handle`, `mret`, for the ports to NEMU and NPC | `AmProofs` |
| `NativeCte`, `NativeIoe`, `NativeAudio` (`MCAm`) | the native AM: traps and address spaces; start, devices and keyboard; sound | `AmProofs` |
| `KconfExpr`, `KconfSym`, `Kconfig` (`MCKconfig`) | configuration: expressions, values, and the tools with their files | |
| `KconfBuild` (`MCKconfig`) | what `conf_write_autoconf` leaves for the build, killed at any step; the part of `Kconfig` without calculations | `NemuProofs` |
| `Lxdialog` | the dialog boxes of menuconfig | |
| `Expr`, `NpcExpr`, `ExprTree` | the expression evaluators of the two debuggers, and what an expression means in C | |
| `Int64`, `Klib` | arithmetic on double words; strings, heap and printf | |

`MCAlgorithms` checks the modules that are functions of their input: `Expr`,
`NpcExpr`, `ExprTree`, `Int64`, `Klib`, `KconfExpr` and `Lxdialog`. They use
`RECURSIVE` operators, so no theorem is stated about them. `MCDevices` and `MCAm`
hold parts that share no state: a behaviour of the instance is about one part.

Names are the source's wherever it has one. Operators commented "Faulty variant"
are not used by any specification: each is a plausible bug of the definition
after it, and is what the mutants of `PROJECT.json` put in its place.

### 2.1 Nemu

NEMU's main thread is sequential, so a step is one call of the loop rather than
one statement. `phase` says which call is next:

    prompt -> exec -> difftest -> watch -> tail -> exec ...
                                              \-> prompt or exit

| State | Code |
|---|---|
| `state`, `halt_ret` | `nemu_state` |
| `n` | the parameter of `execute` |
| `is_skip_ref` | the static of `dut.c` |
| `dut`, `ref` | `cpu`, and the reference's registers |
| `expression`, `value` | the two members of each `WP` |
| `quitEvent` | an `SDL_QUIT` in SDL's queue |

An instruction of the guest goes one of five ways: `exec_normal` (NEMU computes the
right registers or wrong ones), `exec_device`, `exec_trap`, `exec_invalid` and
`exec_out_of_bound` (panic). `difftest_step`, `check_wp`, `device_update`,
`LeaveLoop` and `execute_done` are the calls of the loop that follow. The
debugger's commands are actions enabled at the prompt. `Return` is the `switch`
at the end of `cpu_exec` and the way back to the prompt, or to `main` in batch
mode.

Abstractions:

* gpr, csr and pc, all of which `isa_difftest_checkregs` compares, are one value
  of `Arch`; an instruction is a function on it. Memory is neither compared by
  the code nor part of `Arch`.
* A debugger expression is a function on `Arch` that yields a value, `Device`
  (it reads a device register: any value, and the skip flag is set) or `Nowhere`
  (it panics).
* `cmd_w` takes any idle entry; which one the pool hands out is the subject of
  `WatchpointPool`.
* `difftest_skip_dut` has no caller, so its branch of `difftest_step` is left out.
* `device_update` returns at once when it last polled less than 1/TIMER_HZ s ago;
  whether it polls is a choice.

`verdict`, `interfered`, `asked`, `executed`, `start` and `cur.kind` are history:
no action's guard or assignment to another variable depends on them.

Two ways in which the debugger disturbs a run are recorded in `interfered`, and
the properties say exactly where they make exceptions: `"mmio"` (a debugger
expression read a device and so set `is_skip_ref`) and `"watch"` (a watchpoint hit
replaced `END` or `ABORT` by `STOP`); see the observations in section 3.

### 2.2 WatchpointPool and WatchSet

`WatchpointPool` has the array's `next` members, `head` and `free_`, and the
locals of `delete_wp` and `free_wp`; a step is one turn of a loop. `WatchSet` is
what the user sees: the sequence of active numbers that `info w` prints.
`ImplementsWatchSet` maps `active` to the list reached from `head`.

### 2.3 KeyQueue and KeyFifo

`KeyQueue` follows a key from the user through SDL's queue, `device_update`,
`send_key`, the ring, `i8042_data_io_handler` and `__am_input_keybrd`.
`poll_event` handles one event, since the user may go on typing meanwhile. The
scancode is cut to a `uint8_t` as in the code. `END` at the prompt is not
distinguished from `STOP`: no key is let through in either.

`KeyFifo` is the promise: a queue of `KEY_QUEUE_LEN - 1` keys. The refinement maps
its `q` to the slots from `key_f` up to `key_r`. In the state in which the
`Assert` of `key_enqueue` has failed the indices are equal although the ring is
full, so the mapping takes `KEY_QUEUE_LEN - 1` slots there.

### 2.4 Audio

`audio_io_handler` and `audio_callback` hold SDL's lock, so each is a step. The
guest's `__am_audio_play` is split where it accesses the device: read the count
(`audio_play`, `wait_space`), store one sample (`copy`), store the count
(`commit`). Samples are numbered in the order the program plays them, which lets
the properties speak of loss, repetition and order. The buffer is counted in
samples; formats and frequencies are left out.

### 2.5 Rtc

`tick` moves the clock at any time, in particular between the loads of the two
words. The clock is assumed not to go back (`get_time` uses the wall clock in one
of its build options). `machine` chooses between NEMU, where `rtc_io_handler`
latches both words when the upper is read, and NPC, where `mem_read` answers
each load with the time of that load. `last_us` and `last_to` remember the last call
that no carry split.

### 2.6 NpcSim

The same structure as `Nemu`, with the differences of the NPC code: the reference
has its own pc and runs the instruction it finds there; `checkregs` ignores its
pc argument; a skipped instruction copies the core's registers and pc to the
reference; `wp_check` is never called; `ebreak_exit` stores 0 as the exit code; the event
queue is not cleared at the prompt. The core is external: each instruction may
leave any registers and any pc, and may load from or store to any address: the
parameter `touches` of the instructions says whether it accessed the serial port
or the RTC, which `mem_read` and `mem_write` decide by the address they are called
with, whatever the instruction was to do. What the model assumes of the core is that
it recognises an `ebreak` and an invalid instruction. After the core jumped
wrongly the reference may execute its own trap (`refOver`); a reference that comes to
a device access no skip covers panics, because it has no devices
(`difftest_panic`).

Two things make `difftest_step` skip an instruction: the core's access to a device,
and a load of the debugger from one, which passes through `mmio_read` and
`find_mapid_by_addr` (`Load`; the history `poked` remembers it). A skip takes over
the core's registers and pc, so a wrong result of that one instruction is never
seen: with a wrong load address that happens to be the RTC's, a wrong register stays
and the program goes on. `verdict` is therefore what there is to conclude from
instructions no skip covers, and `EndIsFinal` says that each such conclusion is
final: the skip extends to no other instruction (the mutant of `EndIsFinal` lets it).
`RegsInSync` holds across skips.

`verdict` has `wrong_pc` apart from `wrong_registers`, because the former is not
looked for by the code; `EndIsFinal` and `BatchStatus` speak of runs in which the
jumps were right. `BatchStatus` claims nothing of an `ebreak` with a0 other than 0 ("bad"):
`sim_exec` would report a bad trap, but `ebreak_exit` stores 0. The instruction cache of
`inst_fetch` and the tracing in `func_check` are left out.

### 2.7 IoMaps and Tracer

`IoMaps` has the map tables of NEMU (memory-mapped regions and ports) and of NPC.
Devices register regions in any order while they are initialised (`new_space`,
`add_mmio_map`, `add_pio_map`), then the guest reads and writes at any address and
width. A byte holds the number of the write that stored it. `spilled` and
`outside` are history: an access ran past the pages of its region, or past memory.
Regions are assumed shorter than memory, since the check for an overlap looks at
the ends of a region only.

`Tracer` has the ring (`write_ring_buffer`, `print_ring_buffer`) and the function
trace of each simulator: NEMU decides from the instruction, NPC's `func_check` from
the core's report, which may come more than once for a jump. Functions with and
without a symbol call, return and jump to one another. `drift` records the jumps
after which the code's depth and the program's go apart.

### 2.8 SdCard and SdHost

`SdCard` is a record per register and per static of `sdcard.c`, and operators for
accesses; `SdHost` has the statics of the host driver and one action per step of
`nemu_request`: the command with CMD23 before it, a word of a transfer, a block
that fails, the finish functions, CMD12. A request is chosen from every command
the card knows, with and without data, buffers one word short, and block sizes the
driver refuses. A command the card does not know makes NEMU panic. A write
behind the end of the image leaves zeros between the two, as a file does.

### 2.9 GdbLink

The entry points of `diff-test.c` become lists of commands (`todo`), sent one at a
time and read back by `recv_packet`, byte by byte with its escapes, run lengths and
checksum. QEMU's stub is external: it executes a command whose checksum is right,
refuses others, sends its reply again until it is accepted. The line damages
bytes between `$` and the checksum. Neither side of the code has a timeout, so
damage to the framing or to an acknowledgement stops both for ever; it is outside
the fault model. So is damage that an 8-bit sum cannot see.

### 2.10 Configuration

`KconfSym` has the record of a symbol (`val` and `tri`, the kept value; `valid`;
`du`, `ut`, `uv`, the user's value; visibility; the value of a choice) and
`sym_calc_value`, `sym_set_tristate_value` and the rest as operators on the whole
state, because a calculation changes the symbols it meets. `Kconfig` adds the
processes: `pc` says what the running tool does next, one action per file it
writes, and `Crash` may come at any of them.

`KconfBuild` is the part of `Kconfig` that a theorem can be stated about: the files
auto.conf and autoconf.h, and the objects of the build. `lines` is what a running
`conf_write_autoconf` writes, any texts in `NextBuild` and the calculated ones in
`Kconfig`. `newer` has the objects that are older than include/config/x.h of a symbol
they name, which `conf_touch_dep` enlarges and `compile` empties. `Kconfig` extends the
module and conjoins its actions with what they do to the memory of the tool and
to .config (`Autoconf` with `conf_touch_deps`, `Crash` with `killed` and so on); its other
actions leave these variables unchanged. So every step of `Kconfig` is one of
`NextBuild` by construction.

Abstractions: one flat menu; the Kconfig file of `MCKconfig`, which has a modules
symbol, a tristate, a choice, select, imply, conditional defaults and a range; no
hex symbols; no randconfig, KCONFIG_ALLCONFIG, KCONFIG_OVERWRITECONFIG or
alternate file names. `SYMBOL_CHANGED` serves other front ends.

`KconfExpr` has trees for expressions, `Lxdialog` a record per box with the rows of
its window, so that what is on the screen can be compared with what the box holds.

### 2.11 AM on riscv

`RiscvCte` models a trap word by word: the frame on the stack, the csr registers,
the C frame of `__am_irq_handle` below it. Registers are ra, sp, a0, a7 and one that
stands for t0-t2; addresses and values are numbers. No interrupt can come (`iset` is
empty, `isa_query_intr` returns none), so an `ecall` up to the call of the handler
is a step, and so is the return. The guest's handler may nest traps, make threads
and return any context that no suspended handler is working on. `want`, `live` and
`words` are history: what the running flow, the owners of saved contexts, and the
words on the stacks rely on. A flow traps or calls only while its stack has room
for a context and the handler's word (`LowerEnd`): nothing in the code looks for an
overflow, and a program that overflows its stack has no claim on its contexts.

### 2.12 AM native

`NativeCte`: a signal stores the context of the CPU (`sig_handler`, `setup_stack`),
`irq_handle` calls the guest, which returns a context; `__am_switch` unmaps and maps
pages (`unmap_all`, `map_all`), and `iret` restores. Each is a step of one process,
since other processes run in between; a process in library code does not take
the interrupt. The guest runs a thread on one CPU at a time and gives every process an
address space of its own. A page mapped twice closes the list into a cycle, after
which the next `__am_switch` does not end (`spin`).

`NativeIoe`: `mpe_init` forks, initialises the devices and writes a byte per CPU
into a pipe; `ioe_init` may be called before it, after it or not at all. A CPU that
uses a device looks at `ioe_init_done`, which all processes share and nothing locks
(`do_io`), and calls `__am_ioe_init` in a later step if it was unset. `lazy` counts
how often a CPU found it unset; `prepared` says that `mpe_init` came after `ioe_init` and
before any use of a device. The event threads and the reader of keys share the ring
under SDL's lock.

`NativeAudio`: loads and stores of `count` are steps of their own, the pipe has a
capacity and writes longer than PIPE_BUF may be cut short. `mishaps` collects what went
wrong on the way: a write that was cut, a `count += n` stored over a count the callback
had lowered (`raised`), an addition that was overwritten (`lost`), a read that got less
than it asked for (`short`), a callback that left SDL's buffer (`outside`). The behaviour goes on
after a stale count was stored; it is followed until a read was `short` or `outside`.

### 2.13 Pure algorithms

`Expr` and `NpcExpr` take a sequence of lexemes; the value is a word of W bits or
`Panic`. `ExprTree` writes trees as C does, with the brackets its priorities need,
and evaluates them. `Int64` keeps the words of the code at B bits. In `Klib` a
memory is a function of addresses to bytes.

## 3. Runs

| Run | Bounds | What it shows |
|---|---|---|
| `nemu` | 2 register values, 2 instructions, 2 watchpoints over 3 expressions (register, pointer out of memory, pointer to a device), `si` of -1, 0, 1, 2, 64-bit counters that wrap at 4, debugger and batch mode | `StaysInSync`, `EndIsFinal`: the differential test misses no wrong result. `WatchesStop`, `BatchVerdict`, `CommandEnds` |
| `watchpoint_pool` | 4 entries | `PoolPartition` (with the strings the entries own), `ImplementsWatchSet` |
| `key_queue` | ring of 3, 4 events, a mapped key, an unmapped one and a media key with a scancode above 255 | `KeysInOrder`, `ImplementsFifo`, `KeysArrive` |
| `audio` | buffer of 3, calls of 1 to 3 samples, callbacks of 1 or 2, 5 samples in all | `WritesBehindTheRest`, `FirstPlaysInOrder`, `EverySamplePlayed` |
| `audio_repeat` | the same | **violation** of `PlayedOnce`, the finding below |
| `devices` | words of 4 values, clock up to 12; two of five regions, pages of 4 bytes, accesses of 1, 2, 4 bytes at every address; ring of 3, 7 instructions, 3 functions | `UptimeIsATime` (NEMU), `UptimesAgree` (NPC); `RegionsKeepApart`; `TracesRight` |
| `npc` | 3 programs of 3 instructions, 2 register values, 1 watchpoint over 3 expressions, `si` of -1, 0, 2, counters that wrap at 4, debugger and batch mode | `RegsInSync`, `EndIsFinal`, `BatchStatus` |
| `algorithms` | trees of up to 3 operators and texts of up to 4 lexemes; all pairs of 8-bit double words; every copy within 4 cells, 4 allocations, formats of 2 directives; Kconfig expressions of up to 2 operators under every assignment; boxes of up to 6 items and texts of up to 5 characters under every sequence of keys and resizes | `DebuggersAgreeWithC`, `ArithmeticRight`, `KlibRight`, `SimplifyKeepsValue`, `BoxesRight` |
| `sd_host` | image of 2 blocks of 2 words, 3 requests | `RequestsRight`, `RequestEnds` |
| `gdb_link` | 2 registers, 4 bytes, commands of 2, 2 damaged bytes, 2 calls | `ReferenceAsAsked`, `CallsReturn` |
| `kconfig` | 8 symbols, 2 answers and 2 tools in a behaviour, edits by hand, one object | `ValuesRight`, `AcceptedTakesEffect`, `FilesRestore`, `ObjectsCurrent`, `SessionKept` |
| `am` | 2 CPUs, 2 processes, a kernel thread, one page; 3 CPUs starting, ring of 3, 5 events; pipe of 3 bytes with atomic writes of 2, 5 bytes in all; 2 riscv threads, one yield per flow and level | `OwnPages`, `ContextsKept`; `IoeOnce`, `NativeKeysInOrder`; `NativePlaysInOrder`; `RiscvContextsKept` |

Why the bounds are enough to be interesting:

* `nemu`: two register values give right and wrong results, and make a wrong
  result come right again by the next instruction (`clear`), which is how a
  missed comparison would escape notice. Two watchpoints let one change while
  the other does not. A budget of 3 covers a `c`, which has the same budget as
  `si -1`, that runs out.
* `watchpoint_pool`: with four entries a deleted one can be first, in the middle
  and last, and lists of every order come about; the number NR_WP and -1 are
  tried too.
* `key_queue`: four events fill a ring of two usable slots, wrap it and overflow it.
* `audio`: five samples through three slots; the driver has to wait, and callbacks
  come between its read and its write of the count.
* `devices`: three carries of the lower word; regions that fill their page, that do
  not, that touch memory, and two that are refused; a ring that wraps twice.
* `npc`: the programs contain a device read before a branch, a trap, an invalid
  instruction and code a stray reference can reach; every instruction may touch a
  device or miss one, and the debugger reads one before any of them.
* `algorithms`: three operators give every pair of priorities with brackets and
  signs on either side; double words of 8 bits have all the cases of the division
  by words; four cells hold every overlap of two areas.
* `sd_host`: a transfer that fails, then one that must not inherit its position, with
  a request of another kind between or after them.
* `gdb_link`: an image takes one command, two, or two and a shorter one; a packet is
  damaged twice, or a packet and its reply.
* `kconfig`: a tool killed, another that repairs, and a build after each; two answers
  change a symbol and one that depends on it.
* `am`: a process moves between CPUs, with another one on its old CPU; a ring of two
  usable slots overflows; a write that does not fit is cut; a handler is
  suspended by a trap of its own while another thread runs.

Deadlock is checked in `nemu`, `watchpoint_pool`, `key_queue`, `audio`, `npc` and
`gdb_link`; a process that has exited or died stutters explicitly there (`Gone`,
`Dead`, `Done`). The other instances end when their inputs are used up, and
the system may stop there.

### Fairness

* `Nemu`: weak fairness of the loop as a whole (the thread runs) and of the one
  command of batch mode. The user need not type anything. `CommandEnds` does not
  need the guest to trap: the budget is finite.
* `WatchpointPool`: weak fairness of `delete_wp`'s own steps.
* `Audio`: weak fairness of SDL's callback, which SDL calls for as long as the
  device is open, and of the driver.
* `KeyQueue`: weak fairness of the thread. Strong fairness of "an instruction
  followed by a poll", because time passes and `device_update` polls once in
  1/TIMER_HZ s. Strong fairness of `read_key`, an assumption on the guest: it is a
  program that reads its keyboard again and again.
* `SdHost`: weak fairness of the driver, which runs to the end of a request under its
  mutex. The kernel need not send another.
* `GdbLink`: weak fairness of both ends; the line damages a bounded number of bytes.
* The other modules have safety properties only.

### Finding

`audio_repeat`: `__am_audio_play` stores a count it computed before the callback
lowered it, and samples are played twice (`ioe/audio.c:67`). `FirstPlaysInOrder` and
`EverySamplePlayed` show that nothing worse comes of it: no sample is lost.

### Observations

What the models show of the code and the properties therefore make exceptions
for. Each is the behaviour of the model; none has a run of its own.

Debuggers and simulators:

* `check_wp` stores `NEMU_STOP` over `END` and `ABORT`, so a program whose watched value
  changes on its last instruction can be resumed (`watchpoint.c:155` against the
  message at `cpu-exec.c:100`).
* A debugger read of a device register makes the differential test skip the next
  guest instruction, whatever it is (`map.h:41` against `dut.c:34`); on NPC likewise
  (`npc/csrc/1nclude/device/map.h:26` against `difftest.cpp:52`).
* NPC: a load or store whose address the core computed wrongly is not compared when that
  address is the serial port's or the RTC's (`dpic.cpp:69`), although the log says "The
  result of every instruction will be compared" (`difftest.cpp:88`): the wrong
  register is copied to the reference.
* NPC: `ebreak_exit` stores 0 whatever a0 holds, so no trap is bad (`dpic.cpp:13` against
  `simulate.cpp:97`); watchpoints never stop a program (`watchpoint.cpp:126` has no
  caller, against the help text at `sdb.cpp:42`); `q` before the end gives a bad
  exit status although `state.cpp:6` counts quitting as good; `checkregs` does not
  compare the pc it is given.
* NEMU: `q` after a bad trap gives a good status. A signed number ends the
  evaluation of its range: `-1+2` is -1 (`expr.c:366`); `-(e)`, `-$a0` and `!x` panic; a
  lone bracket as operand is worth 0 although the comment at `expr.c:96` says it is
  thrown away. The array of 64 tokens is guarded by an assertion on 65536
  (`expr.c:136`).
* NPC: `a-b-c` is `a-(b-c)` (`expr.cpp:269`), `!0` is 0.
* Traces: the arrow "the error instruction" of NEMU's ring is at slot 0
  (`tracer.c:23`). NPC's `func_check` drops repeated calls from one address, so
  recursion moves the depth; jumps between functions with and without a symbol
  do on both.
* Maps: a wide access past a region that fills its pages reaches the next region;
  the check for overlaps misses a region that encloses memory, and ports are not
  checked at all (`port-io.c:25`).
* Clock: on NPC the uptime goes back by 71 minutes when the lower word carries
  between the two loads of a call (`dpic.cpp:79`), and is too large by as much for the
  rest of the run when it does so in `__am_timer_init`. No property calls such a
  result right; `UptimesAgree` says what remains true of the calls that were not split.

Devices and tools:

* SD card: a read of EXT_CSD that ends early leaves `read_ext_csd` set; CMD17 and
  CMD24 panic; so would a read of SDHSTS, which the driver makes only to log.
* qemu-diff: `gdb_start_noack` has no caller, so every packet is acknowledged.
* Configuration: `expr_trans_compare` changes the value when an m is negated, and
  `expr_trans_bool` keeps only the difference between n and not n; tristates
  compared with `<` go by the order of the letters; entering the text a reading left
  behind does nothing (`symbol.c:682`); a load that fails forgets that there are changes
  (`confdata.c:519`); a kill between the two renames of `conf_write_autoconf`, a
  build and a reverted answer leave an object that is not compiled again.
* Dialog boxes: a resize of a menu opened at a saved scroll highlights one item and
  returns another (`menubox.c:177` against `menubox.c:30`); a text without a final
  newline scrolls one line short.
* klib: `itoa(0)` is empty, `%02d` of 5 is "005", `%.3d` is not padded, the returned
  length leaves padding out, `malloc(0)` is NULL, `strncmp` compares past the end.

AM:

* riscv: the frame of the port to NEMU is one word shorter than `Context`, so a
  handler that stored `pdir` would overwrite the interrupted flow's stack; an `ecall`
  with a number other than 11 is executed again for ever, and so is every `ecall`
  after `cte_init(NULL)`; before `cte_init` it jumps to address 0.
* native: the flag `is_mapped` is shared by the CPUs, so two threads of one address space
  on two CPUs lose pages; mapping an address twice makes the page list cyclic; an
  interrupt in library code is lost; devices used before `mpe_init` are
  initialised twice (`mpe.c:27`), with two event threads, and so are devices first used
  by two CPUs at once, when `ioe_init` was not called before `mpe_init` (`ioe.c:78`);
  devices work on the first CPU
  only; scancodes up to 511 index a table of 256 (`input.c:27`); a key read in a
  handler that interrupted another read repeats or loses keys, since SDL's lock is
  recursive; `count` is changed by two threads without a lock: a lost `count -= nread` leaves it
  too high, and the callback waits for bytes that are not there; a lost `count += n`
  leaves bytes that are not played; the callback loads `count` twice, and one that was raised
  above its length in between, or lies below 0 since `__am_audio_ctrl` was called under an
  earlier callback, takes it out of SDL's buffer (`audio.c:20`); a write that was cut starts over (`audio.c:36`).

## 4. Proofs

All theorems hold for every value of the constants that satisfies the
`ASSUME`s of the module: any register set, instruction set, pool size, ring
length, word size and so on. `tlapm` checks every leaf.

**NemuProofs.** The properties are not inductive. The inductive invariant `IInv`
is the conjunction of

* `TypeOK`;
* `Budget`: how `n`, `asked` and `executed` add up in each phase;
* `Flow`: for each phase, what the state, the skip flag and the verdict say about
  `dut` and `ref`. This is the core of the argument: e.g. between `exec_once` and
  `difftest_step` the reference still has the registers NEMU had before, so an
  unskipped comparison finds every wrong result, and after it `dut = ref` unless
  the state is `ABORT`;
* `Watching`: the values the watchpoints keep are those of the start of the
  command while the state is `RUNNING`;
* `BatchAlone`: in batch mode there are no watchpoints and the debugger cannot
  interfere.

`Init => IInv`, one lemma per conjunct for the step with a case per action, and one theorem per property:
`TypeCorrect`, `InSync`, `EndFinal`, `AlarmsReal`, `SkipsJustified`,
`WatchpointsStop`, `BatchStatus`, `BudgetRespected`.

`NoObjectIsStale` is `ObjectsCurrent` of `KconfBuild`, for any symbols, objects and values,
and any number of syncconfigs killed at any step. `ObjectsCurrent` is about states in
which header and auto.conf agree; in between, `BuildInv` keeps `LikeAuto` (an object that
will not be compiled again agrees with auto.conf, the file renamed last, whatever the
header says) and `Announced` (while autoconf is written, a symbol with a new value is
still to be touched, or all objects that name it will be compiled again).

**NpcSimProofs.** The same shape for the NPC simulator: `NpcTypes`, `NpcInSync`
(`RegsInSync`), `NpcEndFinal` (`EndIsFinal`), `NpcAlarmsReal` (`NoFalseAlarm`),
`NpcBatchStatus` (`BatchStatus`) and `NpcBudget` (`BudgetExact`). Its `Flow` differs
from NEMU's in that the reference has a pc of its own: as long as no jump was
wrong the two pcs agree and the reference executes the same instruction
(`ReferenceAhead`), and after a wrong jump only the register files are claimed to
agree, which is what `checkregs` compares. `Skips` says that outside of an instruction
the flag is set only if the debugger read a device, and that an instruction uses it
up: so an instruction is skipped exactly when `verdict` draws no conclusion
from its registers.

**WatchpointPoolProofs.** `PoolIsParted` is `PoolPartition`, and `PoolImplementsSet`
the refinement of `WatchSet`, both for every size of the pool. The invariant
`IInv` says that there are two sequences without repetition, threaded by `next` from
`head` and from `free_`, that share the pool between them and the entry in hand; and
where the loops of `delete_wp` and `free_wp` are in them. It is needed because the
properties speak of the lists found by walking from `head`, and a step changes one
link: what a walk returns after it follows from the sequence before it.
`WalkIsPath` connects the two, and is proved by minimal counterexample: the least
index at which the walk and the sequence differ. The library's induction theorems
cannot be instantiated, but `NatMin` (a set of naturals has a least member) can.

**KeyQueueProofs.** `KeyTypes` is `TypeOK`. `RingIsFifo` is the refinement
`Spec => Fifo!Spec` for every length of the ring, from lemmas on `Contents`: what
appending at `key_r` and removing at `key_f` do to the sequence of slots between
the indices. `KeysReachGuest` is `KeysInOrder`, from the same lemmas and from
`DecodedScancode`: the driver finds in a code the key and the direction that
`am_scancode` put there.

**AudioProofs.** `AudioTypes` and `AudioWrites` are `TypeOK` and
`WritesBehindTheRest`. Their strengthening, `CountOnlyFalls`, says that while a call
is under way the count is at most the one the driver read: the callback only
lowers it and only the driver raises it. `AudioOrder` is `FirstPlaysInOrder`, from two
more: `NoneLost`, every sample the driver was given was played or is in a slot that
will be; and `Covered`, what comes before the sample of a slot was played or lies in
a slot before it, for all the slots that the store of the (possibly stale) count
will make count again.

**DevicesProofs.** `UptimeNeverTorn` is `UptimeIsATime`, from `Latched`: between the two
loads the registers and the guest's upper word hold one time the clock showed
since the call began. `NpcUptimesAgree` is `UptimesAgree`. `Held` says that the upper word
the guest holds is that of the time the call began, that `boot_time`, torn or not, is
not later than the clock, and that a call without a carry returned the clock less
`boot_time`; a `boot_time` that is too early is in both results and drops out of their
difference. `TwoLoads` is what two loads make of a time, for every word size.

`RegionsAreApart` is `RegionsKeepApart`, for any regions, page size and order of
registration. Its invariant `MapInv` says of all the entries of the tables what the
property says of an access: `MapTypes`; `MapsPlaced`, the regions lie on whole pages
that `new_space` handed out and no two share one, by the order in which it hands them
out; `MmioApart`, the address ranges of the memory-mapped ones are disjoint and beside
memory; `Contents`, a region and memory hold what was last written at their addresses,
unless an access ran past its end (`spilled`, `outside`). `Found`, about the loop of
`find_mapid_by_addr`, and `WriteElsewhere` carry the step of an access.

`TracesAreRight` is `TracesRight`. `RingInv` says that the slots before `head` hold the
last instructions, newest first, for every length of the ring; the modulus is
handled once, in `SlotsAround`. `CallInv` says that the depth is one more than the number
of traced frames that are open, and each was printed at the number below it, until
a jump sets `drift`; `CountTraced` and `CountSame` count the frames before and after a
call, a return and a tail call.

**SdHostProofs.** `SdRequestsRight` is `RequestsRight`, for every number of words in
a block and of blocks on the card. The invariant is the conjunction of `TypeOK`;
`Pending`: what the driver has pending in each step; `Counted`: the words moved and
those left make up the transfer, unless a block failed; `ReadAt`, `WriteAt` and `ExtAt`:
where the card's position is, and which words of the buffer and of the image are
already right; `DoneOnce`. Nothing of an earlier request matters, because every
request that moves data starts by setting position, direction and mode: `ExtAt` says
that the one mode that outlives its command, `read_ext_csd`, ends with its last word.
`SendEffect` and `DataEffect` say what a command and an access to the data register
do to the card.

**AmProofs.** Traps and address spaces of the native AM: `CteContextsKept`
(`ContextsKept`) and `CteOwnPages` (`OwnPages`), for any number of CPUs, processes,
kernel threads and pages. The invariant `CteInv` is the conjunction of `CteTypeOK`;
`Held`: what a CPU holds (its thread, the one it goes on with, the mapped address
space) no other CPU holds; `Registers`: the registers fit the thread, and interrupts
are masked from a trap to its return; `Contexts`: every thread that no CPU
executes has its context on its stack; `Mapped`: the host maps the pages of the
address space in `vm`, none while they are changed, and the flags shared by all
CPUs say so. `OwnPages` alone says nothing about a CPU that is in the kernel, where
the pages are changed. `NativeIoeOnce` is `IoeOnce`, from `IoeInv`: `LazyInv`,
a CPU that found the devices not initialised is at it or they are, so that it finds them so
once at most, and before `mpe_init` only the first can; `PreparedInv`, after `ioe_init` it is
`mpe_init` that initialises them, before it lets the other CPUs go. `NativeKeys` is
`NativeKeysInOrder`, from `KeyOrder`: the keys read, those in the ring, the one the
event thread has and those in SDL's queue ascend from one to the next, and are all
of them unless the ring was overrun; when it is, the ring empties and the rest
still ascends.

`NativeSoundInOrder` is `NativePlaysInOrder`, for every capacity of the pipe and all
lengths of writes and callbacks, and whatever the two threads make of `count`.
`SoundRow` says, until a write is cut or a read is short or leaves the buffer (`Spoils`), that
the bytes played, those the callback has read, those in the pipe and those of the call
under way are the program's in a row (`InARow`) and all of them (`Filled`); it does
not mention `count`. `CountRow` says how `count` relates to them until a `count += n` undoes a
`count -= nread` (`Misleads`): it is never more than the bytes that are there, so
no read is short and no callback waits for bytes that will not come; it is just that
if no addition was lost. `NeverBefore` reads "until": what never happened up to a step
had not happened before it.

`RiscvKeepsContexts` is `RiscvContextsKept`, for any stacks, registers' contents and depth of
nesting. `RiscvParts` describes how the flows lie on the stacks: each has the area
from its stack pointer up to the context its handler works on, or to the end of
its stack; areas are disjoint (`WritesApart`), the running flow is the lowest of its
stack (`RunsLowest`), and a flow with something below it waits for a handler
(`Nested`). `Frames` and `WordsKept` then say that the words of saved contexts and of C
frames are what their owners put there, `Suspended` that a context that is not
running holds the registers of its flow. The property speaks of the flow that is
resumed; it follows only because no step in between, of whatever flow, wrote
into that flow's area.

The assumptions on constants and what justifies them:

* `NR_WPAssumption`, `RingAssumption`, `KeyQueueAssumption`, the two `SizeAssumption`s,
  `WordAssumption`: arrays and blocks are not empty, and a ring of keys holds one;
* `ClockAssumption`: the clock does not pass 64 bits of microseconds; `ArchAssumption`,
  `ImageAssumption`, `ExprAssumption`, `DebugAssumption`: registers, programs and
  expressions have values of the right sets;
* `MapAssumption` (`MCDevices`): pages are not empty, the device memory is whole pages,
  an access is no wider than a page and a region no longer than memory;
  `TraceAssumption`: the ring has slots;
* `SoundAssumption` (`MCAm`): lengths are natural and no write is empty;
* `StacksAssumption` (`MCAm`): the stacks do not overlap and have room for a context and the
  handler's frame, registers hold words;
* `ThreadsAssumption` (`NativeCte`): processes, kernel threads and CPUs are told apart,
  and the CPU that boots is one of them;
* `RequestsAssumption` (`SdHost`): what the MMC core asks for: a read has no buffer to
  send and a write none to fill, and EXT_CSD is read as one whole block. The latter
  matters: a shorter read would leave the card in the mode in which it answers
  EXT_CSD to every read after it. CMD8 without data, by which the core looks for SD
  cards, comes before all transfers and is left out.

Only model-checked:

* liveness (`CommandEnds`, `KeysArrive`, `EverySamplePlayed`, `RequestEnds`,
  `CallsReturn`), which is out of the prover's reach;
* what the recursive algorithms compute (`algorithms`, and `kconfig` but for
  `ObjectsCurrent`): it would take induction over data, and `tlapm` has no SMT backend
  in a module that reaches a `RECURSIVE` operator;
* `ReferenceAsAsked` of `gdb_link`. Besides `recv_packet` being such an algorithm, it does
  not hold for every value of the constants, since the checksum is a sum modulo
  256: with three registers, a reply that begins with `33334` (51 + 51 + 51 + 51 + 52 =
  256), the fifth byte damaged into `$`, is accepted without these digits. The
  instance has two registers, and shows the property for damage that the sum
  detects.

## 5. Not modelled

`PROJECT.json` gives the reason for each component. In short:

* what single instructions compute, which is the differential test's own subject;
* the processor core, which is not in the repository; `NpcSim` lets it compute
  anything;
* output (serial, screen), argument parsing, image and ELF loading: input and output
  with no state that a later step depends on;
* the construction of the menu tree from Kconfig files (`menu.c`, `lexer.l`,
  `preprocess.c`): text processing that is over before the first action of
  `Kconfig`; `Kconfig` takes its result, for a flat menu, as constants;
* spike-diff and kvm-diff, which are calls into other programs;
* other architectures and ports, which the project does not use.

NEMU's and NPC's memories are not compared by the code, and programs that read
memory they never wrote may see different contents in NPC and its reference; the
models assume they do not.

## 6. Plan

Modelling to come: `menu_finalize` against the meaning of nested dependencies; the
decoding of immediates and the csr instructions of `inst.c`. The safety properties
that section 4 leaves to TLC are those out of the prover's reach.
