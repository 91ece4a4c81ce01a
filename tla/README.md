# Verification of the nano1g-unicorn emulator

TLA+ models of the iPod Nano 1G emulator in this repository, the TLC
configurations that check them on small instances, and TLAPS proofs of the
properties that matter most. Paths below are relative to the repository root.

## 1. The system

The program is a single-threaded C emulator of an iPod Nano 1G (PortalPlayer
PP502x: two ARM cores, "CPU" and "COP"). Unicorn executes guest instructions;
everything else is C state (`n1g_state_t`, `include/nano1g/state.h`) that three
kinds of code touch:

* **guest accesses**: a load or store outside RAM calls `n1g_bus_read` or
  `n1g_bus_write` (`src/bus.c`), which routes it to one device handler. CPU and
  COP run in alternating slices, so their accesses interleave in any order;
* **ticks**: after both slices the main loop calls `n1g_bus_tick`, which ticks
  every device in a fixed order. Deferred effects (the end of an ATA command, a
  timer expiry, an ADC result) happen only here;
* **the outside**: the scripted input, the web server (polled every 256 ticks),
  the signals, and the restart of the whole machine.

A handler never waits. What on hardware takes time is split in two: the register
write leaves a flag or a deadline behind, and a later tick acts on it. The guest
may do anything in between, which is where the hazards are.

| Part | State | Operations | Interacts with | What makes it correct |
|---|---|---|---|---|
| ATA drive (`disk_ata.c`) | taskfile, status, pending flags, transfer cursor, DMA registers, medium | register reads/writes, tick, load/save | interrupt controller, RAM, lifecycle | BSY/DRQ/IRQ protocol; transfers stay on the medium; an overtaken command leaves nothing behind |
| Interrupt controller (`dev_intc.c`), core control (`dev_cpucon.c`), IRQ entry (`cpu_unicorn.c`) | status/enable/priority words, halted flags, wait counts, CPSR masks | register accesses, tick | every device; both cores | no lost wake-up; masked cores sleep; a core is interrupted only when unmasked |
| Mailbox (`dev_mailbox.c`) | shared bits, two queues, per-core interrupt | reads and writes of both cores | interrupt controller | the other core learns of every message |
| Timers (`dev_timer.c`) | microsecond counter, two timers | register accesses, tick | interrupt controller | expiry is neither lost nor doubled; repeat keeps its phase |
| PMU, RTC, ADC, codec (`dev_i2c.c`) | PCF registers, standby, deadlines, RTC base, WM8975 registers | I2C transactions, tick, charger/onkey events, save/restore | cores, GPIO, lifecycle, web | standby and wake; alarms; the clock never runs backward; debounce of low battery |
| DMA (`dev_dma.c`), I2S (`dev_i2s.c`) | channels, FIFO, PCM ring | register accesses, tick, web drain | RAM, LCD, interrupt controller | every transfer completes; overrun is counted; the PCM cursor stays in the ring |
| LCD (`dev_lcd2.c`), backlight (`dev_backlight.c`) | window, cursor, block transfer; PWM, dimmer | register writes | DMA, web | the cursor stays in the window; a block ends exactly |
| Wheel and buttons (`dev_opto.c`), GPIO (`dev_gpio.c`) | report queue, button bits, hold; latches, edge detection | script/web input, register accesses, tick | interrupt controller, PMU (Menu wakes it) | hold suppresses input; the IRQ bit means a report is waiting |
| Serial (`dev_serial.c`) | FIFO, interrupt enables | register accesses, tick | interrupt controller | interrupt identification order |
| NOR flash (`dev_flash.c`) | array, command mode | bus reads/writes | memory map | the command state machine |
| Memory map (`memmap.c`, `dev_memcon.c`, `dev_cachecon.c`, `ram.c`) | MMAP registers, remaps, translation-buffer flush | register writes, address decode, step boundary | cores | an access after a map change sees the new map |
| Scheduler (`main.c`, `bus.c`) | tick counter, budget | loop, idle fast-forward | every device | skipping idle time is unobservable |
| Lifecycle (`main.c`, `firmware.c`, `boot_reset.c`) | images on disk, PCF state file, options | start, browser restart, PMU wake, exit, crash | every part | guest writes and battery-backed state survive restarts |
| Web front end (`web_frontend.c`) | clients, last state, audio cursor, restart request | poll, HTTP requests | lifecycle, input, PMU, GPIO | a restart is taken once; audio is neither repeated nor skipped |
| Input script (`input_script.c`) | position, wait | tick, advance | wheel, scheduler | waits count ticks, skipped ones included |
| Tracing, diagnostics, tools, tests | counters, text | | | out of scope |

`PROJECT.json` lists each part with its modules and status, and every hazard at
its line of code.

## 2. Plan

Order: what loses data or hangs the guest first. Each step is done unless marked.

1. **ATA** (`AtaDisk`, `AtaDriverView`, `AtaDiskView`, `AtaDiskProofs`).
2. **Lifecycle** (`Lifecycle`, `LifecycleProofs`): images, PCF state file,
   browser restart, PMU wake, crash.
3. **Cores** (`Cores`, `CoresProofs`): slices, `dev_intc.c`, `dev_cpucon.c`,
   interrupt entry, `dev_mailbox.c`.
4. **PMU** (`Pmu`, `PmuProofs`): standby, wake, ADC, low battery, clock, alarm,
   and the PMU's share of the idle fast-forward.
5. **Idle** (`Idle`, `IdleProofs`): the loop, its skip, the timers, a serial port, the script.
6. **Audio** (`Audio`, `AudioProofs`): DMA channels, I2S FIFO, PCM ring and the page's cursor.
7. **Input** (`Input`, `FrontProofs`): wheel, buttons, hold, chargers.
8. **Memory** (`Memory`, `MemoryProofs`): maps, remapping, translations, routes.
9. **LCD** (`Lcd`, `FrontProofs`): controller, its DMA request, the driver.
10. Left: the calendar (days to years) as a pure algorithm; the transactions of the
    I2C bus; the NOR flash; the brightness.

A run asks one question of one component; guests, drivers and profiles that
differ only in what they use share a run and are told apart by a variable of the MC
module. The small devices 5, 7, 8 and 9 do not interact and share `MCDevices`.

Theorems worth proving: the inductive invariants of 1 to 4 and of 6 to 9 for every value
of the constants (done), that in 5 a skip is so many ticks, and script, polls and timers are on
time (done), and that the drive of 1 implements the driver's view (done, up to progress).

## 3. Modules

### ATA drive

| Module | What it is |
|---|---|
| `AtaDisk` | the drive: one action per register write with an effect, per register read with a side effect, and per branch of `n1g_disk_tick` |
| `AtaDriverView` | what a driver may rely on: five phases, an interrupt, sectors left |
| `AtaDiskView` | the refinement mapping from the registers to that view |
| `AtaDiskProofs` | the proofs |
| `MCAtaDisk`, `MCAtaDiskView` | instances for TLC: three drivers, and two-sector commands for the view |

State. `pending` is the set of `*_pending` booleans that are true; `status` is
the status register named by its bits; `irq_line` is bit 23 of the two
interrupt-status words. `dirty` is the set of byte offsets of the image the
guest has overwritten: the data itself never matters to the protocol.
`first_lba` and `total` are history variables, the extent the running command
asked for. The three LBA byte registers are one lane of `LaneSize` values and the
nibble in the device register another, so the split of an LBA over registers
(and the mask that keeps one when the other is written) is modelled, with a small
radix. Constants replace 512, 256, 2^24 and 16; the proofs hold for all values.

Actions. Every register write of `n1g_disk_write` is an action with the guards
of the code: taskfile writes are ignored during a reset, the DMA registers are
not, a command is accepted *whatever is outstanding*. A 32-bit data access
moves one word or two, depending on where the block ends (`WordsMoved`). The
tick is one action per flag; `BusyMatchesPending` shows that at most one flag
other than `dma` is set, so the order in which the code tests them is not
observable. Whether a DMA address is backed by RAM (`n1g_ram_ptr`) is a choice.

### Lifecycle

| Module | What it is |
|---|---|
| `Lifecycle` | the process from start to exit, as far as files and restarts go |
| `LifecycleProofs` | the proofs |
| `MCLifecycle` | two presets, four images and five command lines for TLC; three guests |

State. `pc` is the place in `main`: the loop, the hold page, one step of a save,
the re-initialisation, or no process at all. An image is the image it started
from and the set of guest writes it carries; what is written does not matter,
only whether it survives. The PCF register bank is the number of times the guest
has programmed it, or `Blank` when it was just zeroed. `made` is a history
variable: the writes the session's disk is owed. So is `rewound`: a wake from standby has
put the seed image back into the drive, which takes from the guest what it wrote.

Actions. A save is one action per file operation (open, write, rename), each of
which may fail, because a crash may fall between any two. A failed operation
goes where the code goes: before a restart of the loop the page holds the
machine and the restart is dropped; on the hold page the process ends; at the
end the next save is still tried. `WebRestart` and `LeaveLoop` take a request
from the poll inside the loop and from the one after it; `HoldOrExit` covers
both a run with a page and one without. `MakeRestartOpts` is the rule by which a
preset gets either its own disk or the session's output.

### Cores

| Module | What it is |
|---|---|
| `Cores` | both cores: sleeping, waking, interrupt entry and return, the controller, the mailbox, the slices |
| `CoresProofs` | the proofs |
| `MCCores` | register values and three guests for TLC |

State. `core` holds one record per core: the `halted` flag the scheduler tests,
the mode and masks of the CPSR, both saved status registers (`None` while no
handler needs them), the CPUCON word and `wait_ticks`. `status`, `enable` and
`priority` are the controller's words as sets of sources, `forced` is common to
both cores. `unseen` is a history variable: a message the receiver has not read.
`turn` and `executing` are the scheduler.

Actions. A guest access belongs to the core whose slice it is. A slice ends between
any two accesses, and `halted` is tested only before a slice, so a core that puts
itself to sleep executes on until its slice ends, and the other core may wake it
before that. `Tick` is one atomic step, as `n1g_bus_tick` is: devices raise their
requests, the PMU may cut the power, waits count, and then for each core the FIQ
and after it the IRQ is delivered. The two are delivered one after the other on
the same record, because the entry of the FIQ masks the IRQ.

Abstractions. The words sent through the mailbox are left out: whether a queue
holds a bit matters to the protocol, not which. `svc` stands for every mode but
IRQ and FIQ. The guest's handlers do not unmask interrupts before they return;
everything else the guest does with its CPSR is free.

### PMU

| Module | What it is |
|---|---|
| `Pmu` | standby and wake, the ADC's timing, the battery monitor, the clock and its alarm, the interrupt registers, save and restore, and how far a skip may go |
| `PmuProofs` | the proofs |
| `MCPmu` | five profiles of what the guest and the outside do |

State. `pmu` is one record of registers and deadlines; `now` is `device_ticks`, `rate`
is `rtc_usec_per_tick`, `battery` says where the battery stands to the threshold.
`below_run`, `low_run` and `woken` are histories: for how many ticks the battery has
been below, for how many it has been reported low, and what woke the machine until
the guest has read it.

Actions. `TickAt` is `n1g_dev_i2c_tick`: an operator per part, composed in the order
of the code, so that what the forced standby cancels and what an alarm wakes in the same
tick is the code's. `Advance(n)` is `n1g_bus_advance`: one tick at `now + n`, allowed as
far as `MaySkip`, the PMU's share of `n1g_bus_idle_advance_limit`. Because a tick is an
operator of the record and the time, that skipping is invisible can be stated as a state
predicate: each of the skipped ticks would have changed nothing. A restart folds the clock
into its registers and starts `device_ticks` again.

Abstractions. Two clock fields of small radix stand for seven; three battery levels for
millivolts, with the threshold moved by `WriteBvmc`; the results of the ADC, the codec
and the bytes of a transaction are left out.

### Audio

| Module | What it is |
|---|---|
| `Audio` | the path of a sample: DMA channel or halfword write, FIFO, clock, PCM ring, the server's two answers, the page |
| `AudioProofs` | the proofs |
| `MCAudio` | a guest that plays through two channels, one that plays by hand, and one that plays while the page polls |

State. `audio` is the FIFO as the code keeps it, an array with a head and a fill, the
clock's remainder `drain_acc`, the ring and its counters, and the channels. The
queue the guest believes in, the samples moved and the interrupt it is owed are
histories beside them. `pump` and `status` are the page's two requests: in flight, or
answered and not yet arrived.

Actions. A tick drains what its time is worth and then runs the channels, in that order;
a channel started between two ticks runs at once as the code does. A halfword pair is
one write that takes two slots. The page's script is modelled from `INDEX_HTML`:
its cursor moves with either answer, and a rate or stream it does not know starts its
queue anew.

Abstractions. A sample is a number and the gain leaves it alone. The page's timing
of its buffers is left out, what it queues is not.

### Input, Idle, Memory, LCD

| Module | What it is |
|---|---|
| `Input` | wheel, buttons, hold and chargers between the page and the guest's two interrupt handlers |
| `Idle` | the loop of `main.c` with its skip of idle time, the timers, a serial port, the script |
| `IdleProofs` | the proofs that a skip is so many ticks, and that script, polls and timers are on time |
| `Memory` | what an address means to a core and to a device, and when code is translated again |
| `MemoryProofs` | the proofs |
| `Lcd` | panel, window, cursor, block, DMA request, and a driver that draws frames |
| `FrontProofs` | the proofs about `Input` and `Lcd`, the front of the player |
| `MCDevices` | instances of the four in which one of seven guests moves |

**Input.** `opto` is the queue of reports with the buttons behind it; `held` is a history,
the buttons someone holds. `gpio` is the latch, the enable and the level as sets
of pins. The page may act between any two accesses of a handler, which read a report and
clear it, or clear the latch, look at the pins, aim the level at the other value of each,
and look again: the second look is what makes the sequence safe. The handlers are the
guest's and external.

**Idle.** `machine` is one record, so that a tick is an operator (`Step`) and the
skip another (`Skip`): that a skip is so many ticks is then an equation between two
records (`SkipEqualsTicks`). The devices that are modelled elsewhere appear as an alarm
that the skip knows (the PMU's deadlines, `n1g_dev_i2c_tick`) and a job that it must not
skip (the disk's pending work, `n1g_disk_tick`), both of any length, and an interrupt
wakes a core in any tick or not at all (`n1g_dev_intc_tick` and the masks). `first` is a history: the
step at which a timer expires first.

**Memory.** `maps` is what the engines of the cores have mapped, `low0` what the
devices believe of low memory, `tlb` the addresses a core has translated, `blocks` the
version of the code page a core has translated. The two cores have their slices in
turn and the devices tick after them. The routes of `bus.c` are a sequence of regions in
the order of the tests. A region maps the emulator's own buffer; the copying
fallback for an engine that refuses to (`src/cpu_unicorn.c:2297`, 2325) is left out, and
with it the second copies that it would have to keep in step.

**LCD.** The driver's program is a sequence of writes for each of four ways to draw: pixels
through the command port, words of a block, and a block sent by the channel with
the channel armed first or last. Ticks fall between any two writes. `before` is a
history: the panel when the frame was begun.

## 4. Runs

| Run | Configuration | What it shows |
|---|---|---|
| `ata` | `MCAtaDisk.cfg` | A PIO driver, a DMA driver and one that plays with reset, nIEN and the multiple mode, each overtaking its own commands at any point of a two-sector medium with a torn tail, lose, repeat and misplace nothing. Properties: `BusyMatchesPending`, `DataPhaseInBounds`, `TransferConserved`, `InterruptCoherent`, `WritesStored`, `WritesConfined`, `FailureNamesFirstSector`. |
| `ata_view` | `MCAtaDiskView.cfg` | The register model implements the protocol the README promises a driver, progress included. Properties: `ImplementsDriverView`. |
| `lifecycle` | `MCLifecycle.cfg` | With restarts between presets, a failing file operation, crashes and a second process, no guest write to the session's disk is lost but by a PMU wake that reloads the seed image, and no battery-backed state but by the final saves of a machine that failed to initialise; whatever happens, no foreign image reaches the output, the PCF state file is whole and a signal ends the process. Properties: `WritesSeen`, `WritesSaved`, `PcfKept`, `OutputOwned`, `PcfFileWhole`, `StopEndsProcess`. |
| `lifecycle_wake` | `MCLifecycle_wake.cfg` | A PMU wake reloads the seed image: the guest loses what it wrote before standby. Properties: `GuestSeesItsWrites`. *Expected to be violated.* |
| `cores` | `MCCores.cfg` | With an IRQ source, a source routed to FIQ, forced interrupts, every form of the control word, the mailbox and standby, handlers nest and every message keeps its request until its receiver reads it; no wake-up is lost to a core that is going to sleep, a counted wait ends, and a message wakes its receiver. Properties: `HandlersNest`, `MessageSignalled`, `NoLostWakeup`, `CountedWaitEnds`, `MessageWakes`. |
| `cores_standby` | `MCCores_standby.cfg` | In standby an interrupt or the end of a counted wait makes a core execute again although its power is cut. Properties: `StandbyIsQuiet`. *Expected to be violated.* |
| `pmu` | `MCPmu.cfg` | With the battery falling and recovering at any tick, alarm, charger and Menu events in and around standby, the clock programmed at any tick, restarts, a process that was away, and every deadline armed and cancelled: low battery, standby, wake and alarm come exactly when they should, the clock runs on, and ticks taken in one do what they would have done one by one. Properties: `WakeReasonKept`, `Armed`, `SkipsAreInvisible`, `LowBatteryDebounced`, `StandbyHasCause`, `AlarmFires`, `ClockRunsForward`. |
| `pmu_rate` | `MCPmu_rate.cfg` | After the page has lowered the rate, a skip passes over the second that single ticks would announce. Properties: `SkipsAreInvisible`. *Expected to be violated.* |
| `audio` | `MCAudio.cfg` | Two channels and a guest that pushes by hand fill the FIFO while it drains, the rate changes and the transmitter is reset, and the page's two requests are answered in any order: nothing is lost or played twice, the interrupts tell the guest what it waits for, and what the page queues is what was played. Properties: `FifoIsQueue`, `InterruptsHonest`, `KeepsTime`, `PageHearsPlayed`. |
| `devices` | `MCDevices.cfg` | Seven guests, one of which moves: controls that change between the accesses of an interrupt handler, skips of idle time, timers counted by several steps a tick, remapping by both cores, code loaded under running cores, and frames drawn each way while ticks fall between any two writes. Properties: `GuestCatchesUp`, `NoStuckButton`, `WorldOnTime`, `MapsFollowRegisters`, `FreshAfterDiscard`, `PanelShowsFrame`, `HeldIsQuiet`, `SkipEqualsTicks`, `TimersOnTime`, `OneMemory`. |
| `idle_phase` | `MCDevices_phase.cfg` | With a divided timer clock, a skip of an odd number of microseconds leaves the divider's phase behind, so what follows differs from the run without skips. Properties: `SkipEqualsTicks`. *Expected to be violated.* |
| `memory_stale` | `MCDevices_stale.cfg` | The second of two requests to drop old code is itself dropped when it follows within sixteen ticks; code loaded in between is not seen. Properties: `FreshAfterDiscard`. *Expected to be violated.* |


Bounds. ATA: `SectorBytes` 4 is two words per block, so that a 16-bit and a 32-bit
access can end a block in every alignment. `MediumBytes` 9 is two sectors and a torn
tail. `CountMod` 3 lets a command cross
the end of the medium with sectors left over, and makes the count register wrap (0
asks for `CountMod`). `LaneSize` and `DeviceLanes` 2 make an LBA carry from one
register into another. `MCAtaDisk` chooses one of three drivers at the start: `pio`
moves sectors through the data register with nIEN, `dma` works in segments of
six bytes, which split and cross sectors, and `control` issues every command that
moves at most one sector, with the features register, the multiple mode, nIEN and resets.
So a reset meets transfers of one sector, through the data register and by DMA; that it
meets longer ones as well is in the proofs only. Each
may issue any of its commands at any time; a guest that does all of it at once is out
of TLC's reach, for the parts of the state they use multiply. `MCAtaDiskView` issues every kind of command.

Lifecycle: two writes tell a lost write from a lost image, two launches let a second
process start from the files the first leaves, one failing operation meets every place
it can, and the launches cover a session on the disk of its preset, on the output
itself, on a custom disk, on the disk of another preset, and without an output. Three
guests: `disk` writes sectors, `pcf` programs the PMU, and neither meets a failing
initialisation while its image exists; `rough` meets one, and writes and starts once. All
of them may be woken from standby, the first two in their first process.

Cores: `entry` has the smallest set of sources with every path of delivery, one IRQ
source in the low words and one FIQ-routed source in the high words, which needs the
cascade bit only as an IRQ. `sleep` uses every value of the control word and
`MaxWait` 2, one tick that counts without ending and one that ends. `mail` has no other
source, so nothing else can wake a core. Liveness is checked for all three.

PMU: at two microseconds per tick (`clock` and `page` also run at one) odd durations
round up to ticks; the delays are two and three ticks, so every order of two
deadlines occurs. `MaxTicks` cuts time off, which starts anew at a restart; a profile
has as many ticks as its chain of deadlines needs: 9 for a debounce and a forced
standby after it (`battery`), 3 for a standby and the alarm in the second
after it (`wake`), 4 and 7 for an announced second and the next (`skip`, `clock`). The
clock wraps after four seconds. The page sets the rate as the machine starts; in `page` alone at any time.

Audio: a FIFO and a ring of four halfwords are two pairs each, so that both wrap and
both overrun with one sample too many; three rates give ticks that drain less than
one, one and two halfwords with a remainder.

Devices: a queue of two reports merges and overflows; two microseconds under a divider of
three leave a remainder in every phase and, with counters of two and five, step over
an expiry and reach one exactly; scripts hold two waits, a tap and an event; `PollEvery` 4
and `Budget` 20 end a skip before and at every limit. Two pairs of remapping
registers overlap and take precedence; the addresses compared are both ends of every
region and window and the last of every register block. Three versions of the code page
are a load, a discard, and a load over it. A panel of three by two over a
memory of three by three has windows of odd and even size, of one pixel, and beyond the
visible lines; two frames leave a descriptor behind for the second.

The state spaces are finite without any constraint.

Fairness. `Pmu` needs none: what happens in time is stated as safety, at the tick it is due.
`WF(DiskTick)`: the main loop ticks the device once per iteration,
whatever the guest executes. Nothing is assumed of the guest.
`WF(stop_requested /\ Process)`: once the signal flag is set the loop tests it every
iteration and `main` runs straight to its end; no file operation blocks for ever.
`WF(EndSlice)` and `WF(DeviceTick)`: Unicorn returns after a bounded number of
instructions whatever they are, and the loop ticks after the two slices.
`Lifecycle` is checked without deadlock detection, for a process that has ended
and may not start again is the normal end, `Pmu`, `Audio` and the devices because their time is bounded.

Five runs are expected to fail and show disagreements between the code and its
documents. `lifecycle_wake`: a wake from standby restarts from the seed image, so
the guest misses what it wrote before. `cores_standby`: standby halts the cores by the
same flag as sleep does, so the interrupt delivery of the same tick makes one run again.
`pmu_rate`: after the page lowers the rate, a skip passes over the second that single
ticks would announce. `idle_phase`: a skip leaves the remainder of the divided timer clock
behind. `memory_stale`: a request to drop old code that follows another within the
debouncer's pause is itself dropped. The passing runs leave out just these causes: options
without a divider where idle time is skipped, and `Patient`, a guest that loads no
code between two requests closer than the pause.

Four more cases are left out of the passing runs because the code does not do what a
reader might expect. A restart from the hold page whose initialisation fails goes on to
the final saves with a zeroed machine and replaces the saved PCF registers by a blank
bank (`src/main.c:1604`); `PcfKept` excludes it as the machine without an image. A clock set back while the alarm matches
keeps `rtc_alarm_match_active` and reaches the alarm again in silence
(`src/dev_i2c.c:537`); `SetsClock` of `MCPmu` excludes it. A window one pixel high at the top of the panel,
followed by one a column wide at its left edge, passes through a window that counts as not set
(`src/dev_lcd2.c:38`); `ClearOfOrigin` excludes the pair (section 5). A skip that reaches the end of a budget
which is not a whole number of slices counts the last, partial slice as a whole one
(`src/main.c:818`), so `scheduled_insns` ends higher than tick by tick (with `Budget` 19 instead
of 20, TLC finds `SkipEqualsTicks` violated); the budgets of the runs are whole. The presets'
own budgets are not (`src/main.c:524` to 565: 20000000 and 175000000 in slices of 512, 175000000 in
slices of 128), so a preset that sleeps to the end of its budget does report more; nothing else differs.

## 5. Proofs

`AtaDiskProofs` holds for all values of the constants allowed by
`SizesAssumption` and `GuestAssumption` (positive sizes, an even sector),
`LifecycleProofs` for all that `LifecycleAssumption` allows (any set of paths,
presets and launches, any bounds), `CoresProofs` for all that `CoresAssumption`
allows (any sources, any register values, any longest wait), `PmuProofs` for all that
`PmuAssumption` allows (any rates up to a second, any delays, any radices), `FrontProofs` for
all that `InputAssumption` and `LcdAssumption` allow (any buttons, any wheel, a queue longer
than one; any size of the panel, windows, frames and values of a byte), with `ClearOfOrigin` a
hypothesis of what is said of the panel,
`MemoryProofs` for all that `MemoryAssumption` allows (any pairs of registers and values in
them, any addresses, any pause of the debouncer), `IdleProofs` for all that
`IdleAssumption` allows (any scripts, polls, alarms and longest skip), with `SkipsUndivided` a
hypothesis of what is said of skips and timers, `WholeSlices` of what is said of skips, and `AudioProofs` for all that
`AudioAssumption` allows (any even depth of the FIFO, any even ring longer than an
answer, any rates and what a tick adds at each, any channels and lengths of a transfer).

| Theorem | Module | What it establishes |
|---|---|---|
| `TypeCorrect` | `AtaDiskProofs` | Every register keeps to its hardware range, for every register width, medium and guest: no counter wraps and no LBA leaves the taskfile. |
| `BusyCorrect` | `AtaDiskProofs` | BSY is shown exactly while one deferred effect, or SRST, is outstanding. |
| `DataPhaseCorrect` | `AtaDiskProofs` | The data phase stays on the medium for every medium size and every DMA length. |
| `CourseCorrect` | `AtaDiskProofs` | The deferred flags, the transfer kind and the status agree on the course of the command. |
| `ConservationCorrect` | `AtaDiskProofs` | No sector is skipped or moved twice, whatever the block, access and segment boundaries. |
| `InterruptCorrect` | `AtaDiskProofs` | The interrupt line follows the request and nIEN, and is never raised while the drive is busy. |
| `ResetCorrect` | `AtaDiskProofs` | A software reset leaves nothing of the cancelled command. |
| `WritesCorrect` | `AtaDiskProofs` | The medium changes only under a write command, inside its extent and the advertised capacity, and never during a reset. |
| `StoredCorrect` | `AtaDiskProofs` | A write has stored every byte up to where it stands, at every access and DMA segment of any length, and its whole extent when it ends without an error. |
| `FailureCorrect` | `AtaDiskProofs` | A transfer that runs off the medium leaves the taskfile naming the first sector that could not be moved and how many were left. |
| `ProtocolCorrect` | `AtaDiskProofs` | The registers implement the protocol of AtaDriverView: every step is a step of the protocol or one the driver does not see, for any sector, medium, width and guest. Its promise of progress is left to TLC. |
| `TypeCorrect` | `LifecycleProofs` | Options, images, registers and files keep their types through restarts, failures and crashes, for any presets, launches and bounds. |
| `OutputCorrect` | `LifecycleProofs` | Whatever presets are visited and whatever fails, only an image that descends from a session given --disk-out reaches the output. |
| `PcfFileCorrect` | `LifecycleProofs` | At every step, a crash point, the PCF state file is absent or whole. |
| `WritesSeenCorrect` | `LifecycleProofs` | Through restarts between any presets and any failing save the guest finds every write it made to the session's disk, unless a PMU wake put the seed image back. |
| `WritesSavedCorrect` | `LifecycleProofs` | With the same exception a process that ends without an error leaves every such write in the output. |
| `PcfKeptCorrect` | `LifecycleProofs` | The saved battery-backed registers are only replaced by what the guest made of them, except by a machine that failed to initialise. |
| `SourceCorrect` | `LifecycleProofs` | No step writes an image other than the output. |
| `TypeCorrect` | `CoresProofs` | The cores, the interrupt words and the mailbox keep their types, and a wait never counts below zero, for any sources, register values and waits. |
| `NestingCorrect` | `CoresProofs` | IRQ and FIQ handlers nest: no return state is overwritten and each handler returns to a state that was not masked. |
| `HaltedCorrect` | `CoresProofs` | The halted flag agrees with the control word in every reachable state. |
| `MailboxCorrect` | `CoresProofs` | A posted message keeps its request until its receiver has read. |
| `QueueCorrect` | `CoresProofs` | Only its owner empties a queue. |
| `TypeCorrect` | `PmuProofs` | No register, deadline or clock field of the PMU leaves its range, for any rates, delays and radices. |
| `ArmedCorrect` | `PmuProofs` | A deadline is armed only for something that has not happened yet, and lies ahead unless standby suspends it. |
| `SecondCorrect` | `PmuProofs` | The last second announced is the last that has passed, unless the rate can change on the way. |
| `WakeReasonCorrect` | `PmuProofs` | After a wake the guest finds in the interrupt registers what woke it. |
| `SkipCorrect` | `PmuProofs` | At a fixed rate, ticks taken in one do what they would have done one by one. |
| `LowBatteryCorrect` | `PmuProofs` | If neither the rate nor the debounce changes while one runs, a low battery is reported exactly when it has been below the threshold for the debounce time: for any rate, delay and skips. |
| `StandbyCorrect` | `PmuProofs` | If the rate does not change while the machine runs, it goes into standby exactly when the guest has asked for it or when a low battery has not recovered for the forced delay. |
| `ClockCorrect` | `PmuProofs` | If the rate does not change while the machine runs and the guest writes the seconds first, the clock runs second by second through ticks, skips and restarts, for any radices. |
| `AlarmCorrect` | `PmuProofs` | If also the clock is not set while the alarm matches it, the alarm is raised in the tick that makes the clock match, and in no tick after which it does not. |
| `SoundCorrect` | `AudioProofs` | Types, FIFO, clock, ring, transfers and lines of the device, for any depth, ring, rates, channels and lengths of a transfer. |
| `FifoIsQueueCorrect` | `AudioProofs` | What the circular FIFO holds, from its head, is the queue of samples accepted and neither played nor cleared, whoever pushed them. |
| `KeepsTimeCorrect` | `AudioProofs` | Since the clock was started as many samples were played as the ticks are worth at the rate, with no fraction lost. |
| `InterruptsHonestCorrect` | `AudioProofs` | The two lines are raised exactly while there is room, and while a transfer that moved its whole buffer is not acknowledged. |
| `PageSoundCorrect` | `AudioProofs` | Streams, answers in flight and the page's queue fit together, in whatever order the answers arrive. |
| `PageHearsPlayedCorrect` | `AudioProofs` | An answer holds what was played at the positions and the rate it names, and what the page queues continues its queue or replaces it. |
| `IInvCorrect` | `FrontProofs` | Types, queue and interrupt, what the guest knows, hold, taps and pins, for any buttons and any queue longer than one. |
| `GuestCatchesUpCorrect` | `FrontProofs` | A guest without an interrupt to handle knows the buttons and the pins as they are, whatever changed between the accesses of its handlers. |
| `NoStuckButtonCorrect` | `FrontProofs` | A button that is down is held by someone, or a tap will release it. |
| `HeldIsQuietCorrect` | `FrontProofs` | While hold is on nothing is pressed and no report is added. |
| `PanelShowsFrameCorrect` | `FrontProofs` | Nothing outside the window of a frame changes while it is drawn, each of its pixels is at its place when the driver has done, and a driver that waits has a transfer to come: pixel by pixel, by words or by the channel, armed first or last and ticked at any time, for any panel, frames and windows of which none reaches the origin on the way to another. |
| `IInvCorrect` | `MemoryProofs` | Types, translations and maps of memory, for any remapping registers and any addresses. |
| `MapsFollowRegistersCorrect` | `MemoryProofs` | No core works with an address the registers translate otherwise by now; low memory and the alias of the flash appear once asked for. |
| `FreshAfterDiscardCorrect` | `MemoryProofs` | If the guest leaves the debouncer its pause, no core runs code older than what its last discard was about. |
| `OneMemoryCorrect` | `MemoryProofs` | Before and after every change of the map, cores and devices find one place at an address both have, the cores have all that a device can reach, and no window hides memory: for any remapping registers and any addresses. |
| `SkipEqualsTicksCorrect` | `IdleProofs` | A skip leaves what its ticks would have left, and none of them but the last would have raised an interrupt: for any script, polls, alarms and longest skip, if the timer clock is not divided where idle time is skipped and the budget is whole slices. |
| `WorldOnTimeCorrect` | `IdleProofs` | Skips or not, every event of the script comes at its tick and the server is polled on time: for any script, budget, options and longest skip. |
| `TimersOnTimeCorrect` | `IdleProofs` | A timer expires at its first expiry and at every period after it and says what is left to the next, however many steps a tick takes: for any counters and rates, if the timer clock is not divided where idle time is skipped. |


For the drive, the inductive invariant is the conjunction of seven invariants, four of which the runs check by
themselves; none is inductive alone. That the next word lies on the medium
(`DataPhaseInBounds`) must be known already when the block is *scheduled*
(`CourseOfTransfer`); that a tick cannot act on an overtaken command needs the
exclusivity of the flags (`BusyMatchesPending`), which every command re-establishes
from `~InReset`; that a reset stays silent (`ResetIsQuiet`) needs the DMA control
register, which a reset does not guard, to be unable to arm without a DMA kind.
The segment arithmetic (`SegmentArithmetic`) shows from `DivMod` and `MulMono`
that a DMA segment of any length, cut as the code cuts it, leaves the transfer at
or before the end of the medium with a count that never goes below zero; the
unsigned subtraction in `complete_dma_transfer` therefore never wraps.

That a write is stored up to where it stands (`StoredSoFar`) is carried from step to step as
an invariant: the part of the medium a step passes over splits off the extent (`MediumSplit`), an
access stores its words (`WriteDataStores`), a segment its bytes, wherever its end falls in a
sector (`SegmentLeadsTo`), and every other step leaves data and transfer alone or begins
anew (`Elsewhere`, `CommandStarts`). The failing sector is named because the transfer stops at the
capacity exactly, where the taskfile is then set (`ProgressNamesEnd`).
That the registers implement `AtaDriverView!Protocol` is proved action by action (the lemmas
`...Seen`): each handler is one step of the protocol, or none; besides the invariant
this needs that IDENTIFY is one block (`IdentifyIsOneBlock`).

For the lifecycle, that the output is owned (`OutputOwned`) needs to be known of
the machine's image before it is saved (`OnlyOwnImageSaved`), and that in turn
needs a restart under way to name a preset (`RestartNamed`), so that the options
it leads to can be computed. That the state file is whole (`PcfFileWhole`) needs
the temporary to be whole when it is about to be renamed (`TempWhole`).
That no write is forgotten (`WritesSeen`, `WritesSaved`) needs to know where the writes are
at every step (`WritesKept`): in the drive while the session's disk is in it, in the output
while another disk is, or once the save is past its image and the process is bound for a
restart or a clean exit. A restart that puts a disk of the session back then always takes
the output, unless it is a wake on the seed image, which `rewound` records; a machine that
failed to initialise is on its way out with an error (`MachineThere`). The
registers in the machine are never behind those in the file (`PcfAhead`).

For the cores, the inductive invariant is the conjunction of types, nesting, the agreement
of flag and word, and the mailbox. The first three speak of one core at a time, so
the proof shows that each operator (`UpdateControl`, `CpuconTick`, `RaiseFiq`,
`RaiseIrq`, `IntcTick`) keeps one record `Sound` and then composes them as the tick
does. Nesting is inductive only with all its parts: that an FIQ handler runs with both masks set is why
its saved state survives, and that an IRQ handler is masked is why an FIQ's return
leads back into it.

For the PMU, the inductive invariant is `TypeOK /\ Armed /\ SecondSeen /\ WakeReasonKept`.
`Armed` and `SecondSeen` are what makes the skip provable: every deadline lies ahead, so
a tick before the nearest one acts on none of them, and the last second announced is the last that
has passed, so the next one is exactly `UntilSecond` ticks away (`FloorIs`,
`SecondNotDue`). `SkipCorrect` and the clause of `SecondSeen` about the seconds assume a fixed
rate, without which `pmu_rate` shows the first false.
For the battery, the histories are tied to the deadlines: ticks counted and ticks left add up
to the delay (`LowCounted`, `ForcedCounted`), and the ticks for a duration are the fewest that
last as long (`TicksForMeets`). The clock shows the second last announced (`ClockKept`), ticks taken
in one reach at most the next one (`NextSecond`), and folding what has elapsed into the clock, as
a restart does, loses nothing (`ClockOfSum`); a match that is remembered is still one
(`MatchKept`), so none is passed in silence. These four theorems assume of the page and of the guest
what `MCPmu` lets them do (`SteadyRate`, `SteadyDebounce`, `SecondsFirst`, `ClearOfAlarm`); each hypothesis
is needed: a changed rate or debounce dates a deadline that is already set, the clock shows
the minutes only once the seconds are written, and a clock set back meets the alarm a
second time unnoticed.

For the controls, that the guest catches up (`GuestCatchesUp`) needs the interrupt to go with
the queue and the last report to tell the buttons (`QueueSound`), and needs to know the
guest that is between its read and its clear: the report it has read is the only one
and tells the buttons, or the interrupt will come again (`Reading`). A full queue drops its
oldest report, which is the one being read; with room for two another is still behind
it, with room for one the guest would clear a report it has not seen, hence the
assumption. For the pins, the level awaits the value the guest did not see
(`PinsWatched`), so every change is latched and no latch is cleared unseen.

For memory, the maps are known exactly (`Mapped`): what is fixed, one region at address
0, perhaps the alias. That a core finds the SDRAM at its base then follows from the
bases and sizes of `map.h` (`BasesFree`). That old code waits
for the flush (`OldCodeWaits`) is inductive once the guest is patient with the
debouncer (`Patience`); `memory_stale` shows that it is not without.

For idle time, the two hypotheses of `SkipEqualsTicksCorrect` are the conditions under which the equation holds at all:
`idle_phase` shows the first necessary, the budget of section 4 the second. While the loop may skip
(`Ready`), a tick only counts: no timer runs, no job is under way, the alarm lies ahead, the script
waits or has ended, no poll falls due and a whole slice is left (`QuietTick`). The machine
after `n` ticks is therefore known in closed form (`Glide`), which the skip reaches at
once (`SkipGlides`) and the ticks one by one, by induction over their number (`TicksGlide`). That
every skip the loop makes is one it may make follows from its limits (`SkipsReady`), for
which the invariant must keep the remainder below the divider and the script within its events
(`Steady`) and the budget at whole slices (`Whole`).

The script is on time because the ticks so far and the wait that is left add up to the waits
before the next event (`Scripted`), a sum over the events that only grows (`WaitIs`,
`WaitMono`); the poll, because the tick of the last one is the last multiple (`Polled`). A
timer that counts expires a whole number of periods after its first expiry, and after that
one within a period (`Dated`), so none lies between (`NextIs`); a reload goes by the remainder
of the lateness (`Reload`), and the steps of the divided clock are those its
counter shows (`StepsAdd`). A skip finds no timer counting; it leaves the remainder
behind, hence the hypothesis `SkipsUndivided` here too.

For sound, the tail of the FIFO must be where the queue ends (`Fifo`), or a sample pushed
would overwrite one that waits; time is kept because what was counted is always the
samples played plus the remainder (`Clock`), through which the quotient is known (`QuotientIs`).
The ring is true of the last `Ring` samples only (`History`), since positions closer than
that lie apart in it (`Apart`); an answer, shorter than the ring and cut at the start of the
stream, stays within them (`AnswerRange`). A tick plays, and a channel moves, as many
halfwords as are due by a recursive function. That such a run exists and each of its steps
keeps the invariant is proved by induction over their number: the least number at which the
claim fails (`LeastNat`, from the well-foundedness of `<`) has a predecessor at which it
does not (`UpTo`, `Iteration`). The page's queue continues because a stream's number
dates it: a reset is always another stream (`Onward`), so an answer of the queue's
stream is of the queue's reset, even when the device has gone on meanwhile
(`AnswerDated`, `QueueDated`), and while something is queued the request in flight asks
for what follows it (`QueueAsked`).

That cores and devices have one memory (`OneMemory`) is shown test by test. `Reached` names the
region a core finds at an address and `RoutedTo` the only route a device can take, because no two routes
answer for one address (`RoutesApart`); the windows lie clear of both (`WindowsFree`), and
low memory is the one place where maps and routes could differ, which `Mapped` ties to
the same flag (`SamePlace`).

For the panel, the inductive invariant knows at each write of the driver's program what the
controller has been told (`Aiming`) and how many pixels of the frame are drawn
(`Drawn`, by `ByPixels`, `ByWords`, `ByBlockDma`, `ByDmaBlock`). One pixel draws the next because
no two places of a window have one number (`OrderApart`) and the cursor goes to
the next number (`CursorGoesOn`); a word draws two or the last (`PushWordDraws`); a
transfer draws all by induction over its words (`TransferDraws`, `UpTo`). A tick finds something
to transfer only while the driver waits for it (`TransferIsAwaited`), so a request cannot be
served into the next window, and one that waits has its request (`AgreedTransfers`), because a
descriptor is whole words. The hypothesis `ClearOfOrigin` of `PanelShowsFrameCorrect` is needed: the
controller takes a window that ends at the origin for one that is not set
(`lcd2_init_window`, `src/dev_lcd2.c:38`). After a window that ends in row 0, aiming at one
that ends in column 0 passes through such a window, its columns become the whole panel's, and the frame
is drawn beside its window (with the windows (0, 2, 0, 0) and (0, 0, 0, 2) TLC finds
`PanelShowsFrame` violated). The windows of the run satisfy it.

Types and the other parts of the inductive invariants (`TypeOK`, `CourseOfTransfer`,
`ResetIsQuiet`, `SourceUntouched`, `QueueEmptiedByOwner`, `SecondSeen`) are proved for
all values and not checked again by a run.

Model-checked only: the liveness properties and the progress that `AtaDriverView` promises,
because progress under fairness is beyond the prover.

## 6. Not modelled

Instruction execution (Unicorn), the Apple-specific trace hooks of
`cpu_unicorn.c`, command-line parsing, file formats, the HTML/BMP output of the
web server, logging and counters. The I2C bus transactions and the calendar: what they
carry is in `Pmu` and `Audio`, how it is packed into bytes is not. The NOR flash: one actor, and
no other part depends on its mode. The brightness: values stored for the picture.
`PROJECT.json` lists these parts as `not_modelled`, or as `partly` with what is missing.
