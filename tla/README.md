# Verification of the MotionApps sensor stack

This directory holds TLA+ models of the InvenSense MotionApps sensor stack, the
TLC configurations that check them, and TLAPS proofs about them. Paths below
are relative to the repository; `inv_mpu/` stands for
`src/kernel/drivers/staging/iio/imu/inv_mpu/`.

## 1. The system

An MPU6050/6500 motion chip (gyroscope, accelerometer, a small processor called
the DMP with its own memory and firmware, a FIFO, one interrupt line) is driven
by a Linux IIO driver. User space configures the driver through some eighty
sysfs files and reads frames from an IIO buffer. The Android HAL does both on
behalf of the framework and passes samples to the MPL library, which fuses them.
A compass and a pressure sensor sit on the chip's own secondary bus, or the
compass has a driver of its own.

| Component | State it keeps | Operations | What is hard | What makes it correct | Modelled in |
|---|---|---|---|---|---|
| `inv_mpu` core (`inv_mpu_core.c`, `_ring.c`, `_misc.c`) | `chip_config` flags, cached power state, batch state, `suspend_state`, the chip's registers and DMP memory | sysfs show/store, firmware load, self test, threaded interrupt, suspend/suspend_noirq/resume | three locks, two paths outside them, I2C transfers that fail half way, events during suspend | an enabled chip is awake and runs what the settings say; resume restores what suspend changed | `InvMpuCore`, `MpuContract` |
| `inv_mpu` DMP FIFO (`inv_process_batchmode`) | left-over bytes, FIFO count | read, parse, flush, end markers | frames cut at read boundaries, invalid headers, overflow | no frame lost, duplicated or misparsed | `DmpFifo` |
| `inv_mpu` time stamps | with the DMP: estimated cycle length, counter and time of the last reading; without: kfifo of interrupt times, estimated period | `inv_read_time_and_ticks`, `inv_adjust_sensor_ts`, `inv_reset_ts`; `inv_irq_handler`, `inv_get_timestamp` | readings that end between taking the counter and taking the time, counter wrap, suspend; lost interrupts and those of other devices | the estimate stays near the truth, stamps follow the output rate, stamps do not pile up | `DmpClock`, `IrqStamps` |
| `inv_mpu` slaves (`inv_slave_compass.c`, `inv_slave_pressure.c`) | four slave channels, master delay, bypass | set-up, suspend, resume, self test, read | two sensors share four channels and one block of result registers | each reads its own bytes, nothing runs when disabled, the bus is given back | `Slaves` |
| `inv_mpu` probe/remove/shutdown | registration of files, interrupt, locks | probe, remove, shutdown | interrupts before initialisation is complete and after resources are gone | nothing is used before it exists or after it is freed | not modelled |
| `inv_compass` drivers (ak89xx, ak09911, ami306, yas53x) | buffer state, delayed work, offset search, calibration, filters | enable/disable, poll | the work item racing a disable, failing bus accesses | a sample is new, polling never stops, calibration bits are where they belong | `CompassPoll`, `YasMath` |
| mllite data builder, start manager | callbacks by priority, samples, biases, accuracies, status bits | register, start, build, turn off, calibrate, execute | order of callbacks, stale status, two copies of accuracy | callbacks in order, saved equals live, outputs tied to live sensors | `MplTables`, `DataBuilder` |
| mllite results holder, HAL outputs, messages | quaternion, motion and field state, output flags, message bits | setters, `inv_generate_hal_outputs`, message get | messages that outlive what they report, which output is new | pending messages are current, time stamps come from a sensor in use | `DataBuilder`, `Attitude` |
| mllite storage manager, calibration file | registered boxes, the file | register, save, load, store | truncated file, box sizes that changed, power failure | a start uses a part of what one store saved | `CalStore`, `NvRegister` |
| mllite math | none | fixed-point roots, quaternions, orientations, bytes, angles | ends of ranges, conventions | results are within rounding, conventions agree | `FixedPoint`, `Attitude` |
| HAL `MPLSensor`, configuration | enabled and batched sensors, features, rates | enable, setDelay, batch | five features, three quaternions, one master switch, batch mode | the driver ends configured as the framework asked | `HalConfig` |
| HAL poll loop and flush | left-over bytes, marker flags, flush queue | pollEvents, buildMpuEvent, readEvents, flush | two threads without a lock, packets cut at reads | packets intact, each flush completes | `HalStream` |
| MPL fusion | closed library | | | | |
| `inv_test`, test tools, OS layer | none of interest | | | | not modelled |

How they interact: the HAL writes sysfs files (each a call into the driver,
serialised by the IIO mutex `mlock`), reads frames from the IIO character
device (filled by the interrupt thread), polls the event files (notified by the
interrupt thread), and calls the MPL through `inv_build_*` and
`inv_execute_on_data`, which runs the registered callbacks. The PM core calls
the driver's suspend callbacks; `suspend_resume_lock` keeps the interrupt
thread out from `suspend_noirq` to the end of `resume`. The chip raises its
interrupt whenever it likes.

`PROJECT.json` lists every component with its status, and every hazard with its
line and the properties that cover it.

## 2. Plan

Done: the driver's life cycle and its contract, the DMP FIFO, both clocks, the
slaves, the compass drivers, mllite (tables, data builder, results, store,
fixed point, attitude), the HAL's configuration and its poll loop.

Proved: the safety properties of the driver's life cycle, its contract, the
DMP FIFO, the compass drivers' polling, the slaves, the HAL's configuration and
its stream, mllite's tables, data builder and calibration store (section 5).

Left, in this order:

1. `DmpClock` and `IrqStamps`: the type invariants and the properties that need
   only linear arithmetic.
2. An abstract stream of frames that `DmpFifo` and `HalStream`, two readers of
   one framed stream, both implement.
3. Probe and remove.

Every module takes its sizes as CONSTANTS with named assumptions, has one
action per operation, keeps its invariants as named conjuncts and avoids
RECURSIVE.

## 3. Modules

### `InvMpuCore` - the driver's life cycle

State: `cfg` (the cached settings, one boolean per sysfs file), `drv` (`enable`,
`batch.on`, `suspend_state`, `smd_triggered`), `buffer` (the IIO buffer is
enabled), `power` (`asleep` is the cached `is_asleep`, `sleep` the chip's real
SLEEP bit), `chip` (engines, interrupt enable, FIFO/DMP mode, the three places
of DMP memory suspend rewrites, pedometer and orientation interrupts, the latched
motion event, how much of the firmware image is loaded), `mlock`, `srl` (the
count of `suspend_resume_lock`), program counters of the callers and of the
interrupt thread, the phase of the system's power management, and counters that
bound faults and suspends.

Granularity. A handler that holds `mlock` from its first to its last access to
the state is one action, because every other handler takes the same mutex; its
failures are disjuncts of that action (a transfer that fails in the body or in
the final power-off: `Stages`). Two handlers are cut: `inv_attr64_store` unlocks
before it powers off (`Attr64Store`, `Attr64PowerOff`), and
`inv_dmp_firmware_write` tests its flags before it locks (`FirmwareCheck`,
`FirmwareLoad`). The interrupt thread is cut at the semaphore, the mutex, the
event status read, the FIFO and the unlock. `inv_mpu_suspend` takes no lock and
is cut where the interrupt thread sees a difference (`SuspendQuiesce`,
`SuspendMark`).

| Actions | Code |
|---|---|
| `EnableRefused`, `EnableFails`, `EnableSucceeds`, `MasterDisable` | `inv_master_enable_store`, `set_inv_enable`, `inv_set_dmp_sysfs`, `inv_batchmode_setup`, `reset_fifo_itg` |
| `BufferEnable`, `BufferDisable` | `inv_preenable`, `inv_check_conflict_sysfs`, `inv_predisable` |
| `SettingStore`, `SelfTestThresholdStore`, `FirmwareLoadedStore`, `MotionLpaStore`, `OffsetRejected` | `_dmp_attr_store`, `_attr_store` |
| `BracketedAccess`, `FirmwareReadFails` | the files that wake a disabled chip, transfer and put it back: offsets, temperature, DMP bias, `six_axes_q_value`, reading `dmp_firmware` |
| `DmpMemStore` | `_dmp_mem_store` |
| `SelfTest` | `inv_hw_self_test` |
| `Attr64Store`, `Attr64PowerOff` | `inv_attr64_store` |
| `FirmwareCheck`, `FirmwareLoad` | `inv_dmp_firmware_write` |
| `Interrupt`, `SignificantMotion` | `inv_irq_handler` and the chip |
| `IrqEnter` ... `IrqUnlock` | `inv_read_fifo`, `inv_process_dmp_interrupt` |
| `SuspendStart` ... `Resume` | the PM core and `inv_mpu_suspend`, `inv_mpu_suspend_noirq`, `inv_mpu_resume` |

Switches of the model: `LateBuffer` (may the buffer be enabled while the chip
runs; the HAL never does), `Aborts` (may the PM core abandon a suspend),
`BitfieldRace` (may two unserialised stores to the flag word lose one of them).

Abstractions: rates, scales, offsets and other data that no handler's control
flow depends on are left out, the compass and pressure slaves are not switched,
a rate of 0 (which makes enabling fail without a fault) is not offered, and the
reset that precedes a firmware load (`inv_test_reset`, whose transfers are
unchecked in the code) is taken to succeed.

### `MpuContract` - the abstract specification

Four variables: is the system running, does the user stream, is the chip
powered, did the last resume report an error. `InvMpuCore` implements it
(`KeepsContract`): a chip that streams loses power only in a suspend, and a
resume that reports no error gives it back.

### `DmpFifo` - from the FIFO to the IIO buffer

The DMP writes frames into the FIFO: a header that names the sensor, then its
data, `HEADERED_NORMAL_BYTES` or `HEADERED_Q_BYTES` in all. The driver reads
whatever is there, in transfers of at most `MAX_READ_SIZE`, cuts it into frames,
pushes them and keeps the rest of the last one for the next call.

State: `stream` is everything the DMP wrote since the last reset, as numbered
cells; the FIFO holds the cells after `rd`. `left` (`st->left_over`), `data`
and `at` (`fifo_data` and `dptr` of the call under way) are sequences of cell
numbers, so that a property can tell which bytes a pushed frame is made of.
`todo` and `fifoCount` are the call's `target_bytes` and `st->fifo_count`, `out`
what was pushed since the reset, `measured` the slaves whose first sample has
been discarded. `goal` and `lost` are history variables: how much was written
when the current flush began, and whether cells have gone unparsed since the
reset (a full FIFO overwrote them, a transfer failed half way, left-over bytes
were given up because the count was 1024, or a reset attempt failed).

| Actions | Code |
|---|---|
| `DmpWrites` | the chip; a full FIFO drops its oldest cell |
| `Enable`, `Disable` | `set_inv_enable`, `reset_fifo_itg`; a disable pushes an end marker and drops what the FIFO holds |
| `IrqReads`, `OddCount` | `inv_read_fifo` in DMP mode and its `flush_fifo` path |
| `FlushReads`, `FlushEmpty` | `inv_flush_batch_data` |
| `OverSpec` | a count over 1024: nothing is read, yet a flush still pushes its end marker |
| `Begin`, `ReadChunk`, `ReadFails` | the reading half of `inv_process_batchmode` |
| `SkipErrorPacket`, `PushFrame`, `DropSlaveSample`, `Finish` | its parsing loop and what follows it |

A call runs with `mlock` held, so calls, enable and disable do not interleave
with each other; the DMP writes between any two of their steps.

Abstractions: a cell is the smallest piece of a frame that a count or a transfer
can cut off, and a frame has `HeaderedNormal` of them. Only the first cell of a
frame is a header; a payload cell met where a header is expected can look like
any header (`Looks`). The sample that a slave reports as a bare `COMPASS_HDR_2`
is a frame like any other. Frames are not ordered by rate, so every mixture of
frames is covered. Time stamps and step indicators are in `DmpClock`, the mode
without the DMP is in `IrqStamps`. Left out: the size of the IIO buffer.

What the model brings out about the code: after an overflow or a transfer that
failed half way nothing in DMP mode looks for the next header and nothing resets
the FIFO, so frames may be misread until the next enable. `FramesIntact`,
`NothingHeldBack` and `FlushDelivers` therefore speak of the time before
(`~lost`); `NoCellTwice` holds throughout, and so does `LeftOverFits`,
which is only proved.

### `DmpClock` - time stamps with the DMP on

A frame carries no time. Each sensor's stamp advances by `dur`, the length of a
DMP cycle times the cycles between two of its frames, and the length is
estimated by comparing the DMP's cycle counter with the host's clock at most
once a second. `sincePrev` is the host's time since `prev_ts`, `sinceCount` the
cycles since `dmp_counter` was read; both would be reset together if every
reading went through. `skewed` remembers that they were not. `woken` is
a history variable of `IntervalSettles`: it tells a wake-up, after which the count
starts again, from a reading that finds nothing to adjust.

| Actions | Code |
|---|---|
| `Select`, `SetRate` | `_attr_store` (`gyro_rate`), `_dmp_attr_store` |
| `Start`, `StartFails`, `Stop` | `set_inv_enable`, `inv_set_dmp_sysfs`, `inv_set_rate`, `reset_fifo_itg` |
| `ReadFifo` | `inv_read_time_and_ticks` and `inv_adjust_sensor_ts`, in `inv_read_fifo` |
| `ReadEndsEarly`, `OddFifoCount` | the returns between the two, and the reset on an odd count, which takes the time and not the counter |
| `WakeUp` | `inv_mpu_resume` |

`Back` and `StepStamps` are the arithmetic of `inv_reset_ts` (a full FIFO) and
`inv_push_step_indicator`. Two sensors of the list stand for all; a rate divides
200, as the rates the HAL writes do. The counter is kept modulo `Counters`
instead of 2^32.

### `IrqStamps` - time stamps with the DMP off

`stamps` is the kfifo of interrupt times, `waiting` the samples in the chip's
FIFO. `Sample` raises an interrupt that may be lost, `SharedInterrupt` is
another device's on the line (`IRQF_SHARED`; the handler never asks the chip),
`Reset` and `Flush` are `inv_reset_fifo`, including an interrupt that comes
between `kfifo_reset` and the write of `int_enable`. `ReadCount`, `ReadSample`
are `inv_read_fifo` with `inv_get_timestamp`; `ReadCount3050`, `ReadSample3050`
`inv_read_fifo_mpu3050`, which gives each sample a stamp of its own.

### `Slaves` - the secondary bus

Four channels, each with a device, a register and a length; a handler is a
sequence of writes of which a prefix takes effect when one fails. `Setup...`
are the set-up functions with the bypass, `Enable` and `Disable` the slave part
of `set_inv_enable` (`inv_resume_*`, `inv_suspend_*`, `inv_set_master_delay`),
`EnableFakeLost` the one write whose result is not looked at, `SelfTest` the
two self tests. `PressureAt` computes where the pressure lands in the result
registers, `PressureTaken` where the reader looks. A behaviour ends with the
first failing write (in `MCDrivers`).

### `CompassPoll` - the stand-alone compass drivers

The buffer's enable and disable run with `mlock` held (`store` not idle); the
work item takes it (`WorkStart`, `WorkRun`) and queues itself again before it
reads. `PreDisable` waits for a work function that has started
(`cancel_delayed_work_sync`) with `mlock` held: the two wait for each other for
ever in the model as in the code, which is why the run does not check for
deadlock. One of four drivers is fitted, with its own start and read
(`AkStart`/`AkRead`, `AmiStart`/`AmiRead`, `YasStart`/`YasRead`).
`ami306_write_offset` writes three offsets and returns the result of the last
write: an X or Y that failed slips by, in the search or at a start, and the
search still counts as ended (`slipped`). Samples measured with such an offset
are "trial" samples, and `ReadingsAreSound` excuses them as it excuses the other
failures the code does not notice; it says that nothing else makes the
offsets wrong.

### `YasMath` - the yas53x's arithmetic

The bit fields of the calibration block and of a reading, the offset search,
the conversion and the two filters, as operators; a behaviour is one bit of the
block, one field, or a sequence of samples that enter the filters.

### `FixedPoint`, `Attitude` - the arithmetic of mllite and the DMP set-up

`FixedPoint` has `test_limits_and_scale`, the roots, the reciprocal, the Q29 and
Q30 products and the byte conversions, with `Q` fraction bits instead of 30, and
runs through every argument. `Attitude` turns a body in quarter turns about its
axes and compares the library's quaternion and mounting-matrix functions, and
the driver's orientation tables, with the matrix of the same turns; `Steer`
follows a heading through `inv_wrap_angle` and `inv_angle_diff`.

### `MplTables`, `DataBuilder` - mllite's data path

`MplTables` has the start and data callbacks. `DataBuilder` adds every
`inv_build_*` and `inv_*_was_turned_off`, `inv_execute_on_data` with
`inv_generate_hal_outputs`, the choice of an output's time stamp, the biases
and accuracies with their messages, and the results holder's setters. A vector
is one number and a calibration subtracts the bias; a status word is the set of
its bits.

### `CalStore`, `NvRegister` - the calibration file

`CalStore` has the boxes, `inv_save_mpl_states` and `inv_load_mpl_states` over a
file of cells (a header or a piece of content; a checksum is the cells it
covers). `StoreBegin` truncates the file, `StoreWrite` writes it in pieces,
`StoreFull` is a full medium, `Sync` the system's write-back, `PowerLoss` may
cut the file at any cell not synced and restarts the program, `Boot` may be a
version with other box sizes or order. `NvRegister` is what that promises: what
a start finds is part of what one store kept; losing it is allowed at any time.

### `HalConfig` - configuring the driver from the framework's calls

One record holds `MPLSensor`'s members and, in `sys`, the driver's files. Each
function of `MPLSensor.cpp` is an operator from record to record; `Enable`,
`Delay` and `Batch` are the calls, `SignificantMotion` the event that turns its
own sensor off, `NewAccelBias` a bias from the library. A call is one step:
the framework makes one call at a time. Its own locks are commented out in
`MPLSensor.cpp`, so the poll thread's disable after a significant motion, a step
between two calls here, could run in the middle of one. `Uncomputed` covers the comparison of rates nobody
computed. The writes succeed.

Timeouts are numbers of any unit with `Millisecond` of them to the driver's
millisecond; `BatchTimeout` divides as `calcBatchTimeout` does. Runs and theorems
take timeouts of a millisecond and more (`TimeoutsOfAMillisecond`). A shorter
one, which nothing in the code refuses, becomes 0: with the driver's timeout 0
already, `batch` can take entering the batch mode, or leaving it, for no change and
returns (MPLSensor.cpp:5874, 5917). With such timeouts TLC finds states in
which `BatchHoldsNobodyBack`, `FeaturesWork` and `SensorsDeliver` are false: the
mode is batch with no timeout, or a feature is set while the DMP is off. The
other three were not settled there.

`mBatchTimeoutInMs`, which the constructor leaves uninitialised, starts as 0, as
the driver's timeout does. The FIFO rate of 200 Hz that `SetDmpState` and
`setBatch` write is left out: no property reads it.

### `HalStream` - the poll loop and flush

The IIO buffer is a sequence of units of eight bytes. `BuildMpuEvent` reads any
number of them, `ReadEvents` and `CheckFlushes` are `readEvents` (cut where the
other thread sees a difference), `FakeFlush` the step counter's pending flush;
`FlushPush`, `FlushClear`, `FlushDriver` are `flush`, cut at its two unlocked
writes and the driver call.

### Modules for TLC

`MCInvMpuCore` and `MCDmpFifo` give the callers, files and sensors of the runs.
`MCMllite`, `MCHalConfig` and `MCDrivers` put modules, or groups of sensors,
side by side that do not act on each other: a behaviour chooses one part at the
start. `MCHal` only names `HalStream`.

### The proof modules

`InvMpuCoreProofs`, `DmpFifoProofs`, `SlavesProofs`, `CompassPollProofs`,
`HalStreamProofs`, `MlliteProofs` (about `MplTables` and `DataBuilder`),
`CalStoreProofs` and `HalConfigProofs` hold the theorems of section 5. Each
extends the module it is about and begins with the lemmas about that module's
operators. `CalStoreProofs` also takes `Least` of `MlliteProofs`.

## 4. Runs

| Run | Bounds | Shows |
|---|---|---|
| `core_power` | 1 caller, 12 files, 1 fault, 1 fault in suspend/resume, 1 suspend, aborts | `TypeOK`, `AwakeWhileEnabled`, `DmpRunsCompleteImage`, `KeepsContract` |
| `core_settings` | 1 caller, 14 files, no faults, no late buffer | `ChipFollowsSettings` |
| `core_suspend` | 1 caller, 8 files, 2 suspends | `ResumeRestoresEvents`, `QuietWhileAsleep`, `IrqThreadShutOut`, `MemorySettingsKept` |
| `core_live` | 2 callers, 4 files, 2 suspends, fairness | `EverybodyFinishes` |
| `fifo_frames` | frames of 2 and 4 cells, transfers of 3, FIFO of 5, 6 cells between resets, 1 fault, 1 empty marker; a short and a long frame, a slave, or no sensor on | `TypeOK`, `NoCellTwice`, `FramesIntact`, `NothingHeldBack`, `FlushDelivers` |
| `mllite` | ten parts; 3 data and 3 start callbacks, 2 time stamps, 3 rates, 2 biases, 4 boxes of 1 or 2 cells, any number of power failures | `CallbacksInPlace`, `NoOldField`, `CalibrationAgrees`, `TiedToBestLiveSensor`, `LoadsAllOrNothing`, `KeepsAsRegister` |
| `hal` | packets of 1, 2 and 3 units, up to 3 in the buffer when one is added, 2 flushes under way, reads of any length | `StreamIntact`, `FlushNotForgotten`, `FlushCompletes` |
| `hal_config` | ten groups of three or four sensors, any sequence of calls, one period, one time-out | `MasterFollowsUse`, `FeaturesWork`, `OneQuaternion`, `BatchHoldsNobodyBack`, `SensorsDeliver`, `BiasReachesDmp` |
| `drivers` | see below | `TypesOK`; compasses: `ReadingsAreSound`, `PollNeverStops`, `YasRecoversField`; slaves: `ChannelsServeSensors`; clocks: `StampsFollowSamples`, `IntervalSettles`, `StampsMatchSamples`; arithmetic: `AllFunctionsInvert`, `AllConventionsAgree` |
| `swapped_clock` | the part `nine` of `mllite` | violation: the six-axis output takes the compass's time stamp |
| `flush_empty` | the driver answers EMPTY | violation: a flush of an empty FIFO never completes |
| `compass_not_ready` | the ak compasses | violation: a measurement that was never made is handed up |

A property whose name says one idea may have several named parts, each stated
with its comment in the module (`ChannelsServeSensors`, for instance, has the
placement, the pace, the quiet and the return of the bus).

Why these bounds are enough for `InvMpuCore`: handlers are serialised by
`mlock`, so a second caller matters only for the two handlers that leave it.
One fault leaves every handler's partial state
reachable and lets everything else run after it; a second one only repeats a
partial state of another handler. Two suspends let the second start from what
the first left. The sets of files differ per run so that each property meets the
files that could break it; the files left out of a run write settings that the
property does not read.

For `DmpFifo`: transfers (3) and the FIFO (5) are no multiples of a frame (2 or
4), so a transfer, a read and an overflow each cut a frame at every place, and a
long frame can be spread over three reads. Six cells hold three short frames
or a long and a short one in either order, and let the FIFO overflow; a fault
leaves a call at every place of its reading loop. The theorems of section 5 state the same properties for every size.

For `mllite`: three callback places and four modules that ask for one fill
the tables; with three rates (one above the second that counts as not chosen)
every order of two differences occurs; two boxes sizes and one box of the closed
library let a file be known, unknown, resized and cut at every cell. Parts keep
what their properties do not read at one value (`OnlyUsed`).

For `hal`: packets of every size the driver writes, reads that end anywhere,
three serial numbers (one or two packets lost or repeated in a row are told), and a second flush while the first is under way.

For `hal_config`: the functions test sensors one by one and in the groups the
fusion uses, so a group holds sensors of each kind that share a quaternion, an
engine or a step output. One period is enough because rates are only compared
for being equal, and the case of rates nobody computed is open both ways
(`BatchCalls`). The one time-out is a millisecond and a half, so that the division of
`calcBatchTimeout` cuts something off.

For `drivers`: the clock runs with a unit of about ten microseconds, a true cycle of
4.88 instead of 5 ms, a counter that wraps after four readings, readings 5.4 s
apart and one reading cut short; the estimates converge, wrap and recover within
that. `IrqStamps` has a period 18 % below the nominal one, a kfifo of four
stamps, two samples in the chip, five samples of the MPU3050. `FixedPoint` has ten
fraction bits and all 2047 arguments; `Attitude` the twelve attitudes that half
turns and thirds of a turn generate, with both signs of the quaternion. The filters get six samples with a window of three,
from four inputs that are inside and outside the noise and the threshold.
The fine offset search of the ami is one step with every outcome: ended, cut short,
ended or cut short with an X or Y that was not written.
`Slaves` has each compass with and without the barometer at two FIFO rates and
two slave rates, a failing write at every place of every sequence.

Conditions the passing runs need, and why: no property says that a disabled chip
is asleep, because the code does not keep it so: some handlers return early with
the chip awake (an offset out of range), so do refused enables, and a power-off
that fails leaves it awake too. `ChipFollowsSettings` needs `LateBuffer = FALSE`: enabling the buffer of a running chip rewrites the
settings (`inv_check_conflict_sysfs`) without touching the chip. The files that
work outside the lock are used by one caller in `core_power`, and no store to the
word of flags is lost (`BitfieldRace = FALSE`): with two callers
the power-off after the unlock puts a chip to sleep that the other has just
enabled. So `AwakeWhileEnabled` and `KeepsContract` say nothing about these two
hazards, which `PROJECT.json` lists without a property. `hal_config` batches for a millisecond or more
(section 3, `HalConfig`). `MemorySettingsKept` leaves out the file `firmware_loaded`: clearing it and
loading again resets the DMP's memory but not the cached settings. In `hal` the
driver answers a flush with END: with EMPTY (`flush_empty`) or a failing read the
flush waits for another's marker. `PressureInPlace` leaves out the ak09912, for
which the code has no case, and the mlx90399, which uses the barometer's
channels; `SelfTestRestores` the mlx90399, whose self test returns without giving the
bus back. `IntervalBetween` speaks of the time before a reading was cut short
between the counter and the time (`~skewed`); `IntervalSettles` says that the
estimate finds back whatever failed.

Fairness. `InvMpuCore`: the interrupt thread and callers inside a handler are
scheduled (weak fairness), and a waiter for the mutex or the semaphore, which
Linux serves in FIFO order, is eventually served (strong fairness). A suspend
that began goes on. Nothing forces the system to wake, a user to call, or an
interrupt to arrive. `HalStream`: the poll thread goes round for ever and looks
at the driver's descriptor in every poll that a pending flush of the step
counter does not take (strong fairness, since such flushes come and go), a
flush call returns, and a sensor that is on delivers. `DmpClock`: while the
sensors run, the interrupt thread goes on reading.

## 5. Proofs

`InvMpuCoreProofs`, for any set of callers, any set of files and any number of
faults and suspends:

- `TypeCorrect`: `Spec => []TypeOK`.
- `ShutOut`: `IrqThreadShutOut`, provided suspends are not abandoned. The
  inductive invariant `LockInv` says who holds each lock: the mutex belongs to
  the interrupt thread between its lock and unlock, and the semaphore's only
  count belongs to the thread or, from `suspend_noirq` to `resume`, to the power
  management. `IrqThreadShutOut` alone is not inductive, because it does not say
  that the semaphore is taken.
- `EnabledIsAwake`: `AwakeWhileEnabled`, provided no store to the flag word is
  lost (`NoLostStore`) and the two files that leave the lock are used by one
  caller (`SerialUse`). `PowerInv` adds that the cached power state is the
  chip's, without which `set_power_state(true)` may do nothing, and that a caller
  between the two halves of a handler knows the chip to be disabled. Neither
  assumption can be dropped: a lost store to `is_asleep` makes `resume` skip the
  wake-up, and the power-off of `inv_attr64_store` after its unlock hits a chip
  that another caller has just enabled.
- `Refinement`: under the same assumptions, `Spec => KeepsContract`, by step
  simulation from `PowerInv`.
- `CompleteImage`: `DmpRunsCompleteImage`, with no assumption. `ImageInv` adds
  that `firmware_loaded` means a complete image and that an enabled chip with
  the DMP on has it set.
- `FollowsSettings`: `ChipFollowsSettings`, provided no transfer of an operation
  fails (`MaxFaults = 0`), the buffer of a running chip is not enabled
  (`~LateBuffer`) and the two files that leave the lock are used by one caller.
  A handler that fails half way keeps a setting the chip did not get, or the
  reverse; the code says so to its caller and does no more. `FollowInv` adds that
  the two engines of a disabled chip are off, which is what the paths that load
  firmware or test the chip leave behind. Suspend and resume may fail.
- `SettingsKept`, `ResumeRestores`, `StaysQuiet`: `MemorySettingsKept`,
  `ResumeRestoresEvents` and `QuietWhileAsleep`, provided suspend and resume meet
  no failing transfer, the file `firmware_loaded` is not written and callers are
  serialised as above. The one inductive invariant behind them, `EventInv`, says
  what the DMP's memory holds in each phase of the power management: the routing
  the settings ask for, or, from suspend to resume while the DMP runs, the quiet
  one. It needs that a running DMP has its firmware loaded and that batching
  excludes event interrupts. `CallerInv` says that a caller between the two
  halves of a handler finds a disabled chip and a running system.

`DmpFifoProofs`, for any sensors, any frame, transfer and FIFO sizes, and any
values of the bounds `MaxCells`, `MaxFaults` and `MaxEmpty`:

- `Types`, `LeftOverBound`, `PushedOnce`, `FramesPutTogether`, `ReadIsPushed`
  and `FlushComplete` establish `TypeOK`, `LeftOverFits`, `NoCellTwice`,
  `FramesIntact`, `NothingHeldBack` and `FlushDelivers`. All follow from
  `Invariance`: `Spec => []IInv`.
- None of the properties is inductive: they speak of what was pushed, and say
  nothing of the bytes the driver still holds. `IInv` adds that the stream is a
  sequence of frames (`StreamFramed`), the shape of a call (`CallShape`), that
  cells held are in order, later than every cell pushed and already read
  (`Ordered`), and, while nothing is lost, that the driver holds exactly the
  cells before `rd` and looks at the first cell of a frame (`Aligned`), that all
  frames before it were pushed (`Delivered`) and that what is left over is not a
  whole frame (`LeftShort`). `ReadIsPushed` is `Delivered` plus `LeftShort` when
  no call is under way.

`SlavesProofs`, for every compass, with and without the pressure sensor, at every
rate:

- `BusTypes` and `SensorsServed`: `SlavesTypeOK` and `ChannelsServeSensors`. The
  lemmas say which device, register and length each sequence of writes leaves in
  a channel when it succeeds and which channels none of its prefixes touches
  (`Leaves`, `Avoids`). `BusInv` adds that only a fitted sensor is on, that
  channel 1 of an ak compass never reads, what resume leaves in every channel
  in use while no write failed, and that the bus is the chip's until a self test
  takes it.

`CompassPollProofs`, for any driver of the four:

- `PollTypeCorrect`, `PollingGoesOn` and `ReadingsSound`: the types,
  `PollNeverStops` and `ReadingsAreSound`. `PollInv` adds that nothing is queued
  or running while the buffer is off, what a sample that is not new was
  excused by, and that an ami that measures has ended a search, with every
  offset written or an X or Y that `ami306_write_offset` did not report.

`HalStreamProofs`, for any kinds of packets, any range of serial numbers, any
size of the driver's buffer and any number of flushes under way:

- `StreamTypes` and `Intact`: `StreamTypeOK` and `StreamIntact`. What was handed
  up, what the HAL holds and what is in the driver's buffer form one row of
  whole packets with consecutive numbers (`Chain`); a read, wherever it ends,
  moves a cut along it. The lemmas say what taking a packet from the front, losing
  its head and adding one at the end do to such a row.
- `FlushesKept`: `FlushNotForgotten`, provided the driver answers every flush
  with the mark of its end (`Marked`). The run `flush_empty` shows that the
  assumption is needed. `FlushInv` adds that nothing ahead of a waiting flush
  reads as an empty answer.

`MlliteProofs`, for any callbacks and priorities (`MplTables`):

- `TablesTypes` and `InPlace`: the types and `CallbacksInPlace`. The lemmas say
  where a callback is inserted by its priority, that inserting and removing keep
  the order (`InOrder`), and that a start keeps it after any number of start
  callbacks: a counterexample would have a least number of them (`Least`), which
  stands in for the induction theorems that cannot be instantiated.

and for any sensors, rates, biases and accuracies (`DataBuilder`):

- `CalibrationInAgreement` and `TiedToTheBest`: `CalibrationAgrees` and
  `TiedToBestLiveSensor`, from the types.
- `NoMixedField`: `NoOldField`, provided the HAL outputs ask for the compass and
  are not unregistered (`HalStays`). The first is what `inv_start_hal_outputs`
  does, the second what the HAL does; without the callback nobody resets the
  filter. `FieldInv` adds that a filter that holds samples is registered.

`CalStoreProofs`, for any boxes, keys, contents and versions, any file cut
anywhere:

- `LoadsRight`: `LoadsAllOrNothing`. `StoreInv` says that the file is a prefix of
  the image of one store (`FileIs`) and that what a store has still to write is
  the rest of the image of what is in use. The lemmas describe that image box by
  box, show that the checksum of the whole tells a prefix from a whole image
  (`CutFile`), and follow the load over boxes that are known, unknown or resized
  (`IsWalk`), again by least counterexamples.
- `StoreRefines`: `StoreSpec => KeepsAsRegister`, by step simulation from
  `StoreInv`: a store, a loss or a start is a step of `NvRegister` or a stutter.

`HalConfigProofs`, for any sensors, any periods, and any sequence of calls.
`ConfigAssumption` says that the sensors are among those the code knows, that
periods and timeouts stay below the values that mean "slowest" and "none", and
that "none" is a millisecond or more. Each theorem also has the hypothesis
`TimeoutsOfAMillisecond`: a batch timeout is 0 or at least a millisecond. It is
needed (section 3), and enters where `BatchTimeout` divides (`TimeoutPositive`):

- `ConfigHolds`: `ConfigSpec => []ConfigInv(hal)`. The six invariants are not
  inductive: they leave out the sensor mask, the batched sensors' own switches
  and the rates the next call reads, and in the middle of a call they are false,
  because the master switch is off and features are half way in or out. So
  `ConfigInv` has three parts. `Carried` is what a change of the batch mode finds
  and keeps: the mask has what the enabled sensors need, compass and pressure
  follow it, the pedometer's and the motion detector's switches are where their
  handlers left them, no bias waits when nothing is enabled. `Sound` is what
  that change establishes: each feature's switches, the one quaternion, the
  step detector's outlet, the batch timeout and the interrupts for samples.
  `Rested` is what holds between two calls only: the master switch and the event
  interrupt.
- `MasterFollows`, `FeaturesDoWork`, `OneQuaternionSent`, `BatchStarvesNobody`,
  `SensorsDoDeliver` and `BiasDoesReachDmp`: `MasterFollowsUse`, `FeaturesWork`,
  `OneQuaternion`, `BatchHoldsNobodyBack`, `SensorsDeliver` and `BiasReachesDmp`,
  each from `ConfigInv`.

The proof follows the code's layers. For each function a lemma says which members
and files it writes (`SameBut`) and what they become; the next lemma says what
a feature's function does to the features and switches as a whole; then the
change of mode (`ComputeBatchSound`), the change of sensors, and the calls one
by one. `Uncomputed`, the choice that stands for rates nobody computed, is
arbitrary in the proofs.

Model-checked only:

- the liveness properties `EverybodyFinishes`, `FlushCompletes` and
  `IntervalSettles`: fairness and ENABLED are outside the prover;
- `FixedPoint`, `Attitude`, `YasMath` and `DmpClock`: their arithmetic is
  non-linear (products, divisions, remainders) or folds over data, where the
  solver finds nothing and induction over data is out of reach;
- `StampsMatchSamples` of `IrqStamps` and the conjunction of types `TypesOK`.

## 6. Not modelled

- Probe, remove and shutdown: their hazards are errors of order at the edge of
  the driver's life, listed with their lines.
- The register variants of the MPU3050 and the BMA250 (the MPU3050's time stamps
  are in `IrqStamps`), the device tree, the DMP's key and memory maps and its
  default image: tables and data.
- Floating point: compass heading, Cholesky, matrix inverse, biquad filters, the
  BMP280's compensation, and the polynomial sines.
- Data that no control flow depends on: full scales, register dumps, names.
- mllite's recording and playback, the OS layer, the sysfs helpers and the
  firmware loader: thin wrappers without state.
- The closed MPL library: its modules appear as callbacks, boxes and calls of
  mllite's setters.
- The HAL's activate and descriptors that only forward an event, the sensor
  list, and failing sysfs writes.
- `inv_test` and the command line tools.
