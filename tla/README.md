# PSC controller: TLA+ models, checks and proofs

The repository is the firmware of a power supply controller (PSC) for four
magnet power supplies on a Zynq: VHDL gateware in `src/hw/hdl`, which closes the
10 kHz data path between ADCs, fault detection and DACs, and C software in
`src/sw/src` (FreeRTOS and lwIP), which serves a control system over TCP, writes
the gateware's registers, sends waveform snapshots and keeps the settings in
flash. (Paths in `PROJECT.json` start with `src/src/` because the repository
has a `src` directory of its own.)

This directory holds specifications of the parts that interact, the TLC runs
that check them on small instances, and proofs for TLAPS. A definition carries
the name of the process, state or function it stands for; `PROJECT.json` lists
the lines of each one, the mutant that shows that each property can fail, and
the places in the code that are hard to test, with the properties aimed at them.

Contents: [1 inventory](#1-inventory), [2 modules](#2-modules-and-how-they-correspond-to-the-code),
[3 runs](#3-runs), [4 fairness](#4-fairness), [5 proofs](#5-proofs),
[6 deviations](#6-what-modelling-showed-about-the-code),
[7 not modelled](#7-not-modelled), [8 what is left](#8-what-is-left), [9 running it](#9-running-it).

## 1. Inventory

| Component | State | Operations | Hard behaviour | What makes it correct |
|---|---|---|---|---|
| 10 kHz tick, `tenkhz_mux.vhd` | divider | tick | the tick of all other parts; delayed copies | – |
| Fault detector, `fault_block.vhd` | 11 counters, live, latched and masked bits, clear edge detector, setpoint samples | evaluate at a tick, latch, clear, mask | clear and tick in the same clock; limits rewritten while counting; setpoint change and evaluation in different clocks; digital counters without reset | exact debounce; a clear is honoured, bounded and complete; errors only while the setpoint is steady |
| Interlock output, `digio_logic.vhd`, `pulse_enable.vhd` | pulse counter, output | on, off, trip | the trip removes the condition of one of the checks that caused it; the check sees a pulse train | a trip holds until acknowledged; the ON check can trip |
| Setpoint path, `control.c`, `smooth_ramp.vhd`, `dac_chan.vhd` | mode, setpoint, phase increment; ramp state and a pipeline of one stage per tick | set point, set mode, start and run a ramp | a command is several register writes between which ticks fall; stale pipeline; division by zero | output between start and setpoint, monotone, ends near the setpoint |
| Ramp table, `write_ramptable`, `ramptable_ramp.vhd` | memory, length, address | write the table, run it | table written word by word while an event starts it; memory latency against the tick; 16 bit compare | plays the table of the message once, in order, and ends |
| Gain and offset, `dac_gainoffset.vhd` | six-state machine, 20 bit registers | one conversion per tick | wrap-around, overflow told by signs, gains rewritten meanwhile | the DAC gets the limited product |
| Snapshots, `adc2ddr.vhd`, `ps_io.vhd`, `snapshots.c` | DDR ring, latched addresses, per-source bookkeeping | write, trigger, poll, copy and send | the ring is overwritten while software waits; triggers during a snapshot; the seam | what is sent is the window around the trigger; every source is armed again |
| TCP server, `listener.c` | client slots, descriptors, threads, `sendguard` | accept, receive, broadcast, free | descriptors closed and reused under a blocked thread | one owner per slot, no slot leaked, the mutex is given back |
| Settings in flash, `qspi_flash.c`, `control.c`, `main.c` | sectors, registers | save, load, restore at boot | power loss in a save; two threads on one flash; a driver that refuses a transfer while another thread is in one | a save is exact; boot restores what was saved |
| Message framing, `pscmsg.c` | position in the stream, `rxbuf`, what is left to skip | receive a header, a body; skip the rest | `recv` returns any part; a peer that stops anywhere; an error while skipping | a handler gets one whole message; a silent peer is dropped |
| Discovery, `discover.c` | receive buffers, references to the reply | prepare, answer a datagram | who frees a buffer; replies that share one buffer | every datagram's buffer comes back (it does not, section 6); the reply keeps its own reference |
| Boot and configuration, `main.c`, `sdcard.c`, `net_setup.c`; reboot, `console.c` | where the boot is, the configuration read so far | defaults, NET.CNF, restore, network, server; loss of power, reboot | a reset in a save; a flash that is still busy; a card or network that fails | the server starts, with what was saved, or says that it cannot |
| ADC accumulators, `average.vhd`, `adc_accumulator_top.vhd` | sample memory, write counter, sum | conversion | mode switched in a sum; counter compared for equality | no sample twice, none older than a turn |
| Slow data, `sadata.c` | mode as read | report each channel at 10 Hz | mode and sums are separate register reads | a sum is divided by its own length |
| Digital current loop, `pid_fp_controller.vhd` | floating point pipeline | one update per tick | arithmetic of vendor cores | not modelled, section 7 |
| Event receiver, `evr_top.vhd`, `event_rcv_*.vhd` | time stamp shift register, trigger delays | event, tick | – | not modelled, section 7; its triggers come at any time |

Interactions. Software reaches gateware only through 32 bit registers, one at a
time (`Xil_Out32`), so every command that needs several registers is a sequence
during which the gateware goes on. Gateware parts share the clock and the tick;
a fault's latched bits gate the on command, whose level is an input of the fault
detector again. Gateware reaches software through status registers that are
polled, and through DDR memory that it never stops writing. The software's
threads share the client table (under `sendguard`), the descriptors and the
flash (under nothing); discovery, on lwIP's own thread, shares the pool of
receive buffers with every connection.

## 2. Modules and how they correspond to the code

**FaultBlock** – `fault_block.vhd` with the divider of `tenkhz_mux.vhd`. A step
is one rising clock edge. Each VHDL process is an operator that gives the next
value of its registers (`TickGenerator`, `TickDelay`, `ClearEdge`,
`SetpointRegs`, `FaultLogic`, `Latches`, `MaskRegs`); `ClockEdge(reset)` is their
conjunction. The eleven checks differ in three ways, which are sets of checks:
masked while the setpoint moves (`ErrChecks`), only recorded and not tripping
(`GlitchChecks`), without a reset branch (`DigChecks`). A threshold comparison
is one Boolean, `cond[i]`. Software's writes of clear, mask and park and the
plant's changes may come in any clock. History variables `held` (consecutive
asserted ticks) and `sinceClear` serve the properties.

**FaultPromise** – the abstract specification: evidence per tick, live bits,
latches, a clear window; no counters, delay lines or edge detectors. FaultBlock
implements it (`Implements`, checked and proved). The promise covers bit 7, which the code
latches although two comments want it live only (section 6).

**FaultRetune** – FaultBlock plus the `*_CNTLIM` messages, which rewrite a limit
while its check counts. Kept apart because FaultBlock's exact debounce is about
limits that stand still.

**Interlock** – FaultBlock in a loop with `pulse_enable.vhd` and the gate of
`digio_logic.vhd`: `rcom0` is the pulse train unless a fault is latched, and the
ON check's condition is `rcom0` without the status line AC ON.

**RampTable** – `write_ramptable`, the length and run registers, the table memory
with its two clocks of latency (`dac_dpram`'s output register), and the generator.
`fetch` tells whether the memory has answered; only a request in the clock before
a tick can be overtaken by it. Points are converted as the code does: limited to
21 bits, stored in 20.

**DacChannel** – the channel: composes RampTable with the raised cosine generator
(`StartRamp`, `RampTick` = `Pipeline` and `PhaseStep`), the mode multiplexer
(`Source`) and the gain stage. A step is a tick, one register write, or a reaction
of the gateware within a few clocks (`StartRamp`, `GainOffset`, `FetchTable`). A
command (`Set_dac`, `Set_dacOpmode`, `write_ramptable`, ...) is a list of writes in
`sw`, done one by one. The phase increment goes through a `float` as in `Calc_WriteSmooth`:
`Rounded` is the conversion to float and back, `PhaseInc` the set of what the division
can give (0 or all ones, -1 to the gateware, when it is by zero). `phase` is a register
of 32 bits that wraps. The CORDIC is a table, monotone from -`Pi` to 0; below -`Pi`, where only
a division by zero leads, it returns anything. Histories: `steady` (ticks since the
registers changed), `onward` (ticks since a phase was below -`Pi` or went back).
20 bit DAC, digital loop off. The gateware's reset is not an action here: it happens at
boot only.

**FixedPoint** – two's complement wrap, scaling, and both saturation checks.

**DacGainOffset** – `dac_gainoffset.vhd` clock by clock, with gain and offset
rewritten at any clock; `GainStage` of DacChannel is the function it computes.

**Snapshot** – the ring writer of `adc2ddr.vhd`, the address latch of `ps_io.vhd`,
`CheckforTriggers`, `ProcessTrigger` and `SendWfmData`/`ReadDMABuf` of
`snapshots.c`, for one of the twenty equal trigger sources. A sample is known by
its age, so what a slot holds follows from the writer's position. `gap` is the
number of ticks that really pass between two polls. A turn that sends is followed by a gap
that is up to `SendDelay` longer; what the other nineteen sources send in the turns between
counts as late polls (`PollGaps`).

**PscServer** – `listener.c`. A step is the code between two points at which
another thread can be seen: a critical section in which nothing blocks is one step;
`psc_send` and `psc_send_one` have a step per socket call. `fd` is lwIP's
descriptor table: the lowest free number is handed out, which is what makes stale
descriptors dangerous. Peers come and go at will.

**Discover** – `discover_prep` and `disco_recv` on lwIP's thread, with the pool of
receive buffers (external) and the references to `disco_reply_buf`.

**PscMsg** – extends Discover with `psc_recvall`, `psc_recvhead`, `psc_recvskip` and
`psc_recvmsg` in the loop of `handle_client`, for one connection. `pc` tells which
`psc_recvall` the thread is in, `need` what that call still waits for. A unit of the
stream is known by its position, so `rxbuf` shows whether it holds the right ones.
The peer may stop or go anywhere; `RecvError` is the timeout, the end of the stream
or an error, `SkipError` the same where the code drops it.

**QspiSettings** – save and load, one step per flash transfer, on a NOR flash
(external, modelled by how it is used): erase sets bits, program clears them, both
need a write enable and are ignored while the flash is busy. The driver is external too.
It is one object for all threads: while one of them is preempted inside a transfer
(`driver`), every other transfer returns `XST_DEVICE_BUSY` at once (`Refused`), and
`qspi_flash.c` looks at no return value. A refused command is not carried out and
the caller goes on (`dropped`); a refused status read leaves `FlashStatus` as it is, at first an
uninitialised variable (`PollBlind`). `Runs` is FreeRTOS's scheduling: the clients' threads
have one priority (`DEFAULT_THREAD_PRIO`) and the console's is lower, so it runs only while they
wait for messages.

**Boot** – extends QspiSettings with `main` and `realmain`: the default fault mask, the
two attempts at the card, the lines of NET.CNF, the restore of each channel (a read
and a write of the registers), the network, the start of the server. `Listen` fails when
`psc_run` gets no lock or no socket, and the main thread then reports it for ever (`ServerGone`). `PowerLoss` may
come at any step and tears the sector in work; `Reboot`, the console's, resets the
software and leaves the flash going on. The console is also a client of the flash.

**SlowData** – the accumulators of `average.vhd` as `adc_accumulator_top.vhd` wires
them (channel 4 has channel 1's mode), the AVE_MODE message, and the 10 Hz thread,
whose reads of mode and sums are separate steps. A sample is known by its age.

**\*Proofs** – section 5. **MC\*** – instances.

Operators called a *mutant* in their comment are not used by the
specifications: each is a plausible bug in the operator it stands before, kept
to show that a property notices it.

## 3. Runs

| Run | Specification, bounds | Checks |
|---|---|---|
| `fault_error` | FaultBlock; the glitch check, limits 0 and 2, 2 bit counter, tick every 4 clocks, resets | `TypeOK`, `DebounceExact`, `ClearWindowBounded`, `ClearLeavesNothing`, `ErrorOnlyWhenSteady`, `ClearHonoured`, refinement `Implements` |
| `interlock` | Interlock; the ON check, limit 1, pulse period of 4 ticks, resets | `TripHolds`, `OnSeesOneHalf`, `OnTrips` |
| `fault_retune` | FaultRetune; one analog check, limits 0 to 2 | `NoEarlyTrip`, `TripsWithinOneWrap` |
| `dac_ramp` | DacChannel; half turn of 11 steps, floats of 3 bits, two setpoints, 2 commands, memory of 2 words with 2 bit addresses, any number of event triggers | `TypeOK`, `RampBounded`, `RampMonotone`, `EndsWithinFour`, `RampEnds`, `PlaysTheMessage`, `TableEnds` |
| `dac_gain` | DacGainOffset; 4 bit registers, all raw values, gains below, at and above the usable range | `TypeOK`, `SaturationExact` |
| `snapshot_window` | Snapshot; ring of 16(+1), windows of a quarter before and after, polls a tick early, late sends | `SamplesTrue`, `ExactAwayFromSeam`, `ServedOrSuperseded`, `SnapshotEnds` |
| `psc_live` | PscServer; 1 slot, 2 connections, 3 descriptors | `OneOwnerPerSlot`, `SlotsReleased`, `SendEnds` |
| `psc_wake` | PscServer; as above | `CloseWakesOwnRx`: violated |
| `psc_msg` | PscMsg; 2 messages of lengths from 0 to three skip buffers, 3 receive buffers | `WholeMessages`, `ReplyBufKept`, `SilentPeerDropped` |
| `qspi_save` | Boot; 2 channels, one of them saved and loaded, two clients and the console, 2 commands, one bit per channel, one line of NET.CNF, one reset at any step | `SaveIsExact`, `BootRestoresSaved`, `CommandEnds`, `BootEnds` |
| `qspi_shared` | QspiSettings; 2 channels, 2 clients, 2 commands | `SaveStoresGathered`: violated |
| `slow_data` | SlowData; channels 1 and 4, sums of 2, 3 and 1 words in 3 words of memory and 4 addresses | `TypeOK`, `WindowOfOneTurn`, `SamplesStayFresh`, `MeanUnlessSwitched` |

Why the bounds are enough:

- The fault detector's checks share no state but the clear window, the latches
  as a set, and the setpoint samples, so one check of each kind at a time shows
  every interaction; the proofs drop the bounds. A tick every four clocks is the
  shortest for which the three clocks of tick delay fit, the tightest case
  for the races between tick, clear and setpoint sample.
- The pulse train is asynchronous to the tick in the gateware; with 16 clocks of
  period and 4 of tick the run goes through resets, which shift the two against
  one another, and commands at any clock.
- DacChannel: two commands give a ramp after a ramp, a command or a new table in a
  ramp, and a mode switch in a ramp. Ramps of one to more than eleven samples include those
  shorter than the pipeline and those whose increment does not divide the half turn. Floats
  of three bits round the increment of one sample up, past the half turn, and that of two
  down. The phase register has room for the largest increment and for three phases below
  -`Pi`, so it wraps around within the run, and a ramp can follow on phases out of order. The memory is smaller than the address range, as in
  the gateware (50000 of 65536), so lengths beyond it and the largest length occur.
- Snapshot keeps the code's proportions of ring and window, so every window that can
  wrap wraps. Polls may come a tick early because `vTaskDelay` counts another clock.
  Its ring is the shortest that `TimingAssumption` allows for these windows.
- PscServer has one connection more than slots, so refusal, reuse of slots and
  reuse of descriptors all happen. Liveness limits the run to one slot;
  `OneOwnerPerSlot` is proved for any number of them.
- PscMsg: the lengths are empty, the buffer exactly, one unit more, and more than two
  skip buffers; `recv` returns every number of units. A third message is cut off by
  the bound, so a boundary follows each of the two. The safety properties are proved
  for all lengths and pools.
- Boot: bits of a sector do not interact, so one bit that is stored or lost stands for
  each; two channels show that a save leaves the other alone. Two commands and three
  threads give a save with a load or a save inside it, a transfer refused at each of the
  steps, and both orders of client and console; one reset falls on each of these states. The proofs
  are for any number of resets, commands, clients and channels.
- SlowData keeps the order of the sums' lengths (167, 500 and 10 in a memory of 500 words
  and 512 addresses), so every switch to a shorter sum lets the counter pass its limit.

## 4. Fairness

- Gateware never stops: weak fairness of the clock (FaultBlock, Interlock), of the
  tick and of the reactions that follow within a few clocks (DacChannel, Snapshot).
- The clients' threads have one priority and are time-sliced: weak fairness of each
  thread's steps. A FreeRTOS mutex is given to its waiters in turn: strong fairness
  of the steps that take `sendguard`. A thread that polls the flash while another
  client keeps starting operations finds flash and driver ready again and again: strong
  fairness of its steps; the flash finishes what it began (weak fairness of `Complete`).
- The console's thread has a lower priority. Its steps are enabled only while every client
  waits for a message (`Runs`), so nothing is assumed of it against a client that polls.
  A client that preempts the console inside a transfer and then polls waits for a driver which
  only the console could release: `Stranded`, which `CommandEnds` excepts and the run
  reaches.
- The main thread boots alone (weak fairness of `BootStep`); nothing is assumed of
  DHCP, of the card's contents, or of resets but their bound.
- A receive ends: with data, or by `SO_RCVTIMEO` (weak fairness of PscMsg's thread); data
  under way arrive while there are buffers (weak fairness of `Arrive`).
- `vTaskDelay` ends (weak fairness of the snapshot thread's turn). A begun command
  is finished (weak fairness of the register writes).
- Nothing is assumed of peers, triggers, events, timeouts, commands, or resets.
  `SlotsReleased`, `SilentPeerDropped` and `OnTrips` state in their premise what they
  need of peers and of the plant.

## 5. Proofs

All theorems are for every value of the constants that the named assumptions
admit. None of the properties is inductive as it stands; each proof module begins
with its inductive invariant, part by part.

| Module | Theorems | Assumptions |
|---|---|---|
| `FaultProofs` (FaultBlock) | `TypeCorrect`, `Debounce`, `ClearWindow`, `ClearComplete`, `ErrorSteady`, `Refinement` | `ChecksAssumption`, `CounterAssumption`, `TickAssumption`, `SetpointAssumption` |
| `FaultProofs` (FaultRetune) | `RetuneTrips`, `RetuneNotEarly` | the same and `UnderCapAssumption` |
| `FaultProofs` (Interlock) | `LoopTypes`, `TripStays`, `OneHalf`, `LoopKeepsPromise` | the same as FaultBlock and `InterlockAssumption` |
| `DacGainOffsetProofs` | `StageTypes`, `Saturation` | `StageAssumption` |
| `DacChannelProofs` | `PathTypesHold`, `RampStaysBetween`, `RampOnlyForward`, `RampStopsNear`, `TablePlayed` | `CosineAssumption`, `FloatAssumption`, `PathAssumption`, `TableAssumption` |
| `PscServerProofs` | `ServerTypes`, `SlotsOwnedOnce` | `ServerAssumption` |
| `PscMsgProofs` | `FramingTypes`, `MessagesWhole`, `ReplyBufStays` | `MsgAssumption`, `PoolAssumption` |
| `BootProofs` | `BootTypesHold`, `SaveExact`, `RestoredAtBoot` | `QspiAssumption`, `ChanAssumption`, `BootAssumption` |
| `SnapshotProofs` | `SnapInvariant`, `WindowSent`, `WindowExact` | `SnapshotAssumption`, `TimingAssumption` |
| `SlowDataProofs` | `SlowTypes`, `SumOfOneTurn`, `SumStaysFresh`, `MeanOfItsSum` | `SlowDataAssumption` |

**FaultBlock.** `IInv` adds `CountIsEvidence` (the counter is the evidence, cut off at
the limit – without it the equality test says nothing), `TickInPipe` (where the tick
stands in its delay line, in terms of the divider), `ClearProgress` (how old a request
can be at every stage of the line), and `FlagCurrent` (at a tick the change flag has
caught up with the samples). There is a lemma per part, each about any clock edge;
`StepIsEdge` reduces both actions to one.

**FaultRetune.** A rewritten limit breaks `CountIsEvidence`. What remains is that a
counter never runs ahead of the evidence (`CountBehind`), and that every tick under an
unchanged limit brings a check that is not live one closer to it, through a wrap if
need be (`Approaching`, with the distance `ToGo`).

**Interlock.** `EdgeIsNext`: a step of the loop is a step of FaultBlock, so its `IInv`
carries over. `PulseInv` relates the pulse counter to the clocks that are left to the
next tick (`ToTick`): old evidence lasts until the first tick of the low half
(`LowHalf`), and in the high half the evidence is at most the ticks since it began
(`HighHalf`). This needs half a pulse period to exceed the tick period and its delay,
which the gateware's constants meet 50 times over; a shorter pulse would let the ON check
count across low halves. `AckInv` follows an acknowledgement through the four clocks in
which it can still take the latched faults away; `TripHolds` follows from it. The
refinement is proved step by step for any clock edge (`PromiseInit`, `PromiseStep`), so
that it holds for the fault block alone (`Refinement`) and in the loop, where the output it
trips feeds back into the conditions of its checks (`LoopKeepsPromise`).

**DacGainOffset.** `IInv` says how the registers follow one another through the states,
with the gain that was used as history. The arithmetic is in lemmas: `WrapTurn` and
`WrapType` (what wrapping does to a number at most one turn away), `ProductRange` (a
gain below 2 cannot leave that range), `SignTells` and `ClampTells`.

**DacChannel.** `DacInv` follows the pipeline stage by stage: `Between` says from which
tick on a stage lies between the ends of the ramp, `Ordered` that a stage is not ahead
of the one before it, from the tick on at which all phases it has seen are in order
(`onward`) – so that shifting the pipeline moves the output towards the setpoint
and not away from it. The cosine enters only as a table that is monotone in the half turn.
`GrainType` and `RoundedType` bound what the float does: an increment exceeds the half turn by
at most half the distance of two floats (`IncMax`). `Lag` follows the phase
down the pipeline, for increments that do not count it down: how many increments each stage is behind it (`Trailing`), and what that
leaves in the last one when the last point is declared (`Stopping`); `RestOfTheWay` turns
this into the distance to the setpoint for both directions of rounding. For the table,
`Stored` says that the memory holds the message, `InOrder` that the writes still to come
leave no gap in it, and `Played` what an undisturbed run has put out so far. The types need
the length of a stored table to fit the length register (`Depth` below `AddrMod`, 50000
and 65536 here).

**PscServer.** `IInv` = types, `OneThread` (a connection gets one thread, once),
`Greeting` (the holder of `sendguard` that greets waits for the end of it), `Exclusive`
(two owners of a slot are the same) and `UsedBits` (the used bits are the slots with an
owner). `FreeOnes` is the reason why allocation keeps them: the slot it takes is free.

**PscMsg.** `MsgInv` = `Numbers`, `Buffers` (where each receive buffer is), `Chain`
(the peer puts its messages end to end) and `InStep`: in each of the calls, the
position follows from the start of the message and from what the call still needs, and
`rxbuf` holds what has been received – as long as no error was ignored.

**Boot.** `BootInv` follows a save that is alone through its stages (`AloneInv`: ready,
enabled, erased, programmed) for as long as it has lost no transfer; loads and refused
commands of the others leave its stage as it is (`LoaderStep`, `SaverStep`). It says that a busy flash works for some save or for the
remains of one (`BusyInv`), that a sector no save touches holds what was saved
(`StoredInv`), that no command runs during a boot (`IdleInv`), and which channels have
been restored at each stage of it (`RestoreInv`).

**Snapshot.** `SnapInv` bounds ages by polls: a trigger that is not served yet came after
the last one was taken up (`Waiting`), so the one being served is at most two waits old and
at least one (`Aged`). `Placed` ties an age to the distance of the writer, as long as the
slot is not overwritten; with the bounds it follows that the writer has passed the end of
the window and not come round to its start (`InTheRing`). `SlotRead` takes `ReadDMABuf`
apart: a position is read from its slot or from one a ring's length away, which is its
neighbour, because the ring has one slot more. `TimingAssumption` is about time, and the
code does not enforce it: the polls and the sends must be quick enough for the ring to hold
a window and two waits. With the code's numbers there is room for polls that are 40 % late,
or for 4.8 s of sending in the turn that serves the source. All twenty sources are sent by
one loop (`snapshots.c:553`–`564`): the sends of the others in that turn are part of the 4.8 s,
and those in the turns between must fit into late polls. The room is less than the 5 s for which one
send may block on a client that stopped reading (`SO_SNDTIMEO`, `listener.c:143`). One such
client is enough to break the assumption, and the window that is sent then may hold samples
of the next turn of the ring: `SamplesTrue` and `ExactAwayFromSeam` say nothing of that case.

**SlowData.** `LapInv` gives each word the age it has after a turn in range (`Turn`);
`FreshInv` bounds it when the counter has run past its limit and only its low bits address
the memory (`Stale`). `Current` says that the sum is made of the words as they are,
`ModeInv` that the mode which the thread read is still the one in force. The counter's range
must be a multiple of the memory's addresses, as it is for powers of two.

Every safety property of the passing runs is stated by a theorem. Only model-checked:
liveness (`ClearHonoured`, `OnTrips`, `RampEnds`, `TableEnds`, `ServedOrSuperseded`,
`SnapshotEnds`, `SlotsReleased`, `SendEnds`, `SilentPeerDropped`, `CommandEnds`,
`BootEnds`), which the prover does not reach.

## 6. What modelling showed about the code

Runs that are expected to be violated:

- `psc_wake`: `psc_client_alloc` marks a slot used before `psc_run` stores its socket
  (`listener.c:180`). A broadcast in between sends on descriptor 0, the listening
  socket, fails and closes it.
- `qspi_shared`: two clients' flash commands are not excluded from one another. An erase
  that meets a busy flash, or whose write enable another client's erase has used up, is
  ignored, and the sector becomes a mixture; no transfer needs to be refused for that.

Bounded by properties that hold, whose statements say how far they go:

- Limits are compared for equality. A limit lowered below the count delays the trip by a
  wrap of the counter (`TripsWithinOneWrap`) but does not prevent it.
- A check trips after more than its limit of ticks, so one tick later than
  the limit says (`DebounceExact`); the divider counts 10001 clocks.
- The ON check sees half of a pulse period at a time (`OnSeesOneHalf`): limits above
  about 50 ticks never trip. The comments at `digio_logic.vhd:113` say 1 ms for a period
  of 1000001 clocks, which is 10 ms. When the command is withdrawn in the high half, the
  output stays high (`pulse_enable.vhd:64`), and only a trip takes it away.
- A setpoint change smaller than one sample at the ramp rate makes `num_samples` 0, and
  `Calc_WriteSmooth` divides by it (`control.c:178`). The run-time library returns 0, with
  which the generator stays in RUN_RAMP for good, or all ones, with which it counts the phase
  down from -pi by one a tick, until the register wraps around after two days. In both
  cases it takes no setpoint meanwhile. `RampEnds` is about ramps whose increment is not 0;
  `RampMonotone` and `EndsWithinFour` except a phase that is counted down.
- `Calc_WriteSmooth` keeps the quotient in a `float` (`control.c:152`), which has 24 bits:
  for a single sample 421657312 is written, more than the half turn of 421657300. An
  increment exceeds the half turn by at most half the distance of two floats (`TypeOK`), and
  the bounds of a ramp hold with what is in the register.
- A new ramp begins with values of the previous one in its pipeline: `RampBounded` and
  `RampMonotone` hold from the third tick and from the fifth that had its phases in order. The last stages are never pushed
  out, so a ramp stops short of its setpoint by up to four phase increments
  (`EndsWithinFour`).
- `Set_dacOpmode` switches the mode right after it began the ramp to 0, so the DAC
  jumps. A change between SMOOTH and RAMP does nothing.
- A table run requested in the clock before a tick puts out, as its first point, what an
  earlier run left in the memory's output (`PlaysTheMessage`, `raced`). A length of 65535
  never ends (`TableEnds`). Table points above full scale are limited to 21 bits and
  stored in 20 (`control.c:122`), which changes their sign; `PlaysTheMessage` is about
  points in range.
- Overflow told by the sign is exact for gains above 0 and below 2 (`SaturationExact`).
  The offset is subtracted without a check and wraps near full scale
  (`dac_gainoffset.vhd:78`).
- The ring has one slot more than software knows of (`adc2ddr.vhd:194`), so a window
  across its end is off by one sample (`SamplesTrue`, `ExactAwayFromSeam`). A second
  trigger at the address of the last one served is not seen (`ServedOrSuperseded`).
- `handle_client` keeps its own copy of the descriptor: after `psc_send` closed it
  the thread may receive from, and later close, another client's connection. Slots are
  released all the same (`SlotsReleased`).
- `psc_recvskip` drops an error of its loop (`pscmsg.c:70`) and goes on with the
  rest of a length it has not received, which may be more than its 128 byte buffer.
  `WholeMessages` excepts what follows; the connection still ends (`SilentPeerDropped`).
- `disco_recv` frees no datagram it is handed, on no return (`discover.c`): each costs a
  receive buffer for good. No property is stated of the pool, since the code has none to keep;
  what is checked is the consequence, that connections end by their timeout when the pool is
  used up (`SilentPeerDropped`).
- An interrupted save leaves a sector that boot loads without a check, and the console's
  reboot may read a flash that is still busy with an earlier save; `BootRestoresSaved`
  excludes both. `SaveIsExact` is about a save that found the flash ready, for the same
  reason.
- `qspi_flash.c` ignores what `XQspiPs_PolledTransfer` returns (lines 65, 82, 93, 103, 125, 136,
  144). While another thread is preempted inside a transfer, a load included, a save may lose
  its write enable, erase, program or read back; `SaveIsExact` excepts a save that has lost
  one. A refused first status read leaves `FlashStatus` uninitialised, and the wait may end
  with the flash still busy; boot may then find what `BootRestoresSaved` excepts. A client that
  preempted the console inside a transfer polls for ever (`CommandEnds`, `Stranded`).
- When `psc_run` cannot get its lock or its socket it returns (`listener.c:103`–`117`), and
  `realmain` prints that for ever (`main.c:122`–`126`): no server until the next reset
  (`BootEnds`).
- Comments ask that fault bit 7 be live and not latched ("David wanted this live not
  latched", `fault_block.vhd:326`; "David wants live", `psc_pkg.vhd:57`). The loop at
  `fault_block.vhd:393` latches all bits alike, and so does `FaultPromise`: `Implements` shows
  what the code does with each check, not what the comments ask of this one.
- `average.vhd` returns to its first word one conversion late, so one sample of every
  N + 1 is not in the sum (`WindowOfOneTurn`). A switch to a shorter sum may leave its
  counter past the limit; it then runs on, and the window grows to the address range
  (`SamplesStayFresh`).
- The accumulators of channel 4 are wired to the mode of channel 1, while software
  divides by channel 4's (`MeanUnlessSwitched`). Mode 3 is reported as not a number.

Seen while reading, in parts whose data the models leave out:

- A message shorter than its handler expects is handled with what an earlier message
  left in `rxbuf`.
- `digout_on2`, `digout_reset` and `digout_spare` are read from the register of another
  signal (`sadata.c:156`–`158`).
- `console.c:124` and `149` ask to reboot for the EEPROM's settings to take effect; the
  boot never reads the EEPROM. `sdcard.c:254` reports a written EEPROM although the write
  is commented out, and EEPROM.NEW is then deleted (`298`).
- Without a line for the resolution in NET.CNF the conversion factors stay 0; `f_gets`
  splits lines of more than 63 characters.
- The cache is invalidated for the first 16e6 of 32e6 bytes of the ring
  (`snapshots.c:300`).
- Channel 2's fault detector is given channel 1's park line (`fault_module.vhd:76`).

## 7. Not modelled

- The digital current loop and the CORDIC: floating point and vendor cores, out of TLC's
  reach. The loop starts its cores once per tick in a fixed order; what could be wrong is
  the arithmetic. DacChannel has the loop off.
- The event receiver: its transceiver is generated code, its time stamps and delays feed
  nothing back. Its triggers come at any time in DacChannel and Snapshot.
- Serial converter interfaces (`adc_ltc2376.vhd`, `adc_ads8568_intf.vhd`,
  `dac_ad5781.vhd`) and the pulse stretcher: counters without interaction.
- Cache coherence of the DDR ring, gateware timing closure.
- `fofb_top.vhd` (library packet receiver; its mode cannot be selected by software's
  command), `adc2dma.vhd` (without a reader here), register block wiring (`ps_io.vhd`) but
  for the triggers and the DAC registers.
- I2C (blocking transfers without state; their busy waits, `i2c.c:81`, `90`, `100` and `109`, have
  no bound and are taken to end, so a stuck bus that stops the boot is not in `BootEnds`), TFTP (third party and not started), the
  console's menus, the statistics message.
- Formatting and units of waveforms and slow data, apart from which samples are sent or
  summed. The four channels are one, except where they share something (flash,
  averaging mode).

## 8. What is left

- Proofs: bounds in ticks or steps from which the liveness properties would follow.
- PscServer and PscMsg stand side by side: PscServer's receive is one step. Composed, the
  stale descriptor could be followed into a message that two threads share.
- The fault detectors of four channels with the park line that channels 1 and 2 share.

## 9. Running it

    tlc -config MCFaultBlockError.cfg MCFaultBlock    # a run: module and cfg as in PROJECT.json
    tlapm FaultProofs.tla                             # the proofs of a module
