# Verification of the Zynq INT8 convolution accelerator

TLA+ models, TLC runs and TLAPS proofs for the accelerator in `src/rtl/rtl`
(SystemVerilog), for the firmware in `src/firmware-verification/firmware` that
drives it, for the contract between the two
(`firmware-verification/HW_SW_Interface_v1.1_FINAL.md`), and for what the
accelerator is verified with: the Python golden model, the scripts that make
test vectors, and the bus functions of the cocotb tests. Paths below are
relative to the repository's root, `src/` here.

## 1. The system

A bare-metal program on the processor of a Zynq writes the parameters of a
layer into AXI4-Lite registers, sets `START`, sends the packets the operation
needs (weights, biases, input, or input and skip) through a DMA channel, and
receives the output through another. The accelerator validates the parameters,
stores the packets in buffers, runs one of three engines (convolution, residual
addition, global average pooling) and streams the output buffer out. `STATUS`
has `BUSY`, `DONE`, `ERROR`; `ERROR_CODE` has the first error, or the first fatal
one.

| Component | Source | State | Operations | Talks to |
|---|---|---|---|---|
| Register file | `rtl/rtl/control/axi_lite_regs.sv` | held halves of a write, response, command pulses, 12 configuration registers, read response | write (address and data in any order), read, decode | controller (pulses, configuration), error controller (event wires) |
| Controller FSM | `rtl/rtl/control/controller_fsm.sv` | main state, admission flag, validator state, multiplier, pending and accepted configuration, one-cycle outputs, debug latch | take a START, validate, accept/reject, sequence packets, compute, output, abort, fail on a framing error | everything |
| Input loader | `rtl/rtl/stream/axis_packet_loader.sv` | byte count, done and error pulses | count a beat, finish, report a bad TLAST or length | controller, buffers |
| Output streamer | `rtl/rtl/stream/axis_output_streamer.sv` | state, word index, word count | start, read, offer, finish, abort | controller, output buffer |
| Engines | `rtl/rtl/compute/{conv,gap,residual_add}_engine.sv` | loop counters, addresses, accumulators, done pulse | start, one element per cycle, finish, abort | controller, buffers, requantizer |
| Arithmetic | `rtl/rtl/common/{requantizer,relu_clamp,sat_add_int32}.sv` | none | rounding shift, clamp, saturating addition | engines |
| Buffers | `rtl/rtl/compute/tensor_buffers.sv` | four memories | synchronous read, write with byte enables | loader, engines, streamer |
| Error controller | `rtl/rtl/control/error_ctrl.sv` | `DONE`, `ERROR`, `ERROR_CODE` | set, clear by write-one, replace a warning by a fatal code | register file |
| Cycle counter | `rtl/rtl/control/cycle_counter.sv` | 32-bit counter | restart with the operation, count while BUSY | register file |
| Driver | `firmware-verification/firmware/src/accel_driver.c` | configuration, outstanding packets | configure, start, wait for admission, wait for completion, abort and confirm | registers, DMA |
| DMA | `firmware-verification/firmware/src/dma_transfer.c` | channel state | prepare, start, wait with a timeout, halt and reset | driver |
| Scheduler | `firmware-verification/firmware/src/resnet_scheduler.c` | layer index | run the layers in order, recover after a failure | driver, DMA |
| Golden model | `firmware-verification/python/{models,utils}` | none | reference arithmetic, checks of a configuration | vector scripts, tests |
| Vector scripts | `firmware-verification/scripts`, `python/export` | vector directories, a manifest of hashes, C headers | generate operations of a float network, export, approve, embed | golden model, firmware |
| Bus functions | `firmware-verification/verification/cocotb/bfm.py` | a coroutine, and the values it drives | write, read, send, receive, wait, with limits | the accelerator in simulation |

**What is hard.** Everything in the accelerator moves at every clock edge on the
values of the edge before. `BUSY` is an OR of registers of two state machines. A
command is decoded against the lock of one cycle and takes effect in the next.
Framing errors are reported a cycle after the beat that caused them, when the
controller may already be aborting, or idle. Events, completion and
write-one-to-clear meet in one cycle at the error controller. Three engines
share the ports of the buffers. In the firmware, timeouts race completions, an
abort has to be confirmed, and a failed layer must not leave anything running
under the next one. The engines step addresses through six nested loops and read
buffers that answer a cycle later. A test drives signals between clock edges and
must look at them on the right side of one. The vector scripts overwrite files of
earlier runs one at a time and may end between two. `PROJECT.json` lists these as hazards, with the properties
that cover them.

## 2. Modules

| Module | Models | State and actions |
|---|---|---|
| `AccelPkg` | `accel_pkg.sv`: names; the abstraction of a configuration | `Configs`: a register-file value is its operation, the byte counts of its packets and output, and `rejectAt`, the validator stage that turns it down |
| `AxiLiteRegs` | write channel of the register file | `AxiIdle`, `AxiAcceptFirst`, `AxiAcceptSecond`, `AxiDecode`, `AxiRespond` |
| `AxiLiteReadChannel` | read channel of the register file | `ReadClock` |
| `ControllerFsm` | controller and validator | `LeaveReset`, `AbortOperation`, `FailPacket`, `Validation` (`ValidateStage`, `MultiplyLoad/Step/Finish`, `AcceptOperation`, `RejectOperation`), `Operation` (`TakeStart`, `Rest`, `FinishPacket`, `FinishCompute`, `FinishOutput`, `Await`) |
| `AxisPacketLoader` | input loader | `LoaderWait`, `LoaderCount`, `LoaderOverrun` |
| `AxisOutputStreamer` | output streamer | `StreamerAbort`, `StreamerStart`, `StreamerRead`, `StreamerSend`, `StreamerHold` |
| `ComputeEngines` | control interface of the engines | `EnginesAbort`, `EnginesWork` |
| `ErrorCtrl` | error controller | `ErrClock` |
| `ResnetAccelTop` | the top level | `ClockEdge`: all components at once; `Next` chooses the input beat and output ready |
| `ResnetAccelTopCycles` | the top level with `cycle_counter.sv` | `CycleClock`, `CyclesEdge` |
| `AccelContract` | what the driver relies on | phases, packet plan, results |
| `ResnetAccelTopProps` | properties, the refinement mapping and the inductive invariant | |
| `ResnetAccelTopProofs` | proofs, also of the cycle counter and the data path (`ResnetAccelTopCycles`, `ResnetAccelTopData`) | |
| `ConfigValidator` | the validator with its arithmetic and register widths, and its shift-and-add multiplier | `Load`, `Step`, `CheckFields`, `CheckDims`, `MultiplyLoad/Step/Finish`, `CompareBytes`, `TakeStart`, `Conclude`, `AbortValidation` |
| `ConfigValidatorProps` | what a legal configuration is, in products and quotients, and to the golden model; the mapping to `ControllerFsm`; the inductive invariant | `Legal`, `RejectStage`, `Abstract` |
| `ConfigValidatorProofs` | proofs, also of `AccelConfigure` | |
| `AccelConfigure` | `accel_configure` with its arithmetic, in front of the validator | `Configure`, `Refuse`, `Trap`, `Validate` |
| `AccelDevice` | the accelerator as its driver sees it | posted register writes, `TakeCommand`, `Accept`, `Reject`, `TakeWord`, `Compute`, `GiveWord`, `Lockup` |
| `AxiDma` | external: the DMA engine and the data cache, as `dma_transfer.c` uses them | submit, word leaves and arrives, failure, reset, flush, invalidate, prefetch, evict |
| `FirmwareDriver` | `resnet_scheduler.c`, `accel_driver.c`, `dma_transfer.c` | `pc`; one action per register access or call: `CheckBusy`, `ClearResults`, `Configure`, `PrepareS2mm`, `StartOperation`, `PollAdmit`, `SendPacket`, `PollPacket`, `PollDone`, `ReadCode`, `AbortOperation`, `PollAborted`, `PollOutput`, `NextLayer`, `RecoverAccelerator`, `PollIdle`, `StartReset`, `PollReset` |
| `FirmwareDriverProofs` | proofs | |
| `FixedPoint` | `fixed_point.py` | operators: `requantize`, `sat_add_int32`, `relu_and_saturate_int8`, `validate_conv_config`, ... |
| `GoldenModel` | `golden_fixed_point.py`, and the second reference in `generate_full_conv_vector.py` | `conv2d_fixed_point`, `global_avg_pool_fixed_point`, `VecExpected` |
| `Requantizer` | `requantizer.sv`, `relu_clamp.sv`; the requantizer alone, driven as an engine may | `RequantMul`, `RequantRoundAdd`, `RequantShift`, `RequantClear`; `PipeSpec` |
| `RequantProofs` | proofs | |
| `ConvEngine` | `conv_engine.sv`, and the mapping to `ComputeEngines` | one action per state: `AddrInit`, `PrepareOutput`, `ReadTap`, `MacProduct`, `Accumulate`, `AddBias`, `Requantize`, `WriteOutput`, and `Abort` |
| `ConvEngineProofs` | the inductive invariant and proofs | `ConvInv` |
| `GapEngine` | `gap_engine.sv` | `GapRead`, `GapAccumulate`, `GapRequantize`, `GapWrite`, `GapAbort` |
| `GapEngineProofs` | the inductive invariant and proofs | `GapInv` |
| `ResidualAddEngine` | `residual_add_engine.sv` | `ResidualStart`, `ResidualRead`, `ResidualWrite`, `ResidualAbort` |
| `TensorBuffers` | `tensor_buffers.sv` | `BuffersClock` |
| `ResnetAccelTopData` | the top level with buffers, residual adder and byte engines, its properties and inductive invariant | `DataEdge`: `ClockEdge` and all of the data path at once |
| `CocotbBfm` | `bfm.py` as a coroutine in the phases of the simulator, beside the clocked design | `BeginWrite`, `EndWrite`, `BeginRead`, `SendEdge`, `RecvEdge`, ...; `Edge` is the clock edge |
| `CocotbBfmProofs` | the inductive invariant and proofs | `BfmInv` |
| `VectorGenerators` | `resnet_fp.py` and the vector scripts: which operations, on which tensors, onto which scale | `BasicBlock`, `process_block`, `FcLayer`, ... |
| `VectorFiles` | `exporter.py`, the manifest and the header generators: files and who wrote them | `NextCall`, `WriteFile`, `Finish`, `Raise`, `ApproveManifest`, `GenerateHeader` |
| `VectorFilesProofs` | the tensors of each network, the inductive invariant and proofs | `Tensor`, `PipelineInv` |
| `MCConfigs`, `MCTop`, `MCTopData`, `MCValidator`, `MCConfigure`, `MCDriver`, `MCConvEngine`, `MCGapEngine`, `MCCocotb` | instances for TLC | |

**How the layers meet.** `AccelContract` is the hinge. Below it, the clocked
design `ResnetAccelTop` implements it (checked and proved). Above it, the
firmware runs against `AccelDevice`, a model with one step per register access
or stream word, and `AccelDevice` implements the same contract (checked and proved). In
`ResnetAccelTop` a configuration carries the stage at which the validator turns
it down; `ConfigValidator` computes that stage from the values in the registers
and takes the steps of `ControllerFsm` with it (checked and proved).
`ComputeEngines` leaves open how long a computation takes; `ConvEngine` takes its
steps (`ImplementsEngine`), and its bytes are those of `GoldenModel` (checked and
proved), as are those of `GapEngine`. In
`ResnetAccelTopData` the control sits on the real buffers; `AccelConfigure` puts
`accel_configure` in front of `ConfigValidator`; `CocotbBfm` puts the tests'
coroutine in front of `ResnetAccelTop`.

```
 FirmwareDriver + AxiDma                ConfigValidator
        |                                        | ImplementsFsm
   AccelDevice        ResnetAccelTop = ControllerFsm + AxiLiteRegs + ...
        |  DeviceImplementsContract      | ImplementsContract
        +---------> AccelContract <------+

 GoldenModel + FixedPoint --- ConvEngine --ImplementsEngine--> ComputeEngines
```

**One step is one clock edge.** Every component is a relation between its
registers before and after the edge, with its input wires as parameters;
`ClockEdge` is their conjunction. A pulse output is a register that is off unless
the step sets it. A combinational output (`Busy`, `OutputDone`, `InputReady`,
`ExpectedPacketBytes`, `EngineAbort`, `CommandLock`) is an operator. So the
interleavings that matter here (which pulses meet in which cycle) are those of
the design.

**What is abstracted.** In `ResnetAccelTop`: the data of packets and outputs; the
values of the configuration registers, except what the control depends on; the
number of cycles of a multiplication and of a computation (any number); byte
strobes (the value written is the value after masking). A write to a configuration register
chooses the joint value of all twelve registers in one write; the driver takes
twelve, during which nothing reads them. Reset is not an action: it sets every
register to `Init`, so a behaviour after a reset is a behaviour.

In the firmware, a step is one register access or one call into the DMA driver;
the accelerator, the DMA engine, the cache and the clock move in between. A
wait polls, and looks at the clock only after a poll that found nothing, so an
answer may come between the two. A register write is posted: it reaches the
accelerator before the next read returns, not at once. Abstracted are: the
dimensions `accel_configure` computes with (a descriptor carries the byte counts
they give, and whether the shape is refused); the contents of a buffer (`ddr`
says whether it holds what it should, and the cache whether the processor would
see that); the number of polls (the clock may expire at any one of them); and
the twelve configuration writes, which are one step because the accelerator is
idle and reads none of them. `dma_wait_channel` reads
the error bits and `XAxiDma_Busy` in one step: a channel that fails in between
stays busy, so the next poll finds the error. `Lockup` is the fault that
`accel_wait_done` reports as `ACCEL_ABORT_TIMEOUT`: an accelerator that no longer
answers an abort.

In the data path, `ConvEngine` and `GapEngine` run alone, on buffers whose
contents are given, with every state, counter and address of the engine; a read
is latched in one state and used in the next. `ResnetAccelTopData` composes
control, loader, streamer, buffers and residual adder with the engines reduced
to what the others see of them: one byte written at a time, at any pace. There a
byte is a function of the operation and the element, and a word of a packet one
of the operation, the packet and the index, so anything stale is told from what
is new. The buffers start as an FPGA configuration leaves them, with zeros.

In `CocotbBfm` a clock cycle has four points (the rising edge, the settled
values after it, the falling edge, the settled values after that), a coroutine
awaits one of them, and what it assigns is seen at the next settled point. The
limit of a wait is counted in cycles.

In the vector scripts a tensor is its shape and the name of its scale, and the
content of a file is the seed of the run that wrote it; a scale is named after the
tensor whose range it was taken from. A run may end before or within any write.

## 3. Runs

| Run | Question | Instance | States |
|---|---|---|---|
| `top_safety` | Is the invariant of the proofs one (it says how commands, registers, datapath control and results belong together), is every accepted `START` taken, does `BUSY` fall with a result, is `CYCLE_COUNT` the length of the last period of `BUSY`, and does the clocked design implement the contract? | the three operations, a rejection at the first stage (the reset values) and at a late one; every command, every configuration write, in every cycle; a counter that wraps at 2 | 2.77 million |
| `top_data` | Do engines compute on the words of this operation, does the stream carry its results, does `DONE` mean that the output was delivered, does every operation end, and is the invariant of the proofs one? | two operations of residual addition (one and two words, with and without ReLU), pooling, convolution; aborts and framing errors | 433,000 |
| `top_abort_done` | (finding) `ABORT` in the cycle of the last output word | one configuration | |
| `validator` | Does the validator accept exactly the legal configurations, in bounded time, as `ControllerFsm` says, and are they ones the golden model computes? | 87 configurations around buffers of 9, 4, 8 and 4 words, with every kernel, stride and padding; two in a row | 405,000 |
| `configure` | Are exactly the descriptors accepted that fit? | convolutions, linear layers, residual additions, poolings around small buffers, products of six bits | |
| `driver_run` | Does success mean right output, does failure have a cause, does a recovery leave nothing behind, does every call return, and is the invariant of the proofs one? | two calls, networks of one or two layers | 544,000 |
| `driver_busy_ever` | (finding) `busy_ever` after a rejection | one call | |
| `conv` | Does every byte the convolution engine writes equal the golden model's, and does it end? | 39 convolutions: three shapes, three channel pairs, both kernels, strides and paddings, two contents; aborts in every cycle | 235,000 |
| `gap` | The same for pooling, and does the requantizer behave there as the pipeline of the theorems? | four shapes, four contents, multipliers and shifts at both ends, with saturation and clamping | 23,000 |
| `cocotb` | Which tests fail as they are written, and where; does each bus function move on the buses exactly what it says, and does every test end? | the tests of `test_accel_conv.py`, `test_quick_done_busy.py` and `test_repeat_no_reset.py`: four as written, and each of the seven places that read `STATUS` straight after a command twice, as written and with something in between; some with an operation after them; any stalls and durations | 18,800 |
| `vectors` | Are all operations of all stages, the nine blocks of the backbone included, legal, do residual operands share a scale, and are headers of one run, with and without a manifest? | two seeds; three runs (two of the backbone) that may end anywhere | 1.09 million |
| `header_approved` | (finding) what an approved header embeds | the stage-2 script, three runs | |

**Bounds, and why they are enough.** Packets and outputs have one or two words.
The loader and the streamer distinguish the first word, the last, one before
the last and one too many; two words show all of them, and the proofs hold for
every size. The configuration register values differ, for the control, in their
operation, their byte counts and the stage that rejects: the set has each
operation, the first stage, and the last multiplication.
The clocked model needs no bound on time: its state is finite, and TLC explores
it completely, so commands meet every cycle of every operation.
`MaxRuns = 2` gives every call of the firmware a predecessor that succeeded,
failed and was recovered, or failed and was not. Networks have two layers
because what could be inherited is inherited from the layer before; they
load one, two and three packets, or are turned down by one of the driver's checks
(size of the output, size of the input, operation, shape). The validator's
caps are the smallest for which a convolution with a kernel of three, a
stride of two and padding fits, and configurations lie on, below and above each
of them; in some, a byte count disagrees with the dimensions. Two
in a row, with an abort at any point, is what a stale accumulator needs.

Arithmetic is checked on narrow registers in the proportions of the wide ones:
with an `INT8` of -8..7 and an `INT32` of -32..31 sums saturate, shifts round
both ways and the clamp bites, and the proofs of the requantizer hold for every
width. The shapes of `conv` are those where a stride leaves columns over, where
padding is on one side only and where an output is one pixel, with channel
counts that make whole words; each loop of the six runs one, two or more times.
`MaxStarts = 2` of `top_data` gives every operation one before it, finished or
cut off at any point, and a tensor of two words fills its buffer, so the index
wraps. The backbone needs no bound: it is the network of the repository.
`MaxRuns` of the scripts is an approved run, one that ends early and another; the
backbone, which has no manifest, needs one that ends early and another. The
counter of `top_safety` wraps at two, below the length of any operation, so
the comparison with the length of the period sees the wrap, too; the proof is for
every width.

Of the properties, some need a word:

- `FailureHasCause`: `causes` is a history variable that records expired waits,
  failed channels, rejections and refused descriptors, so the property says that
  without one of these no interleaving of hardware and firmware reports a failure.
- `QuietAfterRecovery` is what the comment in `resnet_run` promises, "so the
  next layer never inherits stale state", for all registers, channels and words
  under way at once.
- `IInv` is the inductive invariant of the proofs about the clocked design, types
  included, `DataInv` that of the proofs about its data path, `VInv` that of the
  proofs about the validator (a value that would be cut by the register that keeps
  it violates it), `DriverInv` that of the proofs about the firmware. The other
  four, `ConvInv`, `GapInv`, `BfmInv` and `PipelineInv`, hold in every state of
  `conv`, `gap`, `cocotb` and `vectors` as well; they are defined beside their proofs and
  belong to no run, as those of the engines and of the scripts evaluate the golden model's
  sums, or the tensors of the whole network, in each state, which takes longer than
  the rest of the run.
- `OutputIsComputed` compares each word offered with the one that this operation
  computes at this index, so it covers the writes, the shared port, the latency of
  the reads, and everything an aborted operation leaves in the buffers.
- `AcceptsWhatFits` says what fits in exact arithmetic: a product that wrapped,
  a truncated quotient or the result of a division by zero must end in a refusal.
- `ReadIsCurrent`: the answer was latched during this call, for its address.
- `TransfersOnce`: what a call of `axis_send` or `axis_recv` returned for is what
  moved on the stream, each beat and word once and in order.
- `TestVerdicts`: an `AssertionError` comes exactly from the `STATUS` read straight
  after a command, in each of the seven places and nowhere else, whatever the
  durations (section 8); a `SimTimeoutError` only while the `TREADY` of the first
  packet is waited for, when a validation outlasts the limit.
- `TestEnds`: every wait but that of `axis_recv` has a limit, so a test ends or waits
  for output for ever even on a design whose loops never end (a wait without its
  limit violates it); if they end, every test does.
- In `VInv`, `FieldsInv` says at `VAL_ACCEPT` that what the engines are given
  (`validated_*`, `controller_fsm.sv:626-631`) is the configuration checked.
- `FinishedRunGivesHeader`: files of a run that ended early do not reach a header
  through a finished run, and the header generator accepts a manifest made of that run.
- `ApprovedBinaries`: three lists of the files of a vector are each translated from
  their own place of the code: what the manifest hashes (`ManifestFiles`), what is
  compared with it (`Verified`), what is embedded byte for byte (`ByteArrays`). The
  property says of the header what only holds if the lists agree: its arrays are all
  of the run that the manifest was made of. What is embedded without being compared
  is in section 8.
- `ImplementsPipeline`: `RequantProofs` is about a requantizer that is enabled and
  cleared in any cycle; the pooling engine is one of the ways of driving it, and the
  convolution engine another (`ConvImplementsPipeline`).
- `NeverProvokes` holds even after a recovery that failed, because
  `accel_run_layer` looks at `BUSY` before it writes anything.

## 4. Fairness

*Accelerator* (`FairDataSpec` of `ResnetAccelTopData`): again and again there is a
clock edge at which whoever the controller awaits acts (`Forward`): the
multiplication of a validator stage ends, the host sends the beat it was asked
for, the byte engine writes its next byte, the output word offered is taken. The
controller awaits one of these at a time. That a multiplication ends is what
`ValidationEnds` checks, with the clock as the only fairness, and that an
engine's loops end is `ComputationEnds` (`ConvEngine`, with its clock as the only
fairness; the loops of the pooling engine are bounded by the same kind of
counters). The residual adder needs no fairness of its own. Nothing is assumed
of the host's register writes, nor of `TLAST`.

*Firmware* (`FairSpec` of `FirmwareDriver`): the processor takes its next
step; a register access is answered; and a wait that looks at the clock again
and again finds its limit passed in the end (strong fairness, since the step is
enabled only between polls): `fw_time_expired` compares with the global timer,
which advances. Nothing is assumed of the accelerator, the DMA engine or the
cache: `RunReturns` is about the timeouts.

*Tests* (`BfmFairSpec`): the simulator goes on, and nothing else. That a
multiplication and a computation end, and that a receiver which may stall does not
stall for ever (its `stall_prob` is below 1), is `DesignFair`, the hypothesis of the
second part of `TestEnds`; the first part, that limits end every wait but that of
`axis_recv`, needs none of it. The scripts have safety properties only.

## 5. Proofs

`ResnetAccelTopProofs` proves, for every set of configurations, every set of writes and every packet size:

- `TypeCorrect`: every register keeps its type;
- `Invariance`: `IInv` is invariant;
- `RegistersShowOperationHolds`, `DatapathFollowsControllerHolds`: what the parts
  of `IInv` say to a reader of the design;
- `StartIsTakenHolds`, `BusyFallsWithResultHolds`: the properties of `top_safety`;
- `ImplementsContractHolds`: the clocked design refines `AccelContract`.

They assume `ConfigsAssumption` (a configuration that the validator accepts has
a packet size for each packet it uses that is a positive number of words, a
positive output, and is rejected only at a stage that its operation has) and
`WritesAssumption` (the writes are register writes). TLC evaluates both in every
run; that the abstraction of any register values satisfies the first is the
theorem `AbstractWellFormed` below.

*The argument.* The properties are not inductive: `BUSY` may fall only with a
result because of which pulses can be on their way in the cycle in which it
falls. `IInv` says, for each component, what it may be doing in each state of
the controller, in seven parts beside the types. `CommandsInv`: pulses come only
with a response, so two commands are at least two cycles apart; a decoded
`START` finds the controller at rest; an `ABORT` that finds something to abort
has recorded it. `ValidatorInv`: admission and the validator agree, and the
validator is at a stage of its operation not past the one that rejects, so the
default branches with `ERR_INTERNAL` are never taken. `LoaderInv`: a framing
error is seen only in a load state, or in the idle cycle after a cancel, where
`cancel_pulse` is up. `EngineInv`: in `COMPUTE` the engine of the operation is in
exactly one of started, running and done, and outside it none is. `StreamerInv`:
the streamer is idle outside `SEND_OUTPUT` and its index is below its count.
`RegistersInv`: what is pending and accepted is what the registers hold.
`ErrorInv`: a code comes with the flag. Each part has a lemma per kind of step
(abort, framing error, validation, main state machine), under the definition
`Moves`, which collects what the controller does at an edge.

`ResnetAccelTopProofs` also proves, of the data path, for all configurations, writes, contents of
packets, results of the engines, buffer sizes and any number of operations:

- `DataInvariance`: `DataInv` is invariant;
- `BuffersHoldPacketsHolds`: in `COMPUTE` the buffers hold the packets of this operation;
- `OutputIsComputedHolds`: each word offered is the one this operation computes there;
- `DoneMeansDeliveredHolds`: an operation completes only with all packets received
  and all words handed over.

Beside the assumptions above it uses `MemoriesAssumption` and `TensorAssumption`
(buffers and tensors have words) and `DataAssumption` (what an accepted
configuration counts fits its buffers, and the operands of an addition have the
size of its output), which is the theorem `AbstractFits` below of any register
values. *The argument.* `IInv` holds of the control inside (`DataRefinesTop`).
`HostInv` ties the number of the operation to the pulse of its `START`, so a word of
an earlier operation is never taken for one of this. `GivenInv`: the
loader's byte count is four times the words given of the packet selected, those
of the packets before are complete, and the others are empty. `HeldInv`:
the words given are in their places; nothing but the loader writes a buffer of
operands (`WritesApart`). `ComputedInv`: the output buffer is right up to the element the
engine is at, and in `RES_WRITE` the registers of the two read ports hold the
words of the index that is written, so the latency of the reads is part of it.
`SentInv`: the streamer's index is the number of words the host has taken, and
the word offered is the one at the index.

`ConfigValidatorProofs` proves, for all buffer sizes and register values:

- `ValidatorInvariant`, with the types as a first step (`ValidatorTypeCorrect`);
- `RightProducts`: each multiplication is that of its stage and of this `START`;
- `AcceptsExactlyLegal`: the validator accepts exactly the legal configurations;
- `AbstractWellFormed`: `Abstract(c)` is a configuration as `AccelPkg` assumes it;
- `AbstractFits`: if it is accepted, its packets fit the buffers, as `ResnetAccelTopData` assumes;
- `AdmittedIsGoldenHolds`: an accepted convolution is one that the golden model does
  not refuse, and has the output dimensions the golden model computes;
- `ValidatorImplementsFsm`: the refinement of `ControllerFsm`'s validation.

They assume `SizesAssumption`: buffers of at least a word, the byte counts of
which fit the 16 bits of `calculated_weight_bytes_q` and the 15 bits of the
input and output counts, which the code's parameters satisfy with room to spare.

*The argument.* The multiplier's loop invariant is `Computes(x, y, limit)`: the
accumulator plus multiplicand times multiplier is the product, or the
multiplicand was replaced by one over the limit and so is the product, or the
over-limit flag is up and so is the product (`StepComputes`, `LastComputes`).
Above it, `VInv` says what each stage knows: the registers passed the field
checks and lost nothing in the validated dimensions that is used later
(`FieldsInv`), the 16-bit output dimensions are the quotients (`OutputDimsInv`,
from `OutputOneDim`), an area waits in the accumulator (`AreaInv`), earlier
products were within their limits (`PassedInv`), and the counts are the products
(`CountsInv`). A field check or a limit may reject early, because what it bounds is a
factor of what a byte count bounds (`LegalPassesFields`, `TooLarge`).

`RequantProofs` proves, for all widths: `StagesHoldOperands` (each stage holds
what its valid bit says of the operands), `RtlRequantIsGolden` (the result is
the golden model's), `SaturationIsReported` and `OutputScaleRoundTrip`. Its lemma
`SumsTermByTerm` unfolds the golden model's sum for the proofs of the engines. They assume `WidthsAssumption`,
`PowersAssumption` (`Pow2` are the powers of two) and `RegistersAssumption` (the
product register holds every product, and the result register adds a rounding
bit), as 64-bit registers do. *The argument.* `PipeInv` beside the types is
inductive; two's complement of a number that fits does not change it
(`SignedFits`), and then magnitude, offset and shift are those of the reference.
A sum is a recursive function on `0..n`, whose existence is shown by induction in
the form that needs no operator as a parameter: over the set of the `n` for which
it exists (`SetInduction`).

`GapEngineProofs` and `ConvEngineProofs` prove, for every set of shapes, kernels,
strides, paddings and rescalings that the engines are given, every content of the
buffers and all widths of the arithmetic, with any number of computations in a
row and aborts in any cycle:

- `GapInvariance`, `ConvInvariance`: `GapInv` and `ConvInv` are invariant;
- `GapImplementsPipeline`, `ConvImplementsPipeline`: the engines drive the
  requantizer as `PipeSpec`, so what `RequantProofs` says holds in them;
- `GapWritesAreGoldenHolds`, `WritesAreGoldenHolds`: every byte written is the golden
  model's for its place, in order and without a gap, from reads inside the packets,
  and the overflow reported is the golden model's;
- `RegistersFitHolds`: no address of the convolution engine is wider than its register
  of 13 to 17 bits, also where it points into the padding, before the first byte of
  the image or behind the last. So the integers of the model are what the code computes;
- `ReferencesAgreeHolds`: the golden model and the vector generator, which has its own
  loops, padding, rounding and clamping, compute the same output;
- `ImplementsEngineHolds`: the convolution engine takes the steps of `ComputeEngines`,
  on which the proofs about the clocked design stand.

They assume, beside what `RequantProofs` does, `GapAssumption` and `ConvAssumption`
(dimensions are positive, kernels, strides and paddings are those that the
validator lets through, the golden model does not refuse the shape, which is what
`AdmittedIsGoldenHolds` gives, and the buffers hold bytes and words); and
`RegistersFitHolds` also `CapsAssumption` (packets and output fit the
buffers, as in `AcceptsExactlyLegal`, in the sizes of the code).

*The argument.* The golden model is written with three indices for an output and
three for a tap; the engine has addresses that it advances by differences. `ConvInv`
ties them together. `OutputInv`: what the six loop registers say of the output is
what its address and the addresses of its patch say; the registered steps are
those of the stride (`NextElementPlace`, `NextColumnAddress`, `NextRowAddress`).
`TapInv`: the same of the tap in its patch, with the flag for the padding.
`OperandsInv`: the bytes latched a cycle ago are those of the tap at hand. `SumInv`:
the accumulator is the golden model's sum up to the tap, and `overflowed` whether any
sum so far saturated. `StagesInv`: the requantizer is at the stage of the state. One
place in an array has one triple of indices (`ThreeIndices`, `PlaceHasIndices`), so
the flat buffers hold the golden model's arrays (`InputAt`, `WeightAt`), the term of
a tap is that of the engine's addresses (`TermAt`), and the golden output
has, at each place, what was just computed (`GoldenPoints`, `OutputPlace`). There is
a lemma for each state of the engine. For the widths, an address is a row times a pixel row and a
column times a pixel, and each is bounded by a product that fits a buffer
(`Factors`, `ElementFits`). For the two references, the generator's product for a place in
the sum is the golden term (`VecTermIsTerm`, by the same `TermAt` as the engine's), so
its running accumulator is the golden sum (`VecSumsAreSums`) and its output for a place
is the golden output (`VecPointIsGolden`).

`FirmwareDriverProofs` proves, for every set of networks of any length, any
number of runs and every packet size:

- `DriverInvariance`: `DriverInv` is invariant;
- `OkMeansOutputHolds`, `QuietAfterRecoveryHolds`, `NeverProvokesHolds`,
  `NoForeignWordsHolds`, `FailureHasCauseHolds`: the safety properties of `driver_run`;
- `DeviceImplementsContractHolds`: the accelerator as its driver sees it, driven
  by the firmware, refines `AccelContract`, the contract that
  `ImplementsContractHolds` proves of the clocked design.

They assume `ConfigsAssumption` as above, `BuffersAssumption` (buffers are
numbers, and the input of the network is buffer 0) and `NetworksAssumption` (a
network is a non-empty sequence of layers, each of which reads buffers of layers before it and
writes its own, and whose registers are a configuration).

*The argument.* `Place`, the step the program is at, determines what may be under
way. `CommandInv`: a command is unanswered only at the access after it.
`IdleInv`: from `clear` to `start`, wherever `DONE` was seen, and after a recovery
that succeeded, the accelerator is idle; that `recovered` is needed here is why a
failed recovery leaves only the check of `BUSY`. `DmaInv`: before a layer arms S2MM, nothing is in
the channels, or they are in reset. `LinkInv` is the heart of it: the words
in MM2S plus those the accelerator has taken are the packet it takes next, and
`PlanInv` says which packet that is (`DueFrom`, `DueAfter`): the driver and the
accelerator count packets on their own. `OutputInv`: `DONE` comes with the last word handed to
S2MM, which is right, but perhaps not in memory. `MemoryInv`: buffers of earlier layers are right and
not stale in the cache. `CauseInv`: an operation that ended without `DONE` ended
for a reason. There is a lemma for every action of the program and of the
hardware, as most hardware steps may occur at every place.

`ConfigValidatorProofs` also proves `DescriptorsAcceptedExactly`, for all descriptors,
buffer sizes and word sizes. It assumes `SizesAssumption`, `UINT32Assumption`
(capacities are below the word size) and `LayersAssumption` (what is written
are register values). *The argument.* The
invariant adds to `VInv` that what is validated was written for this
descriptor. A validated byte count is a product that was cut to 32 bits and
equals the product the validator multiplied out, whose factors the field
checks bound; a product that fits is not cut (`NotCut`). Where a kernel exceeds
the padded input, C's quotient is not the floor, but then the validator's check
of the dimensions refuses (`SidesAreDims`, `ConvFits`).

`ResnetAccelTopProofs` also proves `CountsLastPeriodHolds` from `IInv`, for a
counter of any width: `BUSY` rises exactly at the edge that takes a `START` pulse (`BusyRises`).

`CocotbBfmProofs` proves of the bus functions, for every test (any calls in any
order, with any counts), every limit of the waits and every stall:

- `BfmInvariance`: `BfmInv` is invariant, together with `IInv`;
- `SimulatesDesign`: the design in the simulation is the clocked design of
  `ResnetAccelTop`, so its theorems hold in every test;
- `WriteDecodedOnceHolds`, `ReadIsCurrentHolds`, `TransfersOnceHolds`: the
  properties of `cocotb`.

Beside those of the accelerator they assume `ScriptsAssumption` (a test is a
sequence of calls, each for at least one unit, a write for one). *The argument.*
`PointInv` says at which points of the cycle a coroutine may wait, and so that a
clock edge finds it waiting for an edge. `DrivenInv`: it drives the signals of its call
and no others. The other four count what this call has moved beside the
calls before it. The delicate state is the one after an edge that the coroutine
has not seen yet (`Fresh`): a beat or a word is counted there but not stored.
`WriteInv`: `BVALID` answers this write, but at the first edge it may still be
the answer to the write before. `ReadInv`: the same for `RVALID`. `SendInv`:
what was sampled is what the edge transfers, as nothing it depends on moves in
between. `RecvInv`: the next word is the one the coroutine counts; an abort may
end the output in the middle, and then (`Receiving`) no other operation starts
before the call returns, as nobody writes. `Total` sums over the calls of a
test, by the cardinality of a set, as the prover has no induction over data.

`VectorFilesProofs` proves of the vector scripts, for every set of them, every set
of seeds, any number of runs that end anywhere, and any number of output channels the
classifier is padded to:

- `PipelineInvariance`: `PipelineInv` is invariant;
- `EveryOperationIsLegalHolds`: every operation a script generates, the nine blocks of
  the backbone included, is one that the accelerator admits (`Legal`, as in
  `AcceptsExactlyLegal`) and whose tensors fit its buffers;
- `OperandsShareScaleHolds`: the operands of a residual addition are on one scale;
- `FinishedRunGivesHeaderHolds`: after a complete run, a header has files of that
  run only, and is accepted under the manifest made of it;
- `ApprovedBinariesHolds`: the byte arrays of a header behind a manifest are all of the
  one run the manifest was made of.

They assume `GeneratedAssumption` (the scripts are those of the repository; a
seed is neither the absence of one nor a torn file) and `PaddedAssumption` (the padded
width is a multiple of four from 4 to 64 with room for the classes, as
`FC_OUT_CHANNELS_PADDED` is). *The argument.* The scripts thread scales
from call to call: a block's first operand is on the scale on which the block before
it was rescaled, or the stage before it. `Tensor` writes down, from the place of a tensor
in the network alone, which shape and which scale it has, and `TensorsInv`
says that what a run has computed is that. That each call is right is a property of
the list of calls (`Ready`: each call has its operands computed before it,
is legal on them and gives the tensor `Tensor` says), and lists compose
(`ReadyConcat`): a layer, a block (`BlockCalls`), a stage (`StageReady`), a backbone
(`BackboneCalls`), a script (`ScriptsReady`). For the files, `DiskInv`
says that all files of the calls made so far have the seed of the run, but for those
still to be written, and after a complete run the whole directory has; `HeaderFiles`
shows that a header generator reads only files that its script writes, the
names of which are made in two different places of the code. The hashes of a manifest
are all of one seed (`ManifestInv`), as it is made after a complete run; `ListsAgree`
shows that every byte array is compared with a hash, and every file compared has one.

## 6. Only model-checked

- Liveness (`OperationEnds`, `ValidationEnds`, `RunReturns`, `ComputationEnds`,
  `TestEnds`), out of the prover's reach.
- `TestVerdicts`, which is about the tests of the repository and what each of them
  asserts: there is nothing to generalise in it. What it rests on, the bus functions in
  any test, is proved.

Induction over data is out of the prover's reach too, so no module has a `RECURSIVE`
operator: the sums of the golden model are recursive functions on a range of numbers,
and what is counted over a test or a packet is the cardinality of a set.

## 7. Not modelled

- The IP wrapper, which renames ports.
- The convolution and pooling engines inside `ResnetAccelTopData` at the level
  of their states: they are checked alone, and write bytes at any pace there.
- Of the register file, reads of the configuration registers and of
  `CYCLE_COUNT` through the read channel; they are wires of the multiplexer.
- Floating point: training, batch-norm folding, the choice of a multiplier and
  shift for a scale, and `compare_precision_candidates.py`, which measures them.
- Initialisation of the firmware: its result is the initial state.
- Testbenches in SystemVerilog, the copy of the design in `rtl_ref`, unit tests;
  build, release and board scripts.
- Reset during operation: it sets every register to its initial value, so what
  follows is a behaviour of the model. The buffers keep their words; for the
  control they do not matter, and `BuffersHoldPackets` does not rely on them.

## 8. Findings

Three runs show a disagreement between the code and what is written of it:

- `top_abort_done`: an `ABORT` decoded in the cycle of the last output handshake
  leaves `DONE=1` beside `ERR_ABORTED`; the interface document promises `DONE=0`.
- `driver_busy_ever`: `BUSY` is 1 while a configuration is validated that is then
  rejected, so `busy_ever=1` does not mean that the operation was admitted, which
  `accel_driver.h` says it does.
- `header_approved`: the configuration files that the stage-2 manifest hashes are
  embedded in the header without being compared with it, although the script
  says it follows the stage-1 script, which compares them.

None of the first two makes the driver report a wrong result (`OkMeansOutput`,
`FailureHasCause`). Further differences, met while modelling and not run:

- The interface document (`HW_SW_Interface_v1.1_FINAL.md:700`) says that `BUSY` is
  not raised if the conditions of a `START` do not hold, and `bfm.py:202` that
  `BUSY=1` means accepted; both are as in `driver_busy_ever`.
- `validate_conv_config` (`fixed_point.py:93`) says it refuses what the RTL does, and
  accepts a kernel of two rows.
- Five tests of `test_accel_conv.py` read `STATUS` once, straight after a command, and
  assert what the command does (lines 114, 130-132, 177, 180, 214, 243, 249-252). The
  read latches its register (`axi_lite_regs.sv:295-297`) at the edge at which the pulse
  of the command only begins to act, so it returns `STATUS` from before; the docstring at
  `bfm.py:202-208` says so of `BUSY` after `START`. Run `cocotb` checks each of these
  places as it is written, where the test fails at that read, and with a read or the wait
  for the end in between, where it passes (`TestVerdicts`).
- `test_reset_cycle_count_glitch.py:35` asserts a count of 1 after a reset; the
  controller no longer raises `BUSY` there.
- `generate_stage2_vectors.py` calibrates the second convolution of a block on
  what the first gives before its ReLU.
- `generate_stage3_backbone_c_header.py` judges staleness by one file, so vectors
  of a run that ended early may pass together with those of the run before.

## 9. Plan

1. Core (done): the control of the accelerator, its contract, its proofs.
2. Firmware against the contract (done, proved), validator with arithmetic (done, proved).
3. Data path (done): the engines against the golden model (proved), the buffers, the
   top level with its data (proved), that operations end.
4. Arithmetic (done, proved). Register file with its read channel, cycle counter
   (done, proved).
5. `accel_configure` with its arithmetic (done, proved).
6. Golden model, vector scripts, bus functions (done, proved).
7. Data path in the top level, driver (done, proved).

Every safety invariant and action property that a run checks is proved, except `TestVerdicts`
(section 6); what is left out of the models is in section 7.
