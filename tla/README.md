# A verification development of the SerDes macro

The repository simulates an eight-lane 100 GBd PAM4 SerDes macro: a datapath
model that plays the silicon, and the embedded firmware that brings each lane up
through a register file, keeps it up, and reports over a slow management bus.
The firmware, the supervisor that shares one processor between the lanes, and the
bus are a concurrent, timed, retrying system; under it lie loops, a decoder, an
aligner and buffers whose discrete control can be checked apart from the signal
processing around it. These modules model both, TLC checks them, and TLAPS proves
what matters most about them.

Paths below are relative to the repository.

## 1. The system

| part | source | state it keeps | operations |
|---|---|---|---|
| link bring-up | `src/fw_bringup.c`, `include/fw.h` | `fw_link_t`: state, entry time, retries, backoff, unlock count, training counters, failure origin, search correction | `fw_init`, `fw_tick` (one case per state), `enter`, `fw_set_front_end` |
| AGC loop | `src/fw_agc.c` | per lane: target, bias, filter, settle count | `reset`, `set_target`, `step`, `converged` |
| tap adaptation | `src/fw_adapt.c` | per lane: accumulators, settle count; one cached gear for all lanes | `reset`, `set_gear`, `step`, `select_lane` |
| telemetry | `src/fw_telem.c` | per lane: sequence number, slot, eye offset, metadata flag | `reset`, `step`, `select_lane` |
| HAL | `src/hal.c`, `include/hal.h` | register file (8 apertures), W1C map, selected lane, critical depth, pending ISRs | reads, writes, RMW, W1C, lane window, critical section |
| management bus | `src/mgmt.c` | FIFO, wire, drop count | `push`, `tick`, `publish_free`, `wire_read` |
| host | `apps/mgmt_host.c` | framing window, last record of each kind | `host_feed`, `host_frame` |
| PLL | `src/pll.c` | enabled, locked, elapsed, injected failure | `pll_step`, `pll_force_fail` |
| lane datapath | `src/hw_lane.c`, `src/eq.c`, `src/cdr.c`, ... | filters, buffers, lock count, accumulators | `begin`, `tx`, `channel`, `xtalk_*`, `rx` |
| macro / supervisor | `src/hw_macro.c` | lanes, rotation pointer, service budget, millisecond counter | `init`, `set_service`, `block` |
| CDR | `src/cdr.c` | phase, integrator, lock count | `cdr_init`, `cdr_update` |
| PCS | `src/pcs.c` | alignment state, scramblers, counters, flags | `tx_next`, `rx_align`, `rx_push` |
| FEC | `src/fec.c` | tables; nothing between calls | `encode`, `decode_erasures` |
| channel | `src/channel.c` | impulse responses, two overlap-add tails | `apply`, `apply_xtalk`, `pulse_response` |
| Touchstone | `src/touchstone.c` | the sweep; nothing between calls | `ts_load` |
| AFE, transmitter, eye | `src/afe.c`, `src/tx.c`, `src/eye.c` | filters, histogram | floating-point signal processing |

How they interact. Once per millisecond `hw_macro_block` moves bytes from the
FIFO to the wire, transmits on every lane, sums crosstalk, receives on every lane
(which leaves status bits and counters in that lane's registers) and then ticks
the firmware of `service` lanes, round robin. Firmware and hardware meet only in
registers. All lanes share the processor, the FIFO, the timeout scale and the
modules' selected-lane variables.

What is hard here, and what makes each part correct:

* **Time.** Every decision of the bring-up rests on a wrapping 32-bit millisecond
  counter and on how often the lane is served. Correct: nothing outlives its
  budget, nothing is cut short of it, at any service rate and across the wrap.
* **Retries.** An attempt must not inherit anything from the one that failed
  except what it is meant to (backoff, retry count, correction, failure origin).
* **Order of enabling.** A loop runs only in its turn, in the right gear.
* **Evidence.** A link is admitted on errors counted after the gear change, in
  the mode that scores them, over enough symbols.
* **Sharing.** Window, contexts and cached gear move together; nobody starves;
  eight producers on one FIFO neither overrun it nor tear each other's frames.
* **Reporting.** A host that sees bytes only must stay in step with every lane,
  also after the wire has lost some.
* **Registers.** An interrupt may split a read-modify-write, move the lane window,
  or arrive while it is masked. Correct: no update, event or interrupt is lost.
* **Numbers at their limits.** Gain codes, accumulators, phase, lock count, and
  the decoder's budget each have an end where an off-by-one latches or wraps.
* **Memory across calls.** The receiver's reference, the PCS window, the flags of
  a codeword, the channel's tail and the state of a half-read line all outlive
  the call that made them.

`PROJECT.json` lists every component with its status, and every hazard with the
properties that would catch it.

## 2. The modules

| module | models | composes |
|---|---|---|
| `FrontEnd` | the operating-point calculation of `fw_set_front_end` | |
| `Bringup` | `fw_tick` under *any* hardware: between ticks a block may leave anything in a register the hardware drives | `FrontEnd` |
| `LinkService` | the abstract promise to a user of a lane: down, acquire, accepted, up | |
| `Lane` | the bring-up against its real PLL, lock count, error counter, mode and service cadence, in a world that changes | `Bringup` |
| `Macro` | `hw_macro_block` as the loops it is made of, the rotation, the scale, the selected lanes | |
| `Telemetry` | eight producers, one FIFO | |
| `MacroBus` | `Telemetry` under the macro's own schedule: drain, then the lanes in rotation | `Telemetry` |
| `MgmtHost` | the wire, the host's byte hunt, the eye it puts together | `Telemetry` |
| `Hal` | the register file and its accessors, split by interrupts | |
| `Agc` | the gain loop, with the code's own constants | |
| `Adapt` | the tap loop of several lanes: accumulators, gears, rails, publication | |
| `Fec` | the Reed-Solomon code: field, encoder, errors-and-erasures decoder | |
| `Pcs` | payload, alignment, checker, one codeword at a time | |
| `Datapath` | the blocks of symbols: transmit window, training reference, latency measured twice | `Pcs` |
| `Cdr` | phase, integrator and lock detector, symbol by symbol | |
| `Channel` | overlap-add, its memory, the coupling from the neighbours | |
| `Touchstone` | the loader of measured channels, buffer by buffer | |
| `BringupProofs`, `LaneProofs`, `MacroProofs` | theorems: the firmware, its lane, the macro | |
| `BusProofs` | theorems: producers, FIFO, wire, host and the macro's schedule | |
| `ChannelProofs` | theorems: loader and convolution | |
| `FecProofs` | theorems: encoder and decoder of the code, and that it corrects all it should | |
| `PartsProofs` | theorems: registers; CDR, taps, gain, datapath and PCS; all parts side by side | `MCParts` |
| `Induction` | lemmas: induction over data, powers, remainders | |
| `MCLane`, `MCHost`, `MCParts` | constants for TLC; `MCParts` sets the parts from `Hal` on side by side | |

**State and actions.** `Bringup` keeps the fields of `fw_link_t` under the names
of the code (`trainErrs` is `train_errs`, `unlock` is `unlock_ticks`), the
settle counters of the two loops, and the registers the state machine reads or
writes: `status`, `symCnt`, `errCnt`, `pllEn`, `loops` and `gear` (the two parts
of ADAPT_CTRL), `fe` (CTLE code and h1 target). Each `case` of `fw_tick` is one
action, and `LosFault` is the early return before the switch. What a tick
measures -- was the filtered amplitude in its deadband, did the applied taps stay
still -- is an input of the action; what it does with the answer is the code's.
`CTRL` is left out because nothing reads it; the `tm` statistics because nothing
decides on them.

`Lane` adds a block of hardware (`Block`: `pll_step`, the receiver's status and
counter writes, the lock count) and the supervisor's call (`Service`). Three
history variables record what the code does not keep: the true `age` of a state,
the length of the current run of unlocked ticks, and the `evidence` read since
EQ_VERIFY was entered. `Glitch` drops or restores the signal or breaks or mends
the PLL; `FallCalm` ends that and makes every measurement good. A real block of
4094 processed symbols is a little more than half of `LOCK_DWELL` (8000), so
the lock count is kept in units of 4000 symbols and a block moves it by at
most two.

`Macro` has a step for each iteration of each loop of `hw_macro_block`: the
invariants about which lane is selected and which block the crosstalk was summed
from are about the states between those. A lane's tick is reduced to what it does
to the gear and its cached copy; the rest of it is `Lane`'s.

In `Telemetry` and `MgmtHost` a byte is the frame it belongs to and its place in
it; a frame is its lane, sequence number, kind, eye offset and link state. A push
of a frame is one step, because nothing else runs inside `emit`. The CRC is
taken to accept exactly the windows that are one whole frame. `Telemetry` lets
lanes tick in any order, which is all its safety needs; `MacroBus` gives them the
order of `hw_macro_block`, on which it depends who finds the FIFO full.

`Hal` splits `hal_field_set` and `hal_bit_write` at their preemption point, into
the read with what `hal_maybe_preempt` does, and the write. The interrupted program is any program: it may guard its updates or not, and `unguarded`
says whether the code would have counted one that is not. The handler writes a
field of its own in one step, as a handler that guards its own update does.

`Agc` runs `fw_agc_step` in its own integers against the gains `afe.c` gives the
codes. `Adapt` has one tap of each kind and a narrower accumulator; the gradients
of a block are inputs. `Fec` is the code's construction -- narrow sense,
shortened, the erasure locator first, then Berlekamp-Massey from the syndrome the
erasures leave -- over GF(16) with six symbols, two of them message. `Pcs` takes
from it only its contract (`DecoderCost`: what is within 2 errors + erasures comes
back, and flags past the parity are dropped). `Datapath` knows a symbol by the
stream it is of and its number there. In `Cdr` the detector's error is an input, and
a unit interval has 16 phases. `Channel` uses integers, so that sums are exact;
a transform, a product and an inverse transform are the circular convolution they
compute. In `Touchstone` a number is one cell and is known by its place in the
file; a buffer holds two cells.

## 3. What TLC checks

| run | question | size |
|---|---|---|
| `lane` | loops, gears, fresh attempts, backoff law, evidence, hysteresis, refinement of `LinkService` | retries to 2, one glitch, judgement window of two blocks |
| `lane_shared` | budgets kept and not cut short, at half the service rate, counter wrapping at 8 ms | one glitch |
| `lane_live` | recovery and no stalling, under fairness | smallest budgets |
| `macro` | selection, fairness of the rotation, honesty of the scale, freshness of crosstalk | 3 lanes, 4 blocks, any change of service |
| `telemetry` | no free count above the FIFO's room, no drop, no torn frame, whole record sets | 3 lanes, FIFO of 2.5 frames |
| `host` | type, order, resynchronisation, a whole eye in the end | 1 lane, 2 overflows, 1 restart, look-alike start bytes |
| `parts` | each part below the firmware through all its own behaviours | see below |
| `hysteresis`, `clock_loss`, `fault_retries`, `loss_reported`, `bus_share` | statements of the documentation the code does not keep (section 6) | |

Every property of a passing run is shown able to fail: `PROJECT.json` names, for
each, a mutation of a modelled definition -- a dropped reset, an off-by-one, a
comparison instead of a subtraction -- under which TLC finds it violated. The
mutated operators stand next to the ones they mutate.

**The run `parts`.** The eight parts share no state, so one exploration covers
them: the initial states name the part a behaviour is of, and the others stand
still. It asks of

* `Hal`: no field lost as long as no unguarded update was counted
  (`NoLostUpdate`), every interrupt that arrived masked served once
  (`InterruptsServed`), no event acknowledged that nobody handled (`EventsKept`).
* `Agc`: settled in the blocks LS_AGC allows, or no code left that would help
  (`AgcSettles`); every step the way the error points, also where VGA and TIA
  trade (`GainFollowsError`).
* `Adapt`: a loop that counts itself settled asks for taps the registers can
  express (`SettledExpressible`); no tap is turned round by saturation or leak
  (`TurnedOnlyByGradient`).
* `Fec`: everything within 2 errors + erasures is corrected
  (`CorrectsWithinBudget`); giving up leaves the word alone and happens only where
  no codeword at all is within reach (`GivesUpOnlyOutOfReach`); success is a
  codeword within reach, honestly counted (`SuccessIsHonest`).
* `Datapath` and `Pcs`: scored decisions are about the symbols they are scored
  against (`PayloadInStep`), the training reference follows across blocks
  (`ReferenceFollows`), errors are delivered only when a codeword was past the
  code's reach for its own errors and flags (`ResidualExplained`).
* `Cdr`: while a lock is reported, `cdr_update` has wrapped nothing for the dwell and
  the loop is off its rail (`LockMeansHeld`; wraps by drift alone: section 5).
* `Channel`: the waveform may be cut into calls anywhere (`OutputIsConvolution`).
* `Touchstone`: so may a line, unless it holds a keyword or a stray word
  (`LoadedAsWritten`, section 5).

Deadlock is not checked there, because `Datapath` and `Touchstone` end: at their
bounds of blocks and lines. The firmware's runs, but for `macro`, which ends at
its `MaxMs`, are checked for deadlock.

**Bounds and why they are enough.** Budgets of 2 or 3 ms stand for 60 to 1200 ms:
what matters is their order and that they span several ticks. `TickMod` is so
small that the counter wraps several times inside one bring-up. `RetryCap`
bounds `retries`, which the bring-up only compares with zero (the AGC's target
ladder, which uses it modulo 5 and 6, is in `Agc`); at 2 it passes the point
where the backoff meets its cap. `JudgeSyms` of two blocks makes the judgement
accumulate; with two blocks one bit error is over the real ceiling of 5e-5, so
both verdicts occur. One glitch (`MaxGlitch`) reaches every state of the attempt
with the signal or the PLL gone, and the random movement of the lock count and
the measurements is not bounded at all. `NudgeMax` 1 makes the saturation bite
at every step. `MaxMs` bounds the blocks of a macro; four blocks take the
rotation through every pointer position at every service rate. In `telemetry`
a FIFO of two and a half frames is at its limit after two pushes, and three
lanes compete for it. In `host`, `MaxLosses` bounds the ticks on which the wire
overflows and `MaxFaults` the times the lane goes down (once, so that it comes up with
contexts that have run before); a frame of three bytes,
the second of which may look like the first, is the least in which the hunt can
be misled. `AgeCap` stops the history variable `age` at a full turn of the
counter.

In `parts`: two lanes, two nested critical sections and one pending interrupt are
the least that let a handler move the window and arrive twice. The amplitudes of
`Agc` reach from a dead signal to one past the lowest codes, the attempts take
in every target of the ladder, the least bias and the greatest, and nothing is bounded but
`AgcBudget`, the code's own 120 blocks. `AccMax` 11 puts two register steps
between zero and the rail, with the accumulator's end beyond the register's.
RS(6,2) corrects two errors, or four erasures, or one and two; every set of up
to three positions is hit with two error values, against seventeen sets of flags that
include the parity exactly and one more. One message is sent: the code is
linear, so errors alone decide what the decoder does, and `Codewords` are all
256. A block of nine symbols with a latency of up to two on either side of
the seam, alignment within two, and codewords of three symbols make
the window, the seam and the codeword boundary fall at different places; three
training blocks and six of traffic outlast every state of the aligner. A phase of
16 steps, an integrator of five values and a dwell of three reach both ends of
each. Blocks of three samples, calls of one, two, three and seven, and responses
as long as a block with distinct powers of ten tell every product apart. Two cells
a buffer cut lines of up to five cells at every place, and three lines are enough
for a comment to run into data.

In `bus_share` two lanes at twice what the bus moves stand for the eight lanes,
256 bytes wanted and 128 moved, of `hw_macro.c:49`.

**Fairness.** `LaneFair` assumes that blocks keep coming and the lane keeps being
served: the main loops (`hw_macro_block` called from `apps/macro_sim.c`,
`hw_lane_run` and `fw_tick` in `apps/link_sim.c`) never stop, and `Macro` shows
that the rotation reaches every lane within `scale` blocks. Recovery is asked
only of a world that has fallen calm, and `calm` includes that the loops measure
good values: that real loops converge on a good channel is signal processing.
`HostFair` assumes the block loop, the host's reads, and ticks of a lane that is
up. It says nothing of the bring-up, which may fail for ever. `MacroBusSpec`
assumes only that the macro's loop goes on.

## 4. What TLAPS proves

All theorems hold for every value of the constants that satisfies the named
assumptions: `NudgeAssumption`, `ClockAssumption` (the counter is wider than any
scaled budget and than the backoff), `CountAssumption`, `LaneAssumption` (a lane
is served within `TmoScale` blocks and the counter leaves room for that gap;
every timed state has a timeout), `DoublingAssumption` (the backoff's cap, 512, is
a power of two), `MacroAssumption`, `TelemetryAssumption` (the FIFO holds a frame),
`HostAssumption`, `HalAssumption`, `CdrAssumption`, `AdaptAssumption` (a register
step is within the accumulator: 2^ApplyShift <= AccMax), `AgcAssumption` (gains are
numbers), `PcsAssumption` (at least two symbols are compared when aligning),
`DatapathAssumption` (latency and lag fit the block), `TouchstoneAssumption`,
`ChannelAssumption` (a response fits a block, and a call has samples), `FecAssumption`
(the code is shorter than the field) and `FieldAssumption` (the two tables of
`fec_init` are inverse to each other and the products they give are those of a field,
which says that `GfPoly` is primitive). The code's own values satisfy them all, and TLC
evaluates each on every run of its module; `FieldAssumption` it evaluates on GF(16), and
0x409 is the primitive polynomial of GF(1024) that clause 91 names (`fec.c:16`).

### The firmware

* **`Bringup`, under any hardware** (`BringupProofs`). One inductive invariant,
  `IInv` = `TypeOK` /\ `LoopsMatchState` /\ `VerdictStands` /\
  `AttemptStartsClean`. Each conjunct is inductive given the type invariant; the
  proof has one lemma per action. `TypeCorrect`, `FreezeAndHold`,
  `NoUnmeasuredLink` and `CleanAttempts` follow. The heart is that the counters
  that admitted a link still hold the verdict in TRACK and UP, because nothing
  writes them between EQ_VERIFY and the next CDR_LOCK. The correction and the codes of
  `FrontEnd` stay in their fields (`NudgeBounded`, `PointInRange`).
* **Refinement** (`BringupProofs`). Every step of `Bringup` is a step of
  `LinkService` or a stutter, so `Spec => LinkPromise!SSpec` (`PromiseKept`).
* **`Lane`** (`LaneProofs`). A lane's block is one of the blocks `Bringup`
  allows, so `LaneSpec => Spec` (`LaneImplements`) and all of the above carries
  over (`LaneKeeps`, `LanePromise`). Then:
  * `LaneStaysTyped`: `HwTyped`, the types of what `Lane` adds, is inductive beside
    `TypeOK`.
  * `DeadlinesKept` and `BudgetsHonoured`: the invariant `TimeInv` says that
    `ms - entered` modulo the counter equals the true age, that the age is below
    budget plus the gap since the last service, and that the backoff is a
    number that doubling from 2 reaches. Without the first conjunct neither
    property is inductive: the code sees only the difference of two wrapped
    numbers.
  * `BackoffKept`: `BackoffLaw` names the power for each count of attempts. That the
    doubling lands on it needs that powers of two grow, which is an induction.
  * `EvidenceAdmits`: the invariant `OnEvidence` ties the training counters to
    what was read since EQ_VERIFY was entered, and the mode of the last block to
    the state.
  * `SustainedLossEnds`: the true run of unlocked ticks never exceeds the count
    the code keeps.
* **`Macro`** (`MacroProofs`), for any number of lanes, any span, any changes of
  the service rate: `MacroStaysTyped`, `WindowsMoveTogether`, `RoundRobinFair`,
  `CrosstalkIsCurrent`. The inductive invariant says, for each point of the
  block, which lanes have already transmitted, which victims have already been
  summed, and that the rotation splits the service counts. `WaitsWithinScale` needs
  `WaitInv` besides: the services spent in the blocks a lane has waited through, those
  still ahead of it and those this block has done are together fewer than the lanes. The
  property alone is not inductive, since it says nothing of where the pointer stands.

### The bus (`BusProofs`)

* **`Telemetry`**, for any number of lanes and any sizes. `BusInv` = types /\
  `NothingDropped` /\ `StatHonest` /\ `FramesWhole` /\ `InCycle`. `StatHonest` is
  the conjunct the code argues from without saying so, and a part of
  `TelemetryTypeOK`, so that TLC checks it too: no aperture claims more room
  than the FIFO has, so that a producer that read it before the others pushed is still
  within. `InCycle` ties each lane's sequence number, slot and eye offset to the
  last frame it sent. `ReservationHolds`, `FramesStayWhole`, `CycleKept` and
  `TelemetryTyped` follow.
* **`MgmtHost`**. `HostImplementsBus`: a bus with a host on it is a behaviour of
  `Telemetry`, so all of the above holds of it (`BusHoldsWithHost`). For
  `HostTakesInOrder`, `HostInv` says that as long as no byte was lost, the stream that
  lies in the host's window, on the wire and in the FIFO is made of whole frames, and
  each lane's frames in it lead, in order, from the last one the host took of that
  lane to the last one it sent. `HostStaysTyped` holds also after losses.
* **`MacroBus`**. `MacroImplementsBus`: for any number of lanes and any service rate the
  macro's schedule is one of the orders `Telemetry` allows, so `MacroBusKeeps`: what a
  starved lane loses is time, never bytes.

### The parts

* **`Hal`** (`PartsProofs`), for any number of lanes, any nesting and any pending
  interrupts. `HalInv` adds to the properties: `win = sel`, the window is where the
  program selected it, which is what restoring it is for; `pending = due`, the deferred
  count against the true one; `InFlight`, that the word an update has read is still the
  register's as long as nothing was counted; and `Drained`, nothing deferred outside a
  critical section. `CountIsWitness`, `NoneLeftPending`, `EventsStay`, `HalStaysTyped`.
* **`Cdr`** (`PartsProofs`). `CdrInv`: locked exactly when the count is at its end, and
  the count never past it, without which one bad symbol would not take the lock back.
  `LockIsHonest` (of the wraps of `cdr_update`, see section 5), `CdrStaysTyped`.
* **`Adapt`** (`PartsProofs`), for words of any width. `QuietIsExpressible` needs only the
  types beside itself; `OnlyGradientTurns` is an action property and rests on
  arithmetic: an arithmetic shift rounds to minus infinity, and the leak
  never carries a value across zero.
* **`Agc`** (`PartsProofs`), for any gain curves: `GainPointsRight`,
  an action property over the trades at the VGA's ends, and `AgcStaysTyped`. The curves
  of `afe.c` are constants of the module, and TLC runs on the code's.
* **`Pcs` and `Datapath`** (`PartsProofs`), for any latency, block and codeword length.
  `DpInv` says what the code keeps in five places: what the transmitter's counter, the
  training phase, the latched latency, the receiver's alignment state and the
  blocks in flight have to do with one another (`Training`, `LatencyTrue`, `RxOK`,
  `Traffic`). Neither `StepIsKept` nor `ReferenceIsCarried` is inductive without
  the others: the step of a symbol in this block is decided by the latency measured
  in an earlier one. `ResidualIsExplained` is part of `RxOK`.
* **`Touchstone`** (`ChannelProofs`), for every buffer size and every file but
  those with a keyword or a stray word in a line longer than the buffer:
  `LoadTakesTheFile`, `LoaderStaysTyped`. `LoadInv` = types /\ `LineState` /\
  `InStep`. `InStep` is the loader's promise in the middle of a line: the numbers taken,
  followed by those the rest of the line still owes, are the numbers the lines said.
  What is owed depends on whether a comment, an option line or data is being cut, and
  `LineState` ties the loader's flags to that. Under it are the lemmas
  about the operators: a line cut anywhere says what its pieces say
  (`CutOfParts`, `IdsJoin`), and a chunk gives what it owes (`TakeRuns`,
  `ChunkTakes`).
* **`Channel`** (`ChannelProofs`), for every block size, every two responses that fit a
  block and every way of cutting the waveforms into calls: `TailIsMemory`,
  `ChannelStaysTyped`. `ChannelInv` says of each tail that it holds, sample by sample,
  what all that went in so far still owes to what comes out later (`Owes`). That is so
  after every block, the short last one of a call included, because the tail
  moves by what was emitted and not by a block (`PassExtends`, `BlockHeeded`). Under it lie
  `CircularIsLinear`, that twice a block is enough for the circular convolution not to
  come round; `ConvolveHeeds`, the induction over the blocks of a call; and
  `PastSuffices`, that the last block's worth of samples is all a response remembers.

* **`Fec`** (`FecProofs`), for every field of characteristic two, every shortened
  code over it, every message, error and set of flags: the decoder does what a decoder of
  this code can. `WithinBudgetIsUndone`: an error costs two parity symbols, a flag one,
  and within the parity what was sent comes back. `GivingUpIsJustified`: it gives up only
  on a word that no codeword is within that reach of, and leaves it as it came.
  `DecoderIsHonest`: a success is a codeword within reach, and the count it
  reports is of symbols changed. `FecInv` = types /\ these /\ "sent is a codeword";
  the work is not in the invariant but in the operators, in one theorem about
  a call of the decoder, `DecoderRestores`. About the code: `CodewordsAre`, the encoder
  makes exactly the words without syndromes, and `CodewordsApart`, two of them differ
  in more places than there are parity symbols. The argument, from `FieldAssumption` up:
  - A product of polynomials is worth at a point the product of what its factors are
    worth there (`EvalTimes`). So the generator vanishes at the powers of alpha the
    syndromes look at (`GeneratorIs`), and so does what the encoder sends, a multiple
    of it (`EncodeMakesCodewords`).
  - That a success is *on* a codeword is the decoder's own last check; that it is
    *within reach* is checked nowhere. The errata locator has every root of
    the erasures' locator (`GammaIs`), so every usable flag is among the roots; there are as many
    roots as its degree, `ne + L`; so at most `L` other symbols were changed, and
    `2 L + ne` was held against the parity (`DecodedHonest`).
  - Two counts carry the rest. A polynomial of degree `n` has at most `n` roots
    (`RootCount`: divide one out, `QuotEnds`, `QuotRoot`). And `n` consecutive power sums of a word
    that is 0 but for `n` symbols are all 0 only if the word is (`PowersIndependent`: mix two
    neighbouring sums so that one symbol drops out).
  - The syndromes are power sums of what the line did (`SyndromesOfError`), and multiplied
    by Gamma they are, from index `ne` on, those of the errors that were not flagged,
    weighted by what Gamma is worth there (`TimesSeen`, `ErasedIs`, `ModifiedIs`).
  - Berlekamp-Massey (`Searching`): after each iteration the locator it holds sees
    nothing in the syndromes read so far from its length on (`Locating`), and the one it replaced
    last saw nothing but one discrepancy, `b`, `m` iterations ago (`Trailing`), which is why the mended
    one is right again (`MendedLocates`). The length never passes the number of
    errors (`LengthWithin`). At the end, by the second count, a locator that sees nothing
    in that many syndromes is 0 at every error, and by the first its length is
    their number (`FindsAll`).
  - So Chien's search finds the flags and the errors and no other symbol (`ChienFinds`);
    the derivative is not 0 there, and what Forney adds is what the line did
    (`OmegaAt`, `DerivedVal`, `ForneyGives`). The re-check at the end then finds
    a codeword.
* **All of them** (`PartsProofs`). The run `parts` explores behaviours of each part's own
  specification (`PartsAreParts`), so `PartsStayTyped`.

### Induction over data

The library states induction for an operator, which the provers here cannot
instantiate. `Induction` states it for sets, from the well-foundedness of
inclusion on finite sets (`LeastMember`, `Climb`), and derives from it powers of two, the
existence of functions defined by recursion over 0..n (`Recursion`), that two runs of the
same recursion agree (`RunsAgree`), and the remainder of
sums. What a loop of the code computes -- the doubling of the backoff, the data
loop of `ts_load`, the sums over taps and the blocks of `ola_convolve`, the division in
`fec_encode`, Berlekamp-Massey, the products and evaluations of polynomials -- is proved with them for every input.

### Only model-checked

* Liveness (`Recovers`, `KeepsTrying`, `HostResyncs`): it needs fairness and ENABLED,
  which are out of this prover's reach.
* `AgcSettles`: it counts the blocks the gain takes from any level to any target. That the
  loop comes to rest at all, with a filter that lags the gain and a step that is never 0,
  depends on the gain curves value by value -- the run takes them from `afe.c` -- and is false of
  curves in general, so no inductive invariant over all of them can imply it.

## 5. What is not modelled, and why

Not modelled: the filters of the equaliser, the analogue front end and the
transmitter, the synthesis and resampling of impulse responses, and the eye's
histogram are floating-point computations without discrete control; the modules
take their results (errors, gradients, amplitudes, the detector's error) as inputs.
The running statistics of the FEC, of the host and of `tm` decide nothing. The
simulators and probes drive the components and print; what their block loops
decide is in `Lane`, `Datapath` and `MgmtHost`. A loop that serves in data mode
a link that fell down and trains again would judge it without errors being
counted, but `mgmt_host` runs on for 200 blocks and `link_sim` for 260, fewer
than a second bring-up takes (250 ms of training alone), so no program gets there.
`hw_lane_capture_eye` transmits a block that the training reference does not hear
of; the programs call it only where no training follows.

What the models assume, where the code does not establish it:

* `Datapath` bounds the PCS lag by the reach of the aligner (24 symbols), while
  `HW_LAT_MAX` is 32; and while the aligner listens at most one decision is wrong.
  Of offsets with equal errors it takes the first, as the code does.
* `rx_suspect`, which flags symbols for the decoder, is read in `hw_lane.c:431` and set
  by nobody; `Datapath` takes it as an input that may flag anything.
* On an electrical lane the AGC borrows TIA codes although its signal does not
  pass the TIA. Near the VGA's end it then overshoots, re-centres and tries again, up
  to seven times, and may run out of its 120 blocks; `AgcSettles` claims the
  level of an electrical lane only where the VGA has one full step to spare.
* `Touchstone` cuts no number in two (the code would read it as two), and
  `LoadedAsWritten` excepts a line that is longer than the buffer and holds a
  keyword or a stray word: the rest of it is read as data. The comment at
  `touchstone.c:101` says the line's state is applied to its continuations; a
  file whose `[...]` line runs past 1023 characters and ends in numbers does
  load with one frequency too many.
* `Cdr` counts the lock up and down, as `cdr.c:217` does; the header's "consecutive
  symbols" (`cdr.c:11`) is not what is claimed of it. The wrap in `hw_lane_rx`, by
  drift alone, does not reset the count since the last wrap.
* `Hal` follows `hal.c:137`, by which the other bits of a register with
  write-one-to-clear bits are set by a 1 and kept by a 0; the comment at
  `hal.c:134` calls that normal read-write behaviour. The firmware
  writes no other bit of such a register.
* In `Fec` the last re-check after a correction is kept although no word has been
  found that fails it once the roots have the right number.

## 6. Where code and documentation disagree

* **Hysteresis is not per visit** (`hysteresis`). `unlock_ticks` is cleared only
  by a locked tick in UP. A link that leaves UP with a count -- by the
  threshold itself, LOS or PLL loss -- starts its next visit with it, and may
  go down on the first unlocked tick. `README.md:581` and `fw.h:84` say 25
  consecutive ticks.
* **A lost clock does not restart the bring-up** (`clock_loss`) anywhere between
  PLL_LOCK and UP, although `pll.c:32` says everything downstream must.
* **FAULT restarts its own backoff** (`fault_retries`) on every tick that sees LOS,
  so a lane without a signal neither backs off exponentially nor retries
  (`fw_bringup.c:13`); it stays in FAULT, with the first backoff, until the
  signal is back.
* **A lost link is not reported** (`loss_reported`): telemetry runs only in UP, so
  every STATUS frame says UP (`fw_telem.c:24`, `README.md:560`).
* **A lane may never be heard of** (`bus_share`). The round robin of telemetry is
  within a lane. Between lanes the FIFO goes to who is ticked first, and with
  every lane served in every block, the default, that is always lane 0. Eight
  lanes in UP want 256 bytes a block; `hw_macro.c:49` moves 128. Once the FIFO has
  filled, the last lanes of the rotation find no room in any block, STATUS
  included, while the first stream eyes. With a drain that meets the demand, or
  fewer lanes served a block so that the rotation moves, every lane reports.
  Running `apps/macro_sim.c` shows it: once four others are up, the last three lanes
  defer every frame.

## 7. Plan

Done: every module of section 2 with the runs of section 3 and the theorems of
section 4.

What would extend the model is the macro with every lane's whole bring-up in it.
`Macro` and `Lane` meet in the service cadence and the scale, `MacroBus` in who
finds room; what their product would add is the change of service rate under a lane
half way through a state, which no application makes once its lanes run.

The theorem worth proving next is `AgcSettles` from conditions on the gain curves (steps
of bounded size, no gap wider than the deadband) that the code's satisfy, instead of the curves
themselves: what it needs is a measure of the distance to the band that the filter's lag
cannot undo.
