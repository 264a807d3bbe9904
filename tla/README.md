# LDSP in TLA+

LDSP turns a rooted Android phone into a low-latency audio platform: a C++
program is linked with the user's `render.cpp`, runs as a native process, takes
the phone's audio card from Android and calls `render()` for every audio block,
next to sensors, control inputs (buttons, touch screen), control outputs
(screen, LEDs, vibration), a web GUI, an oscilloscope and MIDI.

This directory models the parts whose correctness depends on order, threads and
failures. Paths below are relative to the repository; *italics* name properties.

## 1. Inventory

| Part | Code | State | Operations | Modelled in |
|---|---|---|---|---|
| Program lifecycle | `core/main.cpp`, `core/tinyalsaAudio.cpp`, `core/LDSP.cpp`, `core/commandLineArgs.cpp` | settings, `gShouldStop`, `audioServerStopped`, handlers, threads | initialise every part in order, start and join the audio thread, clean up in order | `Lifecycle` |
| Audio loop | `core/tinyalsaAudio.cpp:649` | pcm, raw and float buffers | read, controls, render, write, outputs | `Lifecycle` (order only) |
| CPU governors | `core/tinyalsaAudio.cpp:1468` | `governors` | save, set, reset | `CpuGovernor` |
| Pcm parameters, formats | `core/tinyalsaAudio.cpp` | `audio_struct`s | negotiate, convert samples | `SampleFormat` (conversion), `Lifecycle` (failures of the set-up) |
| Screen control | `core/ctrlOutputs.cpp:563` | `nextScreenState`, `nextStayOn`, `tapActive` | request, poll, press, restore | `ScreenCtrl` |
| Control outputs | `core/ctrlOutputs.cpp` | files, previous and initial values | open, write changed values, restore | `CtrlOutputs`, `Lifecycle` (order) |
| Control inputs | `core/ctrlInputs.cpp` | devices, event values, slots | open, poll events, read | `CtrlInputs`, `Lifecycle` (the thread's end) |
| Sensors | `core/sensors.cpp` | event queue, buffers | init, read, cleanup | `Lifecycle` (held, released) |
| Mixer paths, hardware configuration | `core/mixer.cpp`, `core/hwConfig.cpp` | mixer, paths | parse, set, reset | `Lifecycle` (found, LDSP's, default) |
| Web-socket server | `libraries/WSServer` | ring of 100 outputs, two indices | send, client loop, cleanup | `WSServer` |
| Gui, GuiController | `libraries/Gui` | connection, buffers | send and receive buffers and controls | - |
| Scope | `libraries/Scope` | frame buffers, trigger state, two flags | log, trigger, resize | `Scope` |
| MIDI | `core/Midi.cpp` | input ring, parser, ring of messages | read, parse, get message | `MidiInput` |
| Wrappers (OSC, UDP, serial, web), DSP libraries, Pd glue | `libraries/*`, `core/default_render_pd.cpp` | sockets, filters | - | - |

How they interact. `main()` calls each part's init and cleanup; three threads
besides it (audio, control inputs, screen) poll the plain global `gShouldStop`,
which signals, a refused `setup()` and the cleanup functions set. The audio
thread calls the user's `render()` between reading inputs and writing outputs,
and everything `render()` touches (`LDSPcontext`) is shared with the other
threads without locks. The GUI and the scope run on `WSServer`, which has two
threads more (seasocks' server and the sender) and is called from any thread.
What outlives the process is the phone: mixer paths, scaling governors, the
audio server, control output files and the screen.

What is hard, by kind (each one at its line, with its properties, is in the
`hazards` of `PROJECT.json`):

- *failure half way*: ten init calls may fail, each after others have changed
  the phone, and three different cleanup sequences answer them;
- *interleavings without locks*: the ring of `WSServer`, the screen request, the
  control input values, the scope's two flags;
- *toggles*: the power button and `tapActive` invert a state read earlier;
- *sharing in the kernel*: one governor for several cpus;
- *ends*: joins that wait for threads that wait for a flag.

What makes each part correct: the lifecycle restores the phone, never frees
what a thread uses nor frees twice, always ends after a stop and calls the
user's functions in order; the governors are performance while running and
themselves afterwards; the screen follows requests and, with the outputs on, ends
as it was found; the
sender's ring is a queue; a light's file holds what was asked of it last, and in
the end what it held at the start; the value of a finger is stored and read in
that finger's place; a MIDI message is parsed once, in order, whole; a scope
frame is one window of consecutive logged samples and no sample is in two; a
sample comes back from the bytes it was laid out in. Where the code does not keep
such a promise, the condition under which it does is part of the property, and a
configuration beside the runs shows the trace without it (section 3).

## 2. The modules

### Lifecycle (with UserProgram, MCLifecycle, LifecycleProofs)

`main` is the place where `main()` stands; every call of `main()` is one action
named after the function (`LDSP_initAudio` is five, one for each of its ways to
fail: `StopAudioserver`, `InitParams`, `InitPcm`, `InitBuffers` and the
governor inside the last). `res` says of each thing allocated or opened whether
it is absent, held or released. A pointer is not reset when it is released, so
`ReleaseThen` releases what is held, skips what is absent and is undefined on
what was released before; undefined behaviour (`main = "undefined"`) ends the
model. `phone` is what the program changes on the phone. `failed` and `up`
are history. A failing call is a second disjunct of its action, allowed by the
constant `Faults`, with the cleanup the code does on that branch and no other:
for instance a period mismatch (`tinyalsaAudio.cpp:180`) leaves the pcms open.

The audio thread (`AudioCheck`, `AudioRead`, `Render`, `AudioWrite`,
`WriteCtrlOutputs`) goes round the loop in code order; the pollers only exit.
`Signal` is SIGINT or SIGTERM at any moment, with the default action before
`InstallHandlers`.

Abstracted: what the calls compute, verbose output, the inside of the init
functions (their failures are outcomes), the web server's threads (user code).
`LDSP_resetMixerPaths` is taken to load its XML file again with success.

`UserProgram` is what the engine promises the author of a `render.cpp`: setup,
then render one call at a time, then cleanup, nothing after a refused setup.
`Lifecycle` implements it under the mapping `phase` (*ImplementsUserProgram*).
It allows the two ends in which `cleanup()` is not called: a failed
`pthread_create` and a process that is killed.

### CpuGovernor (with MCCpuGovernor, AudioEngineProofs)

The kernel is two external definitions: cpus that share a policy agree
(`Shares`) and a write through one changes all (`Written`). Each directory entry
of either loop is a step, in any order (`entries` is what is left of the
listing), and each index of the reset loop is one. `governors` is a vector of as
many entries as there are cpus online; `pc = "undefined"` is a write past it.
The set of cpus online does not change during the run. The reset writes to each
cpu what was saved of that cpu; the comment on that line (`tinyalsaAudio.cpp:1567`,
"always use governor of first cpu") says what the code no longer does, and
`MCCpuGovernor_first.cfg` shows that it does not.

### ScreenCtrl (with ScreenCtrlProofs)

`screenSetState` is two steps, because the screen thread can run between its
assignments: `SetStayOn` (`nextStayOn`) and `SetState` (`nextScreenState`).
`screenCtrl_loop` is a step for each access to shared state or to the phone:
`Poll`, `ReadScreen` (dumpsys), `Compare`, `PressPower`, `SetTap`, `FlagDone`.
`Button` is the physical button or Android's timeout. `Stop` and `AudioExit` are
the end of the audio thread; then `LDSP_cleanupCtrlOutputs` returns at once when
the outputs are off (`CleanupCtrlOutputs`), or waits for the thread (`JoinScreen`),
reads the screen (`ReadForReset`, a popen of dumpsys) and presses the button if it
differs (`PressForReset`). `ProcessExit` ends whatever thread is left, which is the
screen thread when the outputs are off.
Whether the state of the screen can be read (`screenCmds.idx`) is chosen once.
Left out: brightness, the periodic tap, verbose output.

Nothing in the code makes a caller wait for the last request to be done, and
the properties about following requests do not hold when requests overlap or
when somebody presses the button. The history variable `disturbed` records that
this has happened; those properties speak of the time before (`Undisturbed`).
*InitialScreenRestored* and *StopLeadsToCleanup* need no such condition: whatever
was asked and pressed before, the reset comes after the ends of both threads. They
are about a program whose outputs are on, because with the outputs off the cleanup
neither joins the thread nor resets the screen (`ScreenCtrl_off.cfg`). And the reset
is itself a read and a toggle: a press between the two (`late`) leaves the screen
the wrong way round (`ScreenCtrl_late.cfg`).

### WSServer (with OutputQueue, WSServerProofs)

The ring, its two indices, `send()` as its three accesses (load the index, store
the slot, store the index) on any number of threads, `client_func()` as its
three (load the index, take a slot, leave the loop), `cleanup()`. An output is
the pair of its sender and a number. Storing a slot is one step because
`std::atomic<WSOutputData>` is (with a lock inside). `outputs_readPtr` belongs
to the client thread. Taking a slot and `Server::execute` are one step.

`Overlap` and `MaxAhead` say how callers use the ring; neither is enforced by
the code. `Disciplined` (one thread inside `send()` at a time, at most
`Size - 1` outputs waiting) is the condition under which the ring is a queue.
`OutputQueue` is that queue, refined through the histories `published` and
`handed`; `MidiInput` implements the same specification with its own histories.

### CtrlOutputs (with MCCtrlOutputs, CtrlOutputsProofs)

`pc` is where the program stands in the code, `out` the index of the loop over the
outputs; each output is one step of `initCtrlOutputs` (`NotConfigured`,
`CannotOpen`, `Configure`) and of the cleanup (`RestoreOutput`), and two of
`writeCtrlOutputs`: `LoadOutput` scales the buffer's value to `outInt` and finds it
different from `prevVal`, `WriteOutput` writes the file and remembers it, because
the screen thread (`ScreenSets`) may put the brightness into the buffer in between. `file` is what the phone's files hold; `AndroidWrites` changes them
behind the program's back, `VibrationEnds` is the vibration motor's timer. A
write may be refused once (`WriteFile`): the stream keeps its fail bit and drops
every later write.

A float of the buffer is a number of `Parts`, so that scaling truncates as the
code's does. Values outside 0 to 1, whose conversion to `unsigned int` is
undefined, and the search for files and scales (`ctrlOutputAutoFill`) are left out.

### CtrlInputs (with MCCtrlInputs, CtrlInputsProofs)

A channel is its number, as in the code's enumerations; a code is the type and the
number of an event, and the constant `event_map` is `ctrlInputsEvent_channel`
(`ctrlInputs.h:80`), which need neither know every code nor give each a channel of
its own. `OpenDevice` is one
device of `openCtrlInputDev`, `CheckEvents` what `checkEvents` leaves noted
whether or not it accepts the device; `AllocatePlaces` and `InitBuffers` follow.
The audio thread's `readCtrlInputs` is one step per place (`LoadPlace`,
`SkipPlace`), then `Render`. The input thread polls (`Poll`), then reads one
event of each ready device (`ReadEvent`), with the finger that an
`ABS_MT_SLOT` event said last in `slot`. `Store` tests the number of the event for
`ABS_MT_SLOT` before it looks at the type, as the loop does. A place outside a channel's array is
`pc = "undefined"`.

The kernel's multi-touch protocol is external: `Report` sends an event only
for what has changed, names the slot only if it has changed, and empties a queue
that overflows. `last` is what each device last reported. EV_SYN events are read
and ignored by the code and left out. Three details of the code the model follows:
`chn_mt_anyTouch` is 0, so that the test at `ctrlInputs.cpp:512` never takes its
second branch and buttons too begin with -1, whatever the comment at 510 says;
`checkEvents` returns at the first foreign event type, which is why a device may
be noted as supported and not be opened; `new bool[]` is not initialised, so what
the user is told of a button that nobody sends is left open (`InitBuffers`).

The properties have three conditions, each with a configuration that shows why.
`Ordinary` is the phone the code is made for: at most one touch screen, each key
on one device, some device opened, and no KEY_V, which has the number of
`ABS_MT_SLOT` (`MCCtrlInputs_none.cfg`, `MCCtrlInputs_keyboard.cfg`).
`ChannelsApart`: the codes the phone sends have a channel each, which is not so of
a screen that tells both coordinates of a tool above it, because `ctrlInputs.h:94`
gives `ABS_MT_TOOL_Y` the channel of `ABS_MT_TOOL_X` and no code that of
`chn_mt_hoverY` (`MCCtrlInputs_hover.cfg`). `SlotsAgree`: no event was lost and the
screen was at slot 0 when LDSP started, as `slot` is (`MCCtrlInputs_slot.cfg`).

### MidiInput (with OutputQueue, MCMidiInput, MidiInputProofs)

`ReadInput` is a `read()` of the port into the byte ring, which may cut messages
anywhere and comes in two pieces at the ring's end; `GetInput` takes a byte out; `IgnoreByte`,
`ParseStatus` and `ParseData` are the three branches of `MidiParser::parse`,
then `CallBack` or `Publish`, then `WrapWritePointer`: the write index is past
the last slot between the last two. The audio thread's
`getNextChannelMessage` is two steps (`CopyMessage`, `RetireMessage`).
`numAvailableMessages` keeps the widths of the code's integers
(`IntRange`, `SizeRange`). A byte carries the message it belongs to and its place
in it, so that the properties can tell a whole message from one put together of
two. What all of it implements is the queue of `OutputQueue`: a message
(`SentMessage`) enters when the device has sent it and leaves when the user gets
it, and the queue is `InTransit`. Left out: output, which never has anything to write, `getInput()` without a
parser, and `enableParser` after bytes have arrived, which deletes a parser in use.

Neither ring looks at the other end. `Disciplined` says how they must be used; the
byte ring loses a place because its read index starts one behind.

### Scope (with MCScope, ScopeProofs)

The audio thread's `log()` is `prelog` (the flags tested), `EnterBuffer` (the flag
raised ten lines on), `log`, `LeaveBuffer`, `AdvanceWrite`, `postlog`. The
trigger thread is `Woken`, `ClearSignal`, then for each sample one action of
`triggerTimeDomain`: `Triggered` or `NotTriggered` while primed, `Collect` and
`Collected`, `Wait` and `Waited`. Two of them have a second step, where the code
reads a setting again that the server's thread may have written since:
`CountSamples` (`xOffsetSamples` for `triggerCount`, after `Triggered` has read it
for `triggerPointer`) and `LimitWait` (`holdOffSamples`). A complete frame is `Claim`, one `CopySample`
per sample, `Release` and `Send`. The server's thread is `stop`, `RaiseResizing`,
`ThreadsLeft`, `setPlotMode`, `start` and, for a browser that connects,
`ConnectionReply`; `setXParams` changes the offset and the hold-off at any time.
A sample is its number among those logged, so a frame shows where it came from; one
that arrives while a flag is up is dropped by `prelog` and has no number, so a window
of logged samples may have a gap in the signal. `frame` remembers the offset that
the place and the one that the count of a frame came from; *FrameIsWindow* and
*FramesAreApart* speak of frames for which they are the same (`Steady`), and
`MCScope_offset.cfg` shows a frame for which they are not. Whether it crosses the trigger level is left open.
`frame`, `last`, `since`, `logged`, `scanned`, `due` and `copied` are history.

Left out: CUSTOM triggers, down- and up-sampling, the frequency domain, more than
one channel (all channels are logged and copied in the same two steps).
C's remainder of a negative number differs from TLA+'s; it only shows for an
offset of more than the whole ring.

### SampleFormat (with MCSampleFormat, AudioEngineProofs)

`Convert`, `Split`, `Played` are the way of four samples to the pcm, `Combine`,
`Combined`, `ExtendSign` the way back; `Split` and `Combine` take one byte of all
four per step, as the NEON code does, and their places (`SplitPlace`,
`CombinePlace`) are the code's, for both byte orders. A byte has `Base` values.
A scaled sample is a number of halves, which is what truncation towards zero can
tell apart. `maxValFloat` is `(float)maxVal`: with four bytes it is `maxVal + 1`,
so a full-scale sample is not clipped; NEON's and ARM's conversions then stop at
`maxVal`, and x86 without NEON gives `minVal` (`Undefined`, excepted by the
property).

Two sizes rule the places of the bytes: `bps`, of which a sample is made, and
`physBps`, which `pcm_format_to_bits` answers. The theorems hold for any answers
from one to four bytes; the runs take those of the library that is vendored and
linked (`TestStorageBytes`, `dependencies/tinyalsa/pcm.c:304-316`): four bytes for
S32_LE and S24_LE, three for S24_3LE, two for all others. For S24_3BE they differ
(3 and 2), and `byteSplit_bigEndian` writes before the start of the buffer
(`SplitOutside`, after which nothing is known). *PlayedIsCaptured* says for all other
formats (`SizesAgree`) that this never happens and that the sample comes back;
`MCSampleFormat_packed.cfg` shows S24_3BE. What comes back is what this code laid
out. It is not said that the device understands it: `pcm_format_to_alsa` opens S8
as such but all big-endian formats as S16_LE, and `tinyalsaAudio.h:128` says "BE
entries will not work".

## 3. The runs

| Run | Result | What it shows | Distinct states |
|---|---|---|---|
| `lifecycle` | pass | *LiveThreadsOwnTheirResources*, *RestoredAtExit*, *ReleasedOnce*, *StopLeadsToExit*, *ImplementsUserProgram* over all 128 command lines, all ten faults (any one of them, at its call) and signals at any time | 58,000 |
| `governor` | pass | *PerformanceWhileRunning*, *GovernorsRestored* for every sharing of policies and every order of the directory | 46,000 |
| `screen` | pass | *SettledAsAsked*, *RequestHonoured*, *PressesTowardsRequest*, *InitialScreenRestored*, *StopLeadsToCleanup*, with the outputs on and off | 40,000 |
| `screen_lost` | violation | *FlagMeansMade*: a request made at the wrong moment is erased | |
| `ctrl_outputs` | pass | *CacheMirrorsFile*, *OnePulsePerRequest*, *LightsLeftAsFound*, *AskedIsWritten* with Android and the screen thread at the same files and one refused write | 497,000 |
| `ctrl_inputs` | pass | *PlacesExist*, *StoredAsReported*, *RenderSeesReports* on five kinds of phone | 661,000 |
| `midi` | pass | *ImplementsQueue*, *AvailableIsUnread*, *EveryMessageHandedOver* for a disciplined port | 13,000 |
| `midi_available` | violation | *AvailableIsUnread* where `size_t` is wider than `unsigned int` | |
| `scope` | pass | *FrameIsWindow*, *FramesAreApart*, *SignalledIsScanned* while the audio thread goes on logging and the offset and the hold-off change | 1,448,000 |
| `sample_format` | pass | *PlayedIsCaptured* for every integer format whose sizes agree, with NEON and without | 411,000 |
| `sample_padded` | violation | *PaddedSamplesFit*: a sample of S24_LE, 24 bits in four bytes, is scaled to 32 bits | |
| `ws_queue` | pass | *RingInv*, *NothingLeftBehind*, *ImplementsQueue*, *EveryOutputHandedOver* for disciplined callers | 11,000 |

Most of the liveness properties have a safety half, which says what the code must
never let happen on the way and holds without fairness. These halves are proved
(section 4) for every value of the constants:

| Module | Safety half | Of | What it says |
|---|---|---|---|
| `Lifecycle` | *JoinedThreadsEnd*, *OnlyScreenThreadLeft* | *StopLeadsToExit* | every join is of a thread that exists and was told to stop; which thread may be left |
| `WSServer` | *NothingLeftBehind* | *EveryOutputHandedOver* | equal indices mean that all was handed over |
| `MidiInput` | *NothingLeftBehind* | *EveryMessageHandedOver* | an idle port with nothing to tell has handed all over |
| `CtrlOutputs` | *PersistentOnceWritten* | *AskedIsWritten* | after a block the light is as asked, if that was not 0 or it was written before |
| `CtrlInputs` | *RenderSeesSettled* | *RenderSeesReports* | once a block began with all events read, `render()` reads what was reported |
| `Scope` | *NoWakeUpLost*, *SleepsCaughtUp* | *SignalledIsScanned* | no sleep over signalled samples; how far behind a sleeper may be |

Of these `ws_queue` checks its own; the others, and *InOrderOnce* and
*HandedInOrder*, which the refinements of `OutputQueue` contain, are theorems and
in no run, because the run checks what follows from them under fairness.

Every violation run contradicts a sentence of the code or of its documentation,
quoted in the `findings` of `PROJECT.json`.

Counterexamples kept beside the runs. Each of these configurations checks one
property that a doc, a comment or the code suggests and that the code does not
have; TLC prints the trace with `tlc -config X.cfg M`.

| Configuration | Module | Property | What the trace shows |
|---|---|---|---|
| `MCLifecycle_server.cfg` | `MCLifecycle` | *ServerRunsAtExit* | the audio server stays stopped after a failed start (`commandLineArgs.cpp:79`) |
| `MCLifecycle_signal.cfg` | `MCLifecycle` | *SignalShutsDown* | a SIGINT before the handlers leaves the phone changed (`docs/4_usage.md:195`) |
| `MCLifecycle_hwconfig.cfg` | `MCLifecycle` | *FailureIsReported* | a failed configuration is used after it is freed (`main.cpp:55`) |
| `MCLifecycle_screen.cfg` | `MCLifecycle` | *ScreenThreadFinishes* | with the outputs off, the screen thread is never joined (`ctrlOutputs.cpp:114`) |
| `MCCpuGovernor_offline.cfg` | `MCCpuGovernor` | *EveryCpuHasItsEntry* | a cpu's number may be past the end of `governors` (`tinyalsaAudio.cpp:1490`) |
| `MCCpuGovernor_first.cfg` | `MCCpuGovernor` | *FirstGovernorOnly* | a cpu is given its own governor back and not the first cpu's (`tinyalsaAudio.cpp:1567`) |
| `ScreenCtrl_off.cfg` | `ScreenCtrl` | *ScreenAsFound* | with the outputs off the screen is left as the last request made it (`ctrlOutputs.cpp:122`) |
| `ScreenCtrl_late.cfg` | `ScreenCtrl` | *ScreenAsFound* | the button pressed between the reset's read and its press (`ctrlOutputs.cpp:123`) |
| `MCCtrlOutputs_zero.cfg` | `MCCtrlOutputs` | *PersistentAsAsked* | an explicit 0 over a light that was on is never written (`LDSP.h:248`) |
| `MCCtrlInputs_none.cfg` | `MCCtrlInputs` | *RunsWithoutInputs* | with no device opened, the places are read all the same (`ctrlInputs.cpp:62`) |
| `MCCtrlInputs_hover.cfg` | `MCCtrlInputs` | *StoredOnAnyPhone* | both coordinates of a hovering tool go to one channel (`ctrlInputs.h:94`) |
| `MCCtrlInputs_slot.cfg` | `MCCtrlInputs` | *StoredOnAnyPhone* | the first values of a screen at its second slot go to the first (`ctrlInputs.cpp:130`) |
| `MCCtrlInputs_keyboard.cfg` | `MCCtrlInputs` | *PlacesOnAnyPhone* | KEY_V of a keyboard is taken for a slot, which may not exist (`ctrlInputs.cpp:159`) |
| `MCMidiInput_system.cfg` | `MCMidiInput` | *SystemMessagePassedOver* | a system message is written past the two data bytes of its slot (`Midi.cpp:95`) |
| `MCScope_resize.cfg` | `MCScope` | *NoResizeUnderUse* | the buffers are resized under a thread that has just looked at the flag (`Scope.cpp:324`) |
| `MCScope_offset.cfg` | `MCScope` | *FrameIsAlwaysWindow* | the offset changes between its two reads and the frame ends in slots not written yet (`Scope.cpp:488`, `490`) |
| `MCSampleFormat_packed.cfg` | `MCSampleFormat` | *StaysInBuffer* | a byte of S24_3BE is written before the buffer (`tinyalsaAudio.cpp:566`) |
| `WSServer_row.cfg` | `WSServer` | *EveryOutputHandedOver* | as many outputs in a row as the ring has slots are all skipped (`WSServer.h:65`) |
| `WSServer_race.cfg` | `WSServer` | *EveryOutputHandedOver* | two overlapping sends lose an output (`WSServer.cpp:163`) |

A second path of the same kind as `MCLifecycle_hwconfig.cfg` is known: with
`Faults = {"outputs"}` *FailureIsReported* fails too, because `initCtrlOutputs`
calls the cleanup before the context is set (`ctrlOutputs.cpp:332`, `setScreen`).
*ReleasedOnce* excludes these two paths and no other.

Bounds, and why they are enough:

- `lifecycle` has none: the model is finite, and `Options` and `Faults` are
  everything there is.
- `governor`: four cpus (two clusters of two and every other sharing, including
  policies that interleave), three governors, every prefix of cpus online. Two
  policies with two cpus each are what the order of the loops can confuse; the
  proofs lift the bound.
- `screen`: three requests and one press of the button, outputs on and off. One request can be lost
  to another, and a third comes after the damage; the proofs lift both bounds.
- `ctrl_outputs`: a flashlight, the backlight that two threads set and the
  vibration; lights of one step and of two, so that half a light is rounded away;
  two sets, one foreign write, one refusal: a value asked, replaced, undone behind
  the cache and refused. The proofs lift all bounds of the three invariants.
- `ctrl_inputs`: two devices, one button, a screen of two fingers and three touch
  channels (one without a code, one with two codes), five phones (`TestPhones`): both
  devices opened, either given up half way, a screen with an axis LDSP does not know,
  one that does not tell its slots, none opened; the screen at either slot when LDSP
  starts. Three reports and a
  queue of three events, so that the finger changes and the queue overflows. The
  proofs lift the bounds.
- `midi`: messages of one data byte and of two, five messages through four slots
  and seven bytes of ring, so both indices wrap; `IntRange` and `SizeRange` are
  scaled so that the number of slots does not divide them, as 100 does not divide
  2^32. `midi` assumes `size_t` as wide as `int` (the 32-bit phones), and
  `midi_available` does not.
- `scope`: frames of three samples in a ring of six, an offset to the left and
  none, hold-off 0 and 2 (long enough to be cut short while it is waited), eight
  samples, up to four of them ahead of the scan, three changes of settings, of which the offset and the hold-off may change at any step and the
  resizes come while the threads rest. Four is the bound `FrameFits` gives: with five *FrameIsWindow* fails,
  because the audio thread overwrites the frame's beginning while the end is
  collected. *FramesAreApart* needs an offset of at most
  `2 * HalfFrame + 1 - frameWidth`; beyond it frames do overlap.
- `sample_format`: bytes of four values instead of 256, the storage sizes of the
  vendored library, every sample of each format beside neighbours at and past full scale. The proofs lift the bound.
- `ws_queue`: two senders, three slots, four outputs each, so that the indices
  wrap more than twice. The proofs lift the bounds.

Deadlock is not checked: each of these programs ends, or waits for a caller, a
device or the user, or runs out of the samples or messages the bound allows.

Fairness. `Lifecycle`: every thread keeps running, so each has weak fairness;
the code's blocking calls have an end (a pcm call waits for the card, `poll` has
a timeout, the screen thread sleeps 100 ms), and a signal is never required.
`ScreenCtrl`: the same for a call that has begun, the screen thread and the end
of `main()`; no request, stop or press is required. `WSServer`: the client
thread loops for ever and a `send()` that has begun ends; no call is required.
`CtrlOutputs`: the program goes on (blocks follow one another, a control file's
write returns); what is asked, Android and the stop are not required.
`CtrlInputs`: the initialisation, the audio thread and the input thread, whose
`poll` has a timeout; no report is required. `MidiInput`: the read thread and the
audio thread poll; the device need not send. `Scope`: the trigger thread polls the
signal for ever; nobody has to log or change settings. The governors and
`SampleFormat` need none: no liveness is claimed.

## 4. The proofs

All of these are for every value of the constants, checked by TLAPS.

- `WSServerProofs`: *RingInv* is inductive with the type invariant. It says that
  the indices are as far apart as there are waiting outputs, that these lie
  between them in order, that the client's copy of the write index lies between
  the two and that a thread inside `send()` owns the free slot. The ring's
  arithmetic is done with `Forward`, without division. From it follow the
  refinement of `OutputQueue` and, with `SentInv` (each sender's outputs
  are in `published` as it sent them, none missing), *InOrderOnce* and
  *NothingLeftBehind*. Assumption: `Disciplined`.
- `LifecycleProofs`: the steps of `main()` are given places (`Place`) and each
  resource the place that takes it and the one that gives it up (`Taken`,
  `GivenUp`). `ResInv` says that nothing is released before its place, that what
  the command line needs is held between the two, and that nothing is held after
  the second if the start was complete. `Covers` and `Moves` reduce each step of
  `main()`, the jumps of the error branches included, to a move between two places,
  and the lemmas `Advance` and `Release` deal with all of them. `ThreadInv` places the
  threads, `PhoneInv` the phone. The conjunction `IInv` gives *ReleasedOnce*,
  *LiveThreadsOwnTheirResources* and *RestoredAtExit*; with `UserInv` it gives the
  refinement of `UserProgram`. `JoinInv` adds when each thread is created, told to
  stop and joined, by the same places, and gives *JoinedThreadsEnd* and
  *OnlyScreenThreadLeft*: the only thread that outlives `main()` is the one of
  `MCLifecycle_screen.cfg`. No assumption but that options and faults are such.
- `AudioEngineProofs`, governors: `IInv` is `LoopInv` with the types and `Shares`: no write
  precedes the last read, each saved entry is the cpu's own governor, and the
  reset has dealt with the cpus above its index. Assumption: `FirstCpusOnline`
  (the cpus online are the first ones), without which `MCCpuGovernor_offline.cfg`
  shows the failure; the types need it too (*TypeOK* has every index in range).
- `AudioEngineProofs`, samples: *PlayedIsCaptured* and the ranges of the samples.
  `BytesInv` says which bytes are laid out where, and that what has been put
  together of a sample is its remainder by the weight of the next byte, as an int.
  `PlacesApart` is that no two bytes of the four samples share a place in the
  buffer; `NextRemainder` and `ByteOnTop` that one more byte on the remainder gives
  the next remainder, `IntOfRemainder` and `SignExtended` that the full remainder
  determines the value and its sign. The solver knows no division by
  a variable: `Division` and `OneQuotient` reduce it to products. `SizesInv`, which
  needs no condition, is that a conversion made of more bytes than there is room for
  does not get as far as the last of them, so that what is read is always in the
  buffer; `BytesInv` holds where the two sizes agree. No assumption but those of the
  module: `Base` is any even number from 2, `StorageBytes` anything from 1 to 4.
- `ScreenCtrlProofs`: `WorkInv` knows at each step of the thread how the screen
  stands to the last call; it gives *SettledAsAsked* and *PressesTowardsRequest*.
  `ResetInv`, what the reset has seen and what is left of it to do, gives
  *InitialScreenRestored*, without `Undisturbed`. No assumption.
- `CtrlOutputsProofs`: *CacheMirrorsFile* is inductive with the types and the fact
  that nothing is written before the loop (`CacheInv`); with it `BlockInv`, which
  says of the outputs that the block has passed that their cache is what the buffer
  asks, gives *PersistentOnceWritten*; `PulseInv` counts the
  vibration still to be asked for in the block; *LightsLeftAsFound* is inductive
  with the types, because only cleaned-up outputs are restored and nobody writes
  them afterwards. No assumption.
- `CtrlInputsProofs`: `ScanInv` says what the scan of the devices so far has left
  noted, `PlaceInv` that the places and the buffer have room for it, `QueueInv`
  that a queue holds only what its device may send; together they give
  *PlacesExist*. For *StoredAsReported* the invariant looks into the queue:
  `FingerAt` is the finger an event will be taken for, `Becomes` what a place will
  hold when the queue has been read, and `ReplayInv` that this is what the device
  last reported and that kernel and thread mean the same finger. The lemmas on
  sequences (`FingerAfterRead`, `BecomesAfterRead`, `OthersKeep`) say that reading
  the first event and adding one at the end keep it. *RenderSeesSettled* needs two
  facts more: no two places share a position of the flat buffer (`IndexApart`,
  about the sums of the channels' lengths before a channel), and the places that
  the block has passed are in the buffer (`Loaded`). No assumption: the properties
  speak of `Ordinary` phones, all but the first also of `ChannelsApart` and
  `SlotsAgree`, and hold for any `event_map`.
- `MidiInputProofs`: the bytes in flight are one sequence, first those in the ring,
  then those in the port: `ChainInv` says that each follows the one before,
  `HeadInv` that the first is the one the parser waits for (or the byte that was
  never received), `EndInv` that the last ends a message. `ParserInv` knows how
  much of the message is together, `PollInv` and `CallbackInv` where the slots
  between the indices stand, in either way of handing over. From these follow
  *HandedInOrder* and the refinement of `OutputQueue`, in which every step but the
  device's and the handing over leaves the queue as it is. `StartInv` adds that when
  the read thread goes back to `read()` the byte that the ring withholds was
  never received: *NothingLeftBehind*. *NoneAnnounced* is the part of
  *AvailableIsUnread* that `getNextChannelMessage()` in a loop relies on, and
  needs no width: the violation of `midi_available` announces too many messages, but never
  one where there is none. Assumptions: `Disciplined` and `ChannelMessagesOnly`;
  `SizeIsInt` for *AvailableIsUnread* and *NothingLeftBehind*. The types need none.
- `ScopeProofs`: `PointerInv` says that the indices are as far apart as the scan is
  behind, `CollectInv` how many steps are left from a trigger to the end of its frame,
  `SlotInv` that `triggerPointer` is the slot of the sample it stands for,
  `RingInv` what the ring holds, `CopyInv` what was copied of it: *FrameIsWindow*.
  `ApartInv` measures the distance from the last frame sent to the next trigger:
  *FramesAreApart*, both for frames that are `Steady`. `CountInv` relates the counter of samples to the next signal to
  what has been logged since the last: *NoWakeUpLost* (the flag is cleared before
  the scan) and *SleepsCaughtUp*. Assumptions: `Serialised` (the buffers are resized while the threads
  rest; offset and hold-off may change at any step) and `RoomAhead`; `FrameFits` for the first, `TriggerInTime` for the second.
  The types need none.

Only model-checked: everything with fairness (*StopLeadsToExit*,
*EveryOutputHandedOver*, *RequestHonoured*, *StopLeadsToCleanup*, *AskedIsWritten*,
*RenderSeesReports*, *EveryMessageHandedOver*, *SignalledIsScanned*), which is out
of the prover's reach, beyond the safety halves above; and the violations.

## 5. Not modelled, and why

Floating point beyond truncation and clipping; the kernel's drivers beyond what is
named external; seasocks; the Android side of the sensors; scheduling priorities;
vendored libraries, configuration files of phones, build scripts and examples,
which are nearly all of the repository's lines. The signal-processing libraries
are numerical code without control state; the wrappers of sockets and serial
ports have none of their own. Hotplug of cpus during a run. Brightness and the
periodic tap of the screen thread, ranges of axes, CUSTOM triggers, down-sampling
and the frequency domain of the scope, MIDI output.

## 6. What could come next

1. `Gui` over `OutputQueue`: pairs of messages of `doSendBuffer`, received
   buffers, connection and disconnection.
2. `HwConfig`/`Mixer`: fallbacks of device numbers and paths, the secondary
   activation, what is deactivated on failure; with `ctrlOutputAutoFill`, which
   chooses files and scales in the same way.
3. The scope's frequency domain and CUSTOM triggers, on the same ring.
