# HLPlayer: a TLA+ verification project

HLPlayer is a media player for the desktop, in C++ with a QML interface:
playback, super resolution, offline transcoding, speech recognition, camera
recording, streaming and encrypted media. This directory holds TLA+ models of
its concurrent core, TLC configurations that check them on small instances, and
theorems that TLAPS proves for instances of every size. Paths below are
relative to the repository (`src/core/...`); in `PROJECT.json` they carry one
more `src/` in front.

The modules are translations of the code, not of its comments. Where a comment
says something the code does not do, a run of its own shows it (see *Where the
code and its comments differ*).

## 1. The system

The application is wired like this:

    QMLPlayer (GUI thread)
      -> MediaPlayer (one message-loop thread)
        -> FFPlayer (the API; a recursive apiMutex)
             |- FFmpegDemuxer     one demux thread; callbacks onPacket, onEndOfStream
             |- PacketQueue x 2   video 20 MB, audio 5 MB
             |- two decode threads
             |- VideoFrameQueue   4 frames
             `- VideoRefreshThread -> video sink

Offline transcoding is apart from that: `OfflineVSRBridge` (GUI thread) creates a
thread that starts an `OfflineTranscodePipeline` and waits for it; the pipeline
runs six threads of its own,

    demux -> decode -> vsr -> encode -> mux -> FFmpegMuxer
       `---------------- audio ------------------'

with a bounded queue on each arrow between threads.

In the player, five threads share atomics, three queues and the demuxer's condition variable.
The locks there are (`apiMutex`, one mutex for each decoder, queue and for the
demuxer's commands) protect single objects, not the sequences of steps in which
the threads work together: what can go wrong is in the interleavings.

### Components

**Demuxer** (`src/extractor/FFmpegDemuxer.cpp`). State: `state_`, the format
context, the flags `shouldStop_`, `startReading_`, `seekRequested_`,
`seekCompleted_`, the target, `eofReached_`, the local `seekJustDone`.
Operations: open, start, stop, seek; one thread, which reads packets, delivers
them by a callback that may block, performs seeks, and sleeps at the end of the
media. Hard: the commands talk to the loop through flags and a condition
variable, and `stop()` notifies without the mutex; a seek arriving at every
point of the loop; failures of the library while a seek is executed. Correct
means: each seek is answered; stop ends; the thread sleeps only with nothing to
do; a seek target survives until it is read from.

**Media queues** (`PacketQueue.h`, `FrameQueue.h`). State: the items, a byte
counter or ring indices, `shutdown_`, two condition variables. Operations: push,
pop with timeout, flush, shutdown, restart. Hard: five ways to change the
condition a thread sleeps on, and not all of them notify. Correct means: FIFO,
bounded, no lost wake-up, nothing queued after a shutdown.

**Playback engine** (`src/core/src/FFPlayer.cpp`). State: `state`, `running`,
`paused`, `seekInProgress`, `seekSerial`, the seek targets, the end flags, the
threads. Operations: open, play, pause, stop, seek; two decode loops; the end
transition. Hard: a seek flushes queues and decoders while the threads run and
sorts old packets out by a serial; the end is agreed on by two decode threads
and carried out by the refresh thread; stop joins three threads that may be
blocked on each other. Correct means: no decoder is fed between its flush and
the repositioning; a packet of before a seek is never shown after it; the end is
reported when everything was shown, and then it is; stop returns and leaves
nothing behind; no thread object is overwritten while it runs.

**Video refresh thread** (`VideoRefreshThread.cpp`). State: `running_`,
`paused_`, `pauseAfterNext_`, the local `playbackCompleted`. Pops frames,
skips old generations, drops late frames, shows, ends the playback.

**Message loop and event bus** (`MediaPlayer.cpp`, `EventBus.cpp`). A message
queue that turns API calls of the GUI into calls of FFPlayer; seeks are
coalesced through `pendingSeekPos_` and `seekQueued_`. An encrypted film makes
the loop wait for a password that the GUI thread asks for (`QMLPlayer`). The bus:
a lock-free queue, a list of subscribers under a mutex. Hard: the position is
read and the flag cleared in two steps; a destructor that joins a loop which
waits for the destructor's thread; subscribers that come and go between the drain
of the events and their delivery. Correct means: the last position asked for is
sought; no command is left; every event reaches its subscribers once.

**SDK player** (`PlayerFacade.cpp`, `StateMachine.cpp`, `HLPlayer.cpp`). A second
player path behind the C API, with its own state machine and one recursive lock.
Hard: the callbacks of the demuxer take the lock that stop and seek hold, and an
error makes the demuxer's loop stop itself; a seek behind the end of the media
opens them again, delivers a picture on the way, and may fail. Correct means: one
loop reads the media, none after a stop; a player that is Playing has one; calls
return.

**Offline transcoding** (`OfflineTranscodePipeline.cpp`). State: `state_`, the
flags `cancelRequested_`, `pauseRequested_`, `errorFlag_`, five bounded queues,
`framesProcessed_`, the result and its condition variable; the muxer; the
saved checkpoint. Operations: configure, start, pause, resume, cancel,
waitUntilComplete; six stage threads. Hard: a stage that stops, for whatever
reason, leaves neighbours asleep on its queues; any stage stores Paused and
Running over what another has stored; the final state and the result of the job
are two stores. Correct means: every frame once and in order to the muxer; the
state Completed only when that is so; every stage ends; a waiter gets the final
state and its result; the checkpoint is not ahead of the output.

**Checkpoint and resume** (`CheckpointManager.cpp`, `ResumeManager.cpp`). State:
the checkpoint file, the `.part` file, the output. Operations: save (truncate and
write, not atomic), resume, complete, cancel. Hard: a crash between any two of
their file operations, and each of these may fail. Correct means: a resumed
output has no gap, and a finished film is neither lost nor forgotten by its
checkpoint before it is the output.

**Super resolution control** (`VSRCircuitBreaker.cpp`, `VRAMBudgetManager.cpp`).
A circuit breaker over the inference time, its state an atomic and its counters
under a mutex, and a budget of video memory, whose counter is changed outside
the mutex its waiters use. Correct means: what is used equals what is allocated
and nobody sleeps beside free memory; an open circuit is probed only after the
cooldown; a manual disable stays.

**Super resolution engine** (`RealtimeVSRPipeline.cpp`, `NcnnSuperResolution.cpp`,
`NcnnAIPipeline.cpp`, `ModelManager.cpp`). Three threads - decode, upscale,
present - with a queue that drops and one that blocks, a breaker of its own,
pause and stop. Correct means: frames in order, memory given back however an
inference ends, stop returns.

**Speech recognition** (`src/asr`). A worker with a bounded audio buffer, a model
loaded by a detached thread or by the worker, turned on and off at any time.
Hard: the engine is assigned by three threads without a lock. Correct means: one
of them at a time, no thread object overwritten, off means off.

**Recording** (`RecordingPipelineV2.cpp`, `RecordingFrameQueue.h`,
`AudioEncoder.cpp`, `StreamMuxer.cpp`). Capture, encode and audio threads around
one or two muxers. Hard: what fails on the way of a frame - its reference, its
encoding, its packet, its write - fails without a word. Correct means: header,
packets, trailer in this order; frames in order, and none missing that nothing
failed on; sound stamped by what was converted before it; stop returns.

**Streaming and resolution** (`StreamingPipeline.cpp`, `StreamExtractor.cpp`). A
loop that sends a file at its own pace, and a worker that asks a child process
for an address, both cancelled from the GUI. Correct means: the source and the
connection are there while the loop uses them; no child is left; the GUI is told
the end; cancel works at every moment.

**Encryption** (`src/crypto`, `QMLEncryptionExporter.cpp`, `TmpCleaner.cpp`). An
encryptor that writes a temporary file and renames it, an I/O context that
decrypts and seeks, a cache of keys with eviction. Correct means: a file of the
final name is whole, whenever the program crashes; a byte is decrypted with its
own byte of the keystream; every job ends and the GUI hears of it.

**Decoders, muxer, rendering, user interface, monitoring.** Wrappers of library
and device calls.

`PROJECT.json` lists every component with its sources and its status, and under
`hazards` what in this code is hard to test, each at its line, with the
properties that cover it or the reason none does yet.

## 2. The modules

| module | models | lines of code |
|---|---|---|
| `FFmpegDemuxer` | the demux thread step by step, and the state change of each command | `FFmpegDemuxer.cpp` |
| `DemuxerProtocol` | the demuxer under one caller that respects FFPlayer's order of calls | the above, and its callers in `FFPlayer.cpp` |
| `PacketQueue`, `FrameQueue` | the two queues down to their condition variables | the two headers |
| `MediaChannels` | what a queue promises: two bounded FIFO channels | (abstract) |
| `MediaQueues` | both queues under the demux, decode, refresh and API threads | the headers and their callers |
| `FFPlayer` | the whole playback engine; extends `FFmpegDemuxer` | `FFPlayer.cpp`, `VideoRefreshThread.cpp` |
| `TranscodePipeline` | the stages of a transcode job, its queues, the muxer, and the bridge as its client | `OfflineTranscodePipeline.cpp`, `FFmpegMuxer.cpp`, `OfflineVSRBridge.cpp` |
| `TranscodeJob` | what a job promises: the file holds a beginning of the input, the answer is true | (abstract) |
| `MediaPlayer` | the message loop, coalesced seeks, the password prompt | `MediaPlayer.cpp`, `QMLPlayer.cpp` |
| `EventBus` | publish, subscribe, unsubscribe, dispatch | `EventBus.cpp` |
| `PlayerFacade` | the SDK player, its lock, its demuxer's loops | `PlayerFacade.cpp`, `FFmpegDemuxer.cpp` |
| `RecordingPipeline` | a recording: three threads, the frame queue, the file | `RecordingPipelineV2.cpp`, `RecordingFrameQueue.h` |
| `AudioEncoder` | the resampler's rest, the stamps, the flush | `AudioEncoder.cpp` |
| `StreamMuxer` | the connection: write, abort, trailer (operators on a record) | `StreamMuxer.cpp` |
| `StreamingPipeline` | the sending loop and the recorder that shows it; uses `StreamMuxer` | `StreamingPipeline.cpp`, `QMLCameraRecorder.cpp` |
| `StreamExtractor` | the worker, its child process, retries, cancel | `StreamExtractor.cpp` |
| `ASRPipeline` | worker, preload thread, buffer, the bridge's on and off | `ASRPipeline.cpp`, `QMLASRBridge.cpp` |
| `RealtimeVSRPipeline` | the three stages, two queues, the breaker | `RealtimeVSRPipeline.cpp` |
| `VRAMBudget` | the memory budget, modulo a width | `VRAMBudgetManager.cpp` |
| `VSRCircuitBreaker` | the shared breaker | `VSRCircuitBreaker.cpp` |
| `FileEncryption` | a job of encryption with its files, over crashes and restarts | `EncryptionExporter.cpp`, `FileEncryptor.cpp`, `QMLEncryptionExporter.cpp`, `TmpCleaner.cpp` |
| `ResumeManager` | checkpoint, `.part` and output, over crashes | `ResumeManager.cpp`, `CheckpointManager.cpp` |
| `SessionKeyCache` | eviction by last use | `SessionKeyCache.cpp` |
| `DecryptingAVIO` | the position in the keystream under seeks and reads | `AesCtr256.cpp`, `DecryptingAVIOContext.cpp` |
| `MCServices` | the fifteen services from `MediaPlayer` down, one explored at a time | |
| `MCPlayer`, `MCMediaQueues`, `MCTranscode` | values of function- and sequence-valued constants | |
| `DemuxerProtocol_proofs`, `MediaQueues_proofs`, `FFPlayer_proofs`, `TranscodePipeline_proofs` | theorems about the module each is named after | |
| `FileServices_proofs` | theorems about `FileEncryption`, `ResumeManager`, `DecryptingAVIO` | |
| `ControlServices_proofs` | theorems about `VRAMBudget`, `VSRCircuitBreaker`, `MediaPlayer`, `EventBus`, `SessionKeyCache`, `AudioEncoder` | |
| `ThreadServices_proofs` | theorems about `RecordingPipeline`, `StreamingPipeline`, `StreamExtractor`, `ASRPipeline`, `RealtimeVSRPipeline`, `PlayerFacade` | |
| `MCServices_proofs` | theorems about the services together, from the three above | |

### How state and actions correspond to the code

A variable has the name of the member it stands for, without the underscore.
Program counters (`dpc`, `wpc`, `rpc`, `apc`) say where a thread is; a thread is
split exactly where another thread can observe the difference or where it waits.

*FFmpegDemuxer.* A packet is its position in the media. `dpc` follows
`demuxLoop`. The wait at the end of the media takes three steps: `DemuxParkTest`
evaluates the predicate holding `commandMutex_`, `DemuxPark` goes to sleep and
releases it, and the notification of a command ends it. In between (`"parkGap"`)
a `seek()` cannot enter, since it takes the mutex, but `stop()` can, since it
does not. The reopening of the media after its end, with its probe packet and
its failures, is one step each way. `Faults` admits the failures the code only
logs or retries.

*FFPlayer.* `packets[s]`, `frames` are the queues as channels (justified by
`MediaQueues`); `closed` is their common `shutdown_`. A packet is reduced to two
numbers: the `serial` it was tagged with, and `read`, the serial of the seek that
had positioned the media when it was read. No guard looks at `read`. `onPacket`
is two steps, the tag and the push, because the push may block for as long as a
seek takes. `stopInternal` is a chain of steps with one guard per join.
`tryTransitionToEnd` is split between its tests (`WorkerAsks`), before its
compare-and-swap (`WorkerClaim`) and before its store (`WorkerRequest`), because the
stores of `seek()` - the serial, both targets, the done flags,
`endTransitioning_`, `endRequested_`, later `demuxerDone` and `seekInProgress` -
come one by one too, and what lies between two of them matters: see `ClaimLost`.
`completeEndTransition` is split at its sleep.

Four abstractions are taken in `FFPlayer`:

- three groups of calls are one step each: the flushes of the three queues in
  `seek()`, the stores of `play()` with the creation of the threads, and the
  resumption at the end of `seek()`. `play()` has no threads yet that could look in
  between. Left out is thereby what falls between two flushes (a packet of before
  the seek that stays, in one stream, while a later one of the other goes) and
  between `resume()` and `pauseAfterNextFrame()` (one picture more is shown);
- the time stamps are left out: whether a frame is late is a free choice
  (`RefreshLate`), a seek lands on its target, and the first decoded frame
  reaches the target;
- a decoder returns a frame or, if `MayHold`, none; the audio renderer takes what
  it is given;
- a `pop()` that times out and finds nothing to do goes round the loop without
  changing anything, and is not a step.

*PacketQueue and FrameQueue.* A critical section is one step; a wait is split at
the release of the mutex, and wake-ups without a reason are allowed but never
counted on.

*TranscodePipeline.* A packet, the frame decoded from it and the packet encoded
from that are one number, the position of the packet in the input; `hand[s]` is
what stage `s` still has to pass on and `held[s]` what the decoder or the encoder
has taken and not returned. The stages share the actions of their common loop
(`Leave`, `Starve`, `Pausing`, `Convert`, `Pushed`, `Dropped`, `Flush`, `Close`);
where they differ the action says so (demux does not look at the result of its
push, vsr does not look at it for a frame over the memory budget). The points at
the head of a loop are:

| `pc` | the stage |
|---|---|
| `gate` | has passed `shouldRun()` and is in front of `waitIfPaused`, a pause being requested |
| `top`, `wait` | is in front of a filled, an empty queue, and may still see a pause or the end of the job |
| `pausing`, `paused`, `rerun` | is in `waitIfPaused`: before the store of Paused, asleep, before the store of Running (holding `pauseMutex_`) |
| `pop` | has come out of `waitIfPaused` and takes an item without another test |

`setError` is four steps (`Raise`, `StoreError`, `ErrorCloses` once for each
queue, `ErrorResult`), the end of the mux stage is six. Whatever may go wrong in
a job is a *trouble*: a call of `pause()` or `cancel()`, a library call that
fails, a frame over the budget, an item that comes between a `pop()` that timed
out and `isShutdown()`. The constant `Kinds` says which a run admits and
`MaxTroubles` how many of them; each happens at most once. Abstracted:
the delay of decoder and encoder is a constant number of pictures (`Lag`), what
the scaler does to a picture, progress figures, and exceptions. The bridge is
there with the guards it puts on its calls (`uiState`); a second job is not.
`Job` maps the pipeline to `TranscodeJob`: its film and its sound are what the
streams of the file hold of each kind, its `trouble` is a cancel, a failure, a read
error, a reader that timed out or an encoder that could not be flushed, its answer
is what `waitUntilComplete` returned.

*The services.* Each has the prefix of its module on every name (`Rec`, `Aac`,
`Str`, `Mux`, `Ext`, `Asr`, `Vsr`, `Vrm`, `Brk`, `Mpl`, `Bus`, `Fac`, `Enc`, `Rsm`,
`Key`, `Aes`), so that `MCServices` can extend them all. They share no variable,
so nothing is lost by exploring one at a time: the variable `service` is chosen in
the initial state, and the run's states are the sum of theirs, not the product.

- *RecordingPipeline.* `recFile` is the file as a sequence of marks and frame
  numbers. `recThread` says where each of the three threads is; `stop()` is four
  steps (flags, abort, joins, trailer). The encoder holds `recHeld` back until
  its flush. What the queue has no reference for, the encoder refuses, no packet
  can be had for or the muxer does not write goes to `recLost` (`RecLoses`), the
  trailer too. `AudioEncoder` is the audio thread's tool looked at alone: pieces of
  any size, frames of one size; what `swr_convert` fails on is counted in
  `aacMissed`, what the codec refuses in `aacLost`.
- *StreamingPipeline, StreamMuxer.* `writePacket` is split at its early test of
  the flags, outside the mutex, because `abort()` and `disconnect()` come in
  between. `strEvents` is Qt's queue to the recorder.
- *StreamExtractor.* `extPid` says that `childPid_` is set, `extChild` what the
  process really does: the two differ between fork and store, and between
  `waitpid` and the reset. Each of the two is a state of its own (`store`, `clear`).
- *ASRPipeline.* `asrEngine` is the pointer, with a failed engine told from a
  loaded one; a second of sound is one item. `start()` is two steps, as the
  worker may report before the second.
- *RealtimeVSRPipeline.* `vsrHand` is the one frame in the VSR stage. That the
  cooldown is over is made true by time. `VRAMBudget` and `VSRCircuitBreaker` are
  the shared objects, each call split where it releases its lock or goes from an
  atomic to a mutex.
- *MediaPlayer.* `mplQueued` and `mplPending` are the two atomics; `seek()` is
  three steps (store, exchange, post), the handler three (load, store, call).
  `EventBus` splits `dispatch()` at every callback.
- *PlayerFacade.* `facHolder` is the owner of `apiMutex`. The demuxer is
  reduced to its flags, whether it has a media open (`facMedia`) and has met its end
  (`facEof`), and its loop; two loops may exist, because a loop that
  fails detaches itself (`facDetached`). A seek behind the end of the media goes
  through `FacReopens`: the media is opened or not, and a picture read by the probe
  is delivered, with the lock, before the seek is answered. A resolver may answer
  `open()` later ("pending").
- *FileEncryption, ResumeManager.* A file is whether it is there and how much of
  it is written. `EncCrash` and `RsmCrash` end the program at every point; in
  `ResumeManager` each removal, rename and write may fail too. `rsmStray` remembers that a checkpoint has
  outlived the `.part` it was written for. `EncProgramStarts` runs the cleaner,
  `EncOtherProgramStarts` that of a second program. `cancel()` going through
  `encryptor_` while the worker replaces it (`EncryptionExporter.cpp:46`, `:83`) is a
  data race that no property is about. No code of the program calls `ResumeManager`: its caller is the one
  that the comments of its header describe, and is mapped as external.
- *DecryptingAVIO.* A byte is its offset; the keystream byte it is decrypted with
  is computed as the code does, in its ECB and its CTR build (`AesEcb`,
  `AesCtrRest`, `AesCtrBulk`), block length as a constant.

## 3. The runs

| run | module / cfg | checks | distinct states |
|---|---|---|---|
| `media_queues` | `MCMediaQueues` | types, no lost wake-up, order, refinement of `MediaChannels`, two liveness properties | 29,574 |
| `demuxer` | `DemuxerProtocol`, `MCDemuxer.cfg` | types, three invariants, one action property, two liveness properties | 7,838 |
| `demuxer_seek_target` | `MCDemuxerSeekTarget.cfg` | a comment of the code: violated | |
| `player_seek` | `MCPlayer`, `MCPlayerSeek.cfg` | types and three invariants of a seek | 1,806,651 |
| `player_seek_end` | `MCPlayerSeekEnd.cfg` | one invariant of a player at rest, with a seek | 1,912,805 |
| `player_end` | `MCPlayerEnd.cfg` | thread ownership, quiet Idle, honest End, two liveness properties | 322,816 |
| `player_stale` | `MCPlayerStale.cfg` | a comment of the code: violated | |
| `transcode_job` | `MCTranscode`, `MCTranscodeJob.cfg` | types, three invariants, one action property, refinement of `TranscodeJob` | 424,029 |
| `transcode_ends` | `MCTranscodeEnds.cfg` | one invariant, two liveness properties | 161,995 |
| `transcode_wait` | `MCTranscodeWait.cfg` | a comment of the code: violated | |
| `services` | `MCServices` | types, five invariants, one invariant with an action property, liveness | 163,424 |
| `facade_seek` | `PlayerFacade`, `MCFacadeSeek.cfg` | a comment of the code: violated | |

What each shows:

- **media_queues.** `ImplementsChannels`: under a refinement mapping (the ring
  read from `head`, the queue as it is) every step of the two queues is a step of
  two FIFO channels or none. `NobodyOversleeps`: whoever sleeps still has the
  reason to; for the demux thread the reason is the bytes really queued, so that
  a counter that drifts is caught too. `InOrder`: from the screen to the demuxer,
  through hands and queues, the numbers of the packets increase. `PushReturns`
  and `StopReturns`: nobody is left behind.
- **demuxer.** `SeekOwed`, `RestsForAReason`, `StopHeard` relate the flags to
  where the thread is; the second also says how a player can be Playing with no
  demux thread at work: only a seek that could not reopen the ended media closes
  it under the loop. `StopEnds`: stop ends, except when its notification fell
  between the test and the sleep of the thread, which is the one way to hang.
  `SeekEnds`: a seek ends once a thread was ever started.
  `RewindOnlyAfterStaleStart` says exactly when a seek target can be lost.
- **player_seek.** A video stream, two seeks and a pause, no sink.
  `FlushedDecodersRest`: the two tests of `seekInProgress` and the decode mutexes together keep a decoder unfed between its flush and the
  answer of the demuxer. `OneSeekStale`: a packet can carry a newer serial than
  its data deserve, but by at most one seek. `GenerationsInOrder`: from the
  demuxer to the screen, through queues and hands, the serials do not go back;
  so the refresh thread, which drops late frames without a look at their serial
  (`VideoRefreshThread.cpp:126`), never shows an older generation after a newer.
  Not flagged by the first: a decode thread that is preempted between its check of
  the serial (`FFPlayer.cpp:647`) and its lock (656) across a whole seek feeds its
  old packet after it; the frame that results is dropped (666).
- **player_seek_end.** A media with video and audio, a sink, a play, and a seek at
  every moment including after the End. `SeekedPlaybackEnds`: a player that says
  Playing and is at rest - no call under way, and no thread with a step to take,
  which `AtRest` says with ENABLED - is in one of the named races. `SeekMissed`:
  an end of the media that the demuxer reports between its answer and the store of
  `demuxerDone` (`FFPlayer.cpp:473`), or a stream of which nothing was decoded after
  the seek, because its packets were thrown away before `seekInProgress` was
  cleared or there were none. `ClaimLost`: a decode thread that had passed the
  tests at 80-82 before the seek claims the end (85) after `seek()` has cleared
  `endTransitioning_` (445), and requests it (90) before `seek()` clears
  `endRequested_` (446): the claim stays, the request is gone, no later end can be
  claimed. `EndMissed`: the races of `player_end`. The tests being read one after
  another, the same thread may also store End too early, with the `demuxerDone` of
  before 473 and the `seekInProgress` of after 475: so `EndIsHonest` is about
  sessions without a seek. That a player does not go on for ever without resting is
  checked without seeks only (`player_end`).
- **player_end.** `ThreadsOwned`: on every path to the creation of threads the old
  ones are joined. `QuietWhenIdle`: nothing survives a stop. `EndIsHonest`: End
  is stored only when all was read, delivered, decoded and shown. `PlaybackEnds`:
  and then it is stored, but for three races named in `EndMissed` (a pause
  between the two tests of the end; a play after a pause in Prepared; End stored
  just before play or pause stores its own state). `StopReturns`: stop returns,
  but for the demuxer's lost notification.

- **transcode_job.** Two pictures, without audio, and any one trouble, at every
  point of the job. `ImplementsJob`: every step is a step of `TranscodeJob` or none,
  so that the film in the file never has a gap, a double or a swap, also after a
  cancel, a failure, a push into a queue that is shut; and success is answered for a
  whole film, or after trouble. (The input has no sound here: that half of the
  refinement rests on the theorem `JobIsKept`.)
  `CompletedIsOver`: Completed is stored only when all video stages are done and
  all is in the file; its four exceptions are what the code really allows (a
  cancel, a read error that is taken for the end, a reader that times out just
  before its queue is shut, an encoder that cannot be flushed).
  `CheckpointBehind`: a checkpoint counts encoded frames, and is ahead of the file
  by what is still in the last queue. `SomeStageMoves`: no deadlock between full
  queues, empty queues and the pause; `Ready` is what the guards of a stage's actions
  come to, written out so that it can be proved about (on the instances of both runs
  it holds exactly where the stage's actions are enabled). `ResultIsHonest`: a failed job is reported
  as a success only to a waiter that looks between the two stores of `setError`.
- **transcode_ends.** A packet of audio and one of video, and any two failures.
  `StagesEnd`: all six stages end. `WaitReturns`: and the waiting thread returns.
  `NothingLost`: as long as nothing failed, the packets in the file and on the way
  to it, through hands, codecs and queues, are the packets read, in order; for the
  audio up to the close of the muxer by the mux stage, which does not wait for the
  audio stage.

- **services.** `ServiceThreadsOwned`: who owns a thread, a source, an engine, a
  child process, at the points where calls return, and that an SDK player that
  says Playing has a loop, but after a reopening that failed. `RecordingWhole`: the
  file of a recording and its sound; a frame is missing before another only if
  queue, encoder or muxer failed on it, and sound is early only by what the
  resampler failed on. `UiIsTold`: what the GUI shows at rest is true and no
  seek and no event is lost, but for the seek whose position came between a load
  and a store. `FramesAccounted`: order of frames and balance of memory in super
  resolution, cooldown and manual disable of the breaker. `FilesWhole`: the
  `.hlv`, the `.part` and the output over crashes and failing file operations. It
  names the two ways in which the code fails to keep a film: a checkpoint whose
  removal failed vouches for the next `.part` (`rsmStray`), and after a failed
  `finalizeOutput` the checkpoint is deleted, so that the next job empties the
  `.part`. `RightKeys`: eviction and keystream position; not the width of the block
  index (32 bits), nor that there are two caches. `CallsEnd`: every call of the GUI
  into these services returns and what it started ends; the exceptions in the
  formulas are a child that closes its output and lives on, and the message loop
  that waits for a prompt.

### Where the code and its comments differ

- `demuxer_seek_target`: `FFmpegDemuxer.cpp:623-624` says that a seek's target is
  not overridden by position 0. It is, when the seek was executed while the
  `startReading_` of an earlier start was still set; `RewindOnlyAfterStaleStart`,
  proved for every instance, says that this is the only way.
- `player_stale`: `FFPlayer.cpp:635-638` says that a packet's serial was captured
  when the packet was created. It is captured at its delivery, so a packet read
  before a seek can pass as fresh after it.

- `transcode_wait`: `OfflineTranscodePipeline.h:127` says that
  `waitUntilComplete` blocks until all stages finish. After a `cancel()` they
  finish, no final state is stored (State::Cancelled is stored nowhere) and the
  wait does not end; the destructor of `OfflineVSRBridge` joins that thread.
- `facade_seek`: `PlayerFacade.cpp:721-724` says that seeking while paused cannot
  deadlock, as the audio queue is flushed first. It can: `seek()` holds
  `apiMutex` and waits without a timeout for the demuxer's loop, which reads on
  while the player is paused and takes `apiMutex` for each video packet (437).
  `stop()` and `open()` wait in the same way.

The models contain some more behaviour worth knowing, which no comment
contradicts: `start()` resets `cancelRequested_`, so that a cancel before it is
forgotten and, the queues being shut, the job completes without a frame
(`StartReset`); an audio stream that cannot be added leaves `audioStreamIndex_`
at 0, the video stream, and the audio stage writes there (`StreamOf`); audio
that comes after the mux stage has closed the muxer is dropped, and between
finalize and close it makes the muxer write a second header (`WritePacket`).

In the services, likewise without a run of its own:

- *Streaming.* `abort()` is "safe to call from any thread" (`StreamMuxer.h:42-44`)
  for memory, but a write or trailer that is due then goes to a closed
  connection. The pipeline never returns to Idle; the loop stores Completed or
  Cancelled over Failed; the packets of a refused audio stream go to stream index
  1 and are refused one by one until the write errors end the stream.
- *Extraction.* A second `resolve()` ends the program (a joinable thread is
  assigned). Between `waitpid` and the reset of `childPid_`, `cancel()` kills a
  process id that is no longer the child's. A child that closes its output is
  waited for without a timeout.
- *Speech recognition.* A failed engine is kept and used again as the cached one;
  `start()` may store Running over a fast worker's Error; turned off and on
  during a playback, the sound is not fed again before the next Playing event.
  `preloadModel`'s callback runs on the detached thread, not on the main thread
  as `ASRPipeline.h:106` says.
- *Recording.* A failed `start()` leaves Error, and `start()` demands Idle; frames
  in the queue at `stop()` are dropped; the last, short frame of sound is sent as
  a full one. A frame without a reference is lost while `push()` returns true
  (`RecordingFrameQueue.h:49-53`), as is one whose packet cannot be allocated or is
  not written (`RecordingPipelineV2.cpp:641-680`): the recording goes on and nobody
  is told. Sound after a failed `swr_convert` (`AudioEncoder.cpp:153-158`) is early
  by what was missed, for the rest of the recording.
- *Super resolution.* A probe may begin before the cooldown in the window between
  the swap of the state and the store of the opening time; a `reset()` of the
  memory budget while it is in use makes the counter wrap.
- *Message loop.* A seek may overtake an `open` or `stop` that was posted after an
  earlier seek. The prompt's timer of 300 s does not end its wait, and a
  destruction while a prompt is asked for is a deadlock.
- *Encryption.* A cancel before `encrypt()` has cleared its flag is lost. A
  `startEncryption()` after a cancel joins the worker, blocking the GUI. On POSIX
  a stale `.tmp` makes every later run fail until the cleaner removes it. `open`
  and the reopening after the end have a key cache each (`FFmpegDemuxer.cpp:118`,
  `:489`), so that a seek after the end of an encrypted film never finds its key.
- *Resume.* `completeProcessing` tests for `PlayerError::Unknown` where
  `InvalidState` is returned; with a torn checkpoint it does nothing, and
  `cancelProcessing` leaves the `.part`. Nobody looks at the result of
  `cleanCheckpoint` (`ResumeManager.cpp:166`, `:180`): a checkpoint that stays when
  its `.part` is gone is taken for that of the next one, and a job resumed from it
  leaves a gap. When `finalizeOutput` fails, `completeProcessing` deletes the
  checkpoint all the same, and the next job starts over on the finished `.part`.
- *SDK player.* A loop that detached itself may go on after `open()` has cleared
  `shouldStop_`, beside the new one. A player that is paused at the end of the
  media is never told the End. Audio is never played: the thread's queue is shut
  down when it starts, and nothing opens it again. A seek of a player that was
  paused at the end of the media opens them again: when that fails, the seek is
  answered as done and the player may say Playing without a loop. The probe of the
  reopening calls `onPacket`, which waits for the `apiMutex` that `seek()` holds: if
  it has read a picture, that is a deadlock (`FacSeekPrevails`). If a decoder fails
  on a probe's picture, the loop goes on with a media its own `stop()` has closed;
  no step of the model follows that.

### Bounds

- *Media of 1 to 3 packets.* One packet can be read, in hand and queued in each
  position relative to a seek (`player_seek`, video only, without a
  sink: frames stay in their queue); two are one of each stream (`player_seek_end`); three let the video queue fill, the demux
  thread block, and the audio stream end first (`player_end`).
- *Queues of length 1 (player), of 2 bytes and 2 frames (media_queues).* A queue
  of one is full after one push, so each blocking push is met; in `media_queues`
  packets have one or two bytes, so the byte limit is overshot as it is in the
  code, and two slots with five packets make the ring wrap twice.
- *Calls.* `Budget` bounds the calls of each kind: two seeks and a
  pause for the properties of a seek (what one may find of a seek before it); two plays, a pause and a
  stop for the end (so that an old session meets a new one). `MaxCalls` = 5 for
  the demuxer: open, seek, stop, and a second session. The bound on `start` is
  `startDue`, at most once per open or seek, as in FFPlayer.
- *Transcoding: two pictures and queues of one item* let a producer block in front
  of a consumer that has gone; codecs that are one picture behind make the flush
  matter. One trouble at a time where pause and cancel are among them, two where
  they are not: with a pause the state space grows eight times. Hence the runs do
  not show a pause that meets a failure (`WaitReturns` names what happens then:
  `Overwritten`), nor liveness after a cancel; `SomeStageMoves` excludes a
  deadlock there.
- *Services.* A recording of two pictures and one packet of sound with a queue of
  one and an encoder that holds one back, started twice; sound frames of two
  samples from pieces of up to three, nine samples in all; a stream of two
  packets, and the loop gives up after two write errors (ten in the code: the
  number only delays it); one retry of an extraction; a sound buffer of two,
  turned on three times; three frames through super resolution with queues of one
  and a breaker that opens after two slow ones; three clients of the memory,
  budgets of one and two, a counter modulo 8 (2^64 in the code: wraps are met as
  soon as more is released than counted); four calls on the breaker; four
  commands to the message loop; two publishers with two events and two
  subscribers; six calls of the SDK player; two chunks, three jobs of encryption;
  three frames of a resumed job; three films and two key entries, six calls;
  blocks of three bytes in a stream of ten. In each, every queue and buffer is
  full at some state, every counter passes its limit, and a second session meets
  what the first has left.
- *A seek and the End* (`player_seek_end`): one seek and no pause; a second call
  exceeds the time of a run. What one seek finds of another is in `player_seek`,
  where no refresh thread takes the frames: what that adds to `GenerationsInOrder`,
  and a seek of a paused player with a sink, are covered by the theorems only. What
  is proved has none of these bounds.
- *No symmetry* is used.
- `CHECK_DEADLOCK FALSE` in every cfg: a client that makes no more calls, a
  stopped player and a finished job are legitimate ends, and the lost notification of the demuxer
  is a deadlock that `StopEnds` and `StopReturns` speak about by name.

### Fairness

Weak fairness of each thread's steps: the operating system schedules every
thread that can run, a `pop()` times out, and the API thread continues a call it
has begun. No fairness on the calls themselves: the client need not call
anything. No fairness on spurious wake-ups, so that a lost notification is not
healed by chance. In `demuxer`, the fairness of the demux thread includes the
return of its callback: the consumer drains the queue; `media_queues` is where
that is checked (`PushReturns`). In `TranscodePipeline` weak fairness holds for each
stage (in "wait" it is called with a timeout, so it comes back by itself), for
the thread that runs the job and for a `cancel()` that has begun; pause, resume
and cancel themselves need not be called. In the services: weak fairness of each
thread they create and of a GUI call that has begun; none of a device that
delivers, a user who acts or answers, a child process that ends, a crash, a
second program. `MCServices` states it once for the first thread of whatever
service is explored, once for the second, and so on: a service has at most four.

## 4. The proofs

Each theorem holds for every value of the constants that its module's named
assumptions admit; the runs of section 3 show the same on one instance. The
assumptions say of a media that it has a packet, of a queue that it holds one
item, of a bound on calls that it is a number. Three say more:
`TranscodeAssumption` that the super resolution holds no picture back
(`Lag["vsr"] = 0`: it has no flush), `MediaQueuesAssumption` that packets are
numbered and frames are the packets they were decoded from, and `VramAssumption`
that there is a largest budget and that the clients are fewer than the width of
the counter.

Every proof has the same shape. The property is seldom inductive; a conjunction
`IInv` (in the services `RecIInv`, `EncIInv` and so on) of named parts is. TLC
checked each of them as an invariant on the instances of the runs before it was
proved. Then `Init => IInv`, `IInv /\ [Next]_vars => IInv'`, action by action,
and `IInv => Property`.

### The demuxer (`DemuxerProtocol_proofs`)

| theorem | says |
|---|---|
| `Invariance` | `Spec => []IInv` |
| `TypeCorrect` | `Spec => []TypeOK` |
| `SeeksAreOwed` | `Spec => []SeekOwed` |
| `RestIsSafe` | `Spec => []RestsForAReason` |
| `StopsAreHeard` | `Spec => []StopHeard` |
| `SeekTargetLostOnlyByStaleStart` | `Spec => RewindOnlyAfterStaleStart` |

That the thread owes an answer depends on there being a thread at all, which
depends on how `demuxState`, the thread and the calling thread go together:
`Session`, which also keeps the media of a session open until a seek has closed
it. At which program points a request can be pending is `Requests`; what
leads to the sleep on `commandCv_` is `Asleep`; and `Remembered` says that, as
long as no stale start has spoilt the session, the `seekJustDone` that must stop
the next rewind is set from the answer of the seek until the loop has consumed
the start that follows it. The action property follows from `Remembered` and the
lemma `OnlyTheGateRewinds`: at program point "loop" no other step moves the file
position.

### The queues (`MediaQueues_proofs`)

| theorem | says |
|---|---|
| `Invariance`, `TypeCorrect` | `[]IInv`, `[]TypeOK` |
| `SleepersHaveReasons` | `Spec => []NobodyOversleeps` |
| `PacketsInOrder` | `Spec => []InOrder` |
| `QueuesImplementChannels` | `Spec => ImplementsChannels`, the refinement of `MediaChannels` |

`Bytes` says that the counter is the `Load` of the queue; `Filled` that the `count`
slots from `head` hold frames; `Sleepers` ties the condition variables to the queue; `Ordered` says of
any two places between the demuxer and the screen that the numbers in the one are
below those in the other. The ring read from `head` is a sequence, and a push, a
pop and a clear of it are the append, the tail and the empty sequence: with that
each step maps to a step of the channels or to a stutter.

### The player (`FFPlayer_proofs`)

| theorem | says |
|---|---|
| `Invariance`, `TypeCorrect` | `[]IInv`, `[]TypeOK` |
| `ThreadsAreOwned` | `Spec => []ThreadsOwned` |
| `IdleIsQuiet` | `Spec => []QuietWhenIdle` |
| `DecodersRest` | `Spec => []FlushedDecodersRest` |
| `AtMostOneSeekStale` | `Spec => []OneSeekStale` |
| `GenerationsAscend` | `Spec => []GenerationsInOrder` |
| `EndsAreHonest` | `HasSink` implies `Spec => EndIsHonest` |

`Session` and `Stages` tie `playerState`, `demuxState` and the threads there are to
the point that the calling thread has reached. `Requests` and `Positioned` follow a
seek through the demuxer, so that the serial of a packet is at most the one seek
under way ahead of the position it was read from; `Near` and `Generations` carry
that from `onPacket` to the screen. `EndChain` follows the end of the media the
same way, from the reader to the last frame shown, in a session without a seek.
The hypothesis of `EndsAreHonest` is that of the claim: a player without a sink
decodes no video.

### Transcoding (`TranscodePipeline_proofs`)

| theorem | says |
|---|---|
| `Invariance`, `TypeCorrect` | `[]IInv`, `[]TypeOK` |
| `NoDeadlock` | `Spec => []SomeStageMoves` |
| `PacketsKept` | `Spec => []NothingLost` |
| `CompletedJobsAreWhole` | `Spec => []CompletedIsOver` |
| `CheckpointsLag` | `Spec => []CheckpointBehind` |
| `ResultsAreHonest` | `Spec => ResultIsHonest` |
| `JobIsKept` | `Spec => ImplementsJob`, the refinement of `TranscodeJob` |

Every packet is at one stage: in its hands, held back by its codec, or in the
queue in front of it. A step leaves these parts alone or passes one packet from
the front of a part to the end of the next (the lemmas `ReadFlow` to
`WriteFlow`); from that alone the packets are counted (`Backlog`, `Counting`), of
one kind (`Kinded`) and in order (`Kept`). What a step does to all else is
`StageStep`; `EndChain` then follows the end of the input from stage to stage,
and `Over` and `Telling` tie the state of the job to the last steps of the mux
stage and to `setError`.

`NoDeadlock` needs two facts more. `Supply`: until the job is being shut down no
stage is gone whose output queue is open, and from the error or the cancel on
somebody is on the way to shut all of them. `Loads`: what a stage has come to take, to
flush or to pass on is there. If no stage could go on, then the mux stage would
wait on an open empty queue, hence so would the encode stage before it, and so back
to demux, which could then wait only for room in the queue of the sound, after an
audio stage that `Supply` says is there (`NoneStuck`).

`JobIsKept` needs `Lines`, which, unlike `Kept`, holds for jobs that fail or are
cancelled too. What a stage drops because a queue is shut lies in the middle of the
line, and there are packets behind it: `FilmRuns` says that they never reach
the file, because each stage from the loss on is gone or its queue is shut, so that
what is written, together with what the stages not yet cut off still have, is a
prefix of what was read. `TrackRuns` is the same for the sound until a write of it
fails, `TrackRises` that it is in order after that, and `ReadIs` that what was read
of a stream is all of it so far. A prefix of that, and one packet more, is then the
one `Append` that `TranscodeJob` allows.

### The services

| module | theorem | says always |
|---|---|---|
| `FileServices_proofs` | `EncryptionSafety` | `EncTypeOK`, `EncOutputWhole`, `EncBusyHasEnd` |
| | `ResumeSafety` | `RsmTypeOK`, `RsmNoGap`, `RsmFilmKept` |
| | `DecryptionSafety` | `AesTypeOK`, `AesOwnKeystream` |
| `ControlServices_proofs` | `BudgetSafety` | `VrmTypeOK`, `VrmAccounts`, `VrmNobodyOversleeps` |
| | `BreakerSafety`, `DisabledStays` | `BrkTypeOK`, `BrkCoolsDown`; the action property `BrkDisabledStays` |
| | `MessagesSafety` | `MplTypeOK`, `MplSeekReaches`, `MplFlagHasMessage` |
| | `BusSafety` | `BusTypeOK`, `BusNothingMissed` |
| | `KeysSafety` | `KeyTypeOK`, `KeyRecentKept` |
| | `SoundSafety` | `AacTypeOK`, `AacTimeline`, `AacDrained` |
| `ThreadServices_proofs` | `RecordingSafety` | `RecTypeOK`, `RecQuiet`, `RecFileWhole`, `RecNoGap` |
| | `StreamSafety` | `StrTypeOK`, `StrOwned`, `StrShownIsOver` |
| | `ExtractionSafety` | `ExtTypeOK`, `ExtOwned` |
| | `RecognitionSafety` | `AsrTypeOK`, `AsrOwned` |
| | `ResolutionSafety` | `VsrTypeOK`, `VsrOwned`, `VsrInOrder`, `VsrReleases` |
| | `FacadeSafety` | `FacTypeOK`, `FacOneLoop` |
| `MCServices_proofs` | `ServicesTyped`, `ServicesOwnThreads`, `RecordingsWhole`, `UiTold`, `FilesAreWhole`, `KeysAreRight`, `FramesAreAccounted` | the seven properties of the run `services`, in this order: `ServicesTypeOK`, `ServiceThreadsOwned`, `RecordingWhole`, `UiIsTold`, `FilesWhole`, `RightKeys`, `FramesAccounted` |

`ServicesSteps` is what joins them: a step of `MCServices` is a step of one
service and leaves the others alone, so the conjunction of the fifteen invariants
is an invariant of the whole, although `MCServices` moves only the one that
`service` names.

Where an invariant has to say more than its property:

- *Recording.* The frames rise from the file through the encoder and the hand to
  the queue (`RecOrdered`, `RecOrder`); what precedes one of them went the same way
  or was lost (`RecUnbroken`); and these are the frames captured, but for the one
  about to be pushed (`RecSeen`).
- *Sound.* Every sample fed was sent, refused, kept or missed (`AacAccounted`), and
  the last frame sent ends before the stamp of the next (`AacStamped`).
- *Resume.* A checkpoint that is no stray vouches for no more than the `.part`
  holds (`RsmVouched`).
- *SDK player.* While the player says Playing or Paused and no call stops it, so
  does the demuxer, without a stop under way, and a loop is missing only when there
  is no media (`FacStates`).
- *Streaming.* Which events Qt still has to deliver for the state the recorder
  shows (`StrToldOver`), and which flags a `cancel()` has set at which point of
  the loop (`StrCancels`).
- *Event bus.* A subscriber has seen all that was taken and is not in the batch,
  and in the middle of a dispatch those before the cursor have seen one more
  (`BusSeenSoFar`); no subscriber is twice in the list (`BusDistinct`).
- *Key cache.* The stamps are below the clock and fall along the list of the files
  last used, in which none is twice (`KeyOrdered`, `KeyDistinct`): only then is the
  evicted one the last of the list.
- *Budget and breaker* are inductive as they are stated; how one more or one less
  client changes the number that use memory is a lemma over finite sets.
- *Decryption.* Which block of the keystream was made last and which is next,
  relative to the position (`AesEcbPlaced`, `AesCtrPlaced`), with division and
  remainder by a block length that is a constant.

### Induction

Sequences are summed and sifted by recursive functions (`Load`, `OfStream`,
`AacSamplesOf`). What they return for every sequence is proved by induction on its
length: the lemma `Induction` (a set of naturals that holds 0 and each successor
is all of them) comes from the library's theorem that the naturals are well
founded, and is used with the set of lengths for which the claim holds.

### Only model-checked

- All liveness: `StopEnds`, `SeekEnds`, `PushReturns`, both `StopReturns`,
  `PlaybackEnds`, `StagesEnd`, `WaitReturns`, `CallsEnd`. The prover has no rules for
  fairness.
- `SeekedPlaybackEnds`, an invariant that speaks of ENABLED.
- That `Ready`, in which `SomeStageMoves` speaks of the stages, is where their
  actions are ENABLED; `StagesEnd`, whose fairness is on the actions themselves,
  checks the same from the other side.
- The four runs that expect a violation: a counterexample is their result.

## 5. Not modelled

In the modelled components: time stamps and clocks, playback rate, volume,
stream information, telemetry and log output, and the data races on plain
pointers (`getFps` against `stop`).

Components without a module, and why:

- *Clocks and tempo*, *Rendering*, *Monitoring and logging*: real-valued
  arithmetic, signal processing, calls of the graphics and audio libraries, text.
  FFPlayer models a renderer as what takes what it is given.
- *Code that nothing runs*: the worker of `NcnnAIPipeline` is never started,
  `ModelManager` and `DecodeFallback` are never used, `RecordingPipeline` (V1) is
  superseded.
- *The decoders and hardware encoders*: wrappers of library calls; their callers'
  models have them as a choice of a frame, none, or a failure.
- *Ciphers, hashes, key derivation, the layout of the `.hlv` header, playlists,
  settings, themes*: arithmetic on bytes, or text.

Most of the lines in the repository are not the player's own: more than half are
the headers of the media library (`ffmpeg-7.1.1/include`) and other code it
brings along.

## 6. Plan

Done: the playback core, offline transcoding and the services are modelled; every
safety property that a run checks and the two refinements are
theorems, but for `SeekedPlaybackEnds`. What may come next, in this order:

1. The player over the queues: `FFPlayer`'s steps on its channels as steps of
   `MediaChannels`.
2. The audio renderer's ring and the list of subtitles, if a property about them
   turns up that is worth its run.

Modules to be proved about hold no RECURSIVE operator.
