# A TLA+ model of Converse Framework

Converse Framework is a Python library for voice conversations: audio frames
come in over a WebSocket, a voice activity detector (VAD) cuts them into
utterances, and each utterance runs through speech recognition (ASR), a language
model (LLM) and speech synthesis (TTS), whose audio goes back to a browser. All of
it is asyncio coroutines that share objects without locks, so what can go wrong
goes wrong between two awaits. The providers of models add threads that outlive
the calls that started them, and servers that others restart. In the browser a player, an echo guard and a
microphone react to the events that come back, to timers and to the audio clock.
The modules of this directory model that code, TLC checks them on small
instances, and TLAPS proves every safety property and the refinement for all values of
the constants, some under an assumption that is named with them. Liveness is left to TLC
alone.

Paths below are relative to the repository's `src/converse_framework`.

## The system

| component | state it keeps | operations | hard part |
|---|---|---|---|
| `SpeechPipeline` (`pipeline.py`) | per mode: messages, turn id, active TTS tasks, tail of their chain; the selected mode; the active provider bundle | text, audio and continued turns; `cancel_tts`, `clear_conversation`, `set_system_prompt`, `messages_for_mode`, `update_providers` | every operation suspends in the middle and re-reads shared state afterwards; TTS tasks outlive the turn that made them and await each other |
| `AudioUtteranceCollector` (`utterance_collector.py`) | pre-speech buffer, utterance buffer, `_recording` and its mode, VAD, config | `ingest_frame`, `update_vad_provider`, `update_config` | the flag that guards the swaps is set late and cleared early relative to the awaits |
| `SileroVADProvider` (`providers/silero.py`) | model, `_speaking`, `_silence_ms` | `process_frame`, `unload` | its speech state outlives its model |
| `WebSocketSession` (`session.py`) | the bundle, and the three objects above | `handle_message`, audio frames, `reload_providers`, `emit_status` | awaits every message; a reload changes three references one after the other, may be refused by the last, and meets other reloads of the application |
| `ProviderBundle`, registry (`registry.py`) | four providers | `unload_replaced`, building by name | the unload runs in the background, while the next reload may be on |
| `audio_utils.py` | counters of `AudioFrameStats` | parsing, metering, trimming, conversions | boundaries of the packet, of the trimming and of the sample range |
| `FasterWhisperASRProvider` | `_model`, `_load_error` | `load`, `transcribe_audio`, `unload` | threads of the default executor that outlive their timeout |
| `WhisperCppProvider` | `_endpoint`, `_last_error` | `transcribe_audio`, `check_status`, `unload` | a remembered endpoint, of a server that may be replaced |
| `AudioCpp` ASR and TTS | `_ready`, `_last_error`; files in `shared_dir` | requests, `check_status` | the file is the server's as long as the request lasts; late answers |
| `KokoroOnnxProvider` | model, phonemizer, cache directory, generation lock | `stream_audio`, `load`, `unload` | downloads in threads, cut off by errors and crashes |
| `PocketTtsProvider` | model, voice state, lock, queue per stream | `stream_audio`, `load`, `set_voice`, `set_quantize`, `configure`, `unload` | a thread that feeds a queue whose consumer may be gone |
| `LlamaCppProvider`, `openai_compat.py` | `_resolved_model`, `_stream_client`; `_ready`, `_last_error` | streams, checks, `unload` | a name and a client shared by all streams |
| events, transport, protocols, `provider_events.py` | none | constructors, serialization | none |
| `TtsAudioPlayer` (`js/tts-audio-player.js`) | audio context, start clock, coalescing buffer and its timer, sources | `onEvent`, `cancel`, `close`, flush timer | the drain it reports must cover what waits, on whichever context |
| `SpeakerEchoGuard` (`js/speaker-echo-guard.js`) | state, tail and fallback timer, whether the microphone ran | `onTtsEvent`, `release`, both timers | it must outlast playback that is scheduled later, and open again although events may not come |
| `MicFrameSender` (`js/mic-frame-sender.js`) | `_running`, sequence number, device stream, context, nodes | `start`, `stop`, frames | `start` awaits three times and can fail four |
| `BrowserVoiceClient` (`js/browser-voice-client.js`) | whether it listens | dispatch, `start`, `stop`, `close` | events that come while it does not listen are lost |
| `cuda_utils.py`, `examples/`, `benchmarks/` | none that matters | | |

How they interact: in the browser the client hands every event to the player and
then to the guard; the guard reads the player's `remainingMs` whenever it arms a
timer or one fires, and is the gate that every microphone frame passes before it
is sent to the session. On the server, the session's receive loop calls `handle_message` and awaits
it, so one session is a *serial* caller of both the collector and the pipeline;
the collector calls `cancel_tts` when speech starts (barge-in) and
`handle_audio_turn` when an utterance ends. An application may call the same
objects from other coroutines - a settings page that calls `reload_providers`,
`update_config`, `cancel_tts` - at any await. Both situations are checked.

A reload (`providers.reload`, or the application's) builds a new bundle, has the pipeline swap it and
schedule the unload of what it replaces, and gives the collector the new VAD.

What makes each component correct: the pipeline speaks the chunks of a mode one
at a time and in order, only those of the current turn, with the active
provider, and keeps histories in which replies answer messages; its cancellations
return and its chunks settle. The collector hands over utterances that are
uninterrupted, contain their onset, carry its mode and share no speech, from
buffers that stay bounded. The player plays without gap or overlap and is silent
after a barge-in; the guard lets no frame through while the speaker is heard and
opens the microphone again; the sender runs on one path, releases what it took,
and numbers its frames so that the server counts what was withheld. After a reload
session, pipeline and collector use the same bundle, and each replaced one is
unloaded once. A provider's calls end, fail for faults of their own only, and
do not act on what was remembered of a former state of the world: models, voices,
endpoints, names, files of a crashed process. Audio arrives as it was sent.

## Modules

| module | what it is |
|---|---|
| `SpeechPipeline` | the turn orchestrator, and its properties |
| `SpeechQueue` | abstract specification: one queue of chunks per mode |
| `MCSpeechPipeline` | instances for TLC: who calls what |
| `SpeechPipelineProofs` | type correctness, for any callers |
| `SpeechOrderProofs` | speech in order, for calm callers; for a serial one also the current turn, the histories, the refinement of `SpeechQueue`, the voice |
| `UtteranceCollector` | collector and Silero VAD, and their properties |
| `MCUtteranceCollector` | instances for TLC |
| `UtteranceCollectorProofs` | bounded buffers, whole utterances, speech that goes out once |
| `Timers` | `setTimeout`, relative to now |
| `TtsAudioPlayer`, `SpeakerEchoGuard` | player and guard, each with its own state and steps |
| `BrowserVoiceClient` | their composition under the events of a server and the calls of an application, and its properties |
| `MCBrowserVoiceClient` | instances for TLC |
| `BrowserVoiceProofs` | the guard outlasts the speech, a barge-in silences it, and it plays without gap or overlap |
| `MicFrameSender` | the microphone under the guard's gate and modes, with the server's frame statistics |
| `MCMicFrameSender` | instances for TLC |
| `MicFrameSenderProofs` | what is stopped is released, what runs has one path, what is withheld is counted |
| `Session` | the session with its bundles: calls, frames, reloads, background unloads |
| `MCSession` | instances for TLC |
| `SessionProofs` | every replaced bundle is unloaded once, and released; session, pipeline and collector agree |
| `FasterWhisper`, `WhisperCpp`, `AudioCpp`, `KokoroOnnx`, `PocketTts`, `LlamaCpp`, `OpenAICompat` | a provider each, or a pair of them for one server |
| `AudioWire` | the formats of `audio_utils.py`, along the way of the audio |
| `MCProviders` | one instance of each of these eight modules, side by side |
| `KokoroOnnxProofs` | the cache, the chunks and the types of Kokoro ONNX |
| `ProvidersProofs` | the theorems about the providers and the audio formats, as theorems about `MCProviders`; a section for each |

Operators called *Mutant* in the models are plausible bugs of the definition
that follows them. No specification uses them: putting one in the place of its
definition makes the property it is listed with fail, which shows that the
property says something about the code.

### SpeechPipeline

An action is what a coroutine runs between two awaits at which it can be suspended
on something other than its own event. `call[c]` holds the locals of the call
coroutine `c` is in: `pc` is the await it is at, `snap` the tasks a
`cancel_tts` gathers, `base` the prefix a continuation extends, `next` and `size`
the iterator over `_states` in `update_providers`.

| state | code |
|---|---|
| `order`, `sel` | keys of `_states`, the mode of `self.state` |
| `hist`, `turnId`, `tail` | `messages`, `turn_id`, `tts_tail` of each `_TurnState` |
| `chunk`, `st`, `voice` | the TTS tasks: what each speaks and awaits, its status, the provider it took and whether its model is there; `active_tts_tasks` is `ActiveIn` |
| `bundle`, `loaded`, `unloads` | `self.providers`, whose models are in memory, `unload_replaced` tasks not yet run |
| `strays` | providers whose model is being loaded by a thread that no task waits for any more |
| `late` | history: providers whose last unload ran while a thread was loading them |

A turn is `HandleTurn` or `HandleContinue` (up to the gather of `cancel_tts`),
`Gathered`, `Transcribed` / `EmptyTranscript` / `AsrFails` or `TakePrefix`, then
`FlushChunk` for each chunk `should_flush_tts` makes, `EndOfReply` or `LlmFails`, and
`CloseTurn`. `cancel_tts` alone is `CancelTts` and `Gathered`; `clear_conversation` is
`ClearNow`, or `ClearWaits`, `Gathered` and `ClearAfterCancel`; `update_providers` is
`UpdateProviders` and one `SweepGathered` for each mode with active tasks, then
`ScheduleUnload`; and `UnloadReplaced` is the background task. A TTS task takes
`BeginSpeaking`, `EndSpeaking`, `InheritCancel` (its predecessor was cancelled) and
`Unwind`.

A provider loads its model in a thread of the executor (`kokoro_onnx.py:210`, `pocket_tts.py:177`), and
`task.cancel()` does not reach a thread. So `BeginSpeaking` only takes the provider; the model is there with `LoadEnds`,
and a task that is cancelled before leaves a stray behind (`Unwind`), which sets the model
when it is done (`StrayEnds`), in use or not. That `unload` takes a lock that the
load does not (`kokoro_onnx.py:180`, `:288`) is why `UnloadReplaced` does not wait for it; Pocket TTS, whose streams
load under the lock, is one of the providers for which it would. A stream that raises
ends with its thread, so only a cancellation leaves strays. When a cancelled task awaits another one, asyncio
hands the cancellation on; that other task is in the same snapshot, and the model leaves this out.

Abstracted: a message is the sequence of the turns that wrote it; text, prompts,
latencies, metrics and event payloads are left out; when a chunk is flushed and
when a provider answers or fails is a free choice. Bounds: `MaxTasks` TTS tasks,
`MaxTurns` turns of a mode.

### UtteranceCollector

A frame is its number and audio a sequence of frames, so that a property can say
which part of the microphone an utterance is. A VAD window is speech (at or above the threshold), quiet
(below the negative one) or neither; an utterance is silent, faint or clear. `rx` is
where `ingest_frame` is suspended: at the VAD, in the barge-in callbacks, before
the gates, in the turn. `onset` and `voiced` are history variables. A frame is no
longer than a VAD window, as with the defaults (30 and 32 ms), and completes at
most one. Bounds: `MaxFrames` frames, `MaxTrim` frames trimmed at either end,
`MaxUpdates` operations of other coroutines.

### BrowserVoiceClient, TtsAudioPlayer, SpeakerEchoGuard

Time is counted in ticks, about the coalescing window each, and nothing but the clock of the
context is absolute: a timer is what it has left, `Off` when not set; a source
is the ticks until it starts and the ticks it plays. A timer that is due holds up
`Tick` until its callback has run, so timers are punctual, and timers due
together run in any order. The context's clock runs with them.

| state | code |
|---|---|
| `player` | `sampleRate` and `currentTime` of `_ctx`, `_nextStartTime`, `_bufferBytes`, `_sources` |
| `flush`, `tail`, `fallback` | `_flushTimer`, `_tailTimer`, `_fallbackTimer` |
| `guard` | `_state` |
| `listening`, `closed` | `_boundOnMessage` is attached, `close` was called |
| `stream`, `speeches`, `turns` | the server: what is spoken, and what may still come |
| `silenced` | history: no speech has followed the last cancellation |

An event is one action, which runs the player's handler and then the guard's:
`FirstChunk`, `Audio`, `SpeechCancelled`, `SpeechFails`, `TurnFinished`. The server
speaks one text chunk at a time, which is what `SpeechInOrder` shows of it; a
turn may finish before its speech does, because `turn.finished` waits for no task.
`EndsUnmarked` is a speech whose end no event tells.

Abstracted: samples are bytes, a rate the bytes a tick plays. The rate of a
context is the one asked for. Not modelled: an `AudioContext` of the
application's, `flush()`, stereo, and a client started again after `close`.
Bounds: `MaxSpeeches`, `MaxTurns`; `MaxAhead` ticks of audio ahead of the speaker;
`MaxAge`, from which on the start clock moves back in place of the
context's clock moving on, which leaves their difference as it is. The assumption
`TailDelay > Coalesce` and `Fallback > Coalesce + MaxCoalesce` is that of the defaults: 350 ms
against 80, and 15 s against 80 ms and the 0.7 s that 32 KiB play at 24 kHz; it
is in the model because options can break it.

### MicFrameSender

`start` is split at its awaits: `Start` up to `getUserMedia`, then `MediaGranted` or its
failures, `Resumed` or `ResumeFails`, `NodeReady` or `NodeFails`. Call `i` opens
stream and context `i`; `mic` is what the fields hold, `open`, `ctxs` and
`paths` are what the browser keeps open, and the hazard is that they part.
`Suppress` and `Reopen` are the guard's `_enterSuppressed` and `_resume` at any time,
`Frame` is a frame through `_sendFrame` and, if the gate lets it pass, through
`AudioFrameStats.update` on the server. `app` and `skips` are history: how the
application used the sender, and what was withheld. An application is `tidy` that
calls `start` and `stop` only when no start is on its way, calls `stop` after a start that
failed, and whose sender the guard has not started.

Abstracted: samples and the accumulator; the worklet and the
`ScriptProcessorNode` are one node. Not modelled: an `AudioContext` of the
application's, `setMode`, `setWebSocket`, a socket that is not open. Bounds:
`MaxStarts` calls of `start`, `MaxFrames` frames of a capture.

### Session

A bundle is a number, in the order of building, and `<<b, k>>` is its provider of kind
`k`; what a class name stands for, a stand-in, a mock or a provider with a model, is all
that counts of a provider. `calls[c].at` is the await at which caller `c` is:
"before", "cancel", "emit", "load" and "after" follow `_reload_providers` from
the first hook of the application to the last, "status" is `emit_status` and "turn" a turn of the
pipeline; `old` is the bundle that a reload read
before its first await, `new` the one it built, `rest` what is still to be
loaded. The caller `Socket` is the receive loop; it alone brings frames and turns.

| state | code |
|---|---|
| `bundle`, `active`, `vad` | `_bundle` of the session, `providers` of the pipeline, `_vad` of the collector |
| `recording` | `collector.is_recording` |
| `held` | providers that hold a model or an open client |
| `on` of a call | the bundle whose provider a thread loads while the call waits |
| `speech` | whether TTS tasks of the pipeline are unfinished and not cancelled |
| `strays`, `late` | as in `SpeechPipeline`: loads no call waits for, and history: providers unloaded during a load |
| `unloads` | tasks of `unload_replaced`, with the providers each has still to unload |
| `replaced`, `hist` | history: what was swapped out; whether calls overlapped, a reload was refused, an event of a swap could not be sent |

Frames and turns are not repeated from the other modules: a frame may begin or
end a recording, a turn uses its providers in order. The VAD loads on the event loop and the
LLM opens its client there; ASR and TTS load in threads. A call waits for one (`Waits`, `ThreadEnds`) until it
ends or, of an ASR, the wait times out (`TimesOut`: `faster_whisper.py:110`, `:147`), which leaves the
thread to itself. A turn hands chunks to TTS tasks and returns, and the threads of those begin when they
like (`SpeakChunk`) until the last of them has ended or was cancelled (`SpeechEnds`; a reload's sweep
cancels them all). Every emit and every hook may raise. Bounds: `MaxBundles`, `MaxStrays`.

### Providers

Each module models one provider with what it talks to (marked external: a server
that comes, goes and changes, the executor, the event loop), as many calls as the
constants name, and every await at which another call, a cancellation or a timeout
can come in between.

- `FasterWhisper`: the function that `wait_for` gives to `asyncio.to_thread` is queued,
  withdrawn if the timeout comes before a thread takes it up, and goes on otherwise;
  `fault` is a history variable, what may make a call fail.
- `KokoroOnnx`: a file is an inode with the pieces it has right, a path of the cache names an
  inode, and opening a path for writing empties the inode it names, which is how two threads
  come to write to one file. `Crash` ends the process and leaves the files.
- `PocketTts`: the thread of a stream takes the lock, ensures model and voice state,
  generates, and puts chunks and the end into the consumer's queue; a change of voice
  or quantization waits for the lock on the event loop, on which nothing runs meanwhile
  (`LoopRuns`).
- `AudioCpp`, `OpenAICompat`, `WhisperCpp`, `LlamaCpp`: requests and checks are split at
  their awaits, and what a check has found is noted when it ends. `Stumbles` is an answer
  that is malformed where the code catches nothing: the call raises and the status stays as it was.
  The history tells such failures ("malformed") from those that are noted ("failed").
- `AudioWire`: a sample is a number of two bytes, a float a multiple of
  `1/FullScale`; packing, parsing with all its refusals, the collector's joined
  frames, trimming and conversions are operators that compute on these numbers, with `Byte`
  4 in place of 256, so that the whole range of a sample is enumerated.
  Level and threshold are compared as energies, which avoids the square root.
  Whether the metadata of a frame is refused is a flag; the `int()` of its fields is left out.

Abstracted: texts, the contents of requests, latencies and formats of status
messages. Bounds: `MaxChunks`, `MaxPieces` of a stream, `MaxChanges` of a
configuration, `Moves` and `Swaps` of a server, `MaxFrames` of an utterance.
`MCProviders` lets one module at a time take part, since they share no state:
its state space is the union of theirs, and a property of one of them is checked as if it were alone.

## Runs

| run | instance | shows |
|---|---|---|
| `serial` | the receive loop alone, two modes, 2 tasks, 2 turns per mode | `SpeechInOrder`, `CurrentTurnOnly`, `HistoryPaired`, `VoiceIsActive`, and the refinement `ImplementsQueue` |
| `control` | two coroutines that stream turns, the second also reloads, cancels and prompts; calm (below), 3 tasks, 1 turn per mode | `SpeechInOrder`: what survives every other interleaving |
| `live` | one mode, two coroutines, 2 tasks, 2 turns, two bundles; TTS may hang, threads load on | `TypeOK`, `CancellationReturns`, `ReplacedUnloaded`, and `ChunksSettle` if TTS streams end |
| `collector` | two VADs, one for another sample rate, 9 frames; swaps, updates, unloads and failing callbacks at every await | `UtterancesWhole`, `SpeechHeardOnce`, `RecordingLive`, `BuffersBounded` |
| `browser_echo` | two sample rates, unmarked ends, the client stopped, started and closed | `EchoShut`, `SilentAfterCancel` |
| `browser_playback` | one rate, every speech ends with an event, the drain estimate never reaches zero | `Seamless`, `MicReopens` by the fallback, `BufferDrains` |
| `mic` | starts, stops and the guard at any time, both guard modes, three starts, four frames | `StopReleases`, `RunsOnOnePath`, `SkipsCounted` |
| `session` | the receive loop and an application that reloads and asks for statuses; three bundles | `UnloadedOnce`, `SessionAgrees`, `ReplacedReleased` |
| `providers` | the seven provider modules and the audio formats, each with two calls or more | `TypeOK`, `OwnFaultsOnly`, `AsksEnd`, `PublishedWhole`, `SpokenWhole`, `SpeaksSelected`, `LoopResumes`, `FileLife`, `ReadyEarned`, `ResolvedExposed`, `ClientsKept`, `RefusalsCease`, `FramesIntact`, `HeardAsCaptured`, `SpokenAsMade` |
| `cancel_silences`, `browser_unmarked`, `session_llm` | the smallest instance with the case | a sentence of the documentation that the code does not keep |

Why the bounds are enough. With one caller, two tasks are two chunks of one turn, or the
last of a turn and the first of the next, in the same mode or in another, and two turns per mode and two
modes give every such pair; longer chains are what `SpeechOrderProofs` is for. With two callers a third
task is the one that goes wrong when the link between two others is lost, so `control` has three. A
second coroutine adds every await as a point of interference; a third
would only repeat what the second does.

`control` is checked under `CalmSpec`, whose steps satisfy `Calm`: while a cancellation waits in its gather,
nothing selects another mode and no chunk is handed over in the mode whose tail it will reset. What
the code does without that is below. Everything else may happen at every await: turns of the other
coroutine that begin, continue and end, reloads, prompts, other cancellations.

For the collector, nine frames hold two
whole utterances with onset, hangover and the pre-speech overlap; the utterance limit, the
hangover, the pre-speech buffer and both gates are reached; the properties about whole
utterances are for those during which nothing was swapped, updated or unloaded. `PreFrames` is 3 with
a hangover of 2 windows, the largest buffer for which no speech is repeated.

In the browser three speeches are a former, a current and a next one, across a
cancellation and a change of rate; chunks are smaller and larger than a tick,
two or three of them fill the buffer, and the tail and the fallback are long enough to be
overtaken by each other and by the flush. `browser_playback` keeps one rate, because
`Seamless` is about one clock; with `MaxAge` 0 only differences of times remain. It
has a drain estimate that is stuck, the harder case for `MicReopens`: the tail timer
re-arms for ever, and the fallback has to do it. Player and buffer do not depend
on the guard.
Three starts are one that fails or is overtaken and two that meet.

In `session` threads are followed only as long as calls are serial and succeed, by the constraint `Followed`: only of
such behaviours does `ReplacedReleased` say something, the two other properties do not read what threads change,
and no action on anything else depends on it; so nothing is lost. `MaxStrays` is two: a thread
that a call gave up on and one of a task that was cancelled, of the same bundle or of two. The theorem needs neither.

Three bundles are one that is in use and two that replace it, one after the other or
in reloads that overlap; configurations with models, with a missing
and with a faulty provider give every outcome of building. For the providers two calls
of each kind are one in progress and one that meets it, and the server, the voice and the
model each have a former and a present value. In `AudioWire` the frames hold the least and the greatest
sample, and the audio every float from -1.5 to 1.5 in one piece, so that clipping and both ends of the scale are met.

`SkipsCounted` needs a sender that is not stopped: a restart numbers from zero, the
server then counts no gap, and what was withheld meanwhile is not counted. That
it never counts too much holds all the same, and is part of the property.

Deadlock is not checked for the session and the providers, whose calls may all
have been made. It is checked for the pipeline and for the browser client, whose clock
never stops; for the microphone it is not, because it may run out of starts; for the collector it is not, because the
microphone may stop.

### Fairness

`LoopFairness` is what the asyncio event loop gives: a coroutine or task whose
awaited future is done is run. It is weak fairness on each caller's steps after a
gather, on the steps a task takes by itself, and on the background unload. None is on a thread that
loads (`LoadEnds`, `StrayEnds`): it may hang.
Nothing in it lets a provider answer: in `live` a TTS stream may hang forever, and
cancellations return all the same. `TtsFairness`, the hypothesis of `ChunksSettle`, says that
a TTS stream ends; without it a chunk behind a hanging one does wait forever.

`Fairness` of the browser client is weak fairness on the clock, on each timer that
is due, and on the end of a speech that is streamed, however it ends: a provider's stream is
finite, raises, or is cancelled. No event is promised after that, and no turn
has to finish.

`Fairness` of `FasterWhisper` is the event loop again: the answer of a thread that has
ended, or a timeout, resumes the call. No thread is promised to end, and `AsksEnd`
holds with all of them hanging. That of `PocketTts` lets threads run, models end their
streams, and a call that waits for the lock get it: the lock is a `threading.Lock`, and
the thread that holds it needs nothing from the event loop. `RefusalsCease` needs
none: it says that refusals are not for ever, whether or not calls go on.

### What the documentation says and the code does not do

- `cancel_silences`: README "`tts.cancel` - cancels in-flight TTS synthesis"; only
  that of the selected mode (`pipeline.py:210`). One coroutine suffices.
- `browser_unmarked`: `speaker-echo-guard.js` on its fallback timeout, "if TTS is
  streaming but never marks `final`, force-resume after this duration to avoid stuck
  mic"; the timer is armed only once a resume is scheduled.
- `session_llm`: README "calls `unload()` on every provider that differs";
  `unload_replaced` leaves out the LLM (`registry.py:227`), whose `unload` is what closes the HTTP
  client of its streams (`llamacpp.py:53`, `:274`).

Met while modelling, each visible in a module's actions but not worth a run of its own:

- **A replaced provider that is loading stays loaded.** `KokoroOnnxProvider._ensure_model` takes no lock
  (`kokoro_onnx.py:288`), runs in a thread that cancelling the task does not stop (`:210`), and sets `_model`
  although `unload` has released it meanwhile (`:180`). One coroutine is enough: a
  turn hands over the first chunk, a reload cancels its task and replaces the bundle, the background unload runs, the thread
  ends; the replaced model is in memory and nothing is left that would release it. A faster-whisper model whose load timed out
  (`faster_whisper.py:110`) does the same: its `unload` finds nothing (`:269`), and the thread sets `_model` later
  (`:250`). README `:871` promises that what differs is unloaded, and so it is, but to no effect. `late` has
  these providers; without it TLC finds both traces as counterexamples to `ReplacedUnloaded` and `ReplacedReleased`.
- **A lost link of the chain.** `cancel_tts` resets the tail of whatever mode is selected after its gather (`pipeline.py:215`). A second
  coroutine that hands over a chunk in that mode meanwhile, or selects another mode in which chunks wait, makes it
  drop a tail that is still unfinished. The next chunk then waits for nobody: it is spoken before, or together with, the one that waits.
  Without `Calm`, `control` finds this: a turn streams, the other coroutine's `tts.cancel` gathers, the turn hands
  over its second chunk, the tail is reset, and the third chunk speaks while the second waits; with a second
  cancellation two voices speak at once.
- **Failures that leave "ready".** A RIFF answer that is damaged or not 16-bit PCM raises `ValueError` out of
  `wav_bytes_to_pcm_s16le` (`audio_cpp.py:328`, `openai_compat.py:492`), after the handler that would note it. A
  JSON answer that is no object raises out of a check (`audio_cpp.py:107`, `openai_compat.py:110`). The call fails
  and `status` says ready as before; `ReadyEarned` is about all other failures.
- `handle_continue` puts its reply in place of whatever message is last when the LLM has answered (`pipeline.py:383`):
  if a second coroutine has begun a turn meanwhile, that is another one, and if it has cleared the history, there is none.
- `clear_conversation` with a second coroutine clears the mode that was selected
  while it awaited its cancellation (`pipeline.py:202`); a turn whose LLM raises emits
  neither `turn.metrics` nor `turn.finished` (`pipeline.py:426`); `update_config` is
  accepted between the end of a recording and its gates (`utterance_collector.py:260`).
- A coalesced chunk that is flushed and played out while the tail timer runs gets no
  tail delay of its own, because the timer looks at the drain only when it fires
  (`speaker-echo-guard.js:300`). A `tts.cancelled` in the tail leaves the timers, which
  wait for playback that was discarded (`:266`). After a change of sample rate the
  start clock of the former context makes `remainingMs` report playback that does
  not exist, and the next speech start late (`tts-audio-player.js:213`).
- `start` does not notice a `stop` that fell into its awaits (`mic-frame-sender.js:297`);
  a start that fails after `getUserMedia` and is retried loses its first stream (`:270`);
  in mode "pause" nothing stops the sender, and `_resume` starts one that the application
  stopped (`speaker-echo-guard.js:260`, `:337`). Hence `tidy`.
- README `:884`, `:906`, "It cancels in-flight TTS synthesis by default (so the next turn picks up the
  new provider)": a chunk handed over while `update_providers` gathers speaks on with
  the old provider (`pipeline.py:183`). A mode that is added meanwhile makes the loop
  over the modes raise (`:178`), and an event that cannot be sent (`:189`) leaves the replaced
  bundle loaded. `utterance_collector.py:136`: a VAD swap is promised to be refused while an
  utterance is recorded, and is accepted in the awaits before `_recording` is set
  (`:144`). A reload that is refused by the collector is half done: pipeline and session have
  the new bundle (`session.py:315`).
- `protocols.py:66`: providers that are `managed_externally` are to be left alone; `unload_replaced`
  unloads them.
- `SileroVADProvider.unload` keeps `_speaking` (`silero.py:121`), so the next model begins within speech.
- faster-whisper: after a timeout that the thread overtakes, the model is there and the
  status still shows the error.
- whisper.cpp: a check that finds the server well sets the endpoint to `/inference`
  (`whisper_cpp.py:151`) whether it has it or not, and a request that fails there does not
  reset it.
- audio.cpp: a check asks twice, and an error of a request that falls between its two answers is
  cleared; the file is left behind if the progress callback raises, or the call is cancelled
  there, before the request (`audio_cpp.py:517`), or if it cannot be removed (`:561`, where the `OSError` is ignored).
- Kokoro: `_ensure_model` takes no lock; a barge-in during the first download starts a second
  thread, which empties and fills the same `.part` file, and one of them renames what both
  have damaged. `raced` marks such runs.
- Pocket TTS: `configure(voice=...)` answers `requires_reload=True` (`pocket_tts.py:327`), where README `:767`
  promises False. `load()` takes no lock, and a configuration that changes while it is at work leaves a voice
  state that does not fit (`mixed`). When the pieces of a stream fill its last chunk exactly, no chunk is marked final
  (`protocols.py:186` promises one), which leaves the browser to the fallback of its guard.
- `audio_utils.py:142`: positive samples lose one step on the way through floats, against the docstring (`:125`). A
  JSON frame with a field that is null raises `TypeError` (`:402`, `:421`), not the `ValueError` that the session
  answers; its empty mode stays empty, while that of a binary frame becomes the default one.

## Proofs

The theorems about the pipeline hold for all callers, operations, modes, bundles and
bounds that satisfy `ConstantsAssumption`, those about the collector for all lengths, VADs and bounds that
satisfy `CollectorAssumption`, those about the browser for all rates, sizes, delays
and bounds that satisfy `PlayerAssumption`, `GuardAssumption` and `ClientAssumption`, and of the microphone
`MicAssumption`. Those about the session assume nothing of its constants, those about the providers what
`MCProviders` names: a Kokoro model has files, and files come in pieces (`KokoroSizes`), a chunk of Pocket TTS
has pieces (`PocketSizes`), a thread is not called what nobody is (`NamedJobs`), the calls of llama.cpp are
finitely many (`LlamaSizes`), a frame has some length, a mode is UTF-8, and the number of values of a byte is even
(`WireSizes`); the rest is that bounds are numbers.

- `TypeCorrect` (`SpeechPipelineProofs`): `TypeOK /\ SwapLocals`. `SwapLocals`, that
  a call of `update_providers` past its guard holds real bundles, is what makes
  the type of `bundle` inductive. `TypeOK` has it that a tail is a task that was created, and that
  a task awaits an older one.
- `CalmlyInOrder` (`SpeechOrderProofs`): `SpeechInOrder` of `CalmSpec`, for any number of interleaving
  coroutines. The argument is that of `SpokenInOrder` below, which is the special case of one caller: `Calm` is all it
  needs to know about the others.

The next five (`SpeechOrderProofs`) assume `Serial`: one coroutine calls at a time, which is the
receive loop of a session without background tasks. The arguments fail with a second caller.

- `SpokenInOrder`: `SpeechInOrder`. The chain alone does not order speech, because
  `cancel_tts` resets the tail and a new chain starts beside the old one. `Unbroken` says that
  from an unfinished task on, the chain of its mode is unbroken and unheard: the tail is not older, and
  every younger task of the mode is unheard and has a predecessor that is not older either.
  `Snapped`, that a gather holds every unfinished task of the mode whose tail it is about to
  drop, is why a tail is dropped only when nothing is left to wait for.
- `SpeaksCurrentTurn`: `CurrentTurnOnly`. A call within a turn has the latest turn id of its mode
  (`LatestTurn`), since nobody else can begin one, and what it hands over therefore has it too.
- `HistoriesArePaired`: `HistoryPaired`. A history is `Sound`: replies follow the user
  messages they answer, and every message was written by earlier turns than the next one to
  come. The locals of a turn fit it (`Fits`): while the LLM streams, the last message is
  the one that the turn appended, or the one that it continues.
- `PipelineIsQueue`: `ImplementsQueue`, the refinement of `SpeechQueue` under the mapping that
  `SpeechPipeline` defines: the initial states map, and every step maps to a step of one queue or
  is not seen by any. The step in the way is `InheritCancel`, a task that ends because its predecessor was
  cancelled, which no queue can do. `LiveTails` (a tail that was dropped is about to be reset) gives
  `NoneInherits`: no waiting task awaits a dropped one, so it is never taken.
- `SpeaksWithActive`: `VoiceIsActive`, assuming also that reloads cancel the speech
  (`CancellingSwaps`) and that replaced bundles do not come back: some `rank` ascends with every
  swap (`Ascending`). A bundle that comes back while its unload is still due is unloaded
  while it speaks, which is a call of the application's making; the README of the code says
  nothing of it. The invariant follows the loop of `update_providers` over the modes: those before its
  position have nothing unfinished (`SweepsOn`, `ModesKnown`), hence at the swap none has; and
  what is still to be unloaded ranks below what is in use (`ReplacedRankLow`). What a task speaks with
  is its provider, and from the end of its load on a model that is there.

About the collector (`UtteranceCollectorProofs`):

- `BuffersAreBounded`: `BuffersBounded`. A buffer that is still recorded into has not passed the
  limit, whatever was swapped meanwhile (`BoundInv`).
- `SpeechGoesOutOnce`: `SpeechHeardOnce`, assuming that the pre-speech buffer holds at most one
  frame more than the hangover has windows (`ShortPre`). With the defaults it holds 15 frames of 30
  ms, and the hangover of 450 ms is 15 windows of 32 ms, rounded up. An utterance takes
  what is in the buffer, and the next one can repeat only what the pre-speech buffer
  still has of it. When the hangover has passed, that is quiet but for its oldest frame
  (`Quiet`, `OldestHeard`), and that one has left before speech can start again.
- `UtterancesAreWhole`, `RecordingsLive`: `UtterancesWhole` and `RecordingLive`. While nothing is swapped,
  reconfigured or raised, the buffer of speech is an uninterrupted stretch from before the onset on
  (`Stretch`), up to the latest frame while it is recorded into, and to the limit after (`Recorded`).

About the browser:

- `GuardOutlastsSpeech` (`BrowserVoiceProofs`): `EchoShut`, assuming that the drain
  estimate is the player's (`~Stuck`). An idling guard has nothing that plays or
  waits to (`Drained`). What makes it inductive: no source plays past the drain
  that `remainingMs` reports (`Covered`), also on a context that was replaced; while chunks wait
  the flush timer is armed (`Buffered`); and in the tail the flush comes before the
  tail timer, and the fallback after all that plays or waits to (`Timed`). The last
  is where `TailDelay > Coalesce` is used: with a shorter tail delay the guard
  would open before chunks that are still coalesced are heard.
- `BargeInSilences` (`BrowserVoiceProofs`): `SilentAfterCancel`, from the part of that
  invariant that is about the player, without `~Stuck`.
- `SpeechIsSeamless` (`BrowserVoiceProofs`): `Seamless`, assuming that all chunks have one rate; with two, the start
  clock of the former context leaves a gap, as said above. The sources fill the time from now to
  `remainingMs`, one at a time (`Tiled`, `Laid`): one that is appended begins where all others end, and as the clock
  moves on what has played out leaves from the front.

About the microphone (`MicFrameSenderProofs`):

- `StoppedIsReleased`, `OnePathRuns`: `StopReleases` and `RunsOnOnePath`. A tidy application is in one of four situations
  (`Tidied`): one start is on its way and has what it has acquired in the fields, it runs, it failed with something
  left that `stop` will find in the fields, or everything is released.
- `WithheldIsCounted`: `SkipsCounted`. The next number is that of the last frame received, plus one, plus what was
  withheld since (`Numbered`); after a stop it is less, never more.

About the session (`SessionProofs`):

- `ReplacedOnce`: `UnloadedOnce`. The invariant adds that a caller between
  its swap and its unload owes the unload of exactly the bundle that its swap replaced, that
  no two callers owe the same one, and that a bundle that is still to be
  swapped in has never been active; hence the count of tasks and debts of a replaced
  bundle is one.
- `ReloadsAgree`: `SessionAgrees`. While reloads do not overlap and none is refused or lost, one call at most is under way
  (`Alone`), and the bundle of each of the three objects follows from where it is (`InStep`): between swap and event
  the pipeline is ahead, and nowhere else.
- `ReplacedIsReleased`: `ReplacedReleased`. What a replaced bundle holds, or a thread is loading for it, has its unload still to come (`Pending`) or
  is late, also if a frame loaded it again after its unload began (`Covered`). No call waits for a thread of a replaced bundle, because
  a serial reload begins when no other call is under way, and no TTS task is left to begin one, because the reload
  has cancelled them; so a bundle that was unloaded, and not late, stays so.

About the providers and the audio formats (`ProvidersProofs`; the proofs about Kokoro ONNX are in `KokoroOnnxProofs`).
A behaviour of `MCProviders` is a behaviour of each instance, because a step of another one leaves its
variables alone.

- `CacheStaysWhole`: `PublishedWhole`. Inodes belong to one asset (`OfAsset`), nothing is downloaded that is there
  (`NoPart`), and without a race one thread writes what the temporary path names, and has
  written the pieces it got (`Alone`); so what it renames is whole.
- `SpokenStaysWhole`: `SpokenWhole` of both TTS providers. A Kokoro stream that has not ended holds
  exactly its last chunk back (`Unfinished`). In Pocket TTS what the consumer has passed on, what is in its queue and what
  the thread still holds follow one another (`Follows`, `CarriesAll`), and the queue has one end, which is last; none of it depends
  on `LoopRuns`.
- `VoiceStaysSelected`: `SpeaksSelected`. A stream that is at work has the lock (`PocketThreads`), and as long as no change came while
  `load()` was at work, model, voice state and what a thread has read of them fit what is selected (`Matching`). A
  change takes the lock, hence nobody who minds is at work (`NobodyMinds`).
- `FaultsStayOwn`: `OwnFaultsOnly` of faster-whisper. A thread that is past
  `_ensure_model` finds the model there unless a fault is noted for its very call
  (`ModelOrFault`), and one that failed had a fault (`FailedForFault`).
- `FilesLiveAndGo`, `ReadyStaysEarned`: `FileLife` and `ReadyEarned`. Which calls of audio.cpp have a
  file, and which have sent their request, follows from the await they are at (`AudioFiled`), and
  so does the provider they are of (`AudioKinds`). Of the OpenAI-compatible ones a kind is ready if a check
  found it so and nothing has failed since (`EarnedBy`). Answers that are malformed and noted nowhere are excepted in both.
- `AskedIsExposed`: `ResolvedExposed` of whisper.cpp. While no guess was made and no server replaced another, what is
  remembered exists, and a call that has tried `/inference` has learnt that it does not (`Found`).
- `ClientsStayKept`: `ClientsKept` of llama.cpp. Each open client is kept by the provider or by one call about to close
  it; so there is always a name for a new one, by the pigeonhole principle (`NewIsNew`).
- `FramesStayIntact`: `FramesIntact`. What was packed is parsed (`PackParses`); and of each of the messages that are not packed
  so something is wrong, or the length is not that of a frame (`MalformedIsNot`).
- `SpeechStaysAsMade`: `SpokenAsMade`. The two bytes of a sample give the sample again (`BytesKeep`), because division with a rest
  is unique (`Division`), and what a float becomes is monotonic (`Converted`).
- `CapturedIsHeard`: `HeardAsCaptured`. Joining is recursive, and that it makes a sequence of bytes takes induction over the frames
  (`FlattenedIsSeq`). It is done with sets in place of a formula that is a parameter: of some natural numbers one is the
  least (`Least`), so a set with zero and every successor has them all (`Successors`). A sample loses a step at most
  on the way through floats (`SamplesStayNear`); the rest is the same on both sides of the property.
- `TypesStayRight`: `TypeOK`. Each invariant above has the types it needs; what is left are bounds (`PocketBounded`, `WireBounded`,
  and `Bounded` of Kokoro).

Only model-checked, because liveness and fairness are out of the prover's reach: `CancellationReturns`,
`ReplacedUnloaded`, `ChunksSettle`, `MicReopens`, `BufferDrains`, `AsksEnd`, `LoopResumes` and
`RefusalsCease`; and the three sentences that the code does not keep, which have counterexamples.

## Not modelled

- Cancellation of a caller's own coroutine (a disconnect in the middle of
  `handle_message`, an unload that is cancelled while it closes its client), and emits of the pipeline that raise outside a TTS task: the transport's
  failure ends the session.
- Prompts, latencies, metrics, event payloads and logging; tensors, decoding options,
  phonemes and samplers.
- `status_only` and the other diagnostics of the registry, `make_tone_wav`, `flush()` of the
  player, `setMode` and `setWebSocket` of the sender: they keep no state that the
  operations above share, or repeat one of them.
- The mock and unavailable providers, provider lookup, `events.py`, `protocols.py`: stateless.
- `cuda_utils.py`: reads the file system once. The examples and benchmarks:
  demonstrations; the subprocess example leaves the process of a cancelled
  call running, which the library does not see.

## Plan

1. Done: the modules above, and a theorem for each invariant of the passing runs and for the refinement.
2. Next: larger compositions. The events that the pipeline sends as the stream of the browser client, and
   the session with the collector's own steps in place of `HearFrame`, each with the theorem that it implements
   what the smaller model assumes.
3. The safety half of the liveness properties: what a fair step decreases, as lemmas (a cancellation waits
   for fewer tasks, the drain of the player shrinks), up to the fairness argument itself.
