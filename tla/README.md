# EduScope: specifications and proofs

EduScope is a lecture capture device. A service on the device (`core-api`,
TypeScript) takes the commands of a touch panel, keeps every lecture, recording,
upload and quiz in an SQLite database and drives the other parts: a *pipeline
manager* (Python) that runs GStreamer processes, AI services that transcribe and
write questions, a quiz service in the cloud, and a lecture server that receives
the finished recordings. The device may lose power at any moment, its network may
be down for days, and the processes restart independently of one another.

This directory holds TLA+ modules that model those parts, TLC configurations that
check them on small instances, and proofs checked by TLAPS. Every definition is
translated from the source under `src/`; `PROJECT.json` gives the lines each one
stands for, the runs, the hazards and the findings.

## 1. The system: components, state, operations, hard parts

Paths are relative to `src/services/`. "Modelled" is the state of this project.

| Component | State it keeps | Operations | Interacts with |
|---|---|---|---|
| **Lecture session** `core-api/src/modules/recording` | `lecture_sessions`, `recordings`, `recording_segments`, `recording_files`; in memory the active consumers and the races under way | start, pause, resume, stop; confirm and EOS races; failed starts; boot recovery (BR-1 to BR-8) | HTTP calls to the pipeline manager, its events by the bridge, `recording.state` on the bus |
| **Bridge** `recording/pm` | last sequence number, status | SSE loop with reconnection, status on connecting and by a poll, resync after a gap | event broker of the pipeline manager, domain bus |
| **Record consumer** `pipeline-manager/.../consumers` | state of each consumer, process | start, confirm, EOS stop, watch for exits | processes, event buffer |
| **Supervisor** `pipeline-manager/.../supervisor` | registry of processes, ledger on disk | start, stop with escalation, adoption of orphans | operating system |
| **Publishers** `pipeline-manager/.../publishers` | controller of each publisher with its restart budget | start, stop, watch, restart with backoff | supervisor, event broker |
| **Artifact pipeline** `core-api/src/modules/library` | `recordings.state`/`mergeState`, file rows, files on disk, queue in memory | probe, merge with retries and watchdog, ready, failed, manual retry | ends of lectures, ffmpeg, `artifact.ready` |
| **Upload queue** `core-api/src/modules/uploads` | `upload_jobs`, `upload_file_parts` | enqueue, drain, requeue, cancel, recover | lecture server, `artifact.ready`, deletions |
| **Deletion and retention** `library/delete.ts`, `storage/retention.ts` | none of its own | delete by hand, by age, under disk pressure | recordings, jobs, disk |
| **Channels** `core-api/src/modules/channels`, `relay` | activations, runtime of meeting and streaming; digest of the relay's targets | enable, disable, preflight, confirm race, restart with backoff; edits of the targets | pipeline manager, relay |
| **Quiz** `core-api/src/modules/quiz`, `quiz-service` | questions, publications, cloud session, answers, marks of staleness | send, publish, close, show; end of the session; stream of answers with replay | quiz service, projector consumer |
| **AI** `core-api/src/modules/ai`, `services/ai` | countdown, question sets, transcripts | countdown, generation with retries and timeout, probes, ingest | AI services over HTTP and SSE, `recording.state` |
| **Panel hub, settings, users, device, firmware, export** | rows of their own | one transaction per request, mostly | domain bus |

What is hard to get right, and so what the models aim at:

* *Commands race continuations.* The code of a command ends with an await; what it
  read before may be stale after: a stop during a pause that still waits for its
  EOS, a deletion during a merge, a cancellation during a transfer.
* *Events race answers.* The pipeline manager publishes an event inside the handler
  whose HTTP answer core-api waits for before it subscribes.
* *Restarts.* Memory is lost between two transactions; only rows survive, and only
  some components read theirs when they start.
* *Lost answers.* A call to a server took effect and its answer never came.
* *Two loops on one record.* A watcher, a probe or a poll sleeps while a command
  changes the record it will look at, or will not look at again.
* *Streams that break.* Frames are lost with the connection, and the next one has to
  go on from what arrived, not from what was sent.

The full list, each at its line and with the properties that cover it, is under
`hazards` in `PROJECT.json`.

For each component, what makes it correct: one lecture at a time, segments that name
their files and close exactly once, an outcome that tells what was captured
(sessions); a ready recording is playable, a deleted one stays so (pipeline); a done
job was delivered whole, exactly one lecture per job, nothing unsent is swept away
(uploads, retention); events in order, none twice, and a status for those missed
(bridge); one process of a publisher, watched while it is online, and none after a stop
(publishers); the state of a channel tells where its one attempt is, nobody else runs,
and the relay pushes while it is live (channels); one publication of a lecture open at a
time, which students can answer, and what is said to be shown is projected (quiz); every answer
arrives once and without a gap (answers); the countdown waits for exactly one generation
and always comes back (AI).

## 2. Modules

| Module | What it is |
|---|---|
| `RecordingSession` | the lecture session with its record consumers, its recovery, crashes and power losses |
| `MCRecordingSession` | instance of it for TLC, with symmetry of lectures |
| `RecordingSessionProofs` | theorems about it, checked by TLAPS |
| `LibraryConstants` | constants shared by the next two modules |
| `ArtifactPipeline` | machine 1b: the executor that probes and merges |
| `UploadQueue` | machines 3a and 3b: jobs, parts and the lecture server |
| `RecordingLife` | abstract: what becomes of a recording that is queued for upload |
| `RecordingLibrary`, `RecordingLibraryProofs` | composes the pipeline and the queue with deletion, retention and restarts; implements `RecordingLife`; theorems |
| `MCRecordingLibrary` | instance of it for TLC |
| `PmEventFeed` | abstract: what core-api is promised of the pipeline manager's events |
| `PmEventStream` | the event broker, its stream and the bridge that reads it; implements `PmEventFeed` |
| `PmEventStreamProofs` | theorems about it |
| `Publisher`, `PublisherProofs` | one publisher with its watchers and its processes; theorems about it |
| `RelayConfig` | the push targets of the streaming relay |
| `Channel`, `ChannelProofs` | a toggleable channel, with the relay it drives, its consumers and their events; theorems |
| `QuizCloud` | the quiz service as the device drives it |
| `QuizPublication`, `QuizPublicationProofs` | questions and publications of core-api, composed with `QuizCloud`; theorems |
| `AnswerDelivery` | abstract: the answers arrive in order, all of them |
| `AnswerSync`, `AnswerSyncProofs` | the stream of answers from the quiz service to the device; implements `AnswerDelivery`; theorems |
| `AiCountdown` | machine 2a: when to ask for questions |
| `QuestionGeneration`, `QuestionGenerationProofs` | machine 2b composed with the countdown; theorems |
| `MCPmEventStream`, `MCPublisher`, `MCChannel`, `MCQuizPublication`, `MCAnswerSync`, `MCQuestionGeneration` | their instances for TLC |

### 2.1 RecordingSession

*State.* `state`, `recording`, `segments` are the rows of `lecture_sessions`,
`recordings` and `recording_segments` (with the consumer a segment was opened for, an
annotation that only properties read). `active` is the executor's map of active
consumers; `launch` and `wait` are the confirm race of a start and the EOS races of a
pause and of a stop, by their phase: the HTTP call is out (`calling`), its answer
arrived and the race has subscribed (`racing`), the race is settled and its
continuation is queued (`eos`, `timeout`). `cons` and `target` are the pipeline
manager's consumers and the file each writes, as session and segment number. `events`
holds the events published and not yet delivered.

*Steps.* core-api is one event loop with a serial queue that it drains before it
handles new input, so an action is one run of that loop. A work item that makes
several transactions is one action per transaction, with the rest in `turn`: a crash
may come between any two. `Quiet` is the condition under which new input is handled.
The crash keeps the database and the consumers, the power loss kills the consumers
too. The events on their way are forgotten with core-api's memory: the broker replays
what it retains to the new process, but by then nobody waits for an event of a consumer
of before, and an event is only heard by a race for its consumer.

*Left out*, because it only refuses a command: the owner and the takeover, the guards
on storage, volume, provisioning and channel. Left out as data: paths, snapshots,
durations. The heartbeat and the recovery window are a choice between recovering and
finalizing. How the events travel, and restarts of the pipeline manager alone, are in
`PmEventStream`; here an event arrives early, late or never. A call to start or stop a
consumer may be refused or answered, or be lost, or its answer, while the consumer runs
(`LaunchLost`, `StopLost`). R-16 and R-18 of the design
document are not in the code.

### 2.2 ArtifactPipeline, UploadQueue, RecordingLibrary

*State.* `rec`, `merge`, `segment`, `output`, `reason` are the columns of `recordings`
and `recording_files`, `disk` is what exists of the files, `requests` and `pipe` the
executor's queue and the item it is in, by the await it waits at. `job`, `attempt`,
`part`, `remote`, `cleanup` are the columns of the upload tables, `drain` is the
scheduler's job and the call it waits for, `lecture` what the server holds. `relief`
is the selection of the sweep under disk pressure.

*Steps.* The domain bus calls its listeners at once, so the announcement of a ready
recording and the enqueueing of its job are one step (`Announce`), as are a deletion
and the cancellation of its job (`Delete`; in the code a failed job is cancelled in a
second transaction, and a crash in between leaves a job whose next drain ends
dead-letter for want of a file). Each await is a step; what lies between two awaits is
a chain of steps during which `Quiet` is false and nothing else is handled. The server
acts (`ServerCreates`, `ServerActs`) at some moment between a call and its answer, and
the call may then still fail (`Fail`) or core-api restart, which is how an answer gets
lost. `Restart` stands for crash and graceful stop alike: both leave the rows as they
are. A failed job may be tried again at any time, which stands for its backoff, and
due jobs are taken in any order.

*Left out:* sizes, checksums and checkpoints within a part; several segments of one
stream count as one file and the merged file and the deliverable as one output; the
half-written output of a failed ffmpeg, which the next attempt overwrites.

*Refinement.* `Life` maps a recording to what `RecordingLife` says of it: `queued` once it
has a job, `delivered` when the job is done and the server holds the lecture complete
(`HeldComplete`), `removed` by whom it was deleted. A deletion before there is a job is not
counted, unless it is by a sweep: the merge may still undo it, which is the finding below.

### 2.3 PmEventStream implements PmEventFeed

*State.* `base` and `sequence` number the events: the broker's counter starts again at 1
in each process of the pipeline manager, so `base + id` is unique, and the bridge, which
knows only the id, is exactly as confused as the code. `conn`, `replay`, `queue` and
`wire` are the handler of `GET /events`: the events it read from the buffer before it
subscribed, the subscriber's bounded queue and the frames on the connection. `loop`,
`ask`, `last` and `snap` are the bridge: where its loop waits, the two requests for the
status, the watermark and the status read on connecting. `heard` and `informed` are what
the listeners on the bus know; `late` marks what was published while a replay was sent.

*Steps.* One per await on either side. A slow reader overflows its queue and is cut off;
a watermark out of reach of the buffer is answered by a resync frame. The manager may
restart; while it lives the connection may break, with or without the frames in it, and a
request may fail (`Break`, `AskFails`), which the bridge treats alike: it backs off and
connects again with its watermark.

*Refinement.* `Feed` maps the variables by name: an event is dispatched (`Hear`), a
status is published (`Inform`), or the step is a stutter. Events published in the gap
between the replay and the subscription (`late`) are skipped by the code; the abstract
feed allows that as long as a later status covers them, which the poll brings about.

### 2.4 Publisher

*State.* `controller` is the `PublisherController` with its restart budget, `registered`
and `alive` what the supervisor knows and what runs, `watcher` the tasks that watch a
process, of which `exitTask` is the only one a stop can cancel, `command` the command that
holds the lock. `irregular` records a start that came while a watcher meant to restart
the publisher (`overlap`) or over a process that a failed start left (`leftover`).

*Steps.* A command is split where it awaits the confirmation or the kill; a watcher where
it waits for the exit, the backoff, the confirmation or the reaping. A process may die at
any moment. A process id is used again once nobody refers to it, and the lowest free one
stands for all. *Left out:* the sleep after a failed restart, and the event `stopped`.

### 2.5 Channel and RelayConfig

*State.* `record` is the `RuntimeRecord`, `attempt` where each launch waits (preflight,
backoff, call, race), `consumer` its process, `events` those on their way, `disabling` the
disables that wait for the pipeline manager, `open` the activations in the rows.
`RelayConfig` keeps the cached digest, the requests to the helper under way and what the
relay pushes to. `irregular` names the departures the properties exclude: `hasty` (a
disable of a channel still coming up), `overlap` (an operation of the relay during
another), `fault` (a lost event, a failed call).

*Steps.* The executor's serial queue makes one work item one action. The other channel
shares only the queue, and is not a second instance. *Left out:* audit entries and alerts.

### 2.6 QuizPublication and QuizCloud

*State.* `question`, `pub`, `lecture` and `recording` are rows; `jobs` is the serial
executor, with what each job read when the command came; `at`, `tries` and `orphaned` what
its head waits for; `display` what the projector shows and `unsure` whether a call took
effect that core-api believes failed. Of the service, `sessionOf`, `cloudSession` and
`cloudPub` are rows: each lecture has a quiz session of its own, and both the rule of one
open publication and the rows that a projector call takes back are of one session.
`awaited` and `reply` are the request the device waits for; `publishes` and `closes` count
the requests it gave up and that may still be handled, `endings` the lectures whose end
the service has yet to hear of. `closedLate` collects the publications that the service
closed for a publish given up earlier.

*Steps.* Commands read and are answered at once; their work runs later, in order, with a
step for each await. Each request to the service is an HTTP call of its own and waits for
the device's authentication before it takes its turn, so requests are handled in any
order: one given up long ago may come after those sent since. A request may be lost, which
is that it is never handled. A restart of core-api loses the queue.

### 2.7 AnswerSync implements AnswerDelivery

*State.* `answers` are the service's rows in the order of their numbers; `hub`,
`watermark`, `dirty`, `flushes` its `DeviceBatcher`; `stream`, `link`, `hellos`, `wire` the
connection; `rows`, `lastAnswerSeq`, `syncState`, `pubSync` the device. `draft` and `gone`
are of the questions: which publication's question can still be edited, and the options an
edit has removed, by the student who has selected one. `adopted` remembers the publication
that was open and stale when core-api restarted last.

*Steps.* A stream is opened, greeted with the device's number, answered with a replay in
chunks and then fed by flushes, each of which reads the database and sends after an await,
so flushes overlap. A new stream replaces the old one; it breaks, idles out, or either
side restarts. A batch that names a removed option fails its transaction on the foreign
key; nothing catches that, so core-api ends (`IngestFails`), and the service sends the same
rows on the next stream. Publications open one after another, which `QuizPublication` justifies.

*Refinement.* `accepted <- Len(answers)`, `delivered <- lastAnswerSeq`, and `barred` the
answers whose option is gone: what is promised without condition is the order, and that all
arrive is promised as long as none is barred.

### 2.8 QuestionGeneration and AiCountdown

*State.* `lecture` and `phase` are the recording as the bus tells it; `countdown`,
`session` and `heard` the record of machine 2a; `probing` and `probes` the probe timer and
the probes out; `alert` the row of the alert. `requests` is the generator's serial
executor, `at` and `attempt` its head, `sets` the rows with their drafts counted,
`endings` the ends of lectures queued at the orchestrator.

*Steps.* The timer runs while the countdown is armed and may fire at any time, so the
interval and what is left of it do not appear. A call is answered with some valid
questions, with none, or fails; it is tried again after a backoff or settles. Drafts are
disposed of at any time, in a transaction that the check of the set follows without an
await; core-api may end in between (`DisposedAtEnd`), and `cut` marks the set that is then
left ready without drafts. A restart keeps the sets and the alert. *Left out:* an exception
in a cycle, which the code logs and which leaves the countdown `generating`; the loss of
the boot recovery's announcement, if it comes before the countdown subscribes.

## 3. What is checked

All runs finish; `PROJECT.json` names, for each property of a passing run, the mutant of
the code that it rejects.

| Run | Instance | States | Shows |
|---|---|---|---|
| `session_safety` | 2 lectures (symmetric), 2 consumers, 2 crashes | 250 878 | the invariants of the session, and `OnlyALaunchRevives` |
| `session_liveness` | 1 lecture, 3 consumers, 1 crash | 305 455 | `StartingResolves`, `StoppingResolves` |
| `library_deletions` | 2 recordings and 2 lectures of the server (both symmetric), 1 stream, 1 restart, no merge retry, limits of 1 | 1 259 361 | `LifeKept` (refinement), `OnlyTheMergeRevives`, `OnlyTheTransferRevives` |
| `library_transfers` | 1 recording, 2 streams, 1 merge retry, limits of 3 and 2, 1 restart | 122 807 | `DoneMeansDelivered`, `ReadyMeansPlayable`, `TransfersEnd` |
| `pm_events` | buffer of 2, queue and wire of 1, 4 events, 1 restart of the manager, 1 break | 210 719 | `FeedImplemented` (refinement with fairness), `LoopNeverStale`, `EachHeardOrCovered` |
| `channels` | 1 restart of the budget, 2 launches, 2 lectures, 1 disturbance, 1 edit | 246 334 | `StateTellsAttempt`, `OthersGivenUp`, `PushedWhileLive`, `ComesToRest` |
| `publishers` | 3 processes, 2 watchers, a budget of 2, 1 binding or pruned attempt | 294 622 | `OnlineIsWatched`, `OneProcess`, `StopIsFinal`, `ComesBack` |
| `quiz_publications` | 2 lectures with a question each, 2 sends, 2 jobs, 1 other command or restart | 502 467 | `OneOpen`, `OpenIsAnswerable`, `ShowingIsDisplayed`, `SendSettles`, `EndClosesAll` |
| `quiz_answers` | 1 student, 2 publications, 2 answers, frames of 2, 3 streams, 1 edit | 837 831 | `NoGap`, `MarkOfOpenIsTrue`, `Delivered` (refinement with fairness) |
| `question_generations` | 2 lectures, 2 sets of at most 2 questions, 2 probes, 2 retries, 2 restarts | 276 151 | `GeneratingHasCycle`, `OneReady`, `DegradedIsProbed`, `GenerationSettles` |
| `library_delete_undone` | 1 recording | violation | `DeletedStaysDeleted` |
| `question_windows` | 1 lecture, 2 sets | violation | `WindowsFollow` |

*Why these bounds.* Two lectures are enough for an old one's late answer to meet a new
one; each start, resume or recovery takes a consumer, so three consumers are a start,
a resume and a recovery of one lecture; two crashes are a crash and a crash of its
recovery (the liveness run has one: that a second one is survived is a matter of safety). Two recordings are enough for the sweep to hold a stale selection, and for a
deletion of one to meet the merge or the transfer of the other. Two lectures of the
server are the one created and the one created again. A buffer of two with four events
puts a watermark inside, at the edge of and beyond what is retained; a queue of one
overflows at the second event. Two launches are an attempt and its restart, or an attempt
given up and its successor. Two watchers are the controller's and a forgotten one, three
processes a running one, a dying one and a new one. Two sends are a publication and the
one that closes it, or is closed by it late, in one lecture or in two. Three streams are one that breaks, one
that breaks after it has greeted, and the last; a restart of either side takes one. One
student is enough for the answers, because only their order and their publication are
looked at; a frame holds both or one of them. Two sets are one that is reviewed or
superseded and its successor, two probes one that is answered late. `CHECK_DEADLOCK` is
off: once the bounds of an instance are used up, nothing may be left to do.

*Fairness.* Weak fairness of what runs by itself: answers and timers, work already
queued, calls under a watchdog or a timer, the restart of core-api by the service
manager, the loops of the bridge and of the answers' stream, the sleeps of a watcher, the
steps of a generation. A call to the lecture server ends if only by failing: the runtime
gives up on a connection that is silent. The liveness of the streams needs a last
connection that does not break (`Spare`, `MaxBreaks`): one that breaks for ever delivers
nothing.
Nothing is promised of commands, of the failure of a process, or of a server's answer.
`EachHeardOrCovered` holds without the poll of the status, and says which events then
depend on it: those published during a replay, and those around a restart.

*Type invariants.* Each module states one. The runs of `RecordingSession`, `RecordingLibrary`,
`Publisher` and `AnswerSync` list it as well; for `PmEventStream`, `Channel`, `QuizPublication`
and `QuestionGeneration` the other properties were given its place. There it holds on the same
instances; all but that of `PmEventStream`, which is contained in the invariant proved, are
theorems. `SweepsKeepUnsent` of the library is in no run either: `LifeKept` contains it.

### Findings

* `library_delete_undone`: a merge brings a deleted recording back and has it uploaded
  (state-machines.md §2.1). `OnlyTheMergeRevives` and `OnlyTheTransferRevives` of the
  passing run show the extent: nothing but work already under way can do it.
* `question_windows`: a reviewed set is not counted when the window of the next one is
  computed, which then starts at the beginning of the lecture (Q-11).

### Other behaviours the models show

The models do what the code does, and more of what they show differs from the documents
than has a run. Where a definition is named, checking it as an invariant or a property of
its module reproduces the trace; where the documents promise nothing, the behaviour is
only described.

*Session.* An EOS event that arrives before the answer of the stop call is lost (R-08,
R-12; `EosIsHeard`). A start that times out leaves its consumer running (R-06;
`ErrorStopsConsumers`). The continuation of a pause takes an accepted stop back
(`StopIsNotUndone`). A start call, or its answer, that is lost leaves the consumer running as
well, and so does a stop call. The recovery pass runs among live commands (`boot-recovery.ts:73`;
`RecoveryNeverRaces`).

*Library.* A restart before the end of the merge, or a probe that cannot run, strands the
recording (INV-UJ-2, `merge-worker.ts:114`; `FinishedIsQueued`).

*Bridge.* The poll may publish a status older than an event already dispatched
(`PollNeverStale`).

*Channels.* Streaming disabled and enabled again before the helper has answered finds the
old digest cached, sends nothing, and ends live with no targets (INV-ST-2;
`TargetsBeforeConnect`). The end of a lecture does not switch a channel off, and a disable
is then refused until the next lecture. A disable in preflight, while starting or in a
backoff leaves an attempt that may switch the channel on again. A confirmation that comes
too late leaves a consumer running. A disable of a failed channel neither deactivates the
relay nor closes the activation. A lost `exited` event leaves the channel on.

*Publishers.* A failed restart consumes two of the three attempts, so a publisher is given
up after two restarts (pipeline-manager.md:132; `Restarted3Times`). A start during a
watcher's backoff gives two processes and two watchers; a failed first start leaves its
process registered and unwatched. These are the `irregular` cases of the properties. A stop
in a backoff publishes no `stopped` event.

*Quiz.* A question may be edited while its publish is under way, also when students can
answer it already (INV-Q-4; `LiveIsImmutable`); when the edit replaces options, answers to
the old ones violate a foreign key, core-api ends, and does so again at every replay. A publication is closed for the next
one before that is accepted (Q-31, Q-32; `ClosedForTheNext`). A draft sent twice, or
discarded while it is sent, ends `sent`, a closed one too. The projector can be given a
failed or unfinished publication (INV-QPUB-3). A publication that was closed while showing
stays on the projector after the lecture. A failed publication whose publish was handled
late stays answerable at the service, and closes there the one published after it, which
core-api goes on calling open. A row that an earlier lecture left `showing` stays so when
the next one projects, so that two rows are `showing`; only a call for the slides takes
back all of them (INV-QPUB-3). A second close overwrites the reason. A restart
leaves rows `publishing` or open and loses the queued end of the lecture. The end of the
cloud session is waited for without a deadline.

*Answers.* Overlapping flushes send an answer twice (`SentOnce`), which the ingest bears.
A publication that closes while stale stays marked until an answer of it arrives; after a
restart of core-api the open publication keeps its mark; one opened while the session is
stale is marked synced.

*AI.* A pause during a generation or while degraded is not noticed: the countdown is armed
in the pause and may fire (Q-07, INV-QS-3; `QuietWhilePaused`), or while the recording is
being stopped. A retry by hand from `degraded` leaves the alert and the probe timer until
the lecture ends. The alert survives a restart, and if the lecture ended meanwhile nothing
clears it. A generation is not cancelled at the end of the lecture (Q-09): its set becomes
`ready` afterwards, no one discards it (Q-17), and the next lecture's first generation waits
behind it. Q-17 leaves the drafts of a discarded set. A crash leaves a set `generating`, and one whose
last draft was just disposed of `ready` with none left.

## 4. What is proved

Each theorem holds for every value of the constants that satisfies the assumptions its
module states: bounds are natural numbers, sizes positive ones, processes and watchers
finite sets of positive numbers, "no such thing" no element of the set in question.

| Module | Theorem | Statement |
|---|---|---|
| `RecordingSessionProofs` | `TypeCorrect` | `Spec => []TypeOK` |
| | `Safety` | `Spec => []SafetyInv`, from which the next five follow |
| | `SingleLecture` | at most one lecture is under way (INV-LS-1) |
| | `SingleOpenSegment` | at most one segment is open, it is the last, and only while capturing (SEG-1) |
| | `HonestOutcome` | error means nothing was captured, completed means something was (SM-R-4) |
| | `FilesAgree` | a segment's row names the file its consumer writes, and no two consumers write one file |
| | `ProgressConsistent` | the work in progress agrees with the rows |
| | `EndedStaysEnded` | only the answer of a start call revives an ended lecture |
| `PmEventStreamProofs` | `FeedSafetyImplemented` | the stream implements the safety of `PmEventFeed` |
| | `LoopStatusFresh` | a status read on connecting is not older than an event heard |
| `RecordingLibraryProofs` | `TypeCorrect` | `TypeOK`: attempts stay within their limits, no call is made without a job |
| | `SweepsSpareUnsent` | a sweep deletes only recordings whose upload is done (INV-RC-4) |
| | `DoneIsDelivered` | a job that is done names its own lecture, complete with every part (INV-UJ-6) |
| | `ReadyIsPlayable` | a ready recording, never deleted, has its outputs (RA-03) |
| | `RevivedByTheMerge`, `RevivedByTheTransfer` | only the merge, or the transfer, under way brings a deleted recording, or a cancelled job, back |
| | `LifeImplemented` | the library implements `RecordingLife` |
| `ChannelProofs` | `TypeCorrect`, `StateIsTold`, `NobodyElseRuns`, `PushesWhileLive` | `TypeOK`, `StateTellsAttempt`, `OthersGivenUp`, `PushedWhileLive` |
| `PublisherProofs` | `TypesHold`, `NeverTwoProcesses`, `StopsAreFinal`, `OnlineStaysWatched` | `TypeOK`, `OneProcess`, `StopIsFinal`, `OnlineIsWatched` |
| `AnswerSyncProofs` | `TypeCorrect`, `GapFree`, `MarksTrue` | `TypeOK`, `NoGap`, `MarkOfOpenIsTrue` |
| | `DeliveryImplemented` | the stream implements the safety of `AnswerDelivery` |
| `QuestionGenerationProofs` | `TypeCorrect`, `CountdownHasItsCycle`, `AlwaysProbed`, `OneSetIsReady` | `TypeOK`, `GeneratingHasCycle`, `DegradedIsProbed`, `OneReady` |
| `QuizPublicationProofs` | `TypeCorrect`, `OneIsOpen`, `OpenCanBeAnswered`, `ShownIsProjected` | `TypeOK`, `OneOpen`, `OpenIsAnswerable`, `ShowingIsDisplayed` |

*RecordingSession.* `TypeOK` is inductive by itself. `SafetyInv` is the conjunction of the
session's invariants and is inductive relative to `TypeOK` only with `InProgressOK`, the
strengthening. It has three parts. `TurnOK`: a work item between two transactions has
nothing open and its session is where the item left it; without it `CompleteFinalized`
could complete a session that was never closed. `LaunchOK`: while a start call or its
race is under way the session is starting, or was ended by a recovery pass, and its
consumer writes the segment after the last; this is what makes the confirmation append
the right row. `TargetOK`: no consumer has been given a file beyond its session's next
segment, and none a file of the next segment while one is open; this is what makes the
next start call choose a file nobody has. The proof of each step has one lemma for each
kind of action (a request, a confirmation, a failed start, a closing, a recovery, a
crash), and the theorems combine them by temporal reasoning. `OpenOnlyWhileCapturing`,
`OutputsDisjoint` and `InProgressOK` are proved and in no run.

*PmEventStream.* That no event is heard twice needs a bound on what has been heard in two
numberings: the watermark counted from the connection's manager and from the present one
(`HeardOK`), because after a restart the same id names another event. The frames on the
way are of events published, and a resync is alone on its wire (`FramesOK`). A broken
connection loses the frames as a restart does and leaves the numbering alone, so one lemma
covers both.

*Publisher.* As long as no start was irregular, the only active watcher is the
controller's (`Cancellable`), so a stop cancels whatever could spawn; and a watcher that
waits to spawn or to reap has no process running (`Followed`), so spawning overwrites
nothing. A command under way tells who runs (`Commanded`). That an online publisher is
watched holds over a leftover process too, so it has an invariant of its own (`Attended`):
whatever may give a process up (a confirmation, a backoff, a reaping) finds the controller
without a pid, so the pid that is shown always came with its watcher.

*Channel.* Events and calls name their attempt by number, so `Numbered` comes first: an
attempt not yet launched has no consumer, and an `exited` on its way tells of a consumer
that is down. The rest holds in parts, each under the departures it excludes. Without a
hasty disable, one attempt at most is under way, the last, and only while the state shown is
preflight or starting (`Sole`); a disable that waits names an attempt that is done, so its
finish takes nothing from a later one. Without a fault as well, a refused attempt has no
consumer, and a disable that finishes has seen its consumer go (`Stopped`): this is what
makes `OthersGivenUp` inductive, and a stop that fails does not give it. For the
relay, the digest is compared before the call is awaited, so what is cached and what is
pushed differ while a call is under way: `Cached` says that without overlap and fault there
is one call at most, of the present digest, and that without a call the relay pushes what is
configured. `Wanted` adds that a channel that is launched is configured.

*RecordingLibrary.* Every step of the library is a step of the pipeline and a step of the
queue (`Projection`), so each half has its own invariant. Of the pipeline: a recording that
was never deleted is whole, which while it is worked on means that every stream already
passed has its output (`WholeUntilDeleted`); a deletion gives up that claim for ever,
because the work goes on over what was deleted. Of the queue: the job that is drained is
never one that ended (`Draining`), which is why one that is done stays done, and a job that
may be tried has an attempt left (`Budget`). `DoneMeansDelivered` needs what the rows and
the server's lectures have to do with each other at every moment of a transfer
(`Consistent`): the lecture named is the recording's own and is there unless it waits to be
deleted; it holds what the rows call uploaded; and no lecture of the recording, forgotten
ones included, holds what is not a part of the job. `Carried` is what the server has done and
not yet answered. The two halves meet in two places. `Swept`: what a sweep has still to
delete has been uploaded, and stays so. `Settled`: a recording with a job is ready or deleted
and the executor never takes it up again; a deletion waits while a recording is announced.
From these follows the refinement: an announcement queues, `markDone` delivers, a deletion
removes, and everything else is a stutter.

*AnswerSync.* `NoGap` is not inductive: a frame that starts above the device's watermark
would leave a gap. `Flow` says that each frame on the wire starts at or below what is
stored or what a frame before it brings (`Linked`), and that the next frame does too, from
the watermark of the batcher or from a flush that is reading (`Reach`). `Shape` ties
greetings, flushes and the hub to the newest stream. `Kept` says that no stored answer names
a removed option: a frame with one is refused as a whole, and an edit cannot remove what a
stored answer names.

*QuestionGeneration.* A request outlives the lecture it was made in; the requests are told
apart by its number, which no later lecture has, and a lecture that still runs while the
countdown is unavailable has none, because only a restart brings that about and it empties
the queue (`Lecture`). The window of a new set starts at the end of the one that is ready,
so even the types of the sets need that there is no other, and the two are proved
together: the set being worked on is the newest and of the lecture at the head of the
queue (`CycleOK`), and what makes it ready supersedes the others. A set whose last draft was
reviewed just before a crash stays ready without drafts (`cut`); it is still the one ready
set, and the next to become ready supersedes it.

*QuizPublication.* `OneOpen` needs that a send in the queue finds its publication as the
command left it, and that nothing else is open in its session once the closing before a
publish is done (`JobsOK`). Whether students can answer what is open depends on the requests
under way, which the service may handle in any order; so what counts is not which comes
first but which may be handled at all (`Served`): no close of a publication that is not
closed at the device, no publish of one whose turn has not come, and a publish that is
waited for only of the one being published. What is left that may close the open
publication is the end of its lecture and a publish given up, and `OpenIsAnswerable` names
these two. `Shown` says that the projector shows what the rows of its session say unless the
answer of the last call was lost.

*Only model-checked:* liveness (`StartingResolves`, `StoppingResolves`, `TransfersEnd`,
`EachHeardOrCovered`, `ComesToRest`, `ComesBack`, `SendSettles`, `EndClosesAll`,
`GenerationSettles`, and the fairness of the refinements of `PmEventFeed` and
`AnswerDelivery`), which is beyond the prover. Every other property of a passing run is a
theorem.

## 5. Plan

What is left, in the order of importance:

1. The ledger of processes and the adoption of orphans after a restart of the pipeline
   manager. Theorem: a process that is alive is in the ledger or in memory.
2. The quiz session's creation at the cloud with its retries, and the students' stream.
3. The ingest of transcripts and slides with the sequence numbers of its streams.
4. Firmware, export and alerts, if they show behaviour a test hardly reaches.
5. Abstract specifications of the lecture session (one lecture at a time, an ordered list of
   segments, an outcome) and of a channel, shown to be implemented as the library's is.

## 6. Not modelled

Pure input and output, configuration rows changed in one transaction per request
(settings, users, authentication), the panel hub, pipeline strings and overlays, the
recognition and generation of text, the web applications, and the legacy code base and
prototype, which are not part of the program. `PROJECT.json` lists each with its reason.
They are most of the repository's lines: the panel alone has twenty thousand, and the
generated API client, its types and the legacy code base as many again. Those hold no
protocol state, and a model of them would restate their text.
