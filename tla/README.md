# FleetScope: a TLA+ model of runs, evidence, authority and viewers

FleetScope runs bounded agent scenarios, records what it observed as evidence, detects incidents in that
evidence, governs what may be done about them, and shows all of it in web pages, a cockpit and a pair of
session viewers. This directory models the parts of it that hold state and interleave, and the algorithms
those parts rest on. TLC checks the models on small instances; TLAPS proves, for every value of the
constants, all the safety and action properties that the passing runs check: those of the run controller, the live
page, the ledger, both workers, the Warden, the evidence stream, the live case and the session viewers.

Contents: [the system](#1-the-system) · [the modules](#2-the-modules) · [the runs](#3-the-runs) ·
[where the code does not do what it says](#4-where-the-code-does-not-do-what-it-says) ·
[fairness](#5-fairness) · [the proofs](#6-the-proofs) · [what is not modelled](#7-what-is-not-modelled) ·
[what could come next](#8-what-could-come-next)

Run everything from this directory: `tlc -workers 2 -config RunController_worker.cfg MCRunController.tla`
for a run of the table in section 3, `tlapm RunControllerProofs.tla` for a proof module. `PROJECT.json` maps
every definition to the lines of the code it models, and gives each checked property a mutant: a change of
one mapped definition, of the kind a plausible bug would make, under which TLC finds the property violated.
The mutants' definitions stand in the modules beside the definition they change, under a comment that
begins "Defect".

## 1. The system

    operator / live page ──POST /runs──▶ local API (one Node process) ──spawn──▶ worker (Python)
            ▲                               │   ▲                                   │
            └──GET /runs/:id, …/events──────┤   └────────── stdout lines ───────────┘
                                            ▼
    MCP client ─▶ mcp_server.py ──POST /runs/:id/events──▶ run ledger (one JSONL file)

    source events ─▶ canonicalizer ─▶ stream ─┬─▶ detector ─▶ Warden ─▶ Control Adapter ─▶ Runtime
                                              ├─▶ projector ─▶ case pages, approvals, story
                                              └─▶ scene compiler ─▶ manifest + transcripts ─▶ cockpit
    live decision gate ◀─▶ live proof panel ──append──▶ cockpit shell + renderer

    session file (JSONL, growing) ─▶ ADK adapter ─▶ terminal viewer ◀─view.json─▶ browser viewer

**Run controller** (`apps/api/src/routes/runs.ts`, `apps/api/src/runs/worker.ts`,
`packages/run-ledger/src/admission.ts`). State: the latest record of each run (state, terminal result,
model calls), the closure of each executor (`finished`, the summary line, the timer), the worker process
and its pipe, suspended request handlers. Operations: admit a run, launch its worker, read its lines,
close it when the worker exits or the timer fires, take batches from a client, die and be started again.
Node runs one handler at a time, up to its next `await`; what interleaves is everything between awaits.
Hard: two writers of one record, a record written back after an await, lines left in a pipe after the
timer, a crash that loses every executor. Correct when: one run is active at a time, what has ended stays
ended, the record says no more than the stored evidence, ingest is idempotent, and the slot is freed.

**Live page** (`apps/web/src/features/live`). State: the last capability, snapshot and page heard, the run
chosen, the view derived from them. A tick asks three questions one after another, ticks overlap, and an
answer may be as old as its question. Correct when: no mixture of answers claims a success that is not on
record, and the page's cursor does not go back.

**Run ledger** (`packages/run-ledger/src/ledger.ts`, `event.ts`, `apps/api/src/runs/store.ts`). State: one
file of lines, versions of run records and events mixed; nothing is cached, each read parses the file.
Hard: a write that stops in the middle of a line, a writer that numbers from 1 again, a poller with a
high-water mark. Correct when: the last version written is current, the first event under a sequence wins
for ever, a broken line costs no other line, a poller misses nothing.

**Worker: governed read** (`mcp_server.py`, `session.py`, `tools.py`, `faults.py`, `recovery.py`,
`attempts.py`). State: the attempt store (memory, or a file several processes share), the retries used,
the call's own events. Hard: two servers at once, a crash between the reservation and the read, a post that
is lost or refused, a mark that is stale. Correct when: the fault stops after its attempts, a retry follows
a recorded decision, the evidence is one whole reading.

**Worker: ADK runtime** (`adk_runtime.py`, `capture.py`, `agents.py`). State: the model budget, what was
seen of each agent, whether a read succeeded, the event stream. Hard: the timer between a tool's answer
and its event, an exception anywhere, the order of delegation, errors and answers.

**Warden** (`packages/warden/src/policy.ts`, `intervention.ts`). State: a Map of executed interventions;
interventions and evaluations are values their callers keep. Hard: the same value submitted again while
the first call awaits the adapter, evaluations used after the budget they saw is gone, a process that dies
between request and acknowledgement. Correct when: one id reaches the adapter once, an outcome is final, a
success comes from the Runtime, nothing unauthorized is requested, the attempt budget holds.

**The evidence stream** (`packages/canonicalizer`, `projector`, `warden/src/detector.ts`,
`scenario-compiler`, `apps/web/src/features/story`, `apps/web/src/lib`). State: the canonical stream of one
case; everything else is a pure function of it. Hard: late, duplicated and conflicting deliveries, two
orders of time, windows and thresholds, ids that tie events together without an order, several readers
that each say in their own way who must act and where things happened.

**Live decision and cockpit** (`apps/api/src/live`, `apps/web/src/lib/live-proof.ts`, `features/cockpit`,
`packages/domain/src/cursor.ts`, `crates/fleet-cockpit`). State: a counter per case, one awaited model
call, the page's stream, the shell's cursor and manifest, the renderer's timeline and playhead. Hard: two
copies of one position, moved by an operator, by playback, by a poll each frame and by an append.

**Session viewers** (`crates/fleetscope-cli`, `agent-viewer-core`, `agent-viewer-render`,
`agent-viewer-web`, the viewer page). State: a file that grows, is torn and is started over; a timeline in
each viewer; one sidecar file both overwrite. Hard: counts of what was delivered, a file read between two
halves of a line, a manifest older than the timeline, stamps in milliseconds.

**Everything else** (platform adapters, fixtures, dashboard, page animation, scripts, deployment) is listed
in `PROJECT.json` with the reason it is left out. The hazards these parts are exposed to, each at its line
and with the properties that watch it, are there under "hazards".

## 2. The modules

| module | models | abstract counterpart | proofs |
|---|---|---|---|
| `RunController` | the API: admission, executor, ingest route, crash | `RunLifecycle` | `RunControllerProofs` |
| `LivePage` | the live page, composed with `RunController` | | `RunControllerProofs` |
| `RunLedger` | the ledger's file, its readers, the poller | `LedgerView` | `LedgerProofs` |
| `GovernedRead` | the governed read in its two programs | | `ReadProofs` |
| `AdkSession` | one run on the ADK | | `AdkProofs` |
| `Warden` | policy and interventions | | `WardenProofs` |
| `Canonicalizer` | order, duplicates, appends (operators) | | `CaseStreamProofs` |
| `Projector`, `Detector` | the state of a prefix; the four detectors (operators) | | `CaseStreamProofs` |
| `AuditExport` | the export of a prefix and its verification (operators) | | `CaseStreamProofs` |
| `SceneCompiler` | the renderer's session and the manifest (operators) | | `CaseStreamProofs` |
| `CaseScene` | what every page of a case is computed from: stream, projection, scene | | `CaseStreamProofs` |
| `EnterpriseStory`, `CaseViews` | the claims and the pages of a case (operators) | | `CaseStreamProofs` |
| `CaseStream` | a stream that grows batch by batch under all of these | | `CaseStreamProofs` |
| `LiveCase` | the gate, the panel, the shell and the renderer over such a stream | | `CaseStreamProofs` |
| `AdkProjection` | a session file as viewer events and wire lines (operators) | | `FollowProofs` |
| `SessionFollow` | the watcher of a growing session file | | `FollowProofs` |
| `PairedViewers` | two viewers and their sidecar | | `PairedProofs` |

`MC<Module>` gives a module values TLC can enumerate. `CaseInvariants` holds what `CaseStreamProofs` says of a
stream, a scene and a page: the parts of the inductive invariants.

### RunController and LivePage

An action is one stretch of a handler between awaits. `StartRun` is the whole of `POST /runs` from the
parsed body to the launcher's await: `admitRun` looks at the slot and at the two budgets and puts the
record in one turn, so it is one step. `LaunchSucceeds` and `LaunchFails` are the child's `spawn` and
`error` events. Node delivers them before it serves any further I/O, which is why no request finds a run
whose launch is pending (`exec[r].pc # "starting"` in `PostBegins`). `ReadEvent`, `ReadSummary` and
`WorkerCloses` are the executor's line handler and the child's `close` event, which comes when the process
is gone *and* its stdout was read. `TimerFires` kills and finishes. A posted batch is two steps,
`PostBegins` up to `await c.req.json()` and `PostCompletes` after it, and the record the second puts back
is the one the first read. `Crash` loses executors, timers, pipes and handlers and keeps the records;
`BrokenCloses` is the crash the code brings on itself when a launch fails (section 4). The ledger is the
view its readers have of it; `RunLedger` shows that the file implements that view. A worker's events are
`model_call`, `run_end` with an outcome, and `step` for all others, since the controller looks at no others.
`RunLifecycle` is the promise: a run takes the one slot, may start running, and leaves it once for good.

`LivePage` adds the page to that server. A tick (`TickBegins`) holds the stage it has reached and the answer
the server gave when it was `Served`; `CapabilityArrives`, `RunArrives` and `EventsArrive` are the
continuations of the page's three awaits, in any order across ticks; `Lost` is a request that fails.
`Derived` is `deriveLive`, the whole cascade of the view.

### RunLedger

`file` is the list of lines, `tail` how it ends: with a newline, inside a line (`fragment`, which no reader
parses), or with a whole line that lacks its newline (`unterminated`, which every reader parses). `Put` and
`Store` are `appendFileSync` onto whatever is there; an append does not look at the end of the file, so it
completes a fragment into a malformed line and joins an unterminated one into a malformed line.
`PutFails` and `StoreFails` are writes that stop, `WriterRestarts` a writer that numbers from 1 again, `Poll`
is `GET /runs/:id/events?after=`. `LedgerView` is the promise to readers, stated of lines with their newline.

### GovernedRead

One process is a program counter over the steps of a call: find the run, read the mark, emit the call,
`CountAttempts` and `AppendAttempt` (the two halves of `AttemptStore.reserve`), `InjectFault` or `Fetch`,
`Decide`, `Publish`. The program is chosen once: the MCP server buffers a call's events and posts them at the
end, the pure worker prints each at once. `mcp_server.py` handles calls one after another, so a caller is a
process, and two callers are two servers. The API is its ingest route on one run (`Ingest`), with the 409
for a run that has ended in `Publish`. `WorkerStores` is the API's own worker writing to the same run, which
is possible because `/runs/active` does not look at the driver.

### AdkSession

ADK is external and modelled by what the worker sees of it: the runner asks before each model call, runs
one agent at a time, performs the calls a model answers with, and yields an event per step. `AskModel` is
`before_model`, the absorbing actions are the cases of `_absorb` and `_absorb_part`, the closing one is
`_close`. The timer and exceptions may strike at every step, also between a tool's answer and its event.

### Warden

`held` and `decisions` are the values callers have; any of them may be submitted at any time. `Execute` is
`Warden.execute` up to the adapter's await, `RequestRejected`, `RequestAcknowledged` and `Observed` its
continuations, `Redeliver` its early return for an id it knows. `Restart` loses the Map.

### CaseStream and what reads a stream

A source event is a record: a key, an instant and the *spelling* of its time (the code compares both, in
different places), a type, and the ids it carries. `Deliver` is `canonicalizeAppend`; the state is the
stream, what was delivered and what was refused. All readers are operators on the stream: `project` folds it
as `project.ts` does, `detectIncidents` is the detector, `compileZoetropeScene` produces the slots of
every transcript and the manifest, `validateRenderManifest` checks that manifest as the panel does,
`enterpriseStory` proves the four cards and lays the proof path, and `CaseViews` says what the pages say:
`nextAction`, `caseAttention`, `answerCaseQuestions`, `agentTree`, `caseRail`, `incidentViews`, `demoPhases`,
`approvalRows`. `AuditExport` builds the document of a prefix and verifies it; a digest is what it is taken of.
Wording is left out: an answer is the position of the event it rests on.

### LiveCase

The gate's counter is taken before the awaited call (`Admitted`) and given back by nobody (`Decided`,
`DecisionFails`); `ApiRestarts` forgets it. The panel's `Clicked` … `EvidenceAppended` are `run()`; what it
hands on is `planAppend`, which canonicalizes, compiles and projects the extended stream and refuses it if
any of them complains. The renderer is a timeline with a playhead (`Sought`, `Advance`, `Appended`), the
shell a cursor with a manifest; `Poll` is the shell's look at the renderer once a frame. `Degrade` is the
renderer that does not load, `Reload` the page loaded anew. A renderer mounts only with a timeline its
manifest accounts for (`scene.rs:181`), and an append moves the playhead of a renderer that rides the edge only if the
timeline has an item to rest on. Items are handed over in the order of their times (`InTime`), which is why the manifest's
counts and the timeline's places have to agree.

### SessionFollow and PairedViewers

`AdkProjection` is the ADK adapter: agents are found in a first pass, spawn lines are placed, records sorted,
and `Wire` forms compiled. `SessionFollow` has the file, the viewer with its lines by transcript, and the watcher
with its counts by transcript; `Heads` is what the first lines of a wire are made of, the root and the session's name;
`PairedViewers` has two viewers, the sidecar and its clock. A viewer's position is an event of a timeline in
which agents without a line stand first; `seek_to_fraction`, `fraction_for_playhead` and `playhead_sequence` do
the arithmetic of the renderer and of the manifest, with their different counts. The browser's poll and its
write are split at their awaits (`PollReads`, `loadLocatedSession`, `applyViewState`, `refreshShell`;
`WriteCaptures`, `WriteLands`); the terminal does each in one turn.

## 3. The runs

| run | instance | checked | distinct states |
|---|---|---|---|
| `ctl_worker` | 2 runs, worker driver, 3 sequence numbers, 1 model call each, budget 1, failing launches, 1 crash | `CompletedHasItsEnd`, `CallsMatchEvidence`, `BudgetHolds`, `SlotInvariant`, `ImplementsLifecycle`, `SlotIsFreed` | 862 561 |
| `live_page` | 2 runs, MCP driver, 1 client, 3 batches, 2 numbers, 2 ticks in flight, 1 crash | `SuccessShownIsRecorded`, `ShownCursorAdvances`, `FinishedStaysFinished`, `ReplayStable` | 2 033 420 |
| `ledger_file` | 2 runs, 2 versions each, 2 events, 4 lines, one poller | `CutCostsOneLine`, `NothingSkipped`, `ImplementsView` | 53 964 |
| `read` | 2 MCP servers and 2 worker events, or the pure worker; 2 faults, 7 retries, 1 crash | `FaultsBounded`, `EvidenceIsWhole`, `InterventionFirst` | 294 142 |
| `warden_flow` | 1 incident, 2 attempts, budget 1, 3 proposals, 1 restart | `AtMostOnce`, `SuccessIsAuthoritative`, `BudgetIsHard`, `OutcomeIsFinal` | 473 504 |
| `adk_run` | 6 model calls, 1 controlled fault | `RecordIsComplete`, `SuccessIsEvidenced` | 920 |
| `case_stream` | 7 sets of arrivals, 5 deliveries each; 3 recordings, whole or broken in one place, and late arrivals, one of them a second request | `SplitIsWhole`, `SuccessHasItsReceipts`, `BlockedUseIsCaught`, `FindingsAreExact`, `TimelineMatchesManifest`, `ClaimsPersist`, `ClaimsAreProven`, `OperatorIsAsked`, `PointersLandHome`, `ExportsStand` | 17 353 |
| `case_live` | 5 recordings, 2 decisions, 1 API restart, 2 reloads | `CallsBounded`, `InStep`, `SettledTogether`, `NotYanked` | 192 104 |
| `follow` | 3 records of 4 kinds, torn lines, 1 rotation | `TailIsWhole`, `SpawnFirst` | 101 678 |
| `paired` | 2 sessions, 2 acts of the operators, 3 time stamps | `Paired`, `Converged` | 3 825 809 |
| `adk_unread` | as `adk_run` | `SucceededMeansRead`: **violated** | |
| `seek` | one session with an agent that has no line yet, 1 act | `SeekRests`: **violated** | |

**Why the bounds are enough.** Two runs are what it takes for one to meet a slot another holds; three
sequence numbers hold a call, a step and an ending. Two ticks are what it takes for answers to cross. Four
lines hold a version, an event, a torn write and what follows it. Two servers are what it takes to race
on the attempt file; two faults and seven retries exceed what one call may use. Two attempts and a budget of one reach
the first attempt over the budget. The detectors look at thresholds of two inside windows of three, so a
stream of five is long enough for a burst to begin, to leave its window and to begin again. The three
recordings in `MCCaseStream` are shapes the scenarios really produce (a recovered failure, an approved
pause, a blocked input), long enough for every card of the story; each is delivered whole, with any one
event missing, with any one id altered and with any two neighbours swapped, and late arrivals are then
added. The five recordings of `MCLiveCase` are a case of drawn and undrawn events, one that delegates, one whose extension is
refused, one whose last event is not drawn and one of which nothing is. In the viewers, one
act that moves and one that answers are what it takes for a write to cross a poll.

**Reading the properties.** A condition inside a property says where the code does not promise it;
section 4 says what happens there.

- `BudgetHolds`, `CallsMatchEvidence` leave aside a run the timer ended: calls left in its pipe are stored
  after its record is closed.
- `CutCostsOneLine` promises the version last put only while no line of the run is broken, and bounds the damage
  otherwise; `NothingSkipped` asks that no write was cut and that the writer numbers densely.
- `FaultsBounded` allows one more per further process; `EvidenceIsWhole` is about a run no worker writes to.
- `AtMostOnce` allows one request per restart more; `BudgetIsHard` is about unapproved incidents and
  proposals made on a fresh evaluation.
- `SplitIsWhole` asks that no event was refused as late and that deliveries of one time and key agree.
- `SuccessHasItsReceipts` and `ClaimsAreProven` speak of streams in which the projector reports no violation;
  the order of steps in `ClaimsAreProven` of an intervention proposed once. `ClaimsPersist` lets the Runtime's
  claim go only when the projector sees a violation, and holds a claim to the event it was *found from*: the
  activation is shown at what was allowed, which an older approval used later can still move.
  `TimelineMatchesManifest` speaks of streams that introduce their agents.
- `ExportsStand` says that a document of the whole case verifies, that one of a proper prefix fails in the state
  digest and in nothing else, and that what was exported is exported again unchanged after every delivery.
- `InStep` is about a renderer that was there to be told of what the page's stream holds, its count of items about
  recordings that do not delegate; `SettledTogether` is about such recordings too, and about a case that was not appended to, or
  a renderer at its edge whenever the shell is. `NotYanked` asks that the last event be told from the earlier ones
  (`StandsAlone`): the renderer does not tell an event it draws nothing of from the one before.
  `ShownCursorAdvances` is about ticks that do not outlast the poll interval.
- `TailIsWhole` asks for records in order of time that name no other root and keep the session's name, nothing written
  between the viewer's first load and the watcher's, and a rotation that was noticed; `Paired` for a manifest not older than the timeline and no
  agent without a line; `Converged` for stamps that tell the last write from the one before, at rest: `Quiet`
  means that neither side would take what is on the disk.

Deadlock is not checked where the system really stops: a worker run that is over, a case whose deliveries
are used up. `TickSymmetry` and `LedgerSymmetry` permute ids that no action orders or chooses by; the run
with a liveness property uses no symmetry. Every bound is a named constant of its module and stands in a guard.

## 4. Where the code does not do what it says

Two disagreements are kept as runs.

- `adk_unread`: `runtime.py:37` defines succeeded as "the delegated agent ran and the read completed".
  `adk_runtime.py:308` counts a response of any function without a status as a read, and
  `transfer_to_agent` answers without one, so a delegation followed by nothing but words succeeds.
- `seek`: `agent-viewer-web/src/main.rs:406` says a seek moves the playhead to a viewer event. The manifest
  (`manifest.rs:184`) divides by its own count of items, the renderer (`timeline.rs:439`) multiplies by the
  items past its floor; with an agent that has no line yet the two differ, and the playhead rests on a later event.

Others were met while modelling. The models contain the behaviour; a property carries the condition it
needs, or a run's constants keep the case out, and each can be reproduced by lifting that condition.

*Runs.*

- The timer lives in the API process (`worker.ts:163`, armed at 265) and nothing looks for active runs at
  start-up: a run whose API died holds the slot for good. `SlotIsFreed` is stated of an API that stays up.
- A record is written back as it was before an await (`routes/runs.ts:263`), and the executor closes a
  record without looking whether it has ended (`worker.ts:202`). With a worker driver *and* a client that
  posts, or with two clients, an ended run may be reopened. `SingleWriter` in the proofs and the drivers
  in the runs exclude this.
- Lines in the pipe when the timer ended the run are stored after the record says a poller may stop
  (`worker.ts:217`), and calls among them are not in the record (`worker.ts:208`).
- After a failed spawn Node emits `error` and then `close`; `finish` then reads `timer` before its
  initialisation (`worker.ts:199`), and the exception ends the API process (`BrokenCloses`). A run admitted in
  between is lost with it.
- With the MCP driver no timer is armed (`routes/runs.ts:326`): a run no client attaches to keeps the slot.
- An append after a torn write is lost although `put` returned its record (`store.ts:28`), and a line that
  lost only its newline is visible until the next append destroys it.
- `since` filters by number (`event.ts:166`): an event stored late under a low number is never given to a
  poller past it.
- The page derives its view from a capability, a snapshot and a page of different moments, may show an end
  before the events that led to it, replaces a newer page by an older one when ticks overlap, and stops at
  `complete` although events may still be stored.

*Workers.*

- An MCP call's events are posted once, at its end (`mcp_server.py:336`): a lost post leaves a retry without
  a record. A mark that could not be read is 0 (`mcp_server.py:117`), and what is posted under numbers
  already stored is dropped silently.
- `AttemptStore.reserve` counts and then appends (`attempts.py:83`): two processes may get one number and
  both meet the fault.
- The pure worker labels a real upstream failure live in a recorded replay (`session.py:91`), and the MCP
  server labels live what an offline transport replays (`transport.py:43`; the model has no offline server).

*Warden.*

- `intervention.ts:307` says a crash between request and acknowledgement must not permit a second request; the
  reservation that should prevent it is a Map in the process that crashed. `AtMostOnce` counts one more per restart.
- An approval lifts an exhausted budget back to `auto_act` (`policy.ts:211`), and an evaluation made before
  the budget was spent is accepted later.
- A redelivery while the first call awaits the adapter is answered with the unsettled reservation
  (`intervention.ts:282`).

*The evidence stream.*

- Late arrivals are refused by comparing time stamps as strings, while the order compares instants
  (`canonicalize.ts:316`): one instant in two spellings is late or not by its spelling. A known id with
  another payload is skipped without a word (312), so which payload stays is decided by arrival.
- The projector reports an illegal transition and then makes it, although its comment says that a page can
  never show a success the Runtime did not acknowledge before it; the success is shown beside the violation. A blocked
  input is looked for in tool requests only.
- The loop detector is not reset by progress, though its comment says so.
- The scene adapter draws a child's spawn into the main transcript whoever the parent is, an agent nobody introduced
  breaks the count of entries, and a time zone offset is dropped when times are ordered.
- On an append to the renderer, transcripts of sub-agents are added a second time (`scene.rs:281`, reached from
  `live-proof.ts:261`), and `fleet-cockpit/tests/scene.rs:423` expects no such thing.
- The Warden card says a bounded retry recovered the case when there is an acknowledgement and any resolved
  incident, also if the intervention failed, and lets the policy precede the incident; the activation card
  says "only after it was granted" and checks no order; the runtime prover, given no request, takes any
  agent's success, and given one that was recorded late, may take its claim back. `ClaimsAreProven` and
  `ClaimsPersist` state what the provers do establish.
- Pages: a second incident of a class points to the opening of the first; "first failure" lands on the
  incident's opening; an unresolved incident that was updated no longer counts as open; "what is the agent
  waiting for?" ignores a start or a failure after the wait; a failed case outranks one that waits for the operator.
- An untouched export of a proper prefix of a case fails its own verification, since the digest covers
  whether the cursor was at the edge (`project.ts:522`, `audit-export.ts:208`); `ExportsStand` pins this down.
- An export never lists a memory decision: the projector hands no decision on with those events
  (`project.ts:237`).
- `story.ts` calls a session completed when its agents reported no end or recorded errors.

*Live decision and viewers.*

- The gate's counter is in memory (`guard.ts:20`): a restart spends the budget again, and a page loaded anew
  has lost the live evidence while the counter stays spent.
- The shell's poll takes back the selection of an event the renderer has no entry for, and may call itself at the edge
  while the renderer rests inside the last event.
- In a case that ends with an event nothing is drawn of, a seek to the event before leaves the renderer at its own edge, and
  following, while the shell is in the past; an append then moves the operator on, although the comment at
  `scene.rs:257` says that a cursor in the past is deliberately not moved.
- A record that names a root agent sorting before the one so far changes which transcript is the main one
  (`wire.rs:121`), and with it the transcript of lines that were already sent; the counts the tail goes by do not follow.
- What is appended to a session file between the viewer's first load and the watcher's own
  (`follow.rs:50`) is never sent; records out of time order, or of one time as an earlier line, break the
  count-based tail; a rotation to a file as long as the old one is not noticed; a first load that fails leaves the
  counts at 0, and the session is then sent twice.
- The browser re-applies an old edge after the session grew, since the sidecar does not say whether its writer was live;
  writes of one millisecond are ignored, and a slow write overwrites a newer one; half a line makes the
  browser stop following; a reload applies any sidecar.

## 5. Fairness

`WorkerSpec` of `RunController` assumes that Node settles a pending launch, reads a pipe that has lines,
delivers a child's close, and fires an armed timer, each weakly fair per run: they are continuously enabled
until they happen, and the event loop owes them. It assumes nothing of clients, of workers (which may print
nothing and never exit), of crashes, or of an operator who would restart the API; after a crash the actions are disabled,
and `SlotIsFreed` asks nothing of it. `SlotIsFreed` is the one liveness property. The other modules state no
fairness: the Warden awaits its adapter without a timeout, and pages and viewers move when their operators do.

## 6. The proofs

| theorem | states | for |
|---|---|---|
| `TypeCorrect` | `[]TypeOK` of `RunController` | all constants |
| `OneActive`, `SlotIsOwned` | `[]AtMostOneActive`, `[]SlotInvariant` | a single writer |
| `OutcomeIsFinal` | `FinishedStaysFinished` | a single writer |
| `ImplementsRunLifecycle` | `RunController` implements `RunLifecycle` | a single writer |
| `ReplayIsStable` | `ReplayStable` | all constants |
| `CompletionIsEvidenced`, `CallsAreEvidenced`, `BudgetIsKept` | `[]CompletedHasItsEnd`, `[]CallsMatchEvidence`, `[]BudgetHolds` | a single writer |
| `SuccessShownIsTrue` | `[]SuccessShownIsRecorded` of `LivePage` | a single writer |
| `CursorAdvances` | `ShownCursorAdvances` | all constants |
| `LedgerTypes`, `LedgerImplementsView` | `[]Typed`; `RunLedger` implements `LedgerView` | all constants |
| `CutsCostOneLine`, `PollersSkipNothing` | `[]CutCostsOneLine`, `[]NothingSkipped` | all constants |
| `ReadTypes` | `[]Typed` of `GovernedRead` | all programs |
| `FaultIsBounded`, `EvidenceIsOneReading`, `InterventionComesFirst` | `[]FaultsBounded`, `[]EvidenceIsWhole`, `[]InterventionFirst` | all programs, any number of servers |
| `SessionTypes` | `[]TypeOK` of `AdkSession` | all constants |
| `RecordsAreComplete`, `SuccessesAreEvidenced` | `[]RecordIsComplete`, `[]SuccessIsEvidenced` | all constants |
| `WardenTypes`, `SuccessFromRuntime` | `[]TypeOK`, `[]SuccessIsAuthoritative` of `Warden` | all constants |
| `RequestedOnce`, `AttemptsAreBudgeted` | `[]AtMostOnce`, `[]BudgetIsHard` | any number of restarts |
| `RequestsAreAuthorized` | `[]AuthorityPrecedesRequest` | all constants |
| `SettledIsFinal` | `OutcomeIsFinal` of `Warden` | all constants |
| `NoStateIsSkipped`, `BlockedUseIsShown` | `[]SuccessHasItsReceipts`, `[]BlockedUseIsCaught` of `CaseStream` | streams of any length |
| `ClaimsStayShown`, `ClaimsAreBacked` | `ClaimsPersist`, `[]ClaimsAreProven` | streams of any length |
| `ExportsAreAppendOnly` | `ExportsStand` | streams of any length |
| `OperatorIsAskedWhenDue` | `[]OperatorIsAsked` | streams of any length |
| `FindingsAreExactHolds` | `[]FindingsAreExact` | every configuration, countable events |
| `SplitIsWholeHolds` | `[]SplitIsWhole` | any number of deliveries of countable events |
| `PointersLandHomeHolds` | `[]PointersLandHome` | streams of any length |
| `TimelineMatchesManifestHolds` | `[]TimelineMatchesManifest` | streams of any length |
| `CallsBoundedHolds` | `[]CallsBounded` of `LiveCase` | any number of restarts and reloads |
| `InStepHolds`, `SettledTogetherHolds` | `[]InStep`, `[]SettledTogether` | all recordings of countable events |
| `NotYankedHolds` | `NotYanked` | all recordings of countable events |
| `SpawnFirstHolds`, `TailIsWholeHolds` | `[]SpawnFirst`, `[]TailIsWhole` of `SessionFollow` | all keyed records, files of any length |
| `LastWriteWins` | `[]Converged` of `PairedViewers` | all sessions |
| `PairedRest` | `[]Paired` | sessions that load |

*Assumptions.* Each module types its constants in a named assumption (`ControllerAssumption`,
`LedgerAssumption`, `ReadAssumption`, `AdkAssumption`, `WardenAssumption`, `CaseStreamAssumption`,
`LiveCaseAssumption`, `FollowBounds`, `PairBounds`): any finite set of runs, any batches, any bounds, any recordings. What they say beyond types:

- `SingleWriter` says that nobody posts, or that the driver is MCP and there is at most one client; it is what
  a deployment with one driver is, and section 4 says what happens without it.
- `ReadAssumption` says that the pure worker makes one call and shares its run with no other worker:
  `session.py` reads once and the API starts one worker for a run.
- `EventsAssumption` and `LiveCaseAssumption` say that the keys and times of events are numbers, which stand for their order,
  and that a usage amount is a count (`Countable`). The code reads an amount out of a payload that its schema leaves open
  (`source-event.ts:32`); the platform's adapters and the fixtures write counts, and a sum of anything less has no order to rely on.
- `RecordsAreKeyed` says that records of one key are one record: the adapter's key is the record's id and a 64-bit digest
  of its content (`adk.rs:438`), so this leaves out nothing but a collision.
- `StoriesAreTold` says of every load of a session that its events are numbered from 0 without a gap, that the
  last thing it shows is an event, and that a further record takes no event away: what a manifest built from
  the same file as the timeline (`manifest.rs:88`) needs to name every event of it.

*Run controller.* `AtMostOneActive` is not inductive: nothing in it stops a suspended handler from writing
an active record over an ended one, or an executor from writing over a record it does not own.
`SlotInvariant` adds that a record is unborn, active or ended (`RecordsWellFormed`), that an executor which
may still write owns the active record (`ExecutorOwnsRecord`), and that a suspended handler is alone and
holds the latest version (`HandlersAreFresh`). With `TypeOK` and `EndingHasVerdict` (a worker about to print
its summary has a verdict) it is inductive. The argument goes through one lemma, `StepMoves`: every step
leaves every record alone, admits one into a free slot, moves one to running, or ends an active one
(`Moves`). The slot invariant, the finality of outcomes and the refinement follow from `Moves` without
looking at actions again; `ExecutorStep` and `HandlerStep` go action by action for the rest.
`ReplayIsStable` needs only `TypeOK`: the two actions that store look at what is there first.

The evidence theorems need an invariant of the pipe. `Evidence` says of each run, by itself, that an unread
line carries an event that is not stored and whose number no other line carries (`Pending`), that the outcome
a summary reports is stored, or unread in front of it (`Announced`), and that a record says what its log
shows. For the budget, `Tally` makes the calls of a run those stored plus those in its pipe, and `Reserved` has the
admission's check cover the ceiling of the run in the slot; a closed run gives the rest of its reservation
back, which is sound because its pipe holds no calls. The sum over the runs is a recursive function on sets, and is
reasoned about by removing the element it takes first (`First`).

*Live page.* `SuccessShownIsTrue` says that every copy of a snapshot, in the session or on the way, is honest
(`PageHonest`), and that a record which succeeded stays so, which is `Moves` again. The cursor needs
`Ordered`: while ticks come one at a time, what is asked about is the session's run, and the mark an answer
brings lies between the mark shown and the mark of the ledger.

*Ledger.* A cut is paid for once: by a broken line, or still by the tail that will break the next append (`Paid`).
Without broken lines the version last put is the last version in the file (`Current`). The refinement looks
only at the lines a step finishes (`Settles`). `Gapless` says a dense writer leaves no gap below what is stored, so
that the mark of a poller is at most the number of events stored.

*Governed read.* What bounds the fault is `Met`: the faults met and those a reader is about to meet are at most
the attempts in the file, and once the file holds as many as the fault applies to, only readers that counted
before that can still meet it, at most all but the one that wrote the last. `EvidenceIsWhole`
takes a shape of the batch at every program counter (`Shaped`) and of the ledger, for the two programs apart
(`Posted`, `Printed`).

*ADK runtime.* `Counts` equates the calls and labelled faults of the stream with the counters, less the one
fault whose answer is still on its way; `Remembered` says the flags of the translation are what the stream
shows.

*Warden.* The inductive invariant is `TypeOK`, the success clause, that a call in flight has its reservation
in the Map (`FlightIsReserved`), and that the requests of an id are at most the restarts, plus one if the id
is in the Map (`Counted`); `AtMostOnce` is what `Counted` says of any state. `AuthInv` adds to every proposal the
evaluation and the approval it was made on, which `RequestsAreAuthorized` carries to the request; `BudgetInv`
says that whatever was let act alone on a fresh evaluation of an unapproved incident is within the budget.

*Evidence stream.* A delivery only continues the stream (`StreamStep`), so the projection of a prefix is what it
was (`ProjectOfPrefix`), and one more event is one more application of `Step` (`ProjectSteps`). `FoldByParts`
and `PartsStandAlone` take that step apart: each field of the projection is a fold of its own, so an invariant
of one field (`OutcomeIsLegal`, `BlockedAreKnown`, `ApprovalsFollow`, `IncidentsFollow`, `CaseFollows`) says what
happened in the stream and never looks at the others. A claim is found as the least position with some property
(`LeastOf`), and a least position stays the least when the stream grows (`FirstStays`); each of the four claims is
a chain of such steps. Two properties were first stated more strongly than the code allows. The run's streams held no
counterexample, the proofs did not close, and enlarged instances then showed why: a request recorded after the success it led to,
aimed at another agent, takes the Runtime's claim back; and an activation may be shown at a later event once
an older approval is used. The arrivals of `case_stream` now include such a request, and the properties say what does
hold (section 3).

*What the evidence says, found another way.* Four theorems equate two computations over a stream.

- `FindingsAreExactHolds`: a window of the detector meets the failures of a tool exactly when that many of them lie
  close together (`WindowsMeet`). Usage is a sum over a set in the detector and a running total in the projector; the total of a
  prefix is the sum over its records whatever order a sum is taken in (`Adds`, `Sums`), and as amounts are counts it never falls,
  so that it exceeds the ceiling at the end if it did anywhere.
- `SplitIsWholeHolds`: the invariant `Whole` says that, with nothing refused and the delivered events comparable, the stream *is* the
  delivered events in the order of their times (`InOrder`). `CanonicalInOrder` gives this of one batch, and `AppendInOrder` of a
  batch appended: what is not late lies past the high-water mark, which `HighWaterIsHigh` makes the last time of the stream.
  Ranking a finite set by a total order (`OrderOn`, `Ranked`) takes the place of a sort.
- `PointersLandHomeHolds`: what the projection shows was reached by an event (`Reached`), and a pointer is the first of a set of
  positions which is therefore not empty. The depth of an agent in the tree is computed by following parents up to a limit;
  `DepthsAreLevel` shows level by level that a child is drawn one below its parent.
- `TimelineMatchesManifestHolds`: of the scene of a prefix, `Filed` says that each line belongs to a transcript that was announced, and no
  agent is announced twice (`WellFiled`), that who has a transcript but was not announced has done nothing since it was spawned
  (`Enrolled`), and that entries follow one another without a hole (`Tiled`). The items of the files are then
  counted against the entries by a bijection between metas and announced agents.

*Live case.* The invariant has three layers. `Admits` is the gate's, and enough for `CallsBounded`. `Dialogue` says that at
most one request of the page on screen is under way, that evidence arrives only while the call is not spent, and
that the page's stream continues the recording. `Carried` says that shell and renderer hold the scene of the recording or of the
page's stream: an append hands over the delta of two scenes, and the scene of a longer stream continues that of the
shorter (`Grown`, `TimelineGrows`), whether or not its agents were introduced. `Watched` is the operator's view: the playhead
rests on an item and never behind what the shell saw of it (`Rested`), a shell that saw the edge knows it is there
(`Aware`), and once it has looked the two name one event (`Agrees`). The arithmetic is in `LinesAndEvents`, `ReadingStays` and `SoughtIs`:
a fraction of the items, multiplied out by the renderer, leads back to the entry it was made of. `NotYanked` follows from `Aware`.

*Session follow.* A file's projection ranks its records, and the lines they become, in an order that is total on
them; such a rank does not depend on how the set was collected, and a record past all others leaves the ranks of the rest.
So the wire of the longer file extends that of the shorter transcript by transcript (`WiresGrow`), and the tail past a count
is what is missing (`TailJoins`). `FollowInv` adds what the watcher's counts mean between its first load and its next poll.
`SpawnFirst` needs no invariant: it is a property of the projection of any file.

*Paired viewers.* `Winning` says that no stamp a side keeps exceeds the sidecar's, that the side which wrote
it has it, and that the other has it or would take it at its next poll. `Resting` says of each viewer that it rests
where the sidecar it took puts it, if its manifest is that of its timeline; the arithmetic is that a fraction, multiplied out and
rounded, gives back the item it was made of.

*Induction.* The library's induction theorems take an operator as a parameter, which the installed provers
cannot instantiate. Where a recursive function on numbers or sets has to be unfolded (`project`, the compiled
scene, the sum of the budget), induction is over a *set* instead: `CountingUp` says that a set with 0 and the
successor of each of its members contains every number, and follows from the well-foundedness of `<`.

*Only model-checked.* `SlotIsFreed`, the one liveness property: the prover has no rule for weak fairness and ENABLED. The two
runs that expect a violation have no theorem, of course. No module declares a RECURSIVE operator.

## 7. What is not modelled

- `claude_code.rs`, an adapter behind the feature `legacy-claude`; the inspector of the session viewer.
- Conversions without state: redaction, event schemas, the ADK session export, launch-readiness probes,
  `story.ts`, the panels of the dashboard, narrative wording.
- External services: ADK, Gemini, the platform adapters, the Runtime behind the Control Adapter. They appear
  as nondeterministic answers.
- Drawing: the renderers' frames and layouts, the animation engines of the pages (`bend`, `preloader`,
  `launch`, `checker`, `wild-type`), which compute splines and easing in real numbers and keep nothing another part reads.
- Local dialogs: the approvals page's mount, one operator on one page.
- Scripts that build, demonstrate or drive a browser; fixtures; third-party code beyond the vendored
  timeline; environment and configuration that refuses every run alike.
- Pagination, bodies and wording of HTTP routes; read-only routes.

More than half of the implementation's lines are of the last kinds: drawing, labels, layout and scripts. What
decides, records, orders or interleaves is in the modules above, and the map therefore names a small share of
all lines.

## 8. What could come next

- The conditions of section 4, one at a time: a property that holds without its condition after a change to the code would show
  that the change was enough. The shell's look at an undrawn last event, and the append to a case that delegates, come first.
- A Warden instance with two incident classes at once, sharing one budget.
- The items of a delegating case after an append, once `scene.rs:281` no longer adds a transcript a second time.
- The parts of section 7 that hold state: the approvals page's dialogs and the inspector of the session viewer.
