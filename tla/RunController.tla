--------------------------- MODULE RunController ---------------------------
(***************************************************************************)
(* The local API's run controller: admission (packages/run-ledger), the    *)
(* worker executor (apps/api/src/runs/worker.ts) and the two mutating      *)
(* routes of apps/api/src/routes/runs.ts.                                  *)
(*                                                                         *)
(* The ledger file is kept as the view every handler reads: the latest     *)
(* version of each run record, and for each run the event first written    *)
(* under each sequence number.  Module RunLedger models the file itself    *)
(* and relates it to this view.                                            *)
(*                                                                         *)
(* The API is one Node process.  A handler runs to its next await without  *)
(* interruption, so one action is one stretch between awaits.  What        *)
(* interleaves: the routes, the worker processes, the pipes between them,  *)
(* the executor's timers, and the death and restart of the API.            *)
(***************************************************************************)
EXTENDS Naturals, Sequences, FiniteSets, Functions

CONSTANTS
  Runs,             (* the run ids newId may produce                        *)
  Driver,           (* deps.runDriver: "worker" or "mcp"                    *)
  Senders,          (* clients of POST /runs/:runId/events                  *)
  Batches,          (* the bodies such a client may send                    *)
  MaxSequence,      (* bound: sequence numbers are 1..MaxSequence           *)
  MaxModelCalls,    (* scenario.maxModelCalls                               *)
  PerRunCallCeiling,
  TotalCallBudget,
  LaunchMayFail,    (* whether the worker's interpreter may fail to start   *)
  MaxCrashes        (* bound: times the API process is killed               *)

Sequences == 1..MaxSequence

(* What a worker, or an MCP tool call, may claim a run ended as; the code   *)
(* treats any other string, or none, as it treats incomplete.               *)
Outcomes == {"succeeded", "failed", "timed_out", "incomplete"}

(* Event kinds, with every kind the controller does not look at as "step".  *)
Event == [kind : {"model_call", "step"}, terminal : {"none"}]
           \cup [kind : {"run_end"}, terminal : Outcomes]
Unstored == [kind |-> "none", terminal |-> "none"]

ActiveStates == {"admitted", "running"}
FinalStates  == {"completed", "failed", "timed_out"}

(* A RunRecord; ended stands for endedAt # null.                            *)
Record == [state : {"none"} \cup ActiveStates \cup FinalStates,
           terminalResult : {"succeeded", "failed", "timed_out", "unknown"},
           ended : BOOLEAN,
           modelCalls : Nat]

NoRun  == [state |-> "none", terminalResult |-> "unknown",
           ended |-> FALSE, modelCalls |-> 0]
newRun == [NoRun EXCEPT !.state = "admitted"]

BatchItem == [run : Runs, sequence : Sequences, event : Event]

ASSUME ControllerAssumption ==
  /\ Runs # {} /\ IsFiniteSet(Runs)
  /\ Driver \in {"worker", "mcp"}
  /\ Batches \subseteq Seq(BatchItem)
  /\ MaxSequence \in Nat /\ MaxModelCalls \in Nat
  /\ PerRunCallCeiling \in Nat /\ TotalCallBudget \in Nat
  /\ LaunchMayFail \in BOOLEAN
  /\ MaxCrashes \in Nat

VARIABLES
  run,        (* run[r]: ledger.get(r), the latest version                  *)
  events,     (* events[r][s]: the stored event of sequence s               *)
  exec,       (* exec[r]: the executor's closure for r, lost with the API   *)
  worker,     (* worker[r]: the worker process                              *)
  pipe,       (* pipe[r]: what the worker printed and the API has not read  *)
  requests,   (* POST events handlers suspended at await c.req.json()       *)
  api,        (* "up" or "down"                                             *)
  crashes

vars == <<run, events, exec, worker, pipe, requests, api, crashes>>

Request == [sender : Senders, run : Runs, stale : Record]

(* pc follows RunExecutor.start: launcher.start is awaited in "starting";   *)
(* the timer is armed in "running"; "settled" is finished = true before     *)
(* the child closed, "closed" after; "broken" is a launch that failed.      *)
Executor == [pc : {"idle", "starting", "running", "settled", "closed", "broken"},
             summary : Outcomes \cup {"none"}]
NoExecutor == [pc |-> "idle", summary |-> "none"]

(* sent is the EventStream's sequence, calls the ModelBudget's used.        *)
Worker == [pc : {"none", "up", "ending", "exited"},
           sent : 0..MaxSequence, calls : Nat, verdict : Outcomes \cup {"none"}]
NoWorker == [pc |-> "none", sent |-> 0, calls |-> 0, verdict |-> "none"]

Line == [type : {"event"}, sequence : Sequences, event : Event]
          \cup [type : {"summary"}, outcome : Outcomes]

TypeOK ==
  /\ run \in [Runs -> Record]
  /\ events \in [Runs -> [Sequences -> Event \cup {Unstored}]]
  /\ exec \in [Runs -> Executor]
  /\ worker \in [Runs -> Worker]
  /\ pipe \in [Runs -> Seq(Line)]
  /\ requests \subseteq Request
  /\ api \in {"up", "down"}
  /\ crashes \in 0..MaxCrashes

Init ==
  /\ run = [r \in Runs |-> NoRun]
  /\ events = [r \in Runs |-> [s \in Sequences |-> Unstored]]
  /\ exec = [r \in Runs |-> NoExecutor]
  /\ worker = [r \in Runs |-> NoWorker]
  /\ pipe = [r \in Runs |-> <<>>]
  /\ requests = {}
  /\ api = "up"
  /\ crashes = 0

----------------------------------------------------------------------------
(* Reading the ledger.                                                      *)

isActive(record) == record.state \in ActiveStates
ActiveRuns == {r \in Runs : isActive(run[r])}
callsUsed == SumFunction([r \in Runs |-> run[r].modelCalls])

Stored(log) == {s \in DOMAIN log : log[s] # Unstored}
observedCalls(log) == Cardinality({s \in DOMAIN log : log[s].kind = "model_call"})

----------------------------------------------------------------------------
(* POST /runs.                                                              *)

(* Defect: the calls the new run may make are not reserved.                 *)
AdmissibleUnreserved ==
  /\ MaxModelCalls <= PerRunCallCeiling
  /\ ActiveRuns = {}
  /\ callsUsed <= TotalCallBudget

(* Every check that may refuse a run, in admitRun's order; liveMode and the *)
(* durable ledger are configuration that would refuse every run.            *)
Admissible ==
  /\ MaxModelCalls <= PerRunCallCeiling
  /\ ActiveRuns = {}
  /\ callsUsed + MaxModelCalls <= TotalCallBudget

(* Defect: the record says running as soon as there is a handle.            *)
StartRunHopefully(r) ==
  /\ api = "up"
  /\ run[r] = NoRun
  /\ Admissible
  /\ run' = [run EXCEPT ![r] = [newRun EXCEPT !.state = "running"]]
  /\ exec' = IF Driver = "worker"
             THEN [exec EXCEPT ![r].pc = "starting"]
             ELSE exec
  /\ UNCHANGED <<events, worker, pipe, requests, api, crashes>>

(* admitRun runs after the body was read and up to the next await, so the   *)
(* reads and the put are one step.  With the worker driver the same step    *)
(* enters executor.start and calls launcher.start.                          *)
StartRun(r) ==
  /\ api = "up"
  /\ run[r] = NoRun
  /\ Admissible
  /\ run' = [run EXCEPT ![r] = newRun]
  /\ exec' = IF Driver = "worker"
             THEN [exec EXCEPT ![r].pc = "starting"]
             ELSE exec
  /\ UNCHANGED <<events, worker, pipe, requests, api, crashes>>

(* The child's spawn event: the process exists, the timer is armed, and the *)
(* record start() was CALLED with is written back as running.               *)
LaunchSucceeds(r) ==
  /\ api = "up"
  /\ exec[r].pc = "starting"
  /\ exec' = [exec EXCEPT ![r].pc = "running"]
  /\ worker' = [worker EXCEPT ![r].pc = "up"]
  /\ run' = [run EXCEPT ![r] = [newRun EXCEPT !.state = "running"]]
  /\ UNCHANGED <<events, pipe, requests, api, crashes>>

(* The child's error event: start() writes the run as failed and returns.   *)
LaunchFails(r) ==
  /\ api = "up"
  /\ LaunchMayFail
  /\ exec[r].pc = "starting"
  /\ exec' = [exec EXCEPT ![r].pc = "broken"]
  /\ run' = [run EXCEPT ![r] = [newRun EXCEPT !.state = "failed",
                                              !.terminalResult = "failed",
                                              !.ended = TRUE]]
  /\ UNCHANGED <<events, worker, pipe, requests, api, crashes>>

----------------------------------------------------------------------------
(* The worker process: EventStream numbers densely from 1 and every event   *)
(* is flushed as one line; run_end is printed before the summary.           *)

WriteLine(r, line) == pipe' = [pipe EXCEPT ![r] = Append(@, line)]
EventLine(r, e) == [type |-> "event", sequence |-> worker[r].sent + 1, event |-> e]

WorkerEmits(r, kind) ==
  /\ worker[r].pc = "up"
  /\ worker[r].sent + 1 < MaxSequence
  /\ kind = "model_call" => worker[r].calls < MaxModelCalls
  /\ WriteLine(r, EventLine(r, [kind |-> kind, terminal |-> "none"]))
  /\ worker' = [worker EXCEPT
       ![r].sent = @ + 1,
       ![r].calls = IF kind = "model_call" THEN @ + 1 ELSE @]
  /\ UNCHANGED <<run, events, exec, requests, api, crashes>>

WorkerEnds(r, outcome) ==
  /\ worker[r].pc = "up"
  /\ worker[r].sent < MaxSequence
  /\ WriteLine(r, EventLine(r, [kind |-> "run_end", terminal |-> outcome]))
  /\ worker' = [worker EXCEPT ![r].sent = @ + 1, ![r].pc = "ending",
                              ![r].verdict = outcome]
  /\ UNCHANGED <<run, events, exec, requests, api, crashes>>

WorkerSummarises(r) ==
  /\ worker[r].pc = "ending"
  /\ WriteLine(r, [type |-> "summary", outcome |-> worker[r].verdict])
  /\ worker' = [worker EXCEPT ![r].pc = "exited"]
  /\ UNCHANGED <<run, events, exec, requests, api, crashes>>

(* A traceback, an OOM kill: the process is gone, what it printed is not.   *)
WorkerDies(r) ==
  /\ worker[r].pc \in {"up", "ending"}
  /\ worker' = [worker EXCEPT ![r].pc = "exited"]
  /\ UNCHANGED <<run, events, exec, pipe, requests, api, crashes>>

----------------------------------------------------------------------------
(* The executor: stdout lines, the child's close event, the timer.          *)

(* The log after an event is appended: the first one written wins.          *)
AppendEvent(log, s, e) == IF log[s] = Unstored THEN [log EXCEPT ![s] = e] ELSE log

(* finish(): the latest record, closed with what the events prove.          *)
Closed(r, state, terminal) ==
  [run[r] EXCEPT !.state = state, !.terminalResult = terminal, !.ended = TRUE,
                 !.modelCalls = observedCalls(events[r])]

(* onEvent.  It does not look at finished.                                  *)
ReadEvent(r) ==
  /\ api = "up"
  /\ exec[r].pc \in {"running", "settled"}
  /\ pipe[r] # <<>>
  /\ Head(pipe[r]).type = "event"
  /\ pipe' = [pipe EXCEPT ![r] = Tail(@)]
  /\ events' = [events EXCEPT ![r] =
       AppendEvent(@, Head(pipe[r]).sequence, Head(pipe[r]).event)]
  /\ UNCHANGED <<run, exec, worker, requests, api, crashes>>

ReadSummary(r) ==
  /\ api = "up"
  /\ exec[r].pc \in {"running", "settled"}
  /\ pipe[r] # <<>>
  /\ Head(pipe[r]).type = "summary"
  /\ pipe' = [pipe EXCEPT ![r] = Tail(@)]
  /\ exec' = [exec EXCEPT ![r].summary = Head(pipe[r]).outcome]
  /\ UNCHANGED <<run, events, worker, requests, api, crashes>>

(* Defect: a worker that ended without a summary is taken to have succeeded. *)
ExitStateOptimistic(summary) ==
  IF summary \in {"succeeded", "none"} THEN "completed" ELSE "failed"

(* What onExit makes of the summary; without one it depends on the exit     *)
(* code, which is 0 only for a worker that printed a succeeded summary.     *)
ExitState(summary) ==
  CASE summary = "succeeded" -> "completed"
    [] summary = "timed_out" -> "timed_out"
    [] OTHER -> "failed"
ExitResult(summary) ==
  CASE summary \in {"succeeded", "timed_out"} -> summary
    [] summary = "incomplete" -> "unknown"
    [] OTHER -> "failed"

(* Defect: the child's exit event instead of close, so stdout may be unread.*)
WorkerClosesOnExit(r) ==
  /\ api = "up"
  /\ exec[r].pc \in {"running", "settled"}
  /\ worker[r].pc = "exited"
  /\ exec' = [exec EXCEPT ![r].pc = "settled"]
  /\ run' = IF exec[r].pc = "running"
            THEN [run EXCEPT ![r] = Closed(r, ExitState(exec[r].summary),
                                              ExitResult(exec[r].summary))]
            ELSE run
  /\ UNCHANGED <<events, worker, pipe, requests, api, crashes>>

(* close comes after the process ended AND its stdout was read to the end.  *)
WorkerCloses(r) ==
  /\ api = "up"
  /\ exec[r].pc \in {"running", "settled"}
  /\ worker[r].pc = "exited"
  /\ pipe[r] = <<>>
  /\ exec' = [exec EXCEPT ![r].pc = "closed"]
  /\ run' = IF exec[r].pc = "running"
            THEN [run EXCEPT ![r] = Closed(r, ExitState(exec[r].summary),
                                              ExitResult(exec[r].summary))]
            ELSE run
  /\ UNCHANGED <<events, worker, pipe, requests, api, crashes>>

(* Defect: the timer is cleared when the worker prints its first line.      *)
TimerFiresOnSilence(r) ==
  /\ api = "up"
  /\ exec[r].pc = "running"
  /\ Stored(events[r]) = {}
  /\ exec' = [exec EXCEPT ![r].pc = "settled"]
  /\ worker' = [worker EXCEPT ![r].pc = "exited"]
  /\ run' = [run EXCEPT ![r] = Closed(r, "timed_out", "timed_out")]
  /\ UNCHANGED <<events, pipe, requests, api, crashes>>

(* Defect: the timer closes the record but does not set finished.           *)
TimerFiresUnmarked(r) ==
  /\ api = "up"
  /\ exec[r].pc = "running"
  /\ worker' = [worker EXCEPT ![r].pc = "exited"]
  /\ run' = [run EXCEPT ![r] = Closed(r, "timed_out", "timed_out")]
  /\ UNCHANGED <<events, exec, pipe, requests, api, crashes>>

(* The wall-clock ceiling: kill, then finish.  Lines already printed stay   *)
(* in the pipe.                                                             *)
TimerFires(r) ==
  /\ api = "up"
  /\ exec[r].pc = "running"
  /\ exec' = [exec EXCEPT ![r].pc = "settled"]
  /\ worker' = [worker EXCEPT ![r].pc = "exited"]
  /\ run' = [run EXCEPT ![r] = Closed(r, "timed_out", "timed_out")]
  /\ UNCHANGED <<events, pipe, requests, api, crashes>>
----------------------------------------------------------------------------
(* POST /runs/:runId/events.                                                *)

(* Defect: the 409 for a run that has ended is missing.                     *)
PostBeginsAnyway(p, r) ==
  /\ api = "up"
  /\ \A q \in requests : q.sender # p
  /\ run[r] # NoRun
  /\ exec[r].pc # "starting"
  /\ requests' = requests \cup {[sender |-> p, run |-> r, stale |-> run[r]]}
  /\ UNCHANGED <<run, events, exec, worker, pipe, api, crashes>>

(* Up to await c.req.json(): the run is looked up and refused when it has   *)
(* ended; the handler keeps the record it read.  No client can name a run   *)
(* whose launch is pending: nothing is served before spawn or error is.     *)
PostBegins(p, r) ==
  /\ api = "up"
  /\ \A q \in requests : q.sender # p
  /\ run[r] # NoRun /\ ~run[r].ended
  /\ exec[r].pc # "starting"
  /\ requests' = requests \cup {[sender |-> p, run |-> r, stale |-> run[r]]}
  /\ UNCHANGED <<run, events, exec, worker, pipe, api, crashes>>

(* Defects: known sequences are stored again; items of another run pass.    *)
AcceptedAgain(log, r, batch) == {i \in DOMAIN batch : batch[i].run = r}

(* The items of a batch that are stored: they name the run and their        *)
(* sequence is neither in the ledger nor earlier in the batch.              *)
Accepted(log, r, batch) ==
  {i \in DOMAIN batch :
     /\ batch[i].run = r
     /\ log[batch[i].sequence] = Unstored
     /\ \A j \in 1..(i - 1) :
          batch[j].run = r => batch[j].sequence # batch[i].sequence}

Ingest(log, r, batch) ==
  [s \in Sequences |->
     IF \E i \in Accepted(log, r, batch) : batch[i].sequence = s
     THEN batch[CHOOSE i \in Accepted(log, r, batch) : batch[i].sequence = s].event
     ELSE log[s]]

(* The accepted run_end items, and what the last of them claims.            *)
Endings(log, r, batch) ==
  {i \in Accepted(log, r, batch) : batch[i].event.kind = "run_end"}
Claimed(log, r, batch) ==
  batch[CHOOSE i \in Endings(log, r, batch) :
          \A j \in Endings(log, r, batch) : j <= i].event.terminal

PostedState(claim) ==
  CASE claim = "succeeded" -> "completed"
    [] claim = "timed_out" -> "timed_out"
    [] OTHER -> "failed"
PostedResult(claim) == IF claim = "incomplete" THEN "unknown" ELSE claim

(* The rest of the handler: the events are read again, but the record put   *)
(* back is the one read before the await.                                   *)
PostCompletes(q, batch) ==
  LET r   == q.run
      log == events[r]
  IN /\ api = "up"
     /\ requests' = requests \ {q}
     /\ events' = [events EXCEPT ![r] = Ingest(log, r, batch)]
     /\ run' =
          IF Endings(log, r, batch) # {}
          THEN LET claim == Claimed(log, r, batch)
               IN [run EXCEPT ![r] =
                     [q.stale EXCEPT !.state = PostedState(claim),
                                     !.terminalResult = PostedResult(claim),
                                     !.ended = TRUE,
                                     !.modelCalls = observedCalls(events'[r])]]
          ELSE IF q.stale.state = "admitted" /\ Accepted(log, r, batch) # {}
          THEN [run EXCEPT ![r] = [q.stale EXCEPT !.state = "running"]]
          ELSE run
     /\ UNCHANGED <<exec, worker, pipe, api, crashes>>

(* A body that is not JSON, or a client that hangs up: 400, nothing stored. *)
PostAborts(q) ==
  /\ api = "up"
  /\ requests' = requests \ {q}
  /\ UNCHANGED <<run, events, exec, worker, pipe, api, crashes>>

----------------------------------------------------------------------------
(* The API process.  Executors, timers and suspended handlers live in its   *)
(* memory; the ledger does not.  A worker loses its stdout with it.         *)

ApiDies ==
  /\ api' = "down"
  /\ exec' = [r \in Runs |-> NoExecutor]
  /\ worker' = [r \in Runs |-> IF worker[r].pc = "none" THEN worker[r]
                               ELSE [worker[r] EXCEPT !.pc = "exited"]]
  /\ pipe' = [r \in Runs |-> <<>>]
  /\ requests' = {}
  /\ UNCHANGED <<run, events>>

Crash ==
  /\ api = "up"
  /\ crashes < MaxCrashes
  /\ crashes' = crashes + 1
  /\ ApiDies

(* The close event of a child that never spawned: onExit calls finish,      *)
(* whose clearTimeout(timer) reads a const start() returned before          *)
(* initialising.  The ReferenceError is thrown in an event listener.        *)
BrokenCloses(r) ==
  /\ api = "up"
  /\ exec[r].pc = "broken"
  /\ ApiDies
  /\ UNCHANGED crashes

(* A new process over the same file: nothing recovers a run found active.   *)
Restart ==
  /\ api = "down"
  /\ api' = "up"
  /\ UNCHANGED <<run, events, exec, worker, pipe, requests, crashes>>

----------------------------------------------------------------------------
RunStep(r) ==
  \/ StartRun(r) \/ LaunchSucceeds(r) \/ LaunchFails(r)
  \/ ReadEvent(r) \/ ReadSummary(r) \/ WorkerCloses(r) \/ TimerFires(r)
  \/ BrokenCloses(r)

WorkerStep(r) ==
  \/ \E kind \in {"model_call", "step"} : WorkerEmits(r, kind)
  \/ \E outcome \in Outcomes : WorkerEnds(r, outcome)
  \/ WorkerSummarises(r)
  \/ WorkerDies(r)

PostStep ==
  \/ \E p \in Senders, r \in Runs : PostBegins(p, r)
  \/ \E q \in requests : \E batch \in Batches : PostCompletes(q, batch)
  \/ \E q \in requests : PostAborts(q)

ServerStep ==
  \/ \E r \in Runs : RunStep(r) \/ WorkerStep(r)
  \/ Crash
  \/ Restart

Next == ServerStep \/ PostStep

Spec == Init /\ [][Next]_vars

(* Node delivers what is pending and timers fire.  No fairness for clients, *)
(* for the worker's own progress, for crashes, or for an operator's restart.*)
Fairness ==
  \A r \in Runs : /\ WF_vars(LaunchSucceeds(r) \/ LaunchFails(r))
                  /\ WF_vars(TimerFires(r))
                  /\ WF_vars(WorkerCloses(r))
                  /\ WF_vars(ReadEvent(r) \/ ReadSummary(r))

(* A run its own worker carries out, which no client attaches to.           *)
WorkerSpec == Init /\ [][ServerStep]_vars /\ Fairness

----------------------------------------------------------------------------
(* Properties.                                                              *)

(* "One run at a time": admitRun grants the slot only when no run is        *)
(* active, and no later write of a finished run may take it back.           *)
AtMostOneActive == \A r1, r2 \in ActiveRuns : r1 = r2

(* One writer at a time: no clients, or one client and no executor.         *)
SingleWriter ==
  \/ Senders = {}
  \/ Driver = "mcp" /\ \A p, q \in Senders : p = q

(* The strengthening of AtMostOneActive that the steps keep under           *)
(* SingleWriter: a record is unborn, active or ended and nothing between;   *)
(* an executor that may still write owns the active record; a suspended     *)
(* handler is alone and holds the latest version of an active record.       *)
RecordsWellFormed ==
  \A r \in Runs : \/ run[r] = NoRun
                  \/ isActive(run[r]) /\ ~run[r].ended
                  \/ run[r].state \in FinalStates /\ run[r].ended
ExecutorOwnsRecord ==
  \A r \in Runs :
    /\ Driver = "mcp" => exec[r].pc = "idle"
    /\ exec[r].pc = "starting" => run[r] = newRun
    /\ exec[r].pc = "running" => run[r].state = "running"
HandlersAreFresh ==
  /\ \A q \in requests : q.stale = run[q.run] /\ isActive(q.stale)
  /\ \A p, q \in requests : p = q
SlotInvariant ==
  AtMostOneActive /\ RecordsWellFormed /\ ExecutorOwnsRecord /\ HandlersAreFresh

Lifecycle == INSTANCE RunLifecycle
               WITH life <- [r \in Runs |-> run[r].state], Final <- FinalStates

(* The controller implements RunLifecycle: its writes only ever admit a run *)
(* into a free slot, move it to running, or end it once.                    *)
ImplementsLifecycle == Lifecycle!LifeSpec

(* "a finished run stays finished": no later write, by the executor, a      *)
(* route or a restarted API, changes a record that has ended.               *)
FinishedStaysFinished ==
  [][\A r \in Runs : run[r].ended => run'[r] = run[r]]_vars

(* "Idempotent ingest": once a sequence of a run is visible, every later    *)
(* read returns the same event for it, whoever resends it.                  *)
ReplayStable ==
  [][\A r \in Runs : \A s \in Stored(events[r]) : events'[r][s] = events[r][s]]_vars

(* A run is completed only when the evidence it succeeded is stored.        *)
CompletedHasItsEnd ==
  \A r \in Runs : run[r].state = "completed" =>
    \E s \in Sequences : events[r][s] = [kind |-> "run_end", terminal |-> "succeeded"]

(* A record that ended otherwise than by the timer reports exactly the      *)
(* model calls its stored events show.                                      *)
CallsMatchEvidence ==
  \A r \in Runs : run[r].ended /\ run[r].state # "timed_out" =>
    run[r].modelCalls = observedCalls(events[r])

(* totalCallBudget, "Total model calls this deployment may spend, across    *)
(* all runs": what the workers issued, whatever the records say.  A run the *)
(* timer ended is recorded with the calls read so far, so it may exceed it. *)
BudgetHolds ==
  (\A r \in Runs : run[r].state # "timed_out") =>
    SumFunction([r \in Runs |-> worker[r].calls]) <= TotalCallBudget

(* "Wall-clock ceiling for one worker": an admitted run leaves the active   *)
(* slot even when its worker hangs for ever, as long as the API that        *)
(* started it lives.                                                        *)
SlotIsFreed ==
  \A r \in Runs : exec[r].pc \in {"starting", "running"} ~> run[r].ended \/ api = "down"
=============================================================================
