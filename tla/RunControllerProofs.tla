------------------------ MODULE RunControllerProofs ------------------------
(***************************************************************************)
(* The run controller, proved for every value of its constants: its types  *)
(* and the replays always; the slot, the outcome, the lifecycle, the       *)
(* evidence of an outcome and the budget when one writer may change the    *)
(* records.                                                                *)
(***************************************************************************)
EXTENDS LivePage, FiniteSetTheorems, WellFoundedInduction, TLAPS

(* A count of model calls is a natural number: a log has finitely many      *)
(* sequences.                                                               *)
LEMMA ObservedIsNat ==
  ASSUME ControllerAssumption,
         NEW log \in [Sequences -> Event \cup {Unstored}]
  PROVE  observedCalls(log) \in Nat
<1>1. IsFiniteSet(Sequences)
  BY FS_Interval DEF ControllerAssumption, Sequences
<1>2. IsFiniteSet({s \in DOMAIN log : log[s].kind = "model_call"})
  BY <1>1, FS_Subset
<1> QED
  BY <1>2, FS_CardinalityType DEF observedCalls

(* Ingesting a batch yields a log again, whatever the batch.                *)
LEMMA IngestType ==
  ASSUME ControllerAssumption,
         NEW log \in [Sequences -> Event \cup {Unstored}],
         NEW r \in Runs, NEW batch \in Batches
  PROVE  Ingest(log, r, batch) \in [Sequences -> Event \cup {Unstored}]
<1>1. batch \in Seq(BatchItem)
  BY DEF ControllerAssumption
<1>2. \A i \in DOMAIN batch : batch[i].event \in Event
  <2>1. \A i \in DOMAIN batch : batch[i] \in BatchItem
    BY <1>1
  <2> QED
    BY <2>1 DEF BatchItem
<1>3. ASSUME NEW s \in Sequences,
             \E i \in Accepted(log, r, batch) : batch[i].sequence = s
      PROVE  batch[CHOOSE i \in Accepted(log, r, batch) : batch[i].sequence = s].event \in Event
  <2>1. (CHOOSE i \in Accepted(log, r, batch) : batch[i].sequence = s) \in Accepted(log, r, batch)
    BY <1>3
  <2> QED
    BY <2>1, <1>2 DEF Accepted
<1> QED
  BY <1>3 DEF Ingest

(* Every record a handler writes back is a Record.                          *)
LEMMA WrittenRecords ==
  ASSUME NEW rec \in Record, NEW n \in Nat
  PROVE  /\ newRun \in Record
         /\ [newRun EXCEPT !.state = "running"] \in Record
         /\ [newRun EXCEPT !.state = "failed", !.terminalResult = "failed",
                           !.ended = TRUE] \in Record
         /\ [rec EXCEPT !.state = "running"] \in Record
         /\ \A st \in FinalStates :
              \A res \in {"succeeded", "failed", "timed_out", "unknown"} :
                [rec EXCEPT !.state = st, !.terminalResult = res,
                            !.ended = TRUE, !.modelCalls = n] \in Record
BY DEF Record, newRun, NoRun, FinalStates, ActiveStates

LEMMA OutcomeMaps ==
  /\ \A o \in Outcomes \cup {"none"} :
       /\ ExitState(o) \in FinalStates
       /\ ExitResult(o) \in {"succeeded", "failed", "timed_out", "unknown"}
  /\ \A o : PostedState(o) \in FinalStates
  /\ \A o \in Outcomes : PostedResult(o) \in {"succeeded", "failed", "timed_out", "unknown"}
BY DEF ExitState, ExitResult, PostedState, PostedResult, Outcomes, FinalStates

(* A line the worker prints and the API reads.                              *)
LEMMA LineParts ==
  \A line \in Line :
    /\ line.type \in {"event", "summary"}
    /\ line.type = "event" => line.sequence \in Sequences /\ line.event \in Event
    /\ line.type = "summary" => line.outcome \in Outcomes
BY DEF Line

(* A nonempty set of positions in a batch has a last one.                   *)
LEMMA LastExists ==
  ASSUME NEW n \in Nat, NEW S, S \subseteq 1..n, S # {}
  PROVE  \E i \in S : \A j \in S : j <= i
<1> DEFINE Less == {p \in Nat \X Nat : p[1] < p[2]}
           Below == {n - i : i \in S}
<1>1. IsWellFoundedOn(Less, Nat)
  BY NatLessThanWellFounded DEF OpToRel
<1>0. \A i \in S : i \in 1..n /\ i \in Nat /\ i <= n /\ n - i \in Nat
  <2>1. \A i \in 1..n : i \in Nat /\ i <= n /\ n - i \in Nat
    OBVIOUS
  <2> QED
    BY <2>1
<1>2. Below \subseteq Nat /\ Below # {}
  BY <1>0
<1> HIDE DEF Less
<1>3. PICK x \in Below : \A y \in Below : ~(<<y, x>> \in Less)
  <2> HIDE DEF Below
  <2> QED BY <1>1, <1>2, WFMin
<1>4. PICK i \in S : x = n - i
  OBVIOUS
<1>5. ASSUME NEW j \in S PROVE j <= i
  <2>1. ~(<<n - j, n - i>> \in Less)
    BY <1>3, <1>4
  <2>2. n - j \in Nat /\ n - i \in Nat /\ j \in Nat /\ i \in Nat
    BY <1>0
  <2> QED
    BY <2>1, <2>2 DEF Less
<1> QED
  BY <1>5

(* The claim a handler records is one a worker may make.                    *)
LEMMA ClaimedIsOutcome ==
  ASSUME ControllerAssumption,
         NEW log \in [Sequences -> Event \cup {Unstored}],
         NEW r \in Runs, NEW batch \in Batches,
         Endings(log, r, batch) # {}
  PROVE  Claimed(log, r, batch) \in Outcomes
<1> DEFINE Ends == Endings(log, r, batch)
<1>1. batch \in Seq(BatchItem)
  BY DEF ControllerAssumption
<1>2. Len(batch) \in Nat /\ DOMAIN batch = 1..Len(batch)
  BY <1>1
<1>3. Ends \subseteq 1..Len(batch) /\ Ends # {}
  BY <1>2 DEF Endings, Accepted
<1>4. \E i \in Ends : \A j \in Ends : j <= i
  <2> HIDE DEF Ends
  <2> QED
    BY <1>2, <1>3, LastExists
<1>5. PICK i \in Ends : Claimed(log, r, batch) = batch[i].event.terminal
  BY <1>4 DEF Claimed
<1>6. batch[i] \in BatchItem
  BY <1>1, <1>2, <1>3
<1>7. batch[i].event \in Event /\ batch[i].event.kind = "run_end"
  BY <1>6 DEF BatchItem, Endings
<1>8. \A e \in Event : e.kind = "run_end" => e.terminal \in Outcomes
  BY DEF Event
<1> QED
  BY <1>5, <1>7, <1>8

(* What finish and the events route put is a Record.                        *)
LEMMA ClosedType ==
  ASSUME ControllerAssumption, TypeOK, NEW r \in Runs,
         NEW st \in FinalStates,
         NEW res \in {"succeeded", "failed", "timed_out", "unknown"}
  PROVE  Closed(r, st, res) \in Record
BY ObservedIsNat, WrittenRecords DEF TypeOK, Closed

(* Updating one run's entry of a component keeps its type.                  *)
LEMMA UpdateType ==
  ASSUME NEW S, NEW f \in [Runs -> S], NEW r \in Runs, NEW v \in S
  PROVE  [f EXCEPT ![r] = v] \in [Runs -> S]
OBVIOUS

LEMMA ExecutorSteps ==
  ASSUME NEW x \in Executor
  PROVE  /\ \A p \in {"idle", "starting", "running", "settled", "closed", "broken"} :
              [x EXCEPT !.pc = p] \in Executor
         /\ \A o \in Outcomes : [x EXCEPT !.summary = o] \in Executor
         /\ NoExecutor \in Executor
BY DEF Executor, NoExecutor

LEMMA WorkerSteps ==
  ASSUME ControllerAssumption, NEW w \in Worker
  PROVE  /\ \A p \in {"none", "up", "ending", "exited"} : [w EXCEPT !.pc = p] \in Worker
         /\ w.verdict \in Outcomes \cup {"none"}
         /\ w.calls \in Nat
         /\ w.sent < MaxSequence =>
              w.sent + 1 \in Sequences /\ w.sent + 1 \in 0..MaxSequence
         /\ w.sent + 1 < MaxSequence => w.sent < MaxSequence
<1>1. MaxSequence \in Nat
  BY DEF ControllerAssumption
<1>2. w.sent \in 0..MaxSequence
  BY DEF Worker
<1>3. w.sent \in Nat
  BY <1>1, <1>2
<1>4. w.sent < MaxSequence =>
        w.sent + 1 \in Sequences /\ w.sent + 1 \in 0..MaxSequence
  BY <1>1, <1>3 DEF Sequences
<1>5. w.sent + 1 < MaxSequence => w.sent < MaxSequence
  BY <1>1, <1>3
<1>6. /\ \A p \in {"none", "up", "ending", "exited"} : [w EXCEPT !.pc = p] \in Worker
      /\ w.verdict \in Outcomes \cup {"none"} /\ w.calls \in Nat
  BY DEF Worker
<1> QED
  BY <1>4, <1>5, <1>6

LEMMA InitType == ControllerAssumption /\ Init => TypeOK
<1> SUFFICES ASSUME ControllerAssumption, Init PROVE TypeOK
  OBVIOUS
<1>1. NoRun \in Record
  BY DEF NoRun, Record
<1>2. NoExecutor \in Executor /\ NoWorker \in Worker
  BY DEF NoExecutor, Executor, NoWorker, Worker, ControllerAssumption
<1> QED
  BY <1>1, <1>2 DEF Init, TypeOK, ControllerAssumption

(* TypeOK alone is not inductive: the summary line carries the verdict.     *)
EndingHasVerdict ==
  \A r \in Runs : worker[r].pc = "ending" => worker[r].verdict \in Outcomes

LEMMA VerdictStep ==
  ASSUME TypeOK, EndingHasVerdict, [Next]_vars
  PROVE  EndingHasVerdict'
<1> DEFINE Grounded(w) == w.pc = "ending" => w.verdict \in Outcomes
<1>1. worker \in [Runs -> Worker] /\ \A r \in Runs : Grounded(worker[r])
  BY DEF TypeOK, EndingHasVerdict
<1>2. \A w \in Worker : \A p \in {"up", "exited"} : Grounded([w EXCEPT !.pc = p])
  BY DEF Worker
<1> SUFFICES \A r \in Runs : Grounded(worker'[r])
  BY DEF EndingHasVerdict
<1>3. CASE worker' = worker
  BY <1>1, <1>3
<1>4. ASSUME NEW r \in Runs, NEW p \in {"up", "exited"},
             worker' = [worker EXCEPT ![r].pc = p]
      PROVE  \A x \in Runs : Grounded(worker'[x])
  BY <1>1, <1>2, <1>4
<1>5. ASSUME ApiDies PROVE \A x \in Runs : Grounded(worker'[x])
  <2>1. \A x \in Runs : worker'[x] = worker[x] \/ worker'[x] = [worker[x] EXCEPT !.pc = "exited"]
    BY <1>5 DEF ApiDies
  <2> QED
    BY <1>1, <1>2, <2>1
<1>6. ASSUME NEW r \in Runs, NEW kind, WorkerEmits(r, kind)
      PROVE  \A x \in Runs : Grounded(worker'[x])
  <2>1. worker'[r].pc = "up"
    BY <1>1, <1>6 DEF WorkerEmits, Worker
  <2>2. \A x \in Runs \ {r} : worker'[x] = worker[x]
    BY <1>1, <1>6 DEF WorkerEmits
  <2> QED
    BY <1>1, <2>1, <2>2
<1>7. ASSUME NEW r \in Runs, NEW outcome \in Outcomes, WorkerEnds(r, outcome)
      PROVE  \A x \in Runs : Grounded(worker'[x])
  <2>1. worker'[r].verdict = outcome
    BY <1>1, <1>7 DEF WorkerEnds, Worker
  <2>2. \A x \in Runs \ {r} : worker'[x] = worker[x]
    BY <1>1, <1>7 DEF WorkerEnds
  <2> QED
    BY <1>1, <1>7, <2>1, <2>2
<1>8. ASSUME NEW r \in Runs, RunStep(r) PROVE \A x \in Runs : Grounded(worker'[x])
  <2> HIDE DEF Grounded
  <2>1. CASE StartRun(r) \/ LaunchFails(r) \/ ReadEvent(r) \/ ReadSummary(r) \/ WorkerCloses(r)
    BY <1>3, <2>1 DEF StartRun, LaunchFails, ReadEvent, ReadSummary, WorkerCloses
  <2>2. CASE LaunchSucceeds(r)
    BY <1>4, <2>2 DEF LaunchSucceeds
  <2>3. CASE TimerFires(r)
    BY <1>4, <2>3 DEF TimerFires
  <2>4. CASE BrokenCloses(r)
    BY <1>5, <2>4 DEF BrokenCloses
  <2> QED
    BY <1>8, <2>1, <2>2, <2>3, <2>4 DEF RunStep
<1>9. ASSUME NEW r \in Runs, WorkerStep(r) PROVE \A x \in Runs : Grounded(worker'[x])
  <2> HIDE DEF Grounded
  <2>1. CASE WorkerSummarises(r) \/ WorkerDies(r)
    BY <1>4, <2>1 DEF WorkerSummarises, WorkerDies
  <2> QED
    BY <1>6, <1>7, <1>9, <2>1 DEF WorkerStep
<1>10. ASSUME PostStep PROVE \A x \in Runs : Grounded(worker'[x])
  <2> HIDE DEF Grounded
  <2> QED
    BY <1>3, <1>10 DEF PostStep, PostBegins, PostCompletes, PostAborts
<1>11. CASE UNCHANGED vars
  BY <1>3, <1>11 DEF vars
<1> HIDE DEF Grounded
<1> QED
  BY <1>3, <1>5, <1>8, <1>9, <1>10, <1>11 DEF Next, ServerStep, Crash, Restart

(* Every step of the controller, the worker, a client or a crash keeps the  *)
(* types.                                                                   *)
LEMMA TypeStep ==
  ASSUME ControllerAssumption, TypeOK, EndingHasVerdict, [Next]_vars
  PROVE  TypeOK'
<1> USE DEF TypeOK
<1>1. ASSUME NEW r \in Runs, StartRun(r) PROVE TypeOK'
  <2>1. run' \in [Runs -> Record]
    BY <1>1, WrittenRecords DEF StartRun
  <2>2. exec' \in [Runs -> Executor]
    BY <1>1, ExecutorSteps DEF StartRun
  <2> QED
    BY <1>1, <2>1, <2>2 DEF StartRun
<1>2. ASSUME NEW r \in Runs, LaunchSucceeds(r) PROVE TypeOK'
  <2>1. run' \in [Runs -> Record]
    BY <1>2, WrittenRecords DEF LaunchSucceeds
  <2>2. exec' \in [Runs -> Executor]
    BY <1>2, ExecutorSteps DEF LaunchSucceeds
  <2>3. worker' \in [Runs -> Worker]
    BY <1>2, WorkerSteps DEF LaunchSucceeds
  <2> QED
    BY <1>2, <2>1, <2>2, <2>3 DEF LaunchSucceeds
<1>3. ASSUME NEW r \in Runs, LaunchFails(r) PROVE TypeOK'
  <2>1. run' \in [Runs -> Record]
    BY <1>3, WrittenRecords DEF LaunchFails
  <2>2. exec' \in [Runs -> Executor]
    BY <1>3, ExecutorSteps DEF LaunchFails
  <2> QED
    BY <1>3, <2>1, <2>2 DEF LaunchFails
<1>4. ASSUME NEW r \in Runs, ReadEvent(r) PROVE TypeOK'
  <2>1. Head(pipe[r]) \in Line /\ Tail(pipe[r]) \in Seq(Line)
    BY <1>4 DEF ReadEvent
  <2>2. pipe' \in [Runs -> Seq(Line)]
    BY <1>4, <2>1 DEF ReadEvent
  <2>3. AppendEvent(events[r], Head(pipe[r]).sequence, Head(pipe[r]).event)
          \in [Sequences -> Event \cup {Unstored}]
    BY <1>4, <2>1, LineParts DEF ReadEvent, AppendEvent
  <2>4. events' \in [Runs -> [Sequences -> Event \cup {Unstored}]]
    BY <1>4, <2>3 DEF ReadEvent
  <2> QED
    BY <1>4, <2>2, <2>4 DEF ReadEvent
<1>5. ASSUME NEW r \in Runs, ReadSummary(r) PROVE TypeOK'
  <2>1. Head(pipe[r]) \in Line /\ Tail(pipe[r]) \in Seq(Line)
    BY <1>5 DEF ReadSummary
  <2>2. pipe' \in [Runs -> Seq(Line)]
    BY <1>5, <2>1 DEF ReadSummary
  <2>3. exec' \in [Runs -> Executor]
    BY <1>5, <2>1, LineParts, ExecutorSteps DEF ReadSummary
  <2> QED
    BY <1>5, <2>2, <2>3 DEF ReadSummary
<1>6. ASSUME NEW r \in Runs, WorkerCloses(r) PROVE TypeOK'
  <2>1. exec[r].summary \in Outcomes \cup {"none"}
    BY DEF Executor
  <2>2. Closed(r, ExitState(exec[r].summary), ExitResult(exec[r].summary)) \in Record
    BY <2>1, OutcomeMaps, ClosedType
  <2>3. run' \in [Runs -> Record]
    BY <1>6, <2>2 DEF WorkerCloses
  <2>4. exec' \in [Runs -> Executor]
    BY <1>6, ExecutorSteps DEF WorkerCloses
  <2> QED
    BY <1>6, <2>3, <2>4 DEF WorkerCloses
<1>7. ASSUME NEW r \in Runs, TimerFires(r) PROVE TypeOK'
  <2>1. Closed(r, "timed_out", "timed_out") \in Record
    BY ClosedType DEF FinalStates
  <2>2. run' \in [Runs -> Record]
    BY <1>7, <2>1 DEF TimerFires
  <2>3. exec' \in [Runs -> Executor]
    BY <1>7, ExecutorSteps DEF TimerFires
  <2>4. worker' \in [Runs -> Worker]
    BY <1>7, WorkerSteps DEF TimerFires
  <2> QED
    BY <1>7, <2>2, <2>3, <2>4 DEF TimerFires
<1>8. ASSUME ApiDies, crashes' \in 0..MaxCrashes PROVE TypeOK'
  <2>1. exec' \in [Runs -> Executor]
    BY <1>8 DEF ApiDies, Executor, NoExecutor
  <2>2. worker' \in [Runs -> Worker]
    <3>1. \A r \in Runs : [worker[r] EXCEPT !.pc = "exited"] \in Worker
      BY WorkerSteps
    <3> QED
      BY <1>8, <3>1 DEF ApiDies
  <2>3. pipe' \in [Runs -> Seq(Line)]
    BY <1>8 DEF ApiDies
  <2> QED
    BY <1>8, <2>1, <2>2, <2>3 DEF ApiDies
<1>9. ASSUME NEW r \in Runs, BrokenCloses(r) PROVE TypeOK'
  BY <1>8, <1>9 DEF BrokenCloses
<1>10. ASSUME NEW r \in Runs, WorkerStep(r) PROVE TypeOK'
  <2>1. ASSUME NEW line \in Line, WriteLine(r, line) PROVE pipe' \in [Runs -> Seq(Line)]
    BY <2>1 DEF WriteLine
  <2>2. ASSUME NEW e \in Event, worker[r].sent < MaxSequence
        PROVE  EventLine(r, e) \in Line
    BY <2>2, WorkerSteps DEF EventLine, Line
  <2>3. ASSUME NEW kind \in {"model_call", "step"}, WorkerEmits(r, kind) PROVE TypeOK'
    <3>1. worker[r].sent < MaxSequence
      BY <2>3, WorkerSteps DEF WorkerEmits
    <3>2. pipe' \in [Runs -> Seq(Line)]
      <4>1. [kind |-> kind, terminal |-> "none"] \in Event
        BY DEF Event
      <4> QED
        BY <2>1, <2>2, <2>3, <3>1, <4>1 DEF WorkerEmits
    <3>3. worker' \in [Runs -> Worker]
      <4> DEFINE n == worker[r].sent + 1
                 c == IF kind = "model_call" THEN worker[r].calls + 1 ELSE worker[r].calls
      <4>1. n \in 0..MaxSequence /\ worker[r].calls \in Nat
        BY <3>1, WorkerSteps
      <4>1a. c \in Nat
        BY <4>1
      <4>2. worker' = [worker EXCEPT ![r] = [worker[r] EXCEPT !.sent = n, !.calls = c]]
        BY <2>3 DEF WorkerEmits
      <4>3. [worker[r] EXCEPT !.sent = n, !.calls = c] \in Worker
        <5> HIDE DEF n, c
        <5> QED
          BY <4>1, <4>1a DEF Worker
      <4> QED
        BY <4>2, <4>3
    <3> QED
      BY <2>3, <3>2, <3>3 DEF WorkerEmits
  <2>4. ASSUME NEW outcome \in Outcomes, WorkerEnds(r, outcome) PROVE TypeOK'
    <3>1. pipe' \in [Runs -> Seq(Line)]
      <4>1. [kind |-> "run_end", terminal |-> outcome] \in Event
        BY DEF Event
      <4> QED
        BY <2>1, <2>2, <2>4, <4>1 DEF WorkerEnds
    <3>2. worker' \in [Runs -> Worker]
      <4> DEFINE n == worker[r].sent + 1
      <4>1. n \in 0..MaxSequence
        BY <2>4, WorkerSteps DEF WorkerEnds
      <4>2. worker' = [worker EXCEPT ![r] = [worker[r] EXCEPT
                         !.sent = n, !.pc = "ending", !.verdict = outcome]]
        BY <2>4 DEF WorkerEnds
      <4>3. [worker[r] EXCEPT !.sent = n, !.pc = "ending", !.verdict = outcome] \in Worker
        <5> HIDE DEF n
        <5> QED
          BY <4>1 DEF Worker
      <4> QED
        BY <4>2, <4>3
    <3> QED
      BY <2>4, <3>1, <3>2 DEF WorkerEnds
  <2>5. ASSUME WorkerSummarises(r) PROVE TypeOK'
    <3>1. pipe' \in [Runs -> Seq(Line)]
      BY <2>1, <2>5 DEF WorkerSummarises, Line, EndingHasVerdict
    <3>2. worker' \in [Runs -> Worker]
      BY <2>5, WorkerSteps DEF WorkerSummarises
    <3> QED
      BY <2>5, <3>1, <3>2 DEF WorkerSummarises
  <2>6. ASSUME WorkerDies(r) PROVE TypeOK'
    BY <2>6, WorkerSteps DEF WorkerDies
  <2> QED
    BY <1>10, <2>3, <2>4, <2>5, <2>6 DEF WorkerStep
<1>11. ASSUME NEW p \in Senders, NEW r \in Runs, PostBegins(p, r) PROVE TypeOK'
  BY <1>11 DEF PostBegins, Request
<1>12. ASSUME NEW q \in requests, NEW batch \in Batches, PostCompletes(q, batch)
       PROVE  TypeOK'
  <2> DEFINE r == q.run
             log == events[r]
  <2>1. r \in Runs /\ q.stale \in Record /\ log \in [Sequences -> Event \cup {Unstored}]
    BY DEF Request
  <2>2. events' \in [Runs -> [Sequences -> Event \cup {Unstored}]]
    BY <1>12, <2>1, IngestType DEF PostCompletes
  <2>3. observedCalls(events'[r]) \in Nat
    BY <2>1, <2>2, ObservedIsNat
  <2>4. run' \in [Runs -> Record]
    <3>1. CASE Endings(log, r, batch) # {}
      <4> DEFINE claim == Claimed(log, r, batch)
      <4>1. PostedState(claim) \in FinalStates
            /\ PostedResult(claim) \in {"succeeded", "failed", "timed_out", "unknown"}
        BY <2>1, <3>1, ClaimedIsOutcome, OutcomeMaps
      <4>2. [q.stale EXCEPT !.state = PostedState(claim),
                            !.terminalResult = PostedResult(claim),
                            !.ended = TRUE,
                            !.modelCalls = observedCalls(events'[r])] \in Record
        <5> HIDE DEF claim, r
        <5> QED
          BY <2>1, <2>3, <4>1, WrittenRecords
      <4> QED
        BY <1>12, <2>1, <3>1, <4>2 DEF PostCompletes
    <3>2. CASE Endings(log, r, batch) = {}
      BY <1>12, <2>1, <3>2, WrittenRecords DEF PostCompletes
    <3> QED
      BY <3>1, <3>2
  <2> QED
    BY <1>12, <2>2, <2>4 DEF PostCompletes
<1>13. ASSUME NEW q \in requests, PostAborts(q) PROVE TypeOK'
  BY <1>13 DEF PostAborts
<1>14. ASSUME Crash PROVE TypeOK'
  BY <1>8, <1>14 DEF Crash, ControllerAssumption
<1>15. ASSUME Restart PROVE TypeOK'
  BY <1>15 DEF Restart
<1>16. CASE UNCHANGED vars
  BY <1>16 DEF vars
<1> QED
  BY <1>1, <1>2, <1>3, <1>4, <1>5, <1>6, <1>7, <1>9, <1>10, <1>11, <1>12,
     <1>13, <1>14, <1>15, <1>16 DEF Next, ServerStep, RunStep, PostStep

(* In every reachable state the variables have their types: whatever the    *)
(* number of runs, clients, sequences and crashes.                          *)
THEOREM TypeCorrect == ControllerAssumption => (Spec => []TypeOK)
<1> SUFFICES ASSUME ControllerAssumption PROVE Spec => []TypeOK
  OBVIOUS
<1> DEFINE Typed == TypeOK /\ EndingHasVerdict
<1>1. Init => Typed
  BY InitType DEF Init, NoWorker, EndingHasVerdict
<1>2. Typed /\ [Next]_vars => Typed'
  BY TypeStep, VerdictStep
<1> QED
  BY <1>1, <1>2, PTL DEF Spec

----------------------------------------------------------------------------
(* What a step may do to the records: nothing; admit r into a free slot;    *)
(* move the admitted r to running; or end the active r.                     *)
Admits(r) ==
  /\ run[r] = NoRun /\ ActiveRuns = {}
  /\ callsUsed + MaxModelCalls <= TotalCallBudget
  /\ run' = [run EXCEPT ![r] = newRun]
Begins(r) ==
  /\ run[r].state = "admitted"
  /\ \E rec : /\ rec.state = "running" /\ ~rec.ended
              /\ run' = [run EXCEPT ![r] = rec]
Ends(r) ==
  /\ isActive(run[r])
  /\ \E rec : /\ rec.state \in FinalStates /\ rec.ended
              /\ run' = [run EXCEPT ![r] = rec]
Moves == run' = run \/ \E r \in Runs : Admits(r) \/ Begins(r) \/ Ends(r)

Inv == TypeOK /\ SlotInvariant

LEMMA NewRunFields ==
  /\ newRun.state = "admitted" /\ ~newRun.ended
  /\ newRun # NoRun /\ isActive(newRun)
  /\ ~isActive(NoRun) /\ ~NoRun.ended /\ NoRun.state = "none"
  /\ ActiveStates \cap FinalStates = {}
BY DEF newRun, NoRun, isActive, ActiveStates, FinalStates

(* The records finish and the events route put.                             *)
LEMMA EndFields ==
  ASSUME NEW rec \in Record, NEW st, NEW res, NEW n
  PROVE  LET closed == [rec EXCEPT !.state = st, !.terminalResult = res,
                                   !.ended = TRUE, !.modelCalls = n]
         IN  closed.state = st /\ closed.ended
BY DEF Record

LEMMA LaunchFields ==
  /\ [newRun EXCEPT !.state = "running"].state = "running"
  /\ ~[newRun EXCEPT !.state = "running"].ended
  /\ [newRun EXCEPT !.state = "failed", !.terminalResult = "failed", !.ended = TRUE].ended
  /\ [newRun EXCEPT !.state = "failed", !.terminalResult = "failed",
                    !.ended = TRUE].state = "failed"
BY DEF newRun, NoRun

(* Under the invariant every step changes the records as Moves says.        *)
LEMMA StepMoves ==
  ASSUME ControllerAssumption, Inv, [Next]_vars
  PROVE  Moves
<1> USE DEF Inv
<1>1. ASSUME NEW r \in Runs, StartRun(r) PROVE Moves
  <2>1. ActiveRuns = {} /\ callsUsed + MaxModelCalls <= TotalCallBudget
    BY <1>1 DEF StartRun, Admissible
  <2> QED
    BY <1>1, <2>1 DEF StartRun, Moves, Admits
<1>2. ASSUME NEW r \in Runs, LaunchSucceeds(r) PROVE Moves
  <2>1. run[r] = newRun
    BY <1>2 DEF LaunchSucceeds, SlotInvariant, ExecutorOwnsRecord
  <2> QED
    BY <1>2, <2>1, NewRunFields, LaunchFields DEF LaunchSucceeds, Moves, Begins
<1>3. ASSUME NEW r \in Runs, LaunchFails(r) PROVE Moves
  <2>1. run[r] = newRun
    BY <1>3 DEF LaunchFails, SlotInvariant, ExecutorOwnsRecord
  <2>2. "failed" \in FinalStates
    BY DEF FinalStates
  <2> QED
    BY <1>3, <2>1, <2>2, NewRunFields, LaunchFields DEF LaunchFails, Moves, Ends
<1>4. ASSUME NEW r \in Runs, exec[r].pc = "running" PROVE isActive(run[r])
  BY <1>4 DEF SlotInvariant, ExecutorOwnsRecord, isActive, ActiveStates
<1>5. ASSUME NEW r \in Runs, NEW st \in FinalStates, NEW res
      PROVE  Closed(r, st, res).state = st /\ Closed(r, st, res).ended
  BY EndFields DEF Closed, TypeOK
<1>6. ASSUME NEW r \in Runs, WorkerCloses(r) PROVE Moves
  <2>1. CASE exec[r].pc = "running"
    <3>1. exec[r].summary \in Outcomes \cup {"none"}
      BY DEF TypeOK, Executor
    <3>2. ExitState(exec[r].summary) \in FinalStates
      BY <3>1, OutcomeMaps
    <3>3. run' = [run EXCEPT ![r] = Closed(r, ExitState(exec[r].summary),
                                              ExitResult(exec[r].summary))]
      BY <1>6, <2>1 DEF WorkerCloses
    <3> DEFINE rec == Closed(r, ExitState(exec[r].summary), ExitResult(exec[r].summary))
    <3>4. rec.state \in FinalStates /\ rec.ended
      BY <1>5, <3>2
    <3>5. isActive(run[r])
      BY <1>4, <2>1
    <3> HIDE DEF rec
    <3>6. run' = [run EXCEPT ![r] = rec]
      BY <3>3 DEF rec
    <3>7. Ends(r)
      BY <3>4, <3>5, <3>6, Zenon DEF Ends
    <3> QED
      BY <3>7 DEF Moves
  <2>2. CASE exec[r].pc # "running"
    BY <1>6, <2>2 DEF WorkerCloses, Moves
  <2> QED
    BY <2>1, <2>2
<1>7. ASSUME NEW r \in Runs, TimerFires(r) PROVE Moves
  <2>1. "timed_out" \in FinalStates
    BY DEF FinalStates
  <2>2. exec[r].pc = "running" /\ run' = [run EXCEPT ![r] = Closed(r, "timed_out", "timed_out")]
    BY <1>7 DEF TimerFires
  <2>3. Closed(r, "timed_out", "timed_out").state \in FinalStates
        /\ Closed(r, "timed_out", "timed_out").ended
    BY <1>5, <2>1
  <2>4. isActive(run[r])
    BY <1>4, <2>2
  <2>5. Ends(r)
    BY <2>2, <2>3, <2>4, Zenon DEF Ends
  <2> QED
    BY <2>5 DEF Moves
<1>8. ASSUME NEW q \in requests, NEW batch \in Batches, PostCompletes(q, batch)
      PROVE  Moves
  <2>1. q.run \in Runs /\ q.stale \in Record /\ q.stale = run[q.run] /\ isActive(run[q.run])
    <3>1. q \in Request
      BY DEF TypeOK
    <3> QED
      BY <3>1 DEF SlotInvariant, HandlersAreFresh, Request
  <2>2. CASE Endings(events[q.run], q.run, batch) # {}
    <3> DEFINE claim == Claimed(events[q.run], q.run, batch)
               rec == [q.stale EXCEPT !.state = PostedState(claim),
                                      !.terminalResult = PostedResult(claim),
                                      !.ended = TRUE,
                                      !.modelCalls = observedCalls(events'[q.run])]
    <3>1. run' = [run EXCEPT ![q.run] = rec]
      BY <1>8, <2>2 DEF PostCompletes
    <3>2. rec.state \in FinalStates /\ rec.ended
      <4>1. PostedState(claim) \in FinalStates
        BY OutcomeMaps
      <4> HIDE DEF claim
      <4> QED
        BY <2>1, <4>1, EndFields
    <3> HIDE DEF rec
    <3>3. Ends(q.run)
      BY <2>1, <3>1, <3>2, Zenon DEF Ends
    <3> QED
      BY <2>1, <3>3 DEF Moves
  <2>3. CASE Endings(events[q.run], q.run, batch) = {} /\ run' # run
    <3>1. q.stale.state = "admitted"
          /\ run' = [run EXCEPT ![q.run] = [q.stale EXCEPT !.state = "running"]]
      BY <1>8, <2>3 DEF PostCompletes
    <3>2. ~q.stale.ended
      BY <2>1 DEF SlotInvariant, RecordsWellFormed, NoRun, isActive, ActiveStates, FinalStates
    <3>3. [q.stale EXCEPT !.state = "running"].state = "running"
          /\ ~[q.stale EXCEPT !.state = "running"].ended
      BY <2>1, <3>2 DEF Record
    <3> QED
      BY <2>1, <3>1, <3>3 DEF Moves, Begins
  <2> QED
    BY <2>2, <2>3 DEF Moves
<1>9. ASSUME UNCHANGED run PROVE Moves
  BY <1>9 DEF Moves
<1>10. ASSUME NEW r \in Runs, RunStep(r) PROVE Moves
  BY <1>1, <1>2, <1>3, <1>6, <1>7, <1>9, <1>10
     DEF RunStep, ReadEvent, ReadSummary, BrokenCloses, ApiDies
<1>11. ASSUME NEW r \in Runs, WorkerStep(r) PROVE Moves
  BY <1>9, <1>11 DEF WorkerStep, WorkerEmits, WorkerEnds, WorkerSummarises, WorkerDies
<1>12. ASSUME PostStep PROVE Moves
  BY <1>8, <1>9, <1>12 DEF PostStep, PostBegins, PostAborts
<1> QED
  BY <1>9, <1>10, <1>11, <1>12 DEF Next, ServerStep, Crash, ApiDies, Restart, vars

(* A step of that shape keeps the slot single and the records well formed.  *)
LEMMA MovesKeepSlot ==
  ASSUME TypeOK, AtMostOneActive, RecordsWellFormed, Moves
  PROVE  AtMostOneActive' /\ RecordsWellFormed'
<1> USE DEF TypeOK
<1>1. CASE run' = run
  BY <1>1 DEF AtMostOneActive, RecordsWellFormed, ActiveRuns
<1>2. ASSUME NEW r \in Runs, Admits(r) PROVE AtMostOneActive' /\ RecordsWellFormed'
  <2>1. run'[r] = newRun /\ \A x \in Runs \ {r} : run'[x] = run[x] /\ ~isActive(run[x])
    BY <1>2 DEF Admits, ActiveRuns
  <2> QED
    BY <2>1, NewRunFields DEF AtMostOneActive, RecordsWellFormed, ActiveRuns
<1>3. ASSUME NEW r \in Runs, Begins(r) \/ Ends(r) PROVE AtMostOneActive' /\ RecordsWellFormed'
  <2>1. isActive(run[r]) /\ \A x \in Runs \ {r} : run'[x] = run[x]
    BY <1>3 DEF Begins, Ends, isActive, ActiveStates
  <2>2. \A x \in Runs \ {r} : ~isActive(run[x])
    BY <2>1 DEF AtMostOneActive, ActiveRuns
  <2>3. \/ isActive(run'[r]) /\ ~run'[r].ended
        \/ run'[r].state \in FinalStates /\ run'[r].ended
    BY <1>3 DEF Begins, Ends, isActive, ActiveStates
  <2>4. AtMostOneActive'
    BY <2>1, <2>2 DEF AtMostOneActive, ActiveRuns
  <2>5. RecordsWellFormed'
    BY <2>1, <2>3 DEF RecordsWellFormed
  <2> QED
    BY <2>4, <2>5
<1> QED
  BY <1>1, <1>2, <1>3 DEF Moves

(* The rest of the invariant: who may still write.                          *)
LEMMA ExecutorStep ==
  ASSUME ControllerAssumption, SingleWriter, Inv, [Next]_vars
  PROVE  ExecutorOwnsRecord'
<1> USE DEF Inv
<1>0. TypeOK /\ ExecutorOwnsRecord
  BY DEF SlotInvariant
<1> DEFINE Owned(x, rec) == /\ Driver = "mcp" => x.pc = "idle"
                            /\ x.pc = "starting" => rec = newRun
                            /\ x.pc = "running" => rec.state = "running"
<1>1. \A r \in Runs : Owned(exec[r], run[r])
  BY <1>0 DEF ExecutorOwnsRecord
<1> SUFFICES \A r \in Runs : Owned(exec'[r], run'[r])
  BY DEF ExecutorOwnsRecord
<1>2. \A r \in Runs : exec[r] \in Executor /\ run[r] \in Record
  BY <1>0 DEF TypeOK
<1>3. \A r \in Runs : \A p \in {"starting", "running", "settled", "closed", "broken"} :
        [exec EXCEPT ![r].pc = p][r].pc = p
        /\ \A x \in Runs \ {r} : [exec EXCEPT ![r].pc = p][x] = exec[x]
  BY <1>0 DEF TypeOK, Executor
<1>4. ASSUME NEW r \in Runs, NEW rec, run' = [run EXCEPT ![r] = rec]
      PROVE  run'[r] = rec /\ \A x \in Runs \ {r} : run'[x] = run[x]
  BY <1>0, <1>4 DEF TypeOK
<1>5. CASE exec' = exec /\ run' = run
  BY <1>1, <1>5
<1>6. ASSUME ApiDies PROVE \A r \in Runs : Owned(exec'[r], run'[r])
  BY <1>6 DEF ApiDies, NoExecutor
<1>7. ASSUME NEW r \in Runs, StartRun(r) PROVE \A x \in Runs : Owned(exec'[x], run'[x])
  <2>1. run'[r] = newRun /\ \A x \in Runs \ {r} : run'[x] = run[x]
    BY <1>4, <1>7 DEF StartRun
  <2>2. CASE Driver = "worker"
    <3>1. exec' = [exec EXCEPT ![r].pc = "starting"]
      BY <1>7, <2>2 DEF StartRun
    <3>2. exec'[r].pc = "starting" /\ \A x \in Runs \ {r} : exec'[x] = exec[x]
      BY <1>3, <3>1
    <3> QED
      BY <1>1, <2>1, <2>2, <3>2
  <2>3. CASE Driver # "worker"
    <3>1. exec' = exec
      BY <1>7, <2>3 DEF StartRun
    <3>2. exec[r].pc = "idle"
      BY <1>1, <2>3 DEF ControllerAssumption
    <3> QED
      BY <1>1, <2>1, <3>1, <3>2
  <2> QED
    BY <2>2, <2>3
<1>8. ASSUME NEW r \in Runs, LaunchSucceeds(r) PROVE \A x \in Runs : Owned(exec'[x], run'[x])
  <2>1. run'[r] = [newRun EXCEPT !.state = "running"] /\ \A x \in Runs \ {r} : run'[x] = run[x]
    BY <1>4, <1>8 DEF LaunchSucceeds
  <2>2. exec'[r].pc = "running" /\ \A x \in Runs \ {r} : exec'[x] = exec[x]
    BY <1>3, <1>8 DEF LaunchSucceeds
  <2>3. Driver # "mcp"
    BY <1>1, <1>8 DEF LaunchSucceeds
  <2> QED
    BY <1>1, <2>1, <2>2, <2>3, LaunchFields
<1>9. ASSUME NEW r \in Runs, NEW p \in {"settled", "closed", "broken"},
             exec[r].pc # "idle", exec' = [exec EXCEPT ![r].pc = p],
             \A x \in Runs \ {r} : run'[x] = run[x]
      PROVE  \A x \in Runs : Owned(exec'[x], run'[x])
  <2>1. exec'[r].pc = p /\ \A x \in Runs \ {r} : exec'[x] = exec[x]
    BY <1>3, <1>9
  <2>2. Driver # "mcp"
    BY <1>1, <1>9
  <2> QED
    BY <1>1, <1>9, <2>1, <2>2
<1>10. ASSUME NEW r \in Runs, LaunchFails(r) \/ WorkerCloses(r) \/ TimerFires(r)
       PROVE  \A x \in Runs : Owned(exec'[x], run'[x])
  <2>1. \A x \in Runs \ {r} : run'[x] = run[x]
    BY <1>0, <1>10 DEF TypeOK, LaunchFails, WorkerCloses, TimerFires
  <2> HIDE DEF Owned
  <2> QED
    BY <1>9, <1>10, <2>1 DEF LaunchFails, WorkerCloses, TimerFires
<1>11. ASSUME NEW r \in Runs, ReadSummary(r) PROVE \A x \in Runs : Owned(exec'[x], run'[x])
  <2>1. run' = run /\ \A x \in Runs : exec'[x].pc = exec[x].pc
    BY <1>0, <1>11 DEF TypeOK, ReadSummary, Executor
  <2> QED
    BY <1>1, <2>1
<1>12. ASSUME NEW q \in requests, NEW batch \in Batches, PostCompletes(q, batch)
       PROVE  \A x \in Runs : Owned(exec'[x], run'[x])
  <2>1. Driver = "mcp"
    <3>1. q.sender \in Senders
      BY <1>0 DEF TypeOK, Request
    <3> QED
      BY <3>1 DEF SingleWriter
  <2>2. exec' = exec
    BY <1>12 DEF PostCompletes
  <2> QED
    BY <1>1, <2>1, <2>2
<1> HIDE DEF Owned
<1>13. ASSUME NEW r \in Runs, RunStep(r) \/ WorkerStep(r)
       PROVE  \A x \in Runs : Owned(exec'[x], run'[x])
  <2>1. CASE ReadEvent(r)
    BY <1>5, <2>1 DEF ReadEvent
  <2>2. CASE BrokenCloses(r)
    BY <1>6, <2>2 DEF BrokenCloses
  <2>3. CASE WorkerStep(r)
    BY <1>5, <2>3 DEF WorkerStep, WorkerEmits, WorkerEnds, WorkerSummarises, WorkerDies
  <2> QED
    BY <1>7, <1>8, <1>10, <1>11, <1>13, <2>1, <2>2, <2>3 DEF RunStep
<1>14. ASSUME PostStep PROVE \A x \in Runs : Owned(exec'[x], run'[x])
  BY <1>5, <1>12, <1>14 DEF PostStep, PostBegins, PostAborts
<1> QED
  BY <1>5, <1>6, <1>13, <1>14 DEF Next, ServerStep, Crash, Restart, vars

LEMMA HandlerStep ==
  ASSUME ControllerAssumption, SingleWriter, Inv, [Next]_vars
  PROVE  HandlersAreFresh'
<1> USE DEF Inv
<1>0. TypeOK /\ ExecutorOwnsRecord /\ HandlersAreFresh /\ RecordsWellFormed
  BY DEF SlotInvariant
<1>1. ASSUME requests' \subseteq requests, run' = run PROVE HandlersAreFresh'
  BY <1>0, <1>1 DEF HandlersAreFresh
<1>2. ASSUME requests' = {} PROVE HandlersAreFresh'
  BY <1>2 DEF HandlersAreFresh
<1>3. ASSUME NEW p \in Senders, NEW r \in Runs, PostBegins(p, r) PROVE HandlersAreFresh'
  <2>1. requests = {}
    <3>1. \A q \in requests : q.sender \in Senders
      BY <1>0 DEF TypeOK, Request
    <3> QED
      BY <1>3, <3>1 DEF PostBegins, SingleWriter
  <2>2. isActive(run[r])
    BY <1>0, <1>3 DEF PostBegins, RecordsWellFormed
  <2>3. run' = run /\ requests' = {[sender |-> p, run |-> r, stale |-> run[r]]}
    BY <1>3, <2>1 DEF PostBegins
  <2> QED
    BY <2>2, <2>3 DEF HandlersAreFresh
<1>4. ASSUME NEW q \in requests, NEW batch \in Batches, PostCompletes(q, batch)
      PROVE  HandlersAreFresh'
  <2>1. requests' = {}
    BY <1>0, <1>4 DEF HandlersAreFresh, PostCompletes
  <2> QED
    BY <1>2, <2>1
<1>5. CASE requests = {} /\ UNCHANGED requests
  BY <1>2, <1>5
<1>6. ASSUME NEW r \in Runs, StartRun(r), requests # {} PROVE FALSE
  <2>1. PICK q \in requests : q.stale = run[q.run] /\ isActive(q.stale)
    BY <1>0, <1>6 DEF HandlersAreFresh
  <2>2. q.run \in Runs
    BY <1>0 DEF TypeOK, Request
  <2> QED
    BY <1>6, <2>1, <2>2 DEF StartRun, Admissible, ActiveRuns
<1>7. ASSUME NEW r \in Runs, exec[r].pc # "idle" PROVE requests = {}
  <2>1. Driver # "mcp"
    BY <1>0, <1>7 DEF ExecutorOwnsRecord
  <2>2. \A q \in requests : q.sender \in Senders
    BY <1>0 DEF TypeOK, Request
  <2> QED
    BY <2>1, <2>2 DEF SingleWriter
<1>8. ASSUME NEW r \in Runs, RunStep(r) PROVE HandlersAreFresh'
  <2>1. CASE StartRun(r)
    BY <1>5, <1>6, <2>1 DEF StartRun
  <2>2. CASE LaunchSucceeds(r) \/ LaunchFails(r) \/ ReadEvent(r) \/ ReadSummary(r)
             \/ WorkerCloses(r) \/ TimerFires(r)
    BY <1>5, <1>7, <2>2 DEF LaunchSucceeds, LaunchFails, ReadEvent, ReadSummary,
                            WorkerCloses, TimerFires
  <2>3. CASE BrokenCloses(r)
    BY <1>2, <2>3 DEF BrokenCloses, ApiDies
  <2> QED
    BY <1>8, <2>1, <2>2, <2>3 DEF RunStep
<1>9. ASSUME NEW r \in Runs, WorkerStep(r) PROVE HandlersAreFresh'
  BY <1>1, <1>9 DEF WorkerStep, WorkerEmits, WorkerEnds, WorkerSummarises, WorkerDies
<1>10. ASSUME PostStep PROVE HandlersAreFresh'
  BY <1>1, <1>3, <1>4, <1>10 DEF PostStep, PostAborts
<1> QED
  BY <1>1, <1>2, <1>8, <1>9, <1>10 DEF Next, ServerStep, Crash, ApiDies, Restart, vars

----------------------------------------------------------------------------
(* The invariant holds of every behaviour with a single writer.             *)
LEMMA InvStep ==
  ASSUME ControllerAssumption, SingleWriter, Inv, EndingHasVerdict, [Next]_vars
  PROVE  Inv' /\ EndingHasVerdict'
<1>1. TypeOK' /\ EndingHasVerdict'
  BY TypeStep, VerdictStep DEF Inv
<1>2. AtMostOneActive' /\ RecordsWellFormed'
  BY StepMoves, MovesKeepSlot DEF Inv, SlotInvariant
<1> QED
  BY <1>1, <1>2, ExecutorStep, HandlerStep DEF Inv, SlotInvariant

LEMMA InvInit == ControllerAssumption /\ Init => Inv /\ EndingHasVerdict
<1> SUFFICES ASSUME ControllerAssumption, Init PROVE Inv /\ EndingHasVerdict
  OBVIOUS
<1>1. TypeOK
  BY InitType
<1>2. AtMostOneActive /\ RecordsWellFormed
  BY NewRunFields DEF Init, AtMostOneActive, RecordsWellFormed, ActiveRuns
<1>3. ExecutorOwnsRecord /\ HandlersAreFresh /\ EndingHasVerdict
  BY DEF Init, ExecutorOwnsRecord, HandlersAreFresh, EndingHasVerdict, NoExecutor, NoWorker
<1> QED
  BY <1>1, <1>2, <1>3 DEF Inv, SlotInvariant

LEMMA InvHolds == ControllerAssumption /\ SingleWriter => (Spec => [](Inv /\ EndingHasVerdict))
<1> SUFFICES ASSUME ControllerAssumption, SingleWriter
             PROVE  Spec => [](Inv /\ EndingHasVerdict)
  OBVIOUS
<1>1. Init => Inv /\ EndingHasVerdict
  BY InvInit
<1>2. (Inv /\ EndingHasVerdict) /\ [Next]_vars => (Inv /\ EndingHasVerdict)'
  BY InvStep
<1> QED
  BY <1>1, <1>2, PTL DEF Spec

(* One run at a time, whatever the executor, the timer, the worker and the  *)
(* crashes do, as long as one writer may change the records.                *)
THEOREM OneActive == ControllerAssumption /\ SingleWriter => (Spec => []AtMostOneActive)
<1> SUFFICES ASSUME ControllerAssumption, SingleWriter PROVE Spec => []AtMostOneActive
  OBVIOUS
<1>1. Inv => AtMostOneActive
  BY DEF Inv, SlotInvariant
<1> QED
  BY <1>1, InvHolds, PTL

(* The strengthening itself, which the runs check too.                      *)
THEOREM SlotIsOwned == ControllerAssumption /\ SingleWriter => (Spec => []SlotInvariant)
<1> SUFFICES ASSUME ControllerAssumption, SingleWriter PROVE Spec => []SlotInvariant
  OBVIOUS
<1>1. Inv => SlotInvariant
  BY DEF Inv
<1> QED
  BY <1>1, InvHolds, PTL

(* A record that ended is not written.                                      *)
LEMMA EndedKept ==
  ASSUME ControllerAssumption, Inv, [Next]_vars
  PROVE  \A r \in Runs : run[r].ended => run'[r] = run[r]
<1> DEFINE Kept == \A r \in Runs : run[r].ended => run'[r] = run[r]
<1>1. Moves
  BY StepMoves
<1>2. run \in [Runs -> Record] /\ RecordsWellFormed
  BY DEF Inv, TypeOK, SlotInvariant
<1>3. ASSUME NEW r \in Runs, Admits(r) \/ Begins(r) \/ Ends(r) PROVE Kept
  <2>1. \A x \in Runs \ {r} : run'[x] = run[x]
    BY <1>2, <1>3 DEF Admits, Begins, Ends
  <2>2. ~run[r].ended
    BY <1>2, <1>3, NewRunFields
       DEF Admits, Begins, Ends, RecordsWellFormed, isActive, ActiveStates, FinalStates
  <2> QED
    BY <2>1, <2>2
<1> QED
  BY <1>1, <1>3 DEF Moves

(* With a single writer a record that ended is never written again.         *)
THEOREM OutcomeIsFinal ==
  ControllerAssumption /\ SingleWriter => (Spec => FinishedStaysFinished)
<1> SUFFICES ASSUME ControllerAssumption, SingleWriter PROVE Spec => FinishedStaysFinished
  OBVIOUS
<1> DEFINE Kept == \A r \in Runs : run[r].ended => run'[r] = run[r]
<1>1. Inv /\ [Next]_vars => [Kept]_vars
  BY EndedKept
<1> QED
  BY <1>1, InvHolds, PTL DEF Spec, FinishedStaysFinished

(* The controller implements RunLifecycle under the same assumption.        *)
THEOREM ImplementsRunLifecycle ==
  ControllerAssumption /\ SingleWriter => (Spec => ImplementsLifecycle)
<1> SUFFICES ASSUME ControllerAssumption, SingleWriter PROVE Spec => Lifecycle!LifeSpec
  BY DEF ImplementsLifecycle
<1> DEFINE life == [r \in Runs |-> run[r].state]
<1>1. Init => Lifecycle!LifeInit
  BY NewRunFields DEF Init, Lifecycle!LifeInit
<1>2. ASSUME Inv, [Next]_vars PROVE [Lifecycle!LifeNext]_life
  <2>1. Moves /\ run \in [Runs -> Record]
    BY <1>2, StepMoves DEF Inv, TypeOK
  <2>2. ASSUME NEW r \in Runs, NEW rec, run' = [run EXCEPT ![r] = rec]
        PROVE  life' = [life EXCEPT ![r] = rec.state]
    BY <2>1, <2>2
  <2>3. Lifecycle!Holding = ActiveRuns
    BY DEF Lifecycle!Holding, ActiveRuns, isActive, ActiveStates
  <2>4. ASSUME NEW r \in Runs, Admits(r) PROVE Lifecycle!Admit(r)
    BY <2>2, <2>3, <2>4, NewRunFields DEF Admits, Lifecycle!Admit
  <2>5. ASSUME NEW r \in Runs, Begins(r) PROVE Lifecycle!Begin(r)
    <3>0. PICK rec : rec.state = "running" /\ run' = [run EXCEPT ![r] = rec]
      BY <2>5, Zenon DEF Begins
    <3>1. life' = [life EXCEPT ![r] = "running"]
      <4>1. life' = [life EXCEPT ![r] = rec.state]
        BY <2>2, <3>0
      <4> HIDE DEF life
      <4> QED
        BY <3>0, <4>1
    <3> QED
      BY <2>5, <3>1 DEF Begins, Lifecycle!Begin
  <2>6. ASSUME NEW r \in Runs, Ends(r) PROVE Lifecycle!Finish(r)
    <3>1. PICK st \in FinalStates : life' = [life EXCEPT ![r] = st]
      BY <2>2, <2>6 DEF Ends
    <3> QED
      BY <2>3, <2>6, <3>1 DEF Ends, ActiveRuns, Lifecycle!Finish
  <2>7. CASE run' = run
    BY <2>7
  <2> QED
    BY <2>1, <2>4, <2>5, <2>6, <2>7 DEF Moves, Lifecycle!LifeNext
<1> QED
  BY <1>1, <1>2, InvHolds, PTL DEF Spec, Lifecycle!LifeSpec

(* What is stored stays as it is stored, whoever writes.                    *)
LEMMA StoredStays ==
  ASSUME ControllerAssumption, TypeOK, [Next]_vars
  PROVE  \A r \in Runs : \A s \in Stored(events[r]) : events'[r][s] = events[r][s]
<1> DEFINE Stays == \A r \in Runs : \A s \in Stored(events[r]) : events'[r][s] = events[r][s]
<1> SUFFICES Stays
  OBVIOUS
<1>1. events \in [Runs -> [Sequences -> Event \cup {Unstored}]]
  BY DEF TypeOK
<1>2. ASSUME NEW r \in Runs, NEW log,
             events' = [events EXCEPT ![r] = log],
             \A s \in Stored(events[r]) : log[s] = events[r][s]
      PROVE  Stays
  BY <1>1, <1>2
<1>3. ASSUME NEW r \in Runs, ReadEvent(r) PROVE Stays
  <2>1. \A s \in Stored(events[r]), t \in Sequences, e \in Event :
          AppendEvent(events[r], t, e)[s] = events[r][s]
    BY <1>1 DEF AppendEvent, Stored
  <2>2. Head(pipe[r]) \in Line
    BY <1>3 DEF TypeOK, ReadEvent
  <2> QED
    BY <1>2, <1>3, <2>1, <2>2, LineParts DEF ReadEvent
<1>4. ASSUME NEW q \in requests, NEW batch \in Batches, PostCompletes(q, batch)
      PROVE  Stays
  <2>1. q.run \in Runs
    BY DEF TypeOK, Request
  <2>2. ASSUME NEW s \in Stored(events[q.run])
        PROVE  Ingest(events[q.run], q.run, batch)[s] = events[q.run][s]
    <3>1. s \in Sequences /\ events[q.run][s] # Unstored
      BY <1>1, <2>1 DEF Stored
    <3>2. ~ \E i \in Accepted(events[q.run], q.run, batch) : batch[i].sequence = s
      BY <3>1, Zenon DEF Accepted
    <3> QED
      BY <3>1, <3>2 DEF Ingest
  <2>3. events' = [events EXCEPT ![q.run] = Ingest(events[q.run], q.run, batch)]
    BY <1>4 DEF PostCompletes
  <2> QED
    BY <1>2, <2>1, <2>2, <2>3
<1>5. CASE UNCHANGED events
  BY <1>5
<1> HIDE DEF Stays
<1>6. ASSUME NEW r \in Runs, RunStep(r) PROVE Stays
  BY <1>3, <1>5, <1>6 DEF RunStep, StartRun, LaunchSucceeds, LaunchFails, ReadSummary,
                          WorkerCloses, TimerFires, BrokenCloses, ApiDies
<1>7. ASSUME NEW r \in Runs, WorkerStep(r) PROVE Stays
  BY <1>5, <1>7 DEF WorkerStep, WorkerEmits, WorkerEnds, WorkerSummarises, WorkerDies
<1>8. ASSUME PostStep PROVE Stays
  BY <1>4, <1>5, <1>8 DEF PostStep, PostBegins, PostAborts
<1> QED
  BY <1>5, <1>6, <1>7, <1>8 DEF Next, ServerStep, Crash, ApiDies, Restart, vars

(* "Idempotent ingest", with no assumption on who writes: an event once     *)
(* visible is what every later read returns for its sequence.               *)
THEOREM ReplayIsStable == ControllerAssumption => (Spec => ReplayStable)
<1> SUFFICES ASSUME ControllerAssumption PROVE Spec => ReplayStable
  OBVIOUS
<1> DEFINE Stays == \A r \in Runs : \A s \in Stored(events[r]) : events'[r][s] = events[r][s]
<1>1. TypeOK /\ [Next]_vars => [Stays]_vars
  BY StoredStays
<1> QED
  BY <1>1, TypeCorrect, PTL DEF Spec, ReplayStable

----------------------------------------------------------------------------
(* A record says what its log shows, and the budget covers what the workers *)
(* spend.                                                                   *)

Logs == [Sequences -> Event \cup {Unstored}]

----------------------------------------------------------------------------
(* The invariant, of one run: its record, its log, its executor, its worker *)
(* and the worker's pipe.                                                   *)

End(o) == [kind |-> "run_end", terminal |-> o]
HasEnd(log, o) == \E s \in Sequences : log[s] = End(o)
Blank(log) == \A s \in Sequences : log[s] = Unstored

(* What is stored was numbered by the worker, and so are the unread lines:  *)
(* each carries an event that is not stored yet, and no other carries its   *)
(* sequence.                                                                *)
Pending(log, w, p) ==
  /\ \A s \in Sequences : log[s] # Unstored => s <= w.sent
  /\ \A i \in 1..Len(p) : p[i].type = "event" =>
       /\ p[i].sequence <= w.sent /\ log[p[i].sequence] = Unstored
       /\ \A j \in 1..Len(p) : p[j].type = "event" /\ p[j].sequence = p[i].sequence => j = i

(* The outcome a summary reports is stored as a run_end, or is an unread    *)
(* one in front of line n.                                                  *)
Announced(o, log, p, n) ==
  HasEnd(log, o) \/ \E j \in 1..Len(p) : j < n /\ p[j].type = "event" /\ p[j].event = End(o)
Announcing(log, x, w, p) ==
  /\ w.pc = "ending" => Announced(w.verdict, log, p, Len(p) + 1)
  /\ \A i \in 1..Len(p) : p[i].type = "summary" => Announced(p[i].outcome, log, p, i)
  /\ x.summary # "none" => HasEnd(log, x.summary)

(* What a record says, its log shows; a record that has not ended has no    *)
(* result.                                                                  *)
Shown(rec, log) ==
  /\ rec.state = "completed" => HasEnd(log, "succeeded")
  /\ rec.ended /\ rec.state # "timed_out" => rec.modelCalls = observedCalls(log)
  /\ ~rec.ended => rec.terminalResult = "unknown"

(* Before the launch there is nothing; a settled executor, which still      *)
(* reads, belongs to a run that timed out.                                  *)
Fresh(log, x, w, p) == Blank(log) /\ w = NoWorker /\ p = <<>> /\ x.summary = "none"
Evident(rec, log, x, w, p) ==
  /\ rec = NoRun \/ x.pc = "starting" => Fresh(log, x, w, p)
  /\ x.pc = "settled" => rec.state = "timed_out"
  /\ Driver = "worker" => Pending(log, w, p) /\ Announcing(log, x, w, p)
  /\ Shown(rec, log)
Evidence == \A r \in Runs : Evident(run[r], events[r], exec[r], worker[r], pipe[r])

----------------------------------------------------------------------------
(* Sequences and logs.                                                      *)

LEMMA AppendParts ==
  ASSUME NEW S, NEW p \in Seq(S), NEW l \in S
  PROVE  /\ Len(p) \in Nat /\ Len(Append(p, l)) = Len(p) + 1
         /\ \A i \in 1..Len(p) : Append(p, l)[i] = p[i]
         /\ Append(p, l)[Len(p) + 1] = l
         /\ \A i \in 1..Len(Append(p, l)) : i \in 1..Len(p) \/ i = Len(p) + 1
OBVIOUS

LEMMA TailParts ==
  ASSUME NEW S, NEW p \in Seq(S), p # <<>>
  PROVE  /\ Len(p) \in Nat /\ 1 \in 1..Len(p) /\ Head(p) = p[1]
         /\ Len(Tail(p)) = Len(p) - 1
         /\ \A i \in 1..Len(Tail(p)) : i + 1 \in 1..Len(p) /\ Tail(p)[i] = p[i + 1]
         /\ \A i \in 1..Len(p) : i # 1 => i - 1 \in 1..Len(Tail(p)) /\ Tail(p)[i - 1] = p[i]
OBVIOUS

LEMMA EmptyParts == Len(<<>>) = 0 /\ \A i \in 1..Len(<<>>) : FALSE
OBVIOUS

LEMMA LineAt ==
  ASSUME NEW p \in Seq(Line), NEW i \in 1..Len(p)
  PROVE  /\ p[i] \in Line /\ i \in Nat
         /\ p[i].type \in {"event", "summary"}
         /\ p[i].type = "event" => p[i].sequence \in Sequences /\ p[i].event \in Event
<1>1. p[i] \in Line
  OBVIOUS
<1> QED
  BY <1>1, LineParts

LEMMA EventParts ==
  /\ \A e \in Event : e # Unstored
  /\ \A o \in Outcomes : End(o) \in Event /\ End(o) # Unstored
  /\ \A e \in Event : e.kind = "run_end" => e = End(e.terminal) /\ e.terminal \in Outcomes
BY DEF Event, Unstored, End, Outcomes

LEMMA BlankCounts ==
  ASSUME NEW log \in Logs, Blank(log)
  PROVE  observedCalls(log) = 0
<1>1. {s \in DOMAIN log : log[s].kind = "model_call"} = {}
  BY DEF Logs, Blank, Unstored
<1> QED
  BY <1>1, FS_EmptySet DEF observedCalls

(* The log after an event is read.                                          *)
LEMMA AppendEventParts ==
  ASSUME NEW log \in Logs, NEW s \in Sequences, NEW e \in Event, log[s] = Unstored
  PROVE  LET log2 == AppendEvent(log, s, e)
         IN  /\ log2 \in Logs /\ log2[s] = e
             /\ \A t \in Sequences : t # s => log2[t] = log[t]
             /\ \A o : HasEnd(log, o) => HasEnd(log2, o)
<1> DEFINE log2 == AppendEvent(log, s, e)
<1>1. log2 \in Logs /\ log2[s] = e /\ \A t \in Sequences : t # s => log2[t] = log[t]
  BY DEF AppendEvent, Logs
<1>2. ASSUME NEW o, HasEnd(log, o) PROVE HasEnd(log2, o)
  <2>1. PICK t \in Sequences : log[t] = End(o)
    BY <1>2 DEF HasEnd
  <2>2. t # s
    BY <2>1 DEF End, Unstored
  <2> QED
    BY <1>1, <2>1, <2>2 DEF HasEnd
<1> QED
  BY <1>1, <1>2

(* An ingested log keeps the ends it had and has those of the items it took.*)
LEMMA IngestParts ==
  ASSUME ControllerAssumption, NEW log \in Logs, NEW r \in Runs, NEW batch \in Batches
  PROVE  LET log2 == Ingest(log, r, batch)
         IN  /\ \A s \in Sequences : log[s] # Unstored => log2[s] = log[s]
             /\ \A i \in Accepted(log, r, batch) : log2[batch[i].sequence] = batch[i].event
<1> DEFINE log2 == Ingest(log, r, batch)
           taken == Accepted(log, r, batch)
<1>1. /\ batch \in Seq(BatchItem) /\ taken \subseteq 1..Len(batch)
      /\ \A i \in taken : batch[i] \in BatchItem
  BY DEF ControllerAssumption, Accepted
<1>2. \A i \in taken : batch[i].sequence \in Sequences /\ log[batch[i].sequence] = Unstored
  BY <1>1 DEF BatchItem, Accepted
<1>3. \A i, j \in taken : batch[i].sequence = batch[j].sequence => i = j
  <2>1. SUFFICES ASSUME NEW i \in taken, NEW j \in taken,
                        batch[i].sequence = batch[j].sequence, i < j
                 PROVE  FALSE
    BY <1>1
  <2>2. i \in 1..(j - 1) /\ batch[i].run = r
    BY <1>1, <2>1 DEF Accepted
  <2> QED
    BY <2>1, <2>2 DEF Accepted
<1> HIDE DEF taken
<1>4. \A s \in Sequences :
        log2[s] = IF \E i \in taken : batch[i].sequence = s
                  THEN batch[CHOOSE i \in taken : batch[i].sequence = s].event
                  ELSE log[s]
  BY DEF Ingest, taken
<1> HIDE DEF log2
<1>5. ASSUME NEW i \in taken PROVE log2[batch[i].sequence] = batch[i].event
  <2> DEFINE s == batch[i].sequence
             k == CHOOSE j \in taken : batch[j].sequence = s
  <2>1. s \in Sequences /\ k \in taken /\ batch[k].sequence = s
    BY <1>2
  <2>2. k = i
    BY <1>3, <2>1
  <2> QED
    BY <1>4, <2>1, <2>2
<1>6. ASSUME NEW s \in Sequences, log[s] # Unstored PROVE log2[s] = log[s]
  BY <1>2, <1>4, <1>6
<1> QED
  BY <1>5, <1>6 DEF log2, taken

----------------------------------------------------------------------------
(* The pipe: a line is printed at its end and read from its head.           *)

(* An announcement stays one when the log grows or a line is added.         *)
LEMMA AnnouncedAppend ==
  ASSUME NEW log, NEW p \in Seq(Line), NEW line \in Line, NEW o, NEW n \in Nat, Announced(o, log, p, n)
  PROVE  Announced(o, log, Append(p, line), n)
<1>1. CASE HasEnd(log, o)
  BY <1>1 DEF Announced
<1>2. ASSUME NEW j \in 1..Len(p), j < n, p[j].type = "event", p[j].event = End(o)
      PROVE  Announced(o, log, Append(p, line), n)
  <2>1. j \in 1..Len(Append(p, line)) /\ Append(p, line)[j] = p[j]
    BY AppendParts
  <2> QED
    BY <1>2, <2>1 DEF Announced
<1> QED
  BY <1>1, <1>2 DEF Announced

LEMMA AnnouncingAppend ==
  ASSUME NEW log, NEW x, NEW w, NEW w2, NEW p \in Seq(Line), NEW line \in Line,
         Announcing(log, x, w, p),
         w2.pc = "ending" => line.type = "event" /\ line.event = End(w2.verdict),
         line.type = "summary" => w.pc = "ending" /\ line.outcome = w.verdict
  PROVE  Announcing(log, x, w2, Append(p, line))
<1> DEFINE p2 == Append(p, line)
<1>1. /\ Len(p) \in Nat /\ Len(p2) = Len(p) + 1 /\ p2[Len(p) + 1] = line
      /\ \A i \in 1..Len(p) : p2[i] = p[i]
      /\ \A i \in 1..Len(p2) : i \in 1..Len(p) \/ i = Len(p) + 1
  BY AppendParts
<1>2. \A o : \A n \in Nat : Announced(o, log, p, n) => Announced(o, log, p2, n)
  BY AnnouncedAppend
<1> HIDE DEF p2
<1>3. ASSUME w2.pc = "ending" PROVE Announced(w2.verdict, log, p2, Len(p2) + 1)
  <2>1. Len(p) + 1 \in 1..Len(p2) /\ Len(p) + 1 < Len(p2) + 1
    BY <1>1
  <2> QED
    BY <1>1, <1>3, <2>1 DEF Announced
<1>4. ASSUME NEW i \in 1..Len(p2), p2[i].type = "summary"
      PROVE  Announced(p2[i].outcome, log, p2, i)
  <2>1. CASE i \in 1..Len(p)
    <3>1. i \in Nat /\ p2[i] = p[i]
      BY <1>1, <2>1
    <3>2. Announced(p[i].outcome, log, p, i)
      BY <1>4, <2>1, <3>1 DEF Announcing
    <3> QED
      BY <1>2, <3>1, <3>2
  <2>2. CASE i = Len(p) + 1
    <3>1. i \in Nat /\ p2[i] = line
      BY <1>1, <2>2
    <3>2. Announced(line.outcome, log, p, i)
      BY <1>4, <2>2, <3>1 DEF Announcing
    <3> QED
      BY <1>2, <3>1, <3>2
  <2> QED
    BY <1>1, <2>1, <2>2
<1> QED
  BY <1>3, <1>4 DEF Announcing, p2

(* EventStream.emit numbers the next event after every other.               *)
LEMMA EventPrinted ==
  ASSUME ControllerAssumption, NEW log \in Logs, NEW w \in Worker, NEW w2, NEW p \in Seq(Line),
         NEW e \in Event, Pending(log, w, p), w.sent < MaxSequence, w2.sent = w.sent + 1
  PROVE  LET line == [type |-> "event", sequence |-> w.sent + 1, event |-> e]
         IN  line \in Line /\ Pending(log, w2, Append(p, line))
<1> DEFINE n == w.sent + 1
           line == [type |-> "event", sequence |-> n, event |-> e]
           p2 == Append(p, line)
<1>1. w.sent \in Nat /\ n \in Sequences /\ n \in Nat /\ w.sent < n
  BY DEF ControllerAssumption, Worker, Sequences
<1>2. line \in Line
  BY <1>1 DEF Line
<1>3. line.type = "event" /\ line.sequence = n
  OBVIOUS
<1> HIDE DEF line
<1>4. /\ Len(p) \in Nat /\ Len(p2) = Len(p) + 1 /\ p2[Len(p) + 1] = line
      /\ \A i \in 1..Len(p) : p2[i] = p[i]
      /\ \A i \in 1..Len(p2) : i \in 1..Len(p) \/ i = Len(p) + 1
  BY <1>2, AppendParts
<1> HIDE DEF p2
<1>5. \A s \in Sequences : s \in Nat
  BY DEF Sequences, ControllerAssumption
<1>6. \A s \in Sequences : log[s] # Unstored => s <= w.sent
  BY DEF Pending
<1>7. \A i \in 1..Len(p) : p[i].type = "event" =>
        p[i].sequence \in Nat /\ p[i].sequence <= w.sent /\ log[p[i].sequence] = Unstored
  BY <1>5, LineAt DEF Pending
<1> HIDE DEF n
<1>8. log[n] = Unstored
  BY <1>1, <1>6
<1>9. ASSUME NEW s \in Sequences, log[s] # Unstored PROVE s <= w2.sent
  BY <1>1, <1>5, <1>6, <1>9 DEF n
<1>10. ASSUME NEW i \in 1..Len(p2), p2[i].type = "event"
       PROVE  /\ p2[i].sequence <= w2.sent /\ log[p2[i].sequence] = Unstored
              /\ \A j \in 1..Len(p2) : p2[j].type = "event" /\ p2[j].sequence = p2[i].sequence => j = i
  <2>1. CASE i = Len(p) + 1
    <3>1. p2[i] = line
      BY <1>4, <2>1
    <3>2. \A j \in 1..Len(p) : p2[j].type = "event" => p2[j].sequence # n
      BY <1>1, <1>4, <1>7
    <3>3. \A j \in 1..Len(p2) : p2[j].type = "event" /\ p2[j].sequence = n => j = i
      BY <1>4, <2>1, <3>2
    <3> QED
      BY <1>1, <1>3, <1>8, <3>1, <3>3 DEF n
  <2>2. CASE i \in 1..Len(p)
    <3>1. p2[i] = p[i] /\ p[i].type = "event"
      BY <1>4, <1>10, <2>2
    <3>2. p[i].sequence \in Nat /\ p[i].sequence <= w.sent /\ log[p[i].sequence] = Unstored
      BY <1>7, <2>2, <3>1
    <3>3. p[i].sequence <= w2.sent /\ p[i].sequence # n
      BY <1>1, <3>2 DEF n
    <3>4. \A j \in 1..Len(p) : p[j].type = "event" /\ p[j].sequence = p[i].sequence => j = i
      BY <2>2, <3>1 DEF Pending
    <3>5. \A j \in 1..Len(p2) : p2[j].type = "event" /\ p2[j].sequence = p[i].sequence => j = i
      BY <1>3, <1>4, <3>3, <3>4
    <3> QED
      BY <3>1, <3>2, <3>3, <3>5
  <2> QED
    BY <1>4, <2>1, <2>2
<1>11. Pending(log, w2, p2)
  BY <1>9, <1>10 DEF Pending
<1> QED
  BY <1>2, <1>11 DEF line, p2, n

(* A summary is no event.                                                   *)
LEMMA SummaryPrinted ==
  ASSUME NEW log, NEW w, NEW w2, NEW p \in Seq(Line), NEW line \in Line,
         Pending(log, w, p), line.type = "summary", w2.sent = w.sent
  PROVE  Pending(log, w2, Append(p, line))
<1> DEFINE p2 == Append(p, line)
<1>1. /\ \A i \in 1..Len(p) : p2[i] = p[i]
      /\ \A i \in 1..Len(p2) : i \in 1..Len(p) \/ p2[i] = line
  BY AppendParts
<1> HIDE DEF p2
<1>2. Pending(log, w2, p2)
  BY <1>1 DEF Pending
<1> QED
  BY <1>2 DEF p2

(* The API reads an event: it is stored, and what it announced still is.    *)
LEMMA EventRead ==
  ASSUME ControllerAssumption, NEW log \in Logs, NEW x, NEW w, NEW p \in Seq(Line), p # <<>>,
         Pending(log, w, p), Announcing(log, x, w, p), Head(p).type = "event"
  PROVE  LET log2 == AppendEvent(log, Head(p).sequence, Head(p).event)
         IN  Pending(log2, w, Tail(p)) /\ Announcing(log2, x, w, Tail(p))
<1> DEFINE s0 == Head(p).sequence
           e0 == Head(p).event
           log2 == AppendEvent(log, s0, e0)
           p2 == Tail(p)
<1>1. /\ Len(p) \in Nat /\ 1 \in 1..Len(p) /\ Head(p) = p[1] /\ Len(p2) = Len(p) - 1
      /\ \A i \in 1..Len(p2) : i + 1 \in 1..Len(p) /\ p2[i] = p[i + 1]
      /\ \A i \in 1..Len(p) : i # 1 => i - 1 \in 1..Len(p2) /\ p2[i - 1] = p[i]
  BY TailParts
<1>2. s0 \in Sequences /\ e0 \in Event /\ p[1].type = "event" /\ p[1].sequence = s0 /\ p[1].event = e0
  BY <1>1, LineAt
<1>3. log[s0] = Unstored /\ s0 <= w.sent
  BY <1>1, <1>2 DEF Pending
<1>4. /\ log2[s0] = e0 /\ \A t \in Sequences : t # s0 => log2[t] = log[t]
      /\ \A o : HasEnd(log, o) => HasEnd(log2, o)
  BY <1>2, <1>3, AppendEventParts
<1> HIDE DEF p2, s0, e0, log2
<1>5. \A t \in Sequences : log2[t] # Unstored => t <= w.sent
  BY <1>3, <1>4 DEF Pending
<1>6. ASSUME NEW i \in 1..Len(p2), p2[i].type = "event"
      PROVE  /\ p2[i].sequence <= w.sent /\ log2[p2[i].sequence] = Unstored
             /\ \A j \in 1..Len(p2) : p2[j].type = "event" /\ p2[j].sequence = p2[i].sequence => j = i
  <2>1. i + 1 \in 1..Len(p) /\ p2[i] = p[i + 1] /\ i + 1 # 1
    BY <1>1
  <2>2. /\ p[i + 1].sequence \in Sequences /\ p[i + 1].sequence <= w.sent
        /\ log[p[i + 1].sequence] = Unstored
        /\ \A j \in 1..Len(p) : p[j].type = "event" /\ p[j].sequence = p[i + 1].sequence => j = i + 1
    BY <1>6, <2>1, LineAt DEF Pending
  <2>3. p[i + 1].sequence # s0
    BY <1>1, <1>2, <2>1, <2>2
  <2>4. ASSUME NEW j \in 1..Len(p2), p2[j].type = "event", p2[j].sequence = p2[i].sequence PROVE j = i
    <3>1. j + 1 \in 1..Len(p) /\ p2[j] = p[j + 1]
      BY <1>1
    <3>2. j + 1 = i + 1
      BY <2>1, <2>2, <2>4, <3>1
    <3> QED
      BY <3>2
  <2> QED
    BY <1>4, <2>1, <2>2, <2>3, <2>4
<1>7. ASSUME NEW o, NEW n \in Nat, Announced(o, log, p, n + 1) PROVE Announced(o, log2, p2, n)
  <2>1. CASE HasEnd(log, o)
    BY <1>4, <2>1 DEF Announced
  <2>2. ASSUME NEW j \in 1..Len(p), j < n + 1, p[j].type = "event", p[j].event = End(o)
        PROVE  Announced(o, log2, p2, n)
    <3>1. CASE j = 1
      <4>1. log2[s0] = End(o)
        BY <1>2, <1>4, <2>2, <3>1
      <4> QED
        BY <1>2, <4>1 DEF Announced, HasEnd
    <3>2. CASE j # 1
      <4>1. j - 1 \in 1..Len(p2) /\ p2[j - 1] = p[j] /\ j - 1 < n
        BY <1>1, <2>2, <3>2
      <4> QED
        BY <2>2, <4>1 DEF Announced
    <3> QED
      BY <3>1, <3>2
  <2> QED
    BY <1>7, <2>1, <2>2 DEF Announced
<1>8. ASSUME w.pc = "ending" PROVE Announced(w.verdict, log2, p2, Len(p2) + 1)
  <2>1. Len(p2) + 1 \in Nat /\ (Len(p2) + 1) + 1 = Len(p) + 1
    BY <1>1
  <2>2. Announced(w.verdict, log, p, Len(p) + 1)
    BY <1>8 DEF Announcing
  <2> QED
    BY <1>7, <2>1, <2>2
<1>9. ASSUME NEW i \in 1..Len(p2), p2[i].type = "summary" PROVE Announced(p2[i].outcome, log2, p2, i)
  <2>1. i + 1 \in 1..Len(p) /\ p2[i] = p[i + 1] /\ i \in Nat
    BY <1>1
  <2>2. Announced(p[i + 1].outcome, log, p, i + 1)
    BY <1>9, <2>1 DEF Announcing
  <2> QED
    BY <1>7, <2>1, <2>2
<1>10. x.summary # "none" => HasEnd(log2, x.summary)
  BY <1>4 DEF Announcing
<1>11. Pending(log2, w, p2)
  BY <1>5, <1>6 DEF Pending
<1>12. Announcing(log2, x, w, p2)
  BY <1>8, <1>9, <1>10 DEF Announcing
<1> QED
  BY <1>11, <1>12 DEF log2, p2, s0, e0

(* The API reads a summary: nothing is in front of it, so that what it      *)
(* reports is stored.                                                       *)
LEMMA SummaryRead ==
  ASSUME NEW log, NEW x, NEW x2, NEW w, NEW p \in Seq(Line), p # <<>>,
         Pending(log, w, p), Announcing(log, x, w, p), Head(p).type = "summary",
         x2.summary = Head(p).outcome
  PROVE  Pending(log, w, Tail(p)) /\ Announcing(log, x2, w, Tail(p))
<1> DEFINE p2 == Tail(p)
<1>1. /\ Len(p) \in Nat /\ 1 \in 1..Len(p) /\ Head(p) = p[1] /\ Len(p2) = Len(p) - 1
      /\ \A i \in 1..Len(p2) : i + 1 \in 1..Len(p) /\ p2[i] = p[i + 1]
      /\ \A i \in 1..Len(p) : i # 1 => i - 1 \in 1..Len(p2) /\ p2[i - 1] = p[i]
  BY TailParts
<1> HIDE DEF p2
<1>2. p[1].type = "summary" /\ p[1].type # "event"
  BY <1>1
<1>3. ASSUME NEW i \in 1..Len(p2), p2[i].type = "event"
      PROVE  /\ p2[i].sequence <= w.sent /\ log[p2[i].sequence] = Unstored
             /\ \A j \in 1..Len(p2) : p2[j].type = "event" /\ p2[j].sequence = p2[i].sequence => j = i
  <2>1. i + 1 \in 1..Len(p) /\ p2[i] = p[i + 1]
    BY <1>1
  <2>2. /\ p[i + 1].sequence <= w.sent /\ log[p[i + 1].sequence] = Unstored
        /\ \A j \in 1..Len(p) : p[j].type = "event" /\ p[j].sequence = p[i + 1].sequence => j = i + 1
    BY <1>3, <2>1 DEF Pending
  <2>3. ASSUME NEW j \in 1..Len(p2), p2[j].type = "event", p2[j].sequence = p2[i].sequence PROVE j = i
    <3>1. j + 1 \in 1..Len(p) /\ p2[j] = p[j + 1]
      BY <1>1
    <3>2. j + 1 = i + 1
      BY <2>1, <2>2, <2>3, <3>1
    <3> QED
      BY <3>2
  <2> QED
    BY <2>1, <2>2, <2>3
<1>4. ASSUME NEW o, NEW n \in Nat, Announced(o, log, p, n + 1) PROVE Announced(o, log, p2, n)
  <2>1. ASSUME NEW j \in 1..Len(p), j < n + 1, p[j].type = "event", p[j].event = End(o)
        PROVE  Announced(o, log, p2, n)
    <3>1. j - 1 \in 1..Len(p2) /\ p2[j - 1] = p[j] /\ j - 1 < n
      BY <1>1, <1>2, <2>1
    <3> QED
      BY <2>1, <3>1 DEF Announced
  <2> QED
    BY <1>4, <2>1 DEF Announced
<1>5. ASSUME w.pc = "ending" PROVE Announced(w.verdict, log, p2, Len(p2) + 1)
  <2>1. Len(p2) + 1 \in Nat /\ (Len(p2) + 1) + 1 = Len(p) + 1
    BY <1>1
  <2>2. Announced(w.verdict, log, p, Len(p) + 1)
    BY <1>5 DEF Announcing
  <2> QED
    BY <1>4, <2>1, <2>2
<1>6. ASSUME NEW i \in 1..Len(p2), p2[i].type = "summary" PROVE Announced(p2[i].outcome, log, p2, i)
  <2>1. i + 1 \in 1..Len(p) /\ p2[i] = p[i + 1] /\ i \in Nat
    BY <1>1
  <2>2. Announced(p[i + 1].outcome, log, p, i + 1)
    BY <1>6, <2>1 DEF Announcing
  <2> QED
    BY <1>4, <2>1, <2>2
<1>7. HasEnd(log, x2.summary)
  <2>1. Announced(p[1].outcome, log, p, 1)
    BY <1>1, <1>2 DEF Announcing
  <2>2. \A j \in 1..Len(p) : ~ j < 1
    OBVIOUS
  <2> QED
    BY <1>1, <2>1, <2>2 DEF Announced
<1>8. Pending(log, w, p2)
  BY <1>3 DEF Pending
<1>9. Announcing(log, x2, w, p2)
  BY <1>5, <1>6, <1>7 DEF Announcing
<1> QED
  BY <1>8, <1>9 DEF p2

----------------------------------------------------------------------------
(* The steps.                                                               *)

(* What the events route records a run ended as is stored as its run_end.   *)
LEMMA ClaimedIsStored ==
  ASSUME ControllerAssumption, NEW log \in Logs, NEW r \in Runs, NEW batch \in Batches,
         Endings(log, r, batch) # {}
  PROVE  HasEnd(Ingest(log, r, batch), Claimed(log, r, batch))
<1> DEFINE ends == Endings(log, r, batch)
<1>1. batch \in Seq(BatchItem) /\ Len(batch) \in Nat /\ DOMAIN batch = 1..Len(batch)
  BY DEF ControllerAssumption
<1>2. ends \subseteq 1..Len(batch) /\ ends # {}
  BY <1>1 DEF Endings, Accepted
<1>3. \E i \in ends : \A j \in ends : j <= i
  <2> HIDE DEF ends
  <2> QED
    BY <1>1, <1>2, LastExists
<1>4. PICK i \in ends : Claimed(log, r, batch) = batch[i].event.terminal
  BY <1>3 DEF Claimed
<1>5. batch[i] \in BatchItem
  BY <1>1, <1>2
<1>6. batch[i].sequence \in Sequences /\ batch[i].event \in Event /\ batch[i].event.kind = "run_end"
  BY <1>5 DEF BatchItem, Endings
<1>7. Ingest(log, r, batch)[batch[i].sequence] = batch[i].event
  BY IngestParts DEF Endings
<1>8. batch[i].event = End(batch[i].event.terminal)
  BY <1>6, EventParts
<1> QED
  BY <1>4, <1>6, <1>7, <1>8 DEF HasEnd

LEMMA StartFields ==
  /\ newRun # NoRun /\ newRun.state = "admitted" /\ ~newRun.ended /\ newRun.terminalResult = "unknown"
  /\ LET launched == [newRun EXCEPT !.state = "running"]
     IN  /\ launched # NoRun /\ launched.state = "running"
         /\ ~launched.ended /\ launched.terminalResult = "unknown"
  /\ LET broken == [newRun EXCEPT !.state = "failed", !.terminalResult = "failed", !.ended = TRUE]
     IN  broken # NoRun /\ broken.state = "failed" /\ broken.ended /\ broken.modelCalls = 0
<1>1. NoRun.state = "none" /\ NoRun.ended = FALSE
  BY DEF NoRun
<1>2. newRun.state = "admitted" /\ ~newRun.ended /\ newRun.terminalResult = "unknown"
  BY DEF newRun, NoRun
<1> DEFINE launched == [newRun EXCEPT !.state = "running"]
           broken == [newRun EXCEPT !.state = "failed", !.terminalResult = "failed", !.ended = TRUE]
<1>3. launched.state = "running" /\ ~launched.ended /\ launched.terminalResult = "unknown"
  BY DEF newRun, NoRun
<1>4. broken.state = "failed" /\ broken.ended /\ broken.modelCalls = 0
  BY DEF newRun, NoRun
<1> HIDE DEF launched, broken
<1>5. newRun # NoRun /\ launched # NoRun /\ broken # NoRun
  BY <1>1, <1>2, <1>3, <1>4
<1> QED
  BY <1>2, <1>3, <1>4, <1>5 DEF launched, broken

(* The executor and the worker in another state.                            *)
LEMMA MovedFields ==
  /\ \A x \in Executor : \A p : LET y == [x EXCEPT !.pc = p] IN y.pc = p /\ y.summary = x.summary
  /\ \A x \in Executor : \A o : LET y == [x EXCEPT !.summary = o] IN y.pc = x.pc /\ y.summary = o
  /\ \A w \in Worker : \A p : LET v == [w EXCEPT !.pc = p]
                              IN  v.pc = p /\ v.sent = w.sent /\ v.verdict = w.verdict
BY DEF Executor, Worker

LEMMA EvidenceStep ==
  ASSUME ControllerAssumption, SingleWriter, Inv, EndingHasVerdict, Evidence, [Next]_vars
  PROVE  Evidence'
<1>0. /\ run \in [Runs -> Record] /\ events \in [Runs -> Logs]
      /\ exec \in [Runs -> Executor] /\ worker \in [Runs -> Worker]
      /\ pipe \in [Runs -> Seq(Line)] /\ requests \subseteq Request
  BY DEF Inv, TypeOK, Logs
<1>1. \A r \in Runs : Evident(run[r], events[r], exec[r], worker[r], pipe[r])
  BY DEF Evidence
<1>2. \A r \in Runs : /\ Driver = "mcp" => exec[r].pc = "idle"
                      /\ exec[r].pc = "starting" => run[r] = newRun
                      /\ exec[r].pc = "running" => run[r].state = "running" /\ ~run[r].ended
  BY DEF Inv, SlotInvariant, ExecutorOwnsRecord, RecordsWellFormed, FinalStates, NoRun
<1>3. Driver \in {"worker", "mcp"} /\ Driver # "mcp" => requests = {}
  <2>1. \A q \in requests : q.sender \in Senders
    BY <1>0 DEF Request
  <2> QED
    BY <2>1 DEF SingleWriter, ControllerAssumption
<1> SUFFICES \A r \in Runs : Evident(run'[r], events'[r], exec'[r], worker'[r], pipe'[r])
  BY DEF Evidence
<1> DEFINE Kept(x) == /\ run'[x] = run[x] /\ events'[x] = events[x] /\ exec'[x] = exec[x]
                      /\ worker'[x] = worker[x] /\ pipe'[x] = pipe[x]
           Goal == \A r \in Runs : Evident(run'[r], events'[r], exec'[r], worker'[r], pipe'[r])
<1>4. ASSUME NEW r \in Runs, \A x \in Runs \ {r} : Kept(x),
             Evident(run'[r], events'[r], exec'[r], worker'[r], pipe'[r])
      PROVE  Goal
  BY <1>1, <1>4
<1>5. CASE UNCHANGED <<run, events, exec, worker, pipe>>
  BY <1>1, <1>5
<1>6. ASSUME ApiDies PROVE Goal
  <2> SUFFICES ASSUME NEW r \in Runs
               PROVE  Evident(run'[r], events'[r], exec'[r], worker'[r], pipe'[r])
    OBVIOUS
  <2>1. /\ run'[r] = run[r] /\ events'[r] = events[r] /\ pipe'[r] = <<>>
        /\ exec'[r].pc = "idle" /\ exec'[r].summary = "none"
    BY <1>6 DEF ApiDies, NoExecutor
  <2>2. worker'[r] = IF worker[r].pc = "none" THEN worker[r] ELSE [worker[r] EXCEPT !.pc = "exited"]
    BY <1>6 DEF ApiDies
  <2>3. worker'[r].pc # "ending" /\ worker'[r].sent = worker[r].sent
    BY <1>0, <2>2, MovedFields
  <2>4. run[r] = NoRun => Fresh(events[r], exec[r], worker[r], pipe[r])
    BY <1>1 DEF Evident
  <2>5. run[r] = NoRun => worker'[r] = NoWorker /\ Blank(events[r])
    BY <2>2, <2>4 DEF Fresh, NoWorker
  <2>6. Pending(events[r], worker[r], pipe[r]) => Pending(events[r], worker'[r], <<>>)
    BY <2>3, EmptyParts DEF Pending
  <2>7. Announcing(events[r], exec'[r], worker'[r], <<>>)
    BY <2>1, <2>3, EmptyParts DEF Announcing
  <2> QED
    BY <1>1, <2>1, <2>5, <2>6, <2>7 DEF Evident, Fresh
<1>7. ASSUME NEW r \in Runs, StartRun(r) PROVE Goal
  <2>1. Fresh(events[r], exec[r], worker[r], pipe[r])
    BY <1>1, <1>7 DEF StartRun, Evident
  <2>2. /\ run'[r] = newRun /\ events' = events /\ worker' = worker /\ pipe' = pipe
        /\ exec' = IF Driver = "worker" THEN [exec EXCEPT ![r].pc = "starting"] ELSE exec
        /\ \A x \in Runs \ {r} : run'[x] = run[x]
    BY <1>0, <1>7 DEF StartRun
  <2>3. /\ exec'[r].summary = exec[r].summary /\ exec'[r].pc \in {"starting", "idle"}
        /\ \A x \in Runs \ {r} : exec'[x] = exec[x]
    <3>1. CASE Driver = "worker"
      BY <1>0, <2>2, <3>1, MovedFields
    <3>2. CASE Driver = "mcp"
      BY <1>2, <2>2, <3>2
    <3> QED
      BY <1>3, <3>1, <3>2
  <2>4. Announcing(events[r], exec[r], worker[r], pipe[r])
        => Announcing(events[r], exec'[r], worker[r], pipe[r])
    BY <2>3 DEF Announcing
  <2>5. Shown(newRun, events[r]) /\ newRun # NoRun
    BY StartFields DEF Shown
  <2>6. Evident(run'[r], events'[r], exec'[r], worker'[r], pipe'[r])
    BY <1>1, <2>1, <2>2, <2>3, <2>4, <2>5 DEF Evident, Fresh
  <2> QED
    BY <1>4, <2>2, <2>3, <2>6
(* A step of r's executor or of its worker: what it does to r's parts.      *)
<1>8. ASSUME NEW r \in Runs, LaunchSucceeds(r) PROVE Goal
  <2>1. Fresh(events[r], exec[r], worker[r], pipe[r])
    BY <1>1, <1>8 DEF LaunchSucceeds, Evident
  <2>2. /\ run'[r] = [newRun EXCEPT !.state = "running"] /\ events' = events /\ pipe' = pipe
        /\ exec'[r] = [exec[r] EXCEPT !.pc = "running"] /\ worker'[r] = [worker[r] EXCEPT !.pc = "up"]
        /\ \A x \in Runs \ {r} : Kept(x)
    BY <1>0, <1>8 DEF LaunchSucceeds
  <2>3. /\ exec'[r].summary = exec[r].summary /\ exec'[r].pc = "running"
        /\ worker'[r].pc = "up" /\ worker'[r].sent = worker[r].sent
    BY <1>0, <2>2, MovedFields
  <2>4. Pending(events[r], worker[r], pipe[r]) => Pending(events[r], worker'[r], pipe[r])
    BY <2>3 DEF Pending
  <2>5. Announcing(events[r], exec[r], worker[r], pipe[r])
        => Announcing(events[r], exec'[r], worker'[r], pipe[r])
    BY <2>3 DEF Announcing
  <2>6. Shown(run'[r], events[r]) /\ run'[r] # NoRun
    BY <2>2, StartFields DEF Shown
  <2>7. Evident(run'[r], events'[r], exec'[r], worker'[r], pipe'[r])
    BY <1>1, <2>2, <2>3, <2>4, <2>5, <2>6 DEF Evident
  <2> QED
    BY <1>4, <2>2, <2>7
<1>9. ASSUME NEW r \in Runs, LaunchFails(r) PROVE Goal
  <2>1. Fresh(events[r], exec[r], worker[r], pipe[r])
    BY <1>1, <1>9 DEF LaunchFails, Evident
  <2>2. /\ run'[r] = [newRun EXCEPT !.state = "failed", !.terminalResult = "failed", !.ended = TRUE]
        /\ events' = events /\ pipe' = pipe /\ worker' = worker
        /\ exec'[r] = [exec[r] EXCEPT !.pc = "broken"]
        /\ \A x \in Runs \ {r} : Kept(x)
    BY <1>0, <1>9 DEF LaunchFails
  <2>3. exec'[r].summary = exec[r].summary /\ exec'[r].pc = "broken"
    BY <1>0, <2>2, MovedFields
  <2>4. Announcing(events[r], exec[r], worker[r], pipe[r])
        => Announcing(events[r], exec'[r], worker[r], pipe[r])
    BY <2>3 DEF Announcing
  <2>5. observedCalls(events[r]) = 0
    BY <1>0, <2>1, BlankCounts DEF Fresh
  <2>6. Shown(run'[r], events[r]) /\ run'[r] # NoRun
    BY <2>2, <2>5, StartFields DEF Shown
  <2>7. Evident(run'[r], events'[r], exec'[r], worker'[r], pipe'[r])
    BY <1>1, <2>2, <2>3, <2>4, <2>6 DEF Evident
  <2> QED
    BY <1>4, <2>2, <2>7
<1>10. ASSUME NEW r \in Runs, exec[r].pc \in {"running", "settled"}
       PROVE  /\ Driver = "worker" /\ run[r] # NoRun
              /\ Pending(events[r], worker[r], pipe[r])
              /\ Announcing(events[r], exec[r], worker[r], pipe[r])
              /\ run[r].state = "timed_out" \/ (run[r].state = "running" /\ ~run[r].ended)
  <2>1. Driver = "worker"
    BY <1>2, <1>3, <1>10
  <2>2. run[r].state = "timed_out" \/ (run[r].state = "running" /\ ~run[r].ended)
    BY <1>1, <1>2, <1>10 DEF Evident
  <2> QED
    BY <1>1, <2>1, <2>2 DEF Evident, NoRun
<1>11. ASSUME NEW r \in Runs, ReadEvent(r) PROVE Goal
  <2> DEFINE log2 == AppendEvent(events[r], Head(pipe[r]).sequence, Head(pipe[r]).event)
  <2>1. /\ exec[r].pc \in {"running", "settled"} /\ pipe[r] # <<>> /\ Head(pipe[r]).type = "event"
        /\ events'[r] = log2 /\ pipe'[r] = Tail(pipe[r])
        /\ run' = run /\ exec' = exec /\ worker' = worker
        /\ \A x \in Runs \ {r} : Kept(x)
    BY <1>0, <1>11 DEF ReadEvent
  <2>2. Pending(log2, worker[r], Tail(pipe[r])) /\ Announcing(log2, exec[r], worker[r], Tail(pipe[r]))
    BY <1>0, <1>10, <2>1, EventRead
  <2>3. HasEnd(events[r], "succeeded") => HasEnd(log2, "succeeded")
    <3>1. 1 \in 1..Len(pipe[r]) /\ Head(pipe[r]) = pipe[r][1]
      BY <1>0, <2>1, TailParts
    <3>2. Head(pipe[r]).sequence \in Sequences /\ Head(pipe[r]).event \in Event
      BY <1>0, <2>1, <3>1, LineAt
    <3>3. events[r][Head(pipe[r]).sequence] = Unstored
      BY <1>10, <2>1, <3>1 DEF Pending
    <3> QED
      BY <1>0, <3>2, <3>3, AppendEventParts
  <2> HIDE DEF log2
  <2>4. Shown(run[r], log2)
    BY <1>1, <1>10, <2>1, <2>3 DEF Evident, Shown
  <2>5. run[r] # NoRun /\ exec[r].pc # "starting"
    BY <1>10, <2>1
  <2>6. Evident(run'[r], events'[r], exec'[r], worker'[r], pipe'[r])
    BY <1>1, <2>1, <2>2, <2>4, <2>5 DEF Evident
  <2> QED
    BY <1>4, <2>1, <2>6
<1>12. ASSUME NEW r \in Runs, ReadSummary(r) PROVE Goal
  <2>1. /\ exec[r].pc \in {"running", "settled"} /\ pipe[r] # <<>> /\ Head(pipe[r]).type = "summary"
        /\ exec'[r] = [exec[r] EXCEPT !.summary = Head(pipe[r]).outcome] /\ pipe'[r] = Tail(pipe[r])
        /\ run' = run /\ events' = events /\ worker' = worker
        /\ \A x \in Runs \ {r} : Kept(x)
    BY <1>0, <1>12 DEF ReadSummary
  <2>2. exec'[r].pc = exec[r].pc /\ exec'[r].summary = Head(pipe[r]).outcome
    BY <1>0, <2>1, MovedFields
  <2>3. /\ Pending(events[r], worker[r], Tail(pipe[r]))
        /\ Announcing(events[r], exec'[r], worker[r], Tail(pipe[r]))
    BY <1>0, <1>10, <2>1, <2>2, SummaryRead
  <2>4. run[r] # NoRun /\ exec[r].pc # "starting"
    BY <1>10, <2>1
  <2>5. Evident(run'[r], events'[r], exec'[r], worker'[r], pipe'[r])
    BY <1>1, <2>1, <2>2, <2>3, <2>4 DEF Evident
  <2> QED
    BY <1>4, <2>1, <2>5
<1>13. ASSUME NEW r \in Runs, WorkerCloses(r) PROVE Goal
  <2>1. /\ exec[r].pc \in {"running", "settled"} /\ exec'[r] = [exec[r] EXCEPT !.pc = "closed"]
        /\ events' = events /\ worker' = worker /\ pipe' = pipe
        /\ \A x \in Runs \ {r} : Kept(x)
    BY <1>0, <1>13 DEF WorkerCloses
  <2>2. exec'[r].pc = "closed" /\ exec'[r].summary = exec[r].summary
    BY <1>0, <2>1, MovedFields
  <2>3. Announcing(events[r], exec'[r], worker[r], pipe[r])
    BY <1>10, <2>1, <2>2 DEF Announcing
  <2>4. Shown(run'[r], events[r]) /\ run'[r] # NoRun
    <3>1. CASE exec[r].pc = "settled"
      <4>1. run' = run
        BY <1>13, <3>1 DEF WorkerCloses
      <4> QED
        BY <1>1, <1>10, <2>1, <4>1 DEF Evident
    <3>2. CASE exec[r].pc = "running"
      <4> DEFINE st == ExitState(exec[r].summary)
      <4>1. run'[r] = [run[r] EXCEPT !.state = st, !.terminalResult = ExitResult(exec[r].summary),
                                     !.ended = TRUE, !.modelCalls = observedCalls(events[r])]
        BY <1>0, <1>13, <3>2 DEF WorkerCloses, Closed
      <4>2. st \in FinalStates
        BY <1>0, OutcomeMaps DEF Executor
      <4>3. st = "completed" => exec[r].summary = "succeeded"
        BY DEF ExitState
      <4>4. exec[r].summary = "succeeded" => HasEnd(events[r], "succeeded")
        BY <1>10, <2>1 DEF Announcing
      <4> HIDE DEF st
      <4>5. /\ run'[r].state = st /\ run'[r].ended
            /\ run'[r].modelCalls = observedCalls(events[r])
        BY <1>0, <4>1 DEF Record
      <4>6. run'[r] # NoRun
        BY <4>5, NewRunFields
      <4> QED
        BY <4>3, <4>4, <4>5, <4>6 DEF Shown
    <3> QED
      BY <2>1, <3>1, <3>2
  <2>5. Evident(run'[r], events'[r], exec'[r], worker'[r], pipe'[r])
    BY <1>10, <2>1, <2>2, <2>3, <2>4 DEF Evident
  <2> QED
    BY <1>4, <2>1, <2>5
<1>14. ASSUME NEW r \in Runs, TimerFires(r) PROVE Goal
  <2>1. /\ exec[r].pc = "running" /\ exec'[r] = [exec[r] EXCEPT !.pc = "settled"]
        /\ worker'[r] = [worker[r] EXCEPT !.pc = "exited"]
        /\ run'[r] = Closed(r, "timed_out", "timed_out")
        /\ events' = events /\ pipe' = pipe
        /\ \A x \in Runs \ {r} : Kept(x)
    BY <1>0, <1>14 DEF TimerFires
  <2>2. /\ exec'[r].pc = "settled" /\ exec'[r].summary = exec[r].summary
        /\ worker'[r].pc = "exited" /\ worker'[r].sent = worker[r].sent
    BY <1>0, <2>1, MovedFields
  <2>3. run'[r].state = "timed_out" /\ run'[r].ended /\ run'[r] # NoRun
    <3>1. run'[r].state = "timed_out" /\ run'[r].ended
      BY <1>0, <2>1, EndFields DEF Closed
    <3> QED
      BY <3>1, NewRunFields
  <2>4. Pending(events[r], worker'[r], pipe[r])
    BY <1>10, <2>1, <2>2 DEF Pending
  <2>5. Announcing(events[r], exec'[r], worker'[r], pipe[r])
    BY <1>10, <2>1, <2>2 DEF Announcing
  <2>6. Evident(run'[r], events'[r], exec'[r], worker'[r], pipe'[r])
    BY <2>1, <2>2, <2>3, <2>4, <2>5 DEF Evident, Shown
  <2> QED
    BY <1>4, <2>1, <2>6
(* The worker's steps; it is there, so the run is not fresh.                *)
<1>15. ASSUME NEW r \in Runs, worker[r].pc # "none",
              run' = run, events' = events, exec' = exec, \A x \in Runs \ {r} : Kept(x),
              Driver = "worker" => /\ Pending(events[r], worker'[r], pipe'[r])
                                   /\ Announcing(events[r], exec[r], worker'[r], pipe'[r])
       PROVE  Goal
  <2>1. run[r] # NoRun /\ exec[r].pc # "starting"
    BY <1>1, <1>15 DEF Evident, Fresh, NoWorker
  <2>2. Evident(run'[r], events'[r], exec'[r], worker'[r], pipe'[r])
    BY <1>1, <1>15, <2>1 DEF Evident
  <2> QED
    BY <1>4, <1>15, <2>2
<1>16. ASSUME NEW r \in Runs, NEW e \in Event, worker[r].pc = "up", worker[r].sent < MaxSequence,
              WriteLine(r, EventLine(r, e)), worker'[r].sent = worker[r].sent + 1,
              worker'[r].pc = "ending" => e = End(worker'[r].verdict),
              \A x \in Runs \ {r} : worker'[x] = worker[x], UNCHANGED <<run, events, exec>>
       PROVE  Goal
  <2> DEFINE line == [type |-> "event", sequence |-> worker[r].sent + 1, event |-> e]
  <2>1. pipe'[r] = Append(pipe[r], line) /\ \A x \in Runs \ {r} : pipe'[x] = pipe[x]
    BY <1>0, <1>16 DEF WriteLine, EventLine
  <2>2. ASSUME Driver = "worker"
        PROVE  /\ Pending(events[r], worker'[r], pipe'[r])
               /\ Announcing(events[r], exec[r], worker'[r], pipe'[r])
    <3>1. Pending(events[r], worker[r], pipe[r]) /\ Announcing(events[r], exec[r], worker[r], pipe[r])
      BY <1>1, <2>2 DEF Evident
    <3>2. line \in Line /\ Pending(events[r], worker'[r], Append(pipe[r], line))
      BY <1>0, <1>16, <3>1, EventPrinted
    <3>3. line.type = "event" /\ line.event = e
      OBVIOUS
    <3> HIDE DEF line
    <3>4. Announcing(events[r], exec[r], worker'[r], Append(pipe[r], line))
      BY <1>0, <1>16, <3>1, <3>2, <3>3, AnnouncingAppend
    <3> QED
      BY <2>1, <3>2, <3>4
  <2> QED
    BY <1>15, <1>16, <2>1, <2>2
<1>17. ASSUME NEW r \in Runs, NEW kind \in {"model_call", "step"}, WorkerEmits(r, kind) PROVE Goal
  <2>1. [kind |-> kind, terminal |-> "none"] \in Event
    BY DEF Event
  <2>2. worker[r].sent < MaxSequence
    BY <1>0, <1>17, WorkerSteps DEF WorkerEmits
  <2>3. worker'[r].sent = worker[r].sent + 1 /\ worker'[r].pc = "up"
        /\ \A x \in Runs \ {r} : worker'[x] = worker[x]
    BY <1>0, <1>17 DEF WorkerEmits, Worker
  <2> QED
    BY <1>16, <1>17, <2>1, <2>2, <2>3 DEF WorkerEmits
<1>18. ASSUME NEW r \in Runs, NEW outcome \in Outcomes, WorkerEnds(r, outcome) PROVE Goal
  <2>1. End(outcome) \in Event
    BY EventParts
  <2>2. worker'[r].sent = worker[r].sent + 1 /\ worker'[r].verdict = outcome
        /\ \A x \in Runs \ {r} : worker'[x] = worker[x]
    BY <1>0, <1>18 DEF WorkerEnds, Worker
  <2> QED
    BY <1>16, <1>18, <2>1, <2>2 DEF WorkerEnds, End
<1>19. ASSUME NEW r \in Runs, WorkerSummarises(r) PROVE Goal
  <2> DEFINE line == [type |-> "summary", outcome |-> worker[r].verdict]
  <2>1. /\ worker[r].pc = "ending" /\ pipe'[r] = Append(pipe[r], line)
        /\ worker'[r] = [worker[r] EXCEPT !.pc = "exited"]
        /\ run' = run /\ events' = events /\ exec' = exec /\ \A x \in Runs \ {r} : Kept(x)
    BY <1>0, <1>19 DEF WorkerSummarises, WriteLine
  <2>2. worker'[r].pc = "exited" /\ worker'[r].sent = worker[r].sent
    BY <1>0, <2>1, MovedFields
  <2>3. line \in Line /\ line.type = "summary" /\ line.outcome = worker[r].verdict
    BY <2>1 DEF Line, EndingHasVerdict
  <2> HIDE DEF line
  <2>4. ASSUME Driver = "worker"
        PROVE  /\ Pending(events[r], worker'[r], pipe'[r])
               /\ Announcing(events[r], exec[r], worker'[r], pipe'[r])
    <3>1. Pending(events[r], worker[r], pipe[r]) /\ Announcing(events[r], exec[r], worker[r], pipe[r])
      BY <1>1, <2>4 DEF Evident
    <3>2. Pending(events[r], worker'[r], Append(pipe[r], line))
      BY <1>0, <2>2, <2>3, <3>1, SummaryPrinted
    <3>3. Announcing(events[r], exec[r], worker'[r], Append(pipe[r], line))
      BY <1>0, <2>1, <2>2, <2>3, <3>1, AnnouncingAppend
    <3> QED
      BY <2>1, <3>2, <3>3
  <2> QED
    BY <1>15, <2>1, <2>4
<1>20. ASSUME NEW r \in Runs, WorkerDies(r) PROVE Goal
  <2>1. /\ worker[r].pc \in {"up", "ending"} /\ worker'[r] = [worker[r] EXCEPT !.pc = "exited"]
        /\ run' = run /\ events' = events /\ exec' = exec /\ pipe' = pipe
        /\ \A x \in Runs \ {r} : Kept(x)
    BY <1>0, <1>20 DEF WorkerDies
  <2>2. worker'[r].pc = "exited" /\ worker'[r].sent = worker[r].sent
    BY <1>0, <2>1, MovedFields
  <2>3. Pending(events[r], worker[r], pipe[r]) => Pending(events[r], worker'[r], pipe[r])
    BY <2>2 DEF Pending
  <2>4. Announcing(events[r], exec[r], worker[r], pipe[r])
        => Announcing(events[r], exec[r], worker'[r], pipe[r])
    BY <2>2 DEF Announcing
  <2>5. Driver = "worker" => /\ Pending(events[r], worker[r], pipe[r])
                             /\ Announcing(events[r], exec[r], worker[r], pipe[r])
    BY <1>1 DEF Evident
  <2> QED
    BY <1>15, <2>1, <2>3, <2>4, <2>5
<1>21. ASSUME NEW q \in requests, NEW batch \in Batches, PostCompletes(q, batch) PROVE Goal
  <2> DEFINE r    == q.run
             log  == events[r]
             log2 == Ingest(log, r, batch)
  <2>1. /\ r \in Runs /\ q.stale = run[r] /\ isActive(run[r]) /\ ~run[r].ended /\ run[r] # NoRun
        /\ log \in Logs /\ Driver = "mcp" /\ exec[r].pc = "idle"
    <3>1. r \in Runs
      BY <1>0 DEF Request
    <3>2. q.stale = run[r] /\ isActive(run[r])
      BY DEF Inv, SlotInvariant, HandlersAreFresh
    <3>3. ~run[r].ended /\ run[r] # NoRun
      BY <3>1, <3>2 DEF Inv, SlotInvariant, RecordsWellFormed, isActive, ActiveStates, FinalStates, NoRun
    <3>4. Driver = "mcp"
      BY <1>3
    <3> QED
      BY <1>0, <1>2, <3>1, <3>2, <3>3, <3>4
  <2>2. /\ events' = [events EXCEPT ![r] = log2] /\ exec' = exec /\ worker' = worker /\ pipe' = pipe
    BY <1>21 DEF PostCompletes
  <2>3. events'[r] = log2 /\ \A x \in Runs \ {r} : events'[x] = events[x]
    BY <1>0, <2>1, <2>2
  <2>4. Shown(run'[r], log2) /\ run'[r] # NoRun /\ \A x \in Runs \ {r} : run'[x] = run[x]
    <3>1. CASE Endings(log, r, batch) # {}
      <4> DEFINE claim == Claimed(log, r, batch)
      <4>1. run' = [run EXCEPT ![r] = [run[r] EXCEPT !.state = PostedState(claim),
                     !.terminalResult = PostedResult(claim), !.ended = TRUE,
                     !.modelCalls = observedCalls(events'[r])]]
        BY <1>21, <2>1, <3>1 DEF PostCompletes
      <4>2. HasEnd(log2, claim)
        BY <2>1, <3>1, ClaimedIsStored
      <4>3. PostedState(claim) \in FinalStates /\ (PostedState(claim) = "completed" => claim = "succeeded")
        BY OutcomeMaps DEF PostedState
      <4> HIDE DEF claim, r, log2
      <4>4. /\ run'[r] = [run[r] EXCEPT !.state = PostedState(claim),
                     !.terminalResult = PostedResult(claim), !.ended = TRUE,
                     !.modelCalls = observedCalls(events'[r])]
            /\ \A x \in Runs \ {r} : run'[x] = run[x]
        BY <1>0, <2>1, <4>1
      <4>5. /\ run'[r].state = PostedState(claim) /\ run'[r].ended
            /\ run'[r].modelCalls = observedCalls(events'[r])
        <5>1. run[r] \in Record
          BY <1>0, <2>1
        <5> QED
          BY <4>4, <5>1 DEF Record
      <4>6. run'[r] # NoRun
        BY <4>5, NewRunFields
      <4> QED
        BY <2>3, <4>2, <4>3, <4>4, <4>5, <4>6 DEF Shown
    <3>2. CASE Endings(log, r, batch) = {}
      <4>1. \/ run' = run
            \/ run' = [run EXCEPT ![r] = [run[r] EXCEPT !.state = "running"]]
        BY <1>21, <2>1, <3>2 DEF PostCompletes
      <4>2. run[r].terminalResult = "unknown"
        BY <1>1, <2>1 DEF Evident, Shown
      <4>3. run[r].state # "completed" /\ run[r].state # "none" /\ run[r] \in Record
        BY <1>0, <2>1 DEF isActive, ActiveStates
      <4> HIDE DEF r
      <4>4. /\ run'[r].state \notin {"completed", "none"} /\ ~run'[r].ended
            /\ run'[r].terminalResult = "unknown" /\ \A x \in Runs \ {r} : run'[x] = run[x]
        BY <1>0, <2>1, <4>1, <4>2, <4>3 DEF Record
      <4> QED
        BY <4>4 DEF Shown, NoRun
    <3> QED
      BY <3>1, <3>2
  <2> HIDE DEF r, log, log2
  <2>5. Evident(run'[r], events'[r], exec'[r], worker'[r], pipe'[r])
    BY <2>1, <2>2, <2>3, <2>4 DEF Evident
  <2> QED
    BY <1>4, <2>1, <2>2, <2>3, <2>4, <2>5
<1> HIDE DEF Goal
<1>22. ASSUME NEW r \in Runs, RunStep(r) PROVE Goal
  BY <1>6, <1>7, <1>8, <1>9, <1>11, <1>12, <1>13, <1>14, <1>22 DEF RunStep, BrokenCloses
<1>23. ASSUME NEW r \in Runs, WorkerStep(r) PROVE Goal
  BY <1>17, <1>18, <1>19, <1>20, <1>23 DEF WorkerStep
<1>24. ASSUME UNCHANGED vars PROVE Goal
  BY <1>5, <1>24 DEF vars, Goal
<1>25. ASSUME PostStep PROVE Goal
  BY <1>5, <1>21, <1>25 DEF PostStep, PostBegins, PostAborts, Goal
<1>26. ASSUME Crash \/ Restart PROVE Goal
  BY <1>5, <1>6, <1>26 DEF Crash, Restart, Goal
<1>27. Goal
  BY <1>22, <1>23, <1>24, <1>25, <1>26 DEF Next, ServerStep
<1> QED
  BY <1>27 DEF Goal

LEMMA EvidenceInit == ASSUME ControllerAssumption, Init PROVE Evidence
<1> SUFFICES ASSUME NEW r \in Runs
             PROVE  Evident(run[r], events[r], exec[r], worker[r], pipe[r])
  BY DEF Evidence
<1>1. /\ run[r] = NoRun /\ exec[r] = NoExecutor /\ worker[r] = NoWorker /\ pipe[r] = <<>>
      /\ Blank(events[r])
  BY DEF Init, Blank
<1>2. Pending(events[r], worker[r], <<>>)
  BY <1>1, EmptyParts DEF Pending, Blank
<1>3. Announcing(events[r], NoExecutor, NoWorker, <<>>)
  BY EmptyParts DEF Announcing, NoExecutor, NoWorker
<1>4. Shown(NoRun, events[r]) /\ NoExecutor.pc = "idle" /\ NoExecutor.summary = "none"
  BY DEF Shown, NoRun, NoExecutor
<1> QED
  BY <1>1, <1>2, <1>3, <1>4 DEF Evident, Fresh

LEMMA EvidenceHolds ==
  ControllerAssumption /\ SingleWriter => (Spec => [](Inv /\ EndingHasVerdict /\ Evidence))
<1> SUFFICES ASSUME ControllerAssumption, SingleWriter
             PROVE  Spec => [](Inv /\ EndingHasVerdict /\ Evidence)
  OBVIOUS
<1>1. Init => Evidence
  BY EvidenceInit
<1>2. (Inv /\ EndingHasVerdict) /\ Evidence /\ [Next]_vars => Evidence'
  BY EvidenceStep
<1> QED
  BY <1>1, <1>2, InvHolds, PTL DEF Spec

----------------------------------------------------------------------------
(* Results.                                                                 *)

(* A run is recorded as completed only when the run_end that says it        *)
(* succeeded is stored, whatever the timer, the pipe and crashes do, as     *)
(* long as one writer may change the records.                               *)
THEOREM CompletionIsEvidenced ==
  ControllerAssumption /\ SingleWriter => (Spec => []CompletedHasItsEnd)
<1> SUFFICES ASSUME ControllerAssumption, SingleWriter PROVE Spec => []CompletedHasItsEnd
  OBVIOUS
<1>1. Inv /\ EndingHasVerdict /\ Evidence => CompletedHasItsEnd
  BY DEF Evidence, Evident, Shown, HasEnd, End, CompletedHasItsEnd
<1> QED
  BY <1>1, EvidenceHolds, PTL

(* A record that ended otherwise than by the timer reports exactly the      *)
(* model calls its stored events show: nothing is stored after it ended.    *)
THEOREM CallsAreEvidenced ==
  ControllerAssumption /\ SingleWriter => (Spec => []CallsMatchEvidence)
<1> SUFFICES ASSUME ControllerAssumption, SingleWriter PROVE Spec => []CallsMatchEvidence
  OBVIOUS
<1>1. Inv /\ EndingHasVerdict /\ Evidence => CallsMatchEvidence
  BY DEF Evidence, Evident, Shown, CallsMatchEvidence
<1> QED
  BY <1>1, EvidenceHolds, PTL

----------------------------------------------------------------------------
(* Sums.  The library's induction theorems take a predicate; these take the *)
(* set of what has the property.                                            *)

(* A nonempty set of naturals has a least one.                              *)
LEMMA LeastExists ==
  ASSUME NEW T, T \subseteq Nat, T # {}
  PROVE  \E n \in T : \A m \in T : n <= m
<1> DEFINE Less == {p \in Nat \X Nat : p[1] < p[2]}
<1>1. IsWellFoundedOn(Less, Nat)
  BY NatLessThanWellFounded DEF OpToRel
<1> HIDE DEF Less
<1>2. PICK n \in T : \A m \in T : ~(<<m, n>> \in Less)
  BY <1>1, WFMin
<1>3. \A m \in T : n <= m
  <2> SUFFICES ASSUME NEW m \in T PROVE n <= m
    OBVIOUS
  <2>1. m \in Nat /\ n \in Nat
    OBVIOUS
  <2>2. ~(<<m, n>> \in Less)
    BY <1>2
  <2> QED
    BY <2>1, <2>2 DEF Less
<1> QED
  BY <1>3

(* What holds of the empty set, and of a set whenever it holds of the set   *)
(* without the element a sum takes first, holds of every finite set.        *)
First(s) == CHOOSE x \in s : TRUE
LEMMA BySubsets ==
  ASSUME NEW S, IsFiniteSet(S), NEW Q, {} \in Q,
         \A s \in SUBSET S : s # {} /\ s \ {First(s)} \in Q => s \in Q
  PROVE  \A s \in SUBSET S : s \in Q
<1> DEFINE Bad == {s \in SUBSET S : s \notin Q}
           Sizes == {Cardinality(s) : s \in Bad}
<1> SUFFICES ASSUME Bad # {} PROVE FALSE
  OBVIOUS
<1>1. \A s \in SUBSET S : IsFiniteSet(s) /\ Cardinality(s) \in Nat
  BY FS_Subset, FS_CardinalityType
<1>2. PICK n \in Sizes : \A m \in Sizes : n <= m
  <2>1. Sizes \subseteq Nat /\ Sizes # {}
    BY <1>1
  <2> HIDE DEF Sizes
  <2> QED
    BY <2>1, LeastExists
<1>3. PICK s \in Bad : n = Cardinality(s)
  OBVIOUS
<1>4. s # {} /\ First(s) \in s
  BY DEF First
<1>5. Cardinality(s \ {First(s)}) = Cardinality(s) - 1
  BY <1>1, <1>4, FS_RemoveElement
<1>6. s \ {First(s)} \in Bad
  OBVIOUS
<1>7. Cardinality(s) <= Cardinality(s \ {First(s)})
  BY <1>2, <1>3, <1>6
<1> QED
  BY <1>1, <1>3, <1>5, <1>7

(* The recursion a sum is defined by, over the sets of D.                   *)
Adds(g, f, D) == g = [s \in D |-> IF s = {} THEN 0 ELSE f[First(s)] + g[s \ {First(s)}]]
Sums(f, S) == CHOOSE g : Adds(g, f, SUBSET S)

LEMMA SumIsSums == ASSUME NEW f PROVE SumFunction(f) = Sums(f, DOMAIN f)[DOMAIN f]
BY DEF SumFunction, SumFunctionOnSet, FoldFunctionOnSet, MapThenFoldSet, Sums, Adds, First

(* It defines a function: size by size.                                     *)
LEMMA SumsExist ==
  ASSUME NEW S, IsFiniteSet(S), NEW f
  PROVE  \E g : Adds(g, f, SUBSET S)
<1> DEFINE Level(n) == {s \in SUBSET S : Cardinality(s) <= n}
           Bad == {n \in Nat : ~ \E g : Adds(g, f, Level(n))}
<1>1. \A s \in SUBSET S : Cardinality(s) \in Nat /\ Cardinality(s) <= Cardinality(S) /\ IsFiniteSet(s)
  BY FS_Subset, FS_CardinalityType
<1>2. Cardinality(S) \in Nat /\ Level(Cardinality(S)) = SUBSET S
  BY <1>1
<1>3. \A s \in SUBSET S : s # {} => /\ s \ {First(s)} \in SUBSET S
                                    /\ Cardinality(s \ {First(s)}) = Cardinality(s) - 1
  <2> SUFFICES ASSUME NEW s \in SUBSET S, s # {}
               PROVE  Cardinality(s \ {First(s)}) = Cardinality(s) - 1
    OBVIOUS
  <2>1. First(s) \in s
    BY DEF First
  <2> QED
    BY <1>1, <2>1, FS_RemoveElement
<1> SUFFICES ASSUME Bad # {} PROVE FALSE
  BY <1>2
<1>4. PICK n \in Bad : \A m \in Bad : n <= m
  <2>1. Bad \subseteq Nat
    OBVIOUS
  <2> HIDE DEF Bad
  <2> QED
    BY <2>1, LeastExists
<1>5. n \in Nat
  OBVIOUS
<1>6. n # 0
  <2> SUFFICES ASSUME n = 0 PROVE FALSE
    OBVIOUS
  <2>1. \A s \in Level(0) : s = {}
    <3> SUFFICES ASSUME NEW s \in Level(0) PROVE s = {}
      OBVIOUS
    <3>1. Cardinality(s) = 0
      BY <1>1
    <3> QED
      BY <1>1, <3>1, FS_EmptySet
  <2>2. Adds([s \in Level(0) |-> 0], f, Level(0))
    BY <2>1 DEF Adds
  <2> QED
    BY <2>2
<1>7. n - 1 \in Nat /\ ~(n <= n - 1)
  BY <1>5, <1>6
<1>8. PICK g : Adds(g, f, Level(n - 1))
  <2>1. n - 1 \notin Bad
    BY <1>4, <1>7
  <2> QED
    BY <1>7, <2>1
<1> DEFINE h == [s \in Level(n) |-> IF s = {} THEN 0 ELSE f[First(s)] + g[s \ {First(s)}]]
<1>9. ASSUME NEW s \in Level(n), s # {}
      PROVE  h[s \ {First(s)}] = g[s \ {First(s)}]
  <2> DEFINE t == s \ {First(s)}
  <2>1. t \in SUBSET S /\ Cardinality(t) = Cardinality(s) - 1 /\ Cardinality(s) \in Nat
        /\ Cardinality(s) <= n
    BY <1>1, <1>3, <1>9
  <2>2. t \in Level(n - 1) /\ t \in Level(n)
    <3> HIDE DEF t
    <3>1. Cardinality(t) <= n - 1 /\ Cardinality(t) <= n
      BY <1>5, <2>1
    <3> QED
      BY <2>1, <3>1
  <2> HIDE DEF t, Level
  <2>3. h[t] = IF t = {} THEN 0 ELSE f[First(t)] + g[t \ {First(t)}]
    BY <2>2
  <2>4. g[t] = IF t = {} THEN 0 ELSE f[First(t)] + g[t \ {First(t)}]
    BY <1>8, <2>2 DEF Adds
  <2> QED
    BY <2>3, <2>4 DEF t
<1>10. Adds(h, f, Level(n))
  <2> HIDE DEF Level
  <2>1. \A s \in Level(n) : (IF s = {} THEN 0 ELSE f[First(s)] + g[s \ {First(s)}])
                            = (IF s = {} THEN 0 ELSE f[First(s)] + h[s \ {First(s)}])
    BY <1>9
  <2> QED
    BY <2>1 DEF Adds
<1> QED
  BY <1>10

LEMMA SumsParts ==
  ASSUME NEW S, IsFiniteSet(S), NEW f
  PROVE  /\ Sums(f, S)[{}] = 0
         /\ \A s \in SUBSET S : s # {} => Sums(f, S)[s] = f[First(s)] + Sums(f, S)[s \ {First(s)}]
<1> DEFINE g == Sums(f, S)
<1>1. Adds(g, f, SUBSET S)
  BY SumsExist DEF Sums
<1> HIDE DEF g
<1>2. \A s \in SUBSET S : g[s] = IF s = {} THEN 0 ELSE f[First(s)] + g[s \ {First(s)}]
  BY <1>1 DEF Adds
<1>3. {} \in SUBSET S
  OBVIOUS
<1> QED
  BY <1>2, <1>3 DEF g

(* A sum of naturals is one, and does not fall when none of them does.      *)
LEMMA SumGrows ==
  ASSUME NEW S, IsFiniteSet(S), NEW f \in [S -> Nat], NEW g \in [S -> Nat],
         \A x \in S : f[x] <= g[x]
  PROVE  /\ SumFunction(f) \in Nat /\ SumFunction(g) \in Nat
         /\ SumFunction(f) <= SumFunction(g)
<1> DEFINE F == Sums(f, S)
           G == Sums(g, S)
           Q == {s \in SUBSET S : F[s] \in Nat /\ G[s] \in Nat /\ F[s] <= G[s]}
<1>1. {} \in Q
  BY SumsParts
<1>2. ASSUME NEW s \in SUBSET S, s # {}, s \ {First(s)} \in Q
      PROVE  s \in Q
  <2>1. First(s) \in S
    BY <1>2 DEF First
  <2>2. f[First(s)] \in Nat /\ g[First(s)] \in Nat /\ f[First(s)] <= g[First(s)]
    BY <2>1
  <2>3. /\ F[s] = f[First(s)] + F[s \ {First(s)}]
        /\ G[s] = g[First(s)] + G[s \ {First(s)}]
    BY <1>2, SumsParts
  <2> HIDE DEF F, G
  <2>4. /\ F[s \ {First(s)}] \in Nat /\ G[s \ {First(s)}] \in Nat
        /\ F[s \ {First(s)}] <= G[s \ {First(s)}]
    BY <1>2
  <2>5. F[s] \in Nat /\ G[s] \in Nat /\ F[s] <= G[s]
    BY <2>2, <2>3, <2>4
  <2> QED
    BY <2>5
<1> HIDE DEF Q
<1>3. S \in Q
  BY <1>1, <1>2, BySubsets
<1>4. SumFunction(f) = F[S] /\ SumFunction(g) = G[S]
  BY SumIsSums
<1> QED
  BY <1>3, <1>4 DEF Q

(* A sum takes up the change of one of its terms.                           *)
LEMMA SumUpdate ==
  ASSUME NEW S, IsFiniteSet(S), NEW f \in [S -> Nat], NEW r \in S, NEW v \in Nat
  PROVE  SumFunction([f EXCEPT ![r] = v]) + f[r] = SumFunction(f) + v
<1> DEFINE g == [f EXCEPT ![r] = v]
           F == Sums(f, S)
           G == Sums(g, S)
           Q == {s \in SUBSET S : /\ F[s] \in Nat /\ G[s] \in Nat
                                  /\ r \in s => G[s] + f[r] = F[s] + v
                                  /\ r \notin s => G[s] = F[s]}
<1>0. g \in [S -> Nat] /\ g[r] = v /\ f[r] \in Nat /\ \A x \in S \ {r} : g[x] = f[x]
  OBVIOUS
<1> HIDE DEF g
<1>1. {} \in Q
  BY SumsParts
<1>2. ASSUME NEW s \in SUBSET S, s # {}, s \ {First(s)} \in Q
      PROVE  s \in Q
  <2> DEFINE x == First(s)
             t == s \ {x}
  <2>1. x \in S /\ x \in s
    BY <1>2 DEF First
  <2>2. f[x] \in Nat /\ g[x] \in Nat
    BY <1>0, <2>1
  <2>3. F[s] = f[x] + F[t] /\ G[s] = g[x] + G[t]
    BY <1>2, SumsParts
  <2> HIDE DEF F, G, x
  <2>4. /\ F[t] \in Nat /\ G[t] \in Nat
        /\ r \in t => G[t] + f[r] = F[t] + v
        /\ r \notin t => G[t] = F[t]
    BY <1>2 DEF x
  <2>5. r \in t <=> r \in s /\ r # x
    OBVIOUS
  <2> HIDE DEF t
  <2>6. F[s] \in Nat /\ G[s] \in Nat
    BY <2>2, <2>3, <2>4
  <2>7. CASE x = r
    <3>1. r \in s /\ G[t] = F[t] /\ g[x] = v /\ f[x] = f[r]
      BY <1>0, <2>1, <2>4, <2>5, <2>7
    <3>2. G[s] + f[r] = F[s] + v
      BY <1>0, <2>2, <2>3, <2>4, <3>1
    <3> QED
      BY <2>6, <3>1, <3>2
  <2>8. CASE x # r
    <3>1. g[x] = f[x] /\ (r \in t <=> r \in s)
      BY <1>0, <2>1, <2>5, <2>8
    <3>2. r \in s => G[s] + f[r] = F[s] + v
      BY <1>0, <2>2, <2>3, <2>4, <3>1
    <3>3. r \notin s => G[s] = F[s]
      BY <2>3, <2>4, <3>1
    <3> QED
      BY <2>6, <3>2, <3>3
  <2> QED
    BY <2>7, <2>8
<1> HIDE DEF Q
<1>3. S \in Q
  BY <1>1, <1>2, BySubsets
<1>4. SumFunction(f) = F[S] /\ SumFunction(g) = G[S]
  <2>1. DOMAIN f = S /\ DOMAIN g = S
    BY <1>0
  <2> QED
    BY <2>1, SumIsSums
<1> QED
  BY <1>3, <1>4 DEF Q, g

(* A sum of nothings is nothing.                                            *)
LEMMA SumOfZeros ==
  ASSUME NEW S, IsFiniteSet(S), NEW f \in [S -> {0}]
  PROVE  SumFunction(f) = 0
<1> DEFINE F == Sums(f, S)
           Q == {s \in SUBSET S : F[s] = 0}
<1>1. {} \in Q
  BY SumsParts
<1>2. ASSUME NEW s \in SUBSET S, s # {}, s \ {First(s)} \in Q
      PROVE  s \in Q
  <2>1. f[First(s)] = 0
    BY <1>2 DEF First
  <2>2. F[s] = f[First(s)] + F[s \ {First(s)}]
    BY <1>2, SumsParts
  <2> HIDE DEF F
  <2> QED
    BY <1>2, <2>1, <2>2
<1> HIDE DEF Q
<1>3. S \in Q
  BY <1>1, <1>2, BySubsets
<1>4. SumFunction(f) = F[S]
  BY SumIsSums
<1> QED
  BY <1>3, <1>4 DEF Q

----------------------------------------------------------------------------
(* The calls a worker issued.                                               *)

(* They are stored, or still in the pipe.                                   *)
Called(log, p) ==
  {s \in Sequences : log[s].kind = "model_call"}
    \cup {s \in Sequences : \E i \in 1..Len(p) : /\ p[i].type = "event" /\ p[i].sequence = s
                                                  /\ p[i].event.kind = "model_call"}

(* The counter is within the ceiling; while the executor reads, and once it *)
(* has closed a run the timer did not end, it is the number of those calls; *)
(* such a run has left nothing in its pipe.                                 *)
Tally(rec, log, x, w, p) ==
  /\ w.calls <= MaxModelCalls
  /\ Driver = "mcp" => w = NoWorker
  /\ Driver = "worker" /\ (x.pc = "running" \/ (rec.ended /\ rec.state # "timed_out")) =>
       w.calls = Cardinality(Called(log, p))
  /\ Driver = "worker" /\ rec.ended /\ rec.state # "timed_out" =>
       p = <<>> /\ w.pc \in {"none", "exited"}
Tallied == \A r \in Runs : Tally(run[r], events[r], exec[r], worker[r], pipe[r])

LEMMA CalledIsFinite ==
  ASSUME ControllerAssumption, NEW log, NEW p
  PROVE  IsFiniteSet(Called(log, p)) /\ Cardinality(Called(log, p)) \in Nat
<1>1. IsFiniteSet(Sequences) /\ Called(log, p) \in SUBSET Sequences
  BY FS_Interval DEF ControllerAssumption, Sequences, Called
<1> QED
  BY <1>1, FS_Subset, FS_CardinalityType

LEMMA NothingUnread ==
  ASSUME NEW log \in Logs
  PROVE  Cardinality(Called(log, <<>>)) = observedCalls(log)
<1>1. Called(log, <<>>) = {s \in DOMAIN log : log[s].kind = "model_call"}
  BY EmptyParts DEF Called, Logs
<1> QED
  BY <1>1 DEF observedCalls

LEMMA NothingCalled ==
  ASSUME NEW log \in Logs, Blank(log)
  PROVE  Cardinality(Called(log, <<>>)) = 0
BY NothingUnread, BlankCounts

(* Reading a line moves a call from the pipe to the log.                    *)
LEMMA CalledRead ==
  ASSUME ControllerAssumption, NEW log \in Logs, NEW w \in Worker, NEW p \in Seq(Line),
         Pending(log, w, p), p # <<>>, Head(p).type = "event"
  PROVE  Called(AppendEvent(log, Head(p).sequence, Head(p).event), Tail(p)) = Called(log, p)
<1> DEFINE t == Head(p).sequence
           e == Head(p).event
           log2 == AppendEvent(log, t, e)
           q == Tail(p)
<1>1. /\ Len(p) \in Nat /\ 1 \in 1..Len(p) /\ Head(p) = p[1]
      /\ \A i \in 1..Len(q) : i + 1 \in 1..Len(p) /\ q[i] = p[i + 1]
      /\ \A i \in 1..Len(p) : i # 1 => i - 1 \in 1..Len(q) /\ q[i - 1] = p[i]
  BY TailParts
<1>2. t \in Sequences /\ e \in Event /\ log[t] = Unstored
  BY <1>1, LineAt DEF Pending
<1>3. log2[t] = e /\ \A s \in Sequences : s # t => log2[s] = log[s]
  BY <1>2, AppendEventParts
<1>4. log[t].kind # "model_call"
  BY <1>2 DEF Unstored
<1> DEFINE InPipe(r, s) == \E i \in 1..Len(r) : /\ r[i].type = "event" /\ r[i].sequence = s
                                                /\ r[i].event.kind = "model_call"
<1>5. \A s \in Sequences : InPipe(q, s) => InPipe(p, s)
  BY <1>1
<1>6. InPipe(p, t) <=> e.kind = "model_call"
  <2>1. \A i \in 1..Len(p) : p[i].type = "event" /\ p[i].sequence = t => i = 1
    BY <1>1 DEF Pending
  <2> QED
    BY <1>1, <2>1
<1>7. ASSUME NEW s \in Sequences, s # t, InPipe(p, s) PROVE InPipe(q, s)
  <2>1. PICK i \in 1..Len(p) : /\ p[i].type = "event" /\ p[i].sequence = s
                               /\ p[i].event.kind = "model_call"
    BY <1>7
  <2>2. i # 1
    BY <1>1, <1>7, <2>1
  <2>3. i - 1 \in 1..Len(q) /\ q[i - 1] = p[i]
    BY <1>1, <2>2
  <2> QED
    BY <2>1, <2>3
<1> HIDE DEF InPipe, log2, q, t, e
<1>8. \A s \in Sequences : (log2[s].kind = "model_call" \/ InPipe(q, s))
                           <=> (log[s].kind = "model_call" \/ InPipe(p, s))
  <2> SUFFICES ASSUME NEW s \in Sequences
               PROVE  (log2[s].kind = "model_call" \/ InPipe(q, s))
                      <=> (log[s].kind = "model_call" \/ InPipe(p, s))
    OBVIOUS
  <2>1. CASE s = t
    BY <1>3, <1>4, <1>5, <1>6, <2>1
  <2>2. CASE s # t
    BY <1>3, <1>5, <1>7, <2>2
  <2> QED
    BY <2>1, <2>2
<1>9. Called(log2, q) = Called(log, p)
  BY <1>8 DEF Called, InPipe
<1> QED
  BY <1>9 DEF log2, q, t, e

LEMMA CalledTail ==
  ASSUME NEW log, NEW p \in Seq(Line), p # <<>>, Head(p).type = "summary"
  PROVE  Called(log, Tail(p)) = Called(log, p)
<1> DEFINE q == Tail(p)
<1>1. /\ Len(p) \in Nat /\ Head(p) = p[1]
      /\ \A i \in 1..Len(q) : i + 1 \in 1..Len(p) /\ q[i] = p[i + 1]
      /\ \A i \in 1..Len(p) : i # 1 => i - 1 \in 1..Len(q) /\ q[i - 1] = p[i]
  BY TailParts
<1>2. p[1].type # "event"
  BY <1>1
<1> DEFINE Calls(l, s) == l.type = "event" /\ l.sequence = s /\ l.event.kind = "model_call"
<1> HIDE DEF q
<1>3. \A s : (\E i \in 1..Len(q) : Calls(q[i], s)) <=> (\E i \in 1..Len(p) : Calls(p[i], s))
  <2> SUFFICES ASSUME NEW s
               PROVE  (\E i \in 1..Len(q) : Calls(q[i], s)) <=> (\E i \in 1..Len(p) : Calls(p[i], s))
    OBVIOUS
  <2>1. ~Calls(p[1], s)
    BY <1>2
  <2> HIDE DEF Calls
  <2>2. ASSUME NEW i \in 1..Len(q), Calls(q[i], s) PROVE \E j \in 1..Len(p) : Calls(p[j], s)
    BY <1>1, <2>2
  <2>3. ASSUME NEW i \in 1..Len(p), Calls(p[i], s) PROVE \E j \in 1..Len(q) : Calls(q[j], s)
    BY <1>1, <2>1, <2>3
  <2> QED
    BY <2>2, <2>3
<1>4. Called(log, q) = Called(log, p)
  BY <1>3 DEF Called
<1> QED
  BY <1>4 DEF q

(* Printing one adds it; it is new.                                         *)
LEMMA CalledPrinted ==
  ASSUME ControllerAssumption, NEW log \in Logs, NEW w \in Worker, NEW p \in Seq(Line),
         Pending(log, w, p), NEW line \in Line
  PROVE  /\ line.type = "event" /\ line.event.kind = "model_call"
              /\ line.sequence = w.sent + 1 /\ w.sent + 1 \in Sequences =>
              Cardinality(Called(log, Append(p, line))) = Cardinality(Called(log, p)) + 1
         /\ line.type = "event" /\ line.event.kind # "model_call" =>
              Called(log, Append(p, line)) = Called(log, p)
         /\ line.type = "summary" => Called(log, Append(p, line)) = Called(log, p)
<1> DEFINE q == Append(p, line)
           n == Len(p) + 1
           Calls(l, s) == l.type = "event" /\ l.sequence = s /\ l.event.kind = "model_call"
<1>1. /\ Len(p) \in Nat /\ Len(q) = n
      /\ \A i \in 1..Len(p) : i \in 1..Len(q) /\ q[i] = p[i]
      /\ q[n] = line /\ n \in 1..Len(q)
      /\ \A i \in 1..Len(q) : i \in 1..Len(p) \/ i = n
  <2>1. /\ Len(p) \in Nat /\ Len(q) = n /\ q[n] = line
        /\ \A i \in 1..Len(p) : q[i] = p[i]
        /\ \A i \in 1..Len(q) : i \in 1..Len(p) \/ i = n
    BY AppendParts
  <2>2. n \in 1..Len(q) /\ \A i \in 1..Len(p) : i \in 1..Len(q)
    <3> HIDE DEF q
    <3> QED
      BY <2>1
  <2> QED
    BY <2>1, <2>2
<1> HIDE DEF q, n, Calls
<1>2. \A s : (\E i \in 1..Len(q) : Calls(q[i], s)) <=> (\E i \in 1..Len(p) : Calls(p[i], s)) \/ Calls(line, s)
  BY <1>1
<1>3. /\ Called(log, q) = {s \in Sequences : log[s].kind = "model_call"}
                            \cup {s \in Sequences : \E i \in 1..Len(q) : Calls(q[i], s)}
      /\ Called(log, p) = {s \in Sequences : log[s].kind = "model_call"}
                            \cup {s \in Sequences : \E i \in 1..Len(p) : Calls(p[i], s)}
  BY DEF Called, Calls
<1>4. Called(log, q) = Called(log, p) \cup {s \in Sequences : Calls(line, s)}
  BY <1>2, <1>3
<1>5. ASSUME \A s : ~Calls(line, s) PROVE Called(log, q) = Called(log, p)
  BY <1>4, <1>5
<1>6. ASSUME line.type = "event", line.event.kind = "model_call", line.sequence = w.sent + 1,
             w.sent + 1 \in Sequences
      PROVE  Cardinality(Called(log, q)) = Cardinality(Called(log, p)) + 1
  <2> DEFINE m == w.sent + 1
  <2>1. Called(log, q) = Called(log, p) \cup {m}
    BY <1>4, <1>6 DEF Calls
  <2>2. w.sent \in Nat /\ ~(m <= w.sent)
    <3>1. w.sent \in Nat
      BY DEF Worker, ControllerAssumption
    <3> QED
      BY <3>1
  <2>3. m \notin Called(log, p)
    <3>1. log[m] = Unstored
      BY <1>6, <2>2 DEF Pending
    <3>2. \A i \in 1..Len(p) : p[i].type = "event" => p[i].sequence # m
      BY <2>2 DEF Pending
    <3> HIDE DEF m
    <3> QED
      BY <3>1, <3>2 DEF Called, Unstored
  <2> HIDE DEF m
  <2> QED
    BY <2>1, <2>3, CalledIsFinite, FS_AddElement
<1>7. line.type = "event" /\ line.event.kind # "model_call" => Called(log, q) = Called(log, p)
  BY <1>5 DEF Calls
<1>8. line.type = "summary" => Called(log, q) = Called(log, p)
  BY <1>5 DEF Calls
<1> QED
  BY <1>6, <1>7, <1>8 DEF q

LEMMA CountFields ==
  /\ \A w \in Worker : \A p : [w EXCEPT !.pc = p].calls = w.calls
  /\ NoWorker.pc = "none" /\ NoWorker.calls = 0 /\ NoExecutor.pc = "idle"
BY DEF Worker, NoWorker, NoExecutor

LEMMA TallyStep ==
  ASSUME ControllerAssumption, SingleWriter, Inv, Evidence, Tallied, [Next]_vars
  PROVE  Tallied'
<1>0. /\ run \in [Runs -> Record] /\ events \in [Runs -> Logs]
      /\ exec \in [Runs -> Executor] /\ worker \in [Runs -> Worker]
      /\ pipe \in [Runs -> Seq(Line)] /\ requests \subseteq Request
      /\ MaxModelCalls \in Nat
  BY DEF Inv, TypeOK, Logs, ControllerAssumption
<1>1. \A r \in Runs : /\ Tally(run[r], events[r], exec[r], worker[r], pipe[r])
                      /\ Evident(run[r], events[r], exec[r], worker[r], pipe[r])
  BY DEF Tallied, Evidence
<1>2. \A r \in Runs : /\ Driver = "mcp" => exec[r].pc = "idle"
                      /\ exec[r].pc = "starting" => run[r] = newRun
                      /\ exec[r].pc = "running" => run[r].state = "running" /\ ~run[r].ended
  BY DEF Inv, SlotInvariant, ExecutorOwnsRecord, RecordsWellFormed, FinalStates, NoRun
<1> DEFINE Goal == \A r \in Runs : Tally(run'[r], events'[r], exec'[r], worker'[r], pipe'[r])
           Kept(x) == /\ run'[x] = run[x] /\ events'[x] = events[x] /\ exec'[x] = exec[x]
                      /\ worker'[x] = worker[x] /\ pipe'[x] = pipe[x]
<1> SUFFICES Goal
  BY DEF Tallied
<1>3. CASE Driver = "mcp"
  <2>1. \A r \in Runs : worker[r] = NoWorker /\ exec[r].pc = "idle"
    BY <1>1, <1>2, <1>3 DEF Tally
  <2>2. \A r \in Runs : worker[r].pc = "none"
    BY <2>1, CountFields
  <2> HIDE DEF Goal
  <2>3. ASSUME NEW r \in Runs, RunStep(r) PROVE worker' = worker \/ ApiDies
    BY <2>1, <2>3 DEF RunStep, StartRun, LaunchSucceeds, LaunchFails, ReadEvent, ReadSummary,
                      WorkerCloses, TimerFires, BrokenCloses
  <2>4. ASSUME NEW r \in Runs, WorkerStep(r) PROVE FALSE
    BY <2>2, <2>4 DEF WorkerStep, WorkerEmits, WorkerEnds, WorkerSummarises, WorkerDies
  <2>5. worker' = worker \/ ApiDies
    BY <2>3, <2>4 DEF Next, ServerStep, PostStep, PostBegins, PostCompletes, PostAborts, Crash,
                      Restart, vars
  <2>6. \A r \in Runs : worker'[r] = NoWorker
    BY <2>1, <2>2, <2>5 DEF ApiDies
  <2> QED
    BY <1>0, <1>3, <2>6, CountFields DEF Goal, Tally
<1>4. CASE Driver = "worker"
  <2>1. Senders = {} /\ requests = {}
    BY <1>0, <1>4 DEF SingleWriter, Request
  <2>2. ASSUME NEW r \in Runs, \A x \in Runs \ {r} : Kept(x),
               Tally(run'[r], events'[r], exec'[r], worker'[r], pipe'[r])
        PROVE  Goal
    BY <1>1, <2>2
  <2>3. \A r \in Runs : worker[r].pc \in {"up", "ending"} \/ exec[r].pc \in {"running", "settled"}
          => /\ Pending(events[r], worker[r], pipe[r])
             /\ exec[r].pc = "settled" => run[r].state = "timed_out"
    BY <1>1, <1>4 DEF Evident
  <2>4. ASSUME ApiDies PROVE Goal
    <3> SUFFICES ASSUME NEW r \in Runs
                 PROVE  Tally(run'[r], events'[r], exec'[r], worker'[r], pipe'[r])
      OBVIOUS
    <3>1. /\ run'[r] = run[r] /\ events'[r] = events[r] /\ pipe'[r] = <<>> /\ exec'[r].pc = "idle"
          /\ worker'[r] = IF worker[r].pc = "none" THEN worker[r] ELSE [worker[r] EXCEPT !.pc = "exited"]
      BY <2>4, CountFields DEF ApiDies
    <3>2. worker'[r].calls = worker[r].calls /\ worker'[r].pc \in {"none", "exited"}
      BY <1>0, <3>1, CountFields, MovedFields
    <3> QED
      BY <1>1, <1>4, <3>1, <3>2 DEF Tally
  <2>5. ASSUME NEW r \in Runs, StartRun(r) PROVE Goal
    <3>1. Fresh(events[r], exec[r], worker[r], pipe[r])
      BY <1>1, <2>5 DEF StartRun, Evident
    <3>2. /\ run'[r] = newRun /\ exec'[r] = [exec[r] EXCEPT !.pc = "starting"]
          /\ worker'[r] = NoWorker /\ \A x \in Runs \ {r} : Kept(x)
      BY <1>0, <1>4, <2>5, <3>1 DEF StartRun, Fresh
    <3>3. Tally(run'[r], events'[r], exec'[r], worker'[r], pipe'[r])
      BY <1>0, <1>4, <3>2, NewRunFields, CountFields, MovedFields DEF Tally
    <3> QED
      BY <2>2, <3>2, <3>3
  <2>6. ASSUME NEW r \in Runs, LaunchSucceeds(r) PROVE Goal
    <3>1. Fresh(events[r], exec[r], worker[r], pipe[r])
      BY <1>1, <2>6 DEF LaunchSucceeds, Evident
    <3>2. /\ run'[r] = [newRun EXCEPT !.state = "running"] /\ events'[r] = events[r] /\ pipe'[r] = <<>>
          /\ worker'[r] = [worker[r] EXCEPT !.pc = "up"] /\ \A x \in Runs \ {r} : Kept(x)
      BY <1>0, <2>6, <3>1 DEF LaunchSucceeds, Fresh
    <3>3. ~run'[r].ended /\ worker'[r].calls = 0
      BY <1>0, <3>1, <3>2, LaunchFields, CountFields DEF Fresh
    <3>4. Cardinality(Called(events[r], <<>>)) = 0
      BY <1>0, <3>1, NothingCalled DEF Fresh
    <3>5. Tally(run'[r], events'[r], exec'[r], worker'[r], pipe'[r])
      BY <1>0, <1>4, <3>2, <3>3, <3>4 DEF Tally
    <3> QED
      BY <2>2, <3>2, <3>5
  <2>7. ASSUME NEW r \in Runs, LaunchFails(r) PROVE Goal
    <3>1. Fresh(events[r], exec[r], worker[r], pipe[r])
      BY <1>1, <2>7 DEF LaunchFails, Evident
    <3>2. /\ events'[r] = events[r] /\ pipe'[r] = <<>> /\ worker'[r] = NoWorker
          /\ \A x \in Runs \ {r} : Kept(x)
      BY <1>0, <2>7, <3>1 DEF LaunchFails, Fresh
    <3>3. Cardinality(Called(events[r], <<>>)) = 0
      BY <1>0, <3>1, NothingCalled DEF Fresh
    <3>4. Tally(run'[r], events'[r], exec'[r], worker'[r], pipe'[r])
      BY <1>0, <1>4, <3>2, <3>3, CountFields DEF Tally
    <3> QED
      BY <2>2, <3>2, <3>4
  (* The executor reads: what the worker issued stays issued.               *)
  <2>8. ASSUME NEW r \in Runs, run' = run, worker' = worker, exec'[r].pc = exec[r].pc,
               exec[r].pc \in {"running", "settled"},
               Called(events'[r], pipe'[r]) = Called(events[r], pipe[r]),
               \A x \in Runs \ {r} : Kept(x)
        PROVE  Goal
    <3>1. run[r].ended => run[r].state = "timed_out"
      BY <1>2, <2>3, <2>8
    <3>2. Tally(run'[r], events'[r], exec'[r], worker'[r], pipe'[r])
      BY <1>1, <1>4, <2>8, <3>1 DEF Tally
    <3> QED
      BY <2>2, <2>8, <3>2
  <2>9. ASSUME NEW r \in Runs, ReadEvent(r) PROVE Goal
    <3>1. /\ exec[r].pc \in {"running", "settled"} /\ pipe[r] # <<>> /\ Head(pipe[r]).type = "event"
          /\ events'[r] = AppendEvent(events[r], Head(pipe[r]).sequence, Head(pipe[r]).event)
          /\ pipe'[r] = Tail(pipe[r]) /\ run' = run /\ exec' = exec /\ worker' = worker
          /\ \A x \in Runs \ {r} : Kept(x)
      BY <1>0, <2>9 DEF ReadEvent
    <3>2. Called(events'[r], pipe'[r]) = Called(events[r], pipe[r])
      BY <1>0, <2>3, <3>1, CalledRead
    <3> QED
      BY <2>8, <3>1, <3>2
  <2>10. ASSUME NEW r \in Runs, ReadSummary(r) PROVE Goal
    <3>1. /\ exec[r].pc \in {"running", "settled"} /\ pipe[r] # <<>> /\ Head(pipe[r]).type = "summary"
          /\ exec'[r] = [exec[r] EXCEPT !.summary = Head(pipe[r]).outcome]
          /\ pipe'[r] = Tail(pipe[r]) /\ run' = run /\ events' = events /\ worker' = worker
          /\ \A x \in Runs \ {r} : Kept(x)
      BY <1>0, <2>10 DEF ReadSummary
    <3>2. Called(events'[r], pipe'[r]) = Called(events[r], pipe[r])
      BY <1>0, <3>1, CalledTail
    <3>3. exec'[r].pc = exec[r].pc
      BY <1>0, <3>1, MovedFields
    <3> QED
      BY <2>8, <3>1, <3>2, <3>3
  <2>11. ASSUME NEW r \in Runs, WorkerCloses(r) PROVE Goal
    <3>1. /\ exec[r].pc \in {"running", "settled"} /\ worker[r].pc = "exited" /\ pipe[r] = <<>>
          /\ exec'[r] = [exec[r] EXCEPT !.pc = "closed"]
          /\ exec[r].pc # "running" => run' = run
          /\ events' = events /\ worker' = worker /\ pipe' = pipe
          /\ \A x \in Runs \ {r} : Kept(x)
      BY <1>0, <2>11 DEF WorkerCloses
    <3>2. exec'[r].pc = "closed"
      BY <1>0, <3>1, MovedFields
    <3>3. Tally(run'[r], events'[r], exec'[r], worker'[r], pipe'[r])
      BY <1>1, <1>4, <2>3, <3>1, <3>2 DEF Tally
    <3> QED
      BY <2>2, <3>1, <3>3
  <2>12. ASSUME NEW r \in Runs, TimerFires(r) PROVE Goal
    <3>1. /\ exec'[r] = [exec[r] EXCEPT !.pc = "settled"]
          /\ worker'[r] = [worker[r] EXCEPT !.pc = "exited"]
          /\ run'[r] = Closed(r, "timed_out", "timed_out")
          /\ \A x \in Runs \ {r} : Kept(x)
      BY <1>0, <2>12 DEF TimerFires
    <3>2. /\ exec'[r].pc = "settled" /\ worker'[r].calls = worker[r].calls
          /\ run'[r].state = "timed_out"
      BY <1>0, <3>1, MovedFields, CountFields, EndFields DEF Closed
    <3>3. Tally(run'[r], events'[r], exec'[r], worker'[r], pipe'[r])
      BY <1>1, <1>4, <3>2 DEF Tally
    <3> QED
      BY <2>2, <3>1, <3>3
  (* The worker's steps: it is there, so no executor has closed the run.    *)
  <2>13. ASSUME NEW r \in Runs, worker[r].pc \in {"up", "ending"},
                UNCHANGED <<run, events, exec>>, \A x \in Runs \ {r} : Kept(x),
                worker'[r].calls <= MaxModelCalls,
                worker[r].calls = Cardinality(Called(events[r], pipe[r]))
                  => worker'[r].calls = Cardinality(Called(events[r], pipe'[r]))
         PROVE  Goal
    <3>1. run[r].ended => run[r].state = "timed_out"
      BY <1>1, <1>4, <2>13 DEF Tally
    <3>2. Tally(run'[r], events'[r], exec'[r], worker'[r], pipe'[r])
      BY <1>1, <1>4, <2>13, <3>1 DEF Tally
    <3> QED
      BY <2>2, <2>13, <3>2
  <2>14. ASSUME NEW r \in Runs, NEW kind \in {"model_call", "step"}, WorkerEmits(r, kind) PROVE Goal
    <3> DEFINE e == [kind |-> kind, terminal |-> "none"]
               line == [type |-> "event", sequence |-> worker[r].sent + 1, event |-> e]
    <3>1. /\ worker[r].pc = "up" /\ worker[r].sent + 1 < MaxSequence
          /\ kind = "model_call" => worker[r].calls < MaxModelCalls
          /\ pipe'[r] = Append(pipe[r], line)
          /\ worker'[r] = [worker[r] EXCEPT !.sent = @ + 1,
                             !.calls = IF kind = "model_call" THEN @ + 1 ELSE @]
          /\ UNCHANGED <<run, events, exec>> /\ \A x \in Runs \ {r} : Kept(x)
      BY <1>0, <2>14 DEF WorkerEmits, WriteLine, EventLine
    <3>2. worker'[r].calls = IF kind = "model_call" THEN worker[r].calls + 1 ELSE worker[r].calls
      BY <1>0, <3>1 DEF Worker
    <3>3. /\ worker[r].sent \in Nat /\ MaxSequence \in Nat /\ worker[r].calls \in Nat
          /\ worker[r].calls <= MaxModelCalls
      BY <1>0, <1>1 DEF ControllerAssumption, Worker, Tally
    <3>4. worker[r].sent + 1 \in Sequences
      BY <3>1, <3>3 DEF Sequences
    <3>5. e \in Event /\ e.kind = kind
      BY DEF Event
    <3> HIDE DEF e
    <3>6. /\ line \in Line /\ line.type = "event" /\ line.event.kind = kind
          /\ line.sequence = worker[r].sent + 1
      BY <3>4, <3>5 DEF Line
    <3> HIDE DEF line
    <3>7. Pending(events[r], worker[r], pipe[r])
      BY <2>3, <3>1
    <3>8. worker'[r].calls <= MaxModelCalls
      BY <1>0, <3>1, <3>2, <3>3
    <3>9. /\ kind = "model_call" => Cardinality(Called(events[r], pipe'[r]))
                                      = Cardinality(Called(events[r], pipe[r])) + 1
          /\ kind # "model_call" => Called(events[r], pipe'[r]) = Called(events[r], pipe[r])
      BY <1>0, <3>1, <3>4, <3>6, <3>7, CalledPrinted
    <3> QED
      BY <2>13, <3>1, <3>2, <3>8, <3>9
  <2>15. ASSUME NEW r \in Runs, NEW outcome \in Outcomes, WorkerEnds(r, outcome) PROVE Goal
    <3> DEFINE line == [type |-> "event", sequence |-> worker[r].sent + 1, event |-> End(outcome)]
    <3>1. /\ worker[r].pc = "up" /\ worker[r].sent < MaxSequence /\ pipe'[r] = Append(pipe[r], line)
          /\ worker'[r] = [worker[r] EXCEPT !.sent = @ + 1, !.pc = "ending", !.verdict = outcome]
          /\ UNCHANGED <<run, events, exec>> /\ \A x \in Runs \ {r} : Kept(x)
      BY <1>0, <2>15 DEF WorkerEnds, WriteLine, EventLine, End
    <3>2. worker'[r].calls = worker[r].calls /\ worker[r].calls <= MaxModelCalls
      BY <1>0, <1>1, <3>1 DEF Worker, Tally
    <3>3. worker[r].sent + 1 \in Sequences
      BY <1>0, <3>1, WorkerSteps
    <3>4. End(outcome) \in Event /\ End(outcome).kind = "run_end"
      BY EventParts DEF End
    <3>5. line \in Line /\ line.type = "event" /\ line.event.kind # "model_call"
      BY <3>3, <3>4 DEF Line
    <3> HIDE DEF line
    <3>6. Called(events[r], pipe'[r]) = Called(events[r], pipe[r])
      BY <1>0, <2>3, <3>1, <3>5, CalledPrinted
    <3> QED
      BY <2>13, <3>1, <3>2, <3>6
  <2>16. ASSUME NEW r \in Runs, WorkerSummarises(r) PROVE Goal
    <3> DEFINE line == [type |-> "summary", outcome |-> worker[r].verdict]
    <3>1. /\ worker[r].pc = "ending" /\ pipe'[r] = Append(pipe[r], line)
          /\ worker'[r] = [worker[r] EXCEPT !.pc = "exited"]
          /\ UNCHANGED <<run, events, exec>> /\ \A x \in Runs \ {r} : Kept(x)
      BY <1>0, <2>16 DEF WorkerSummarises, WriteLine
    <3>2. worker'[r].calls = worker[r].calls /\ worker[r].calls <= MaxModelCalls
      BY <1>0, <1>1, <3>1, CountFields DEF Tally
    <3>3. \A i \in 1..Len(pipe'[r]) : i \in 1..Len(pipe[r]) \/ pipe'[r][i] = line
      BY <1>0, <3>1
    <3>4. \A i \in 1..Len(pipe[r]) : i \in 1..Len(pipe'[r]) /\ pipe'[r][i] = pipe[r][i]
      BY <1>0, <3>1
    <3>5. line.type # "event"
      OBVIOUS
    <3> HIDE DEF line
    <3>6. Called(events[r], pipe'[r]) = Called(events[r], pipe[r])
      BY <3>3, <3>4, <3>5 DEF Called
    <3> QED
      BY <2>13, <3>1, <3>2, <3>6
  <2>17. ASSUME NEW r \in Runs, WorkerDies(r) PROVE Goal
    <3>1. /\ worker[r].pc \in {"up", "ending"} /\ pipe' = pipe
          /\ worker'[r] = [worker[r] EXCEPT !.pc = "exited"]
          /\ UNCHANGED <<run, events, exec>> /\ \A x \in Runs \ {r} : Kept(x)
      BY <1>0, <2>17 DEF WorkerDies
    <3>2. worker'[r].calls = worker[r].calls /\ worker[r].calls <= MaxModelCalls
      BY <1>0, <1>1, <3>1, CountFields DEF Tally
    <3> QED
      BY <2>13, <3>1, <3>2
  <2>18. ASSUME UNCHANGED <<run, events, exec, worker, pipe>> PROVE Goal
    BY <1>1, <2>18
  <2> HIDE DEF Goal
  <2>19. ASSUME NEW r \in Runs, RunStep(r) PROVE Goal
    BY <2>4, <2>5, <2>6, <2>7, <2>9, <2>10, <2>11, <2>12, <2>19 DEF RunStep, BrokenCloses
  <2>20. ASSUME NEW r \in Runs, WorkerStep(r) PROVE Goal
    BY <2>14, <2>15, <2>16, <2>17, <2>20 DEF WorkerStep
  <2>21. ~PostStep
    BY <2>1 DEF PostStep
  <2> QED
    BY <2>4, <2>18, <2>19, <2>20, <2>21 DEF Next, ServerStep, Crash, Restart, vars
<1> QED
  BY <1>3, <1>4 DEF ControllerAssumption

----------------------------------------------------------------------------
(* What the records leave to spend.                                         *)

(* An active run is held to its ceiling, one that ended to its count.  As   *)
(* long as the timer ends no run, those never exceed the budget.            *)
Due(rec) == IF isActive(rec) THEN MaxModelCalls ELSE rec.modelCalls
Untimed == \A r \in Runs : run[r].state # "timed_out"
Reserved == Driver = "worker" /\ Untimed =>
              SumFunction([r \in Runs |-> Due(run[r])]) <= TotalCallBudget

LEMMA DueType ==
  ASSUME ControllerAssumption, NEW f \in [Runs -> Record]
  PROVE  IsFiniteSet(Runs) /\ [r \in Runs |-> Due(f[r])] \in [Runs -> Nat]
<1>1. \A rec \in Record : Due(rec) \in Nat
  BY DEF ControllerAssumption, Due, Record
<1> QED
  BY <1>1 DEF ControllerAssumption

(* No step but an admission raises what is due, and an admission finds the  *)
(* room.                                                                    *)
LEMMA ReserveStep ==
  ASSUME ControllerAssumption, SingleWriter, Inv, Reserved, [Next]_vars,
         Inv', Evidence', Tallied'
  PROVE  Reserved'
<1> DEFINE due(f) == [r \in Runs |-> Due(f[r])]
<1>0. /\ run \in [Runs -> Record] /\ run' \in [Runs -> Record] /\ events' \in [Runs -> Logs]
      /\ TotalCallBudget \in Nat /\ MaxModelCalls \in Nat /\ RecordsWellFormed
  BY DEF Inv, TypeOK, Logs, ControllerAssumption, SlotInvariant
<1> SUFFICES ASSUME Driver = "worker", \A r \in Runs : run'[r].state # "timed_out"
             PROVE  SumFunction(due(run')) <= TotalCallBudget
  BY DEF Reserved, Untimed
<1>1. \A r \in Runs : run[r].state # "timed_out"
  <2>1. \A r \in Runs : run[r].ended => run'[r] = run[r]
    BY EndedKept
  <2>2. \A r \in Runs : run[r].state = "timed_out" => run[r].ended
    BY <1>0, NewRunFields DEF RecordsWellFormed, isActive, ActiveStates
  <2> QED
    BY <2>1, <2>2
<1>2. SumFunction(due(run)) <= TotalCallBudget
  BY <1>1 DEF Reserved, Untimed
<1>3. IsFiniteSet(Runs) /\ due(run) \in [Runs -> Nat] /\ due(run') \in [Runs -> Nat]
  BY <1>0, DueType
<1>4. ASSUME \A r \in Runs : Due(run'[r]) <= Due(run[r])
      PROVE  SumFunction(due(run')) <= TotalCallBudget
  <2>1. \A r \in Runs : due(run')[r] <= due(run)[r]
    BY <1>4
  <2> HIDE DEF due
  <2>2. /\ SumFunction(due(run')) \in Nat /\ SumFunction(due(run)) \in Nat
        /\ SumFunction(due(run')) <= SumFunction(due(run))
    BY <1>3, <2>1, SumGrows
  <2> QED
    BY <1>0, <1>2, <2>2
<1>5. \A r \in Runs : Due(run[r]) \in Nat
  BY <1>3
<1>6. CASE run' = run
  BY <1>2, <1>6
<1>7. ASSUME NEW r \in Runs, Begins(r) PROVE \A x \in Runs : Due(run'[x]) <= Due(run[x])
  <2>1. /\ \A x \in Runs \ {r} : run'[x] = run[x]
        /\ isActive(run'[r]) /\ isActive(run[r])
    BY <1>0, <1>7 DEF Begins, isActive, ActiveStates
  <2>2. Due(run'[r]) = Due(run[r])
    BY <2>1 DEF Due
  <2> QED
    BY <1>5, <2>1, <2>2
<1>8. ASSUME NEW r \in Runs, Ends(r) PROVE \A x \in Runs : Due(run'[x]) <= Due(run[x])
  <2>1. /\ \A x \in Runs \ {r} : run'[x] = run[x]
        /\ run'[r].state \in FinalStates /\ run'[r].ended /\ isActive(run[r])
    BY <1>0, <1>8 DEF Ends
  <2>2. Due(run'[r]) = run'[r].modelCalls /\ Due(run[r]) = MaxModelCalls
    BY <2>1, NewRunFields DEF Due, isActive
  <2>3. run'[r].modelCalls = observedCalls(events'[r])
    BY <2>1 DEF Evidence, Evident, Shown
  <2>4. /\ worker'[r].calls <= MaxModelCalls
        /\ worker'[r].calls = Cardinality(Called(events'[r], pipe'[r])) /\ pipe'[r] = <<>>
    BY <2>1 DEF Tallied, Tally
  <2>5. Cardinality(Called(events'[r], <<>>)) = observedCalls(events'[r])
    BY <1>0, NothingUnread
  <2>6. Due(run'[r]) <= Due(run[r])
    BY <2>2, <2>3, <2>4, <2>5
  <2> QED
    BY <1>5, <2>1, <2>6
<1>9. ASSUME NEW r \in Runs, Admits(r) PROVE SumFunction(due(run')) <= TotalCallBudget
  <2>1. /\ run[r] = NoRun /\ run' = [run EXCEPT ![r] = newRun]
        /\ \A x \in Runs : ~isActive(run[x])
        /\ callsUsed + MaxModelCalls <= TotalCallBudget
    BY <1>9 DEF Admits, ActiveRuns
  <2>2. due(run) = [x \in Runs |-> run[x].modelCalls]
    BY <2>1 DEF Due
  <2>3. due(run)[r] = 0
    BY <2>1, <2>2 DEF NoRun
  <2>4. due(run') = [due(run) EXCEPT ![r] = MaxModelCalls]
    <3>1. run'[r] = newRun /\ \A x \in Runs \ {r} : run'[x] = run[x]
      BY <1>0, <2>1
    <3>2. Due(newRun) = MaxModelCalls
      BY NewRunFields DEF Due
    <3> QED
      BY <3>1, <3>2
  <2> HIDE DEF due
  <2>5. SumFunction(due(run')) + 0 = SumFunction(due(run)) + MaxModelCalls
    <3>1. ASSUME NEW d \in [Runs -> Nat], d[r] = 0
          PROVE  SumFunction([d EXCEPT ![r] = MaxModelCalls]) + 0 = SumFunction(d) + MaxModelCalls
      <4>1. SumFunction([d EXCEPT ![r] = MaxModelCalls]) + d[r] = SumFunction(d) + MaxModelCalls
        <5>1. IsFiniteSet(Runs) /\ MaxModelCalls \in Nat
          BY <1>0, <1>3
        <5> QED
          BY <5>1, SumUpdate
      <4> QED
        BY <3>1, <4>1
    <3> QED
      BY <1>3, <2>3, <2>4, <3>1
  <2>6. SumFunction(due(run)) = callsUsed
    BY <2>2 DEF callsUsed
  <2>7. SumFunction(due(run)) \in Nat /\ SumFunction(due(run')) \in Nat
    <3>1. \A x \in Runs : due(run)[x] <= due(run)[x] /\ due(run')[x] <= due(run')[x]
      BY <1>3
    <3> QED
      BY <1>3, <3>1, SumGrows
  <2> QED
    BY <1>0, <2>1, <2>5, <2>6, <2>7
<1>10. Moves
  BY StepMoves
<1> HIDE DEF due
<1> QED
  BY <1>4, <1>6, <1>7, <1>8, <1>9, <1>10 DEF Moves

LEMMA BudgetInit == ASSUME ControllerAssumption, Init PROVE Tallied /\ Reserved
<1>1. /\ \A r \in Runs : run[r] = NoRun /\ exec[r] = NoExecutor /\ worker[r] = NoWorker
      /\ IsFiniteSet(Runs) /\ TotalCallBudget \in Nat /\ MaxModelCalls \in Nat
  BY DEF Init, ControllerAssumption
<1>2. Tallied
  BY <1>1, NewRunFields, CountFields DEF Tallied, Tally
<1>3. [r \in Runs |-> Due(run[r])] \in [Runs -> {0}]
  <2>1. Due(NoRun) = 0
    BY NewRunFields DEF Due, NoRun
  <2> QED
    BY <1>1, <2>1
<1>4. Reserved
  BY <1>1, <1>3, SumOfZeros DEF Reserved
<1> QED
  BY <1>2, <1>4

(* No worker has issued more than is due for its run.                       *)
LEMMA IssuedIsDue ==
  ASSUME ControllerAssumption, Inv, Evidence, Tallied, Driver = "worker", Untimed, NEW r \in Runs
  PROVE  worker[r].calls <= Due(run[r])
<1>1. /\ Evident(run[r], events[r], exec[r], worker[r], pipe[r])
      /\ Tally(run[r], events[r], exec[r], worker[r], pipe[r])
  BY DEF Evidence, Tallied
<1>2. events[r] \in Logs
  BY DEF Inv, TypeOK, Logs
<1>3. CASE run[r] = NoRun
  <2>1. worker[r].calls = 0
    BY <1>1, <1>3, CountFields DEF Evident, Fresh
  <2>2. Due(NoRun) = 0
    BY NewRunFields DEF Due, NoRun
  <2> QED
    BY <1>3, <2>1, <2>2
<1>4. CASE isActive(run[r])
  BY <1>1, <1>4 DEF Due, Tally
<1>5. CASE run[r].state \in FinalStates /\ run[r].ended
  <2>1. run[r].state # "timed_out" /\ Due(run[r]) = run[r].modelCalls
    BY <1>5, NewRunFields DEF Untimed, Due, isActive
  <2>2. run[r].modelCalls = observedCalls(events[r])
    BY <1>1, <1>5, <2>1 DEF Evident, Shown
  <2>3. worker[r].calls = Cardinality(Called(events[r], pipe[r])) /\ pipe[r] = <<>>
    BY <1>1, <1>5, <2>1 DEF Tally
  <2>4. worker[r].calls = observedCalls(events[r]) /\ observedCalls(events[r]) \in Nat
    BY <1>2, <2>3, NothingUnread, ObservedIsNat DEF Logs
  <2> QED
    BY <2>1, <2>2, <2>4
<1> QED
  BY <1>3, <1>4, <1>5 DEF Inv, SlotInvariant, RecordsWellFormed

LEMMA WithinBudget ==
  ASSUME ControllerAssumption, Inv, Evidence, Tallied, Reserved
  PROVE  BudgetHolds
<1> DEFINE issued == [r \in Runs |-> worker[r].calls]
           due == [r \in Runs |-> Due(run[r])]
<1> SUFFICES ASSUME Untimed PROVE SumFunction(issued) <= TotalCallBudget
  BY DEF BudgetHolds, Untimed
<1>1. /\ IsFiniteSet(Runs) /\ TotalCallBudget \in Nat
      /\ run \in [Runs -> Record] /\ worker \in [Runs -> Worker]
  BY DEF Inv, TypeOK, ControllerAssumption
<1>2. issued \in [Runs -> Nat]
  BY <1>1 DEF Worker
<1>3. CASE Driver = "mcp"
  <2>1. \A r \in Runs : worker[r].calls = 0
    BY <1>3, CountFields DEF Tallied, Tally
  <2>2. issued \in [Runs -> {0}]
    BY <2>1
  <2> HIDE DEF issued
  <2> QED
    BY <1>1, <2>2, SumOfZeros
<1>4. CASE Driver = "worker"
  <2>1. due \in [Runs -> Nat] /\ SumFunction(due) <= TotalCallBudget
    BY <1>1, <1>4, DueType DEF Reserved
  <2>2. \A r \in Runs : issued[r] <= due[r]
    BY <1>4, IssuedIsDue
  <2> HIDE DEF issued, due
  <2>3. /\ SumFunction(issued) \in Nat /\ SumFunction(due) \in Nat
        /\ SumFunction(issued) <= SumFunction(due)
    BY <1>1, <1>2, <2>1, <2>2, SumGrows
  <2> QED
    BY <1>1, <2>1, <2>3
<1> QED
  BY <1>3, <1>4 DEF ControllerAssumption

(* The deployment's budget covers every call the workers issued, whatever   *)
(* the pipes, the crashes and the failed launches do, unless the timer      *)
(* ended a run: the reservation at admission is enough, because a closed    *)
(* run reports every call its worker made.                                  *)
THEOREM BudgetIsKept ==
  ControllerAssumption /\ SingleWriter => (Spec => []BudgetHolds)
<1> SUFFICES ASSUME ControllerAssumption, SingleWriter PROVE Spec => []BudgetHolds
  OBVIOUS
<1>1. Init => Tallied /\ Reserved
  BY BudgetInit
<1>2. (Inv /\ EndingHasVerdict /\ Evidence) /\ (Tallied /\ Reserved) /\ [Next]_vars
        => (Tallied /\ Reserved)'
  <2> SUFFICES ASSUME Inv, EndingHasVerdict, Evidence, Tallied, Reserved, [Next]_vars
               PROVE  Tallied' /\ Reserved'
    OBVIOUS
  <2>1. Inv' /\ Evidence' /\ Tallied'
    BY InvStep, EvidenceStep, TallyStep
  <2> QED
    BY <2>1, ReserveStep
<1>3. (Inv /\ EndingHasVerdict /\ Evidence) /\ (Tallied /\ Reserved) => BudgetHolds
  BY WithinBudget
<1> QED
  BY <1>1, <1>2, <1>3, EvidenceHolds, PTL DEF Spec

----------------------------------------------------------------------------
(* The live page (LivePage) over this controller: a success it shows is the *)
(* ledger's, and its cursor advances while no request is lost or overtaken. *)

----------------------------------------------------------------------------
(* Types.                                                                   *)

RunIds  == Runs \cup {NoId}
Snap    == [id : RunIds, ended : BOOLEAN, succeeded : BOOLEAN]
Page    == [mark : Nat, complete : BOOLEAN]
Session == [capability : BOOLEAN, run : Snap, page : Page, runId : RunIds,
            starting : BOOLEAN, replaying : BOOLEAN]
Stages  == {"idle", "capability", "run", "events"}
Tick    == [stage : Stages, about : RunIds, answered : BOOLEAN, ok : BOOLEAN,
            snapshot : Snap, page : Page]
View    == [state : {"unavailable", "starting", "ready", "completed", "failed", "running",
                     "awaiting_agent", "historical_replay"},
            canStart : BOOLEAN, canReplay : BOOLEAN, run : RunIds, mark : Nat]

PageTyped ==
  /\ session \in Session
  /\ ticks \in [Slots -> Tick]
  /\ start \in [pc : {"idle", "posting", "answered"}, answer : RunIds]
  /\ view \in View
  /\ punctual \in BOOLEAN

(* A request about a run names one; no run is held before one is named; the *)
(* page does not offer to start while it is starting; the view shows the    *)
(* last page that arrived.                                                  *)
Asking ==
  /\ \A i \in Slots : ticks[i].stage \in {"run", "events"} =>
       ticks[i].about \in Runs /\ ticks[i].about # NoId /\ session.runId # NoId
  /\ session.runId = NoId => session.run.id = NoId
  /\ start.pc # "idle" => session.starting /\ ~view.canStart
  /\ view.mark = session.page.mark

----------------------------------------------------------------------------
(* The high-water mark of a log.                                            *)

High(r) == Max(Stored(events[r]) \cup {0})

LEMMA StoredHasMax ==
  ASSUME ControllerAssumption, NEW log \in Logs
  PROVE  LET m == Max(Stored(log) \cup {0})
         IN  m \in Nat /\ m \in Stored(log) \cup {0} /\ \A s \in Stored(log) \cup {0} : s <= m
<1> DEFINE S == Stored(log) \cup {0}
<1>1. MaxSequence \in Nat /\ Stored(log) \subseteq 1..MaxSequence
  BY DEF ControllerAssumption, Stored, Logs, Sequences
<1>2. \A s \in S : s \in Nat
  BY <1>1
<1>3. \E m \in S : \A s \in S : s <= m
  <2>1. CASE Stored(log) = {}
    BY <2>1
  <2>2. CASE Stored(log) # {}
    <3>1. PICK m \in Stored(log) : \A s \in Stored(log) : s <= m
      BY <1>1, <2>2, LastExists
    <3>2. m \in Nat /\ 0 <= m
      BY <1>2
    <3> QED
      BY <3>1, <3>2
  <2> QED
    BY <2>1, <2>2
<1> HIDE DEF S
<1>4. Max(S) \in S /\ \A s \in S : Max(S) >= s
  <2>1. \E m \in S : \A s \in S : m >= s
    BY <1>2, <1>3
  <2> QED
    BY <2>1 DEF Max
<1>5. Max(S) \in Nat /\ \A s \in S : s <= Max(S)
  BY <1>2, <1>4
<1> QED
  BY <1>4, <1>5 DEF S

(* A log that keeps what it stores keeps its mark.                          *)
LEMMA HighGrows ==
  ASSUME ControllerAssumption, NEW log \in Logs, NEW log2 \in Logs,
         \A s \in Stored(log) : log2[s] = log[s]
  PROVE  Max(Stored(log) \cup {0}) <= Max(Stored(log2) \cup {0})
<1>1. Stored(log) \subseteq Stored(log2)
  BY DEF Stored, Logs
<1>2. Max(Stored(log) \cup {0}) \in Stored(log2) \cup {0}
  BY <1>1, StoredHasMax
<1> QED
  BY <1>2, StoredHasMax

----------------------------------------------------------------------------
(* Records.                                                                 *)

LEMMA EmptyAnswers == NoSnapshot \in Snap /\ NoPage \in Page /\ Idle \in Tick
BY DEF NoSnapshot, NoPage, Idle, Snap, Page, Tick, Stages, RunIds

LEMMA AnswersTyped ==
  ASSUME ControllerAssumption, TypeOK, NEW r \in Runs
  PROVE  /\ Snapshot(r) \in Snap /\ Snapshot(r).id = r
         /\ Snapshot(r).succeeded => run[r].terminalResult = "succeeded"
         /\ PageOf(r) \in Page /\ PageOf(r).mark = High(r)
<1>1. run[r].ended \in BOOLEAN /\ events[r] \in Logs
  BY DEF TypeOK, Record, Logs
<1>2. High(r) \in Nat
  BY <1>1, StoredHasMax DEF High
<1>3. (run[r].terminalResult = "succeeded") \in BOOLEAN
  OBVIOUS
<1> QED
  BY <1>1, <1>2, <1>3 DEF Snapshot, PageOf, Snap, Page, High, RunIds

(* deriveLive: the view names the session's run and its page's mark, shows  *)
(* a completed run only for a snapshot that says so, and does not offer to  *)
(* start while the session is starting.                                     *)
LEMMA DerivedParts ==
  ASSUME NEW s \in Session
  PROVE  /\ Derived(s) \in View
         /\ Derived(s).run = s.run.id /\ Derived(s).mark = s.page.mark
         /\ Derived(s).state = "completed" => s.run.succeeded
         /\ s.starting => ~Derived(s).canStart
<1> DEFINE Shows(state, canStart, canReplay) ==
             [state |-> state, canStart |-> canStart, canReplay |-> canReplay,
              run |-> s.run.id, mark |-> s.page.mark]
           Outcome(v) == /\ v \in View /\ v.run = s.run.id /\ v.mark = s.page.mark
                         /\ v.state = "completed" => s.run.succeeded
                         /\ s.starting => ~v.canStart
<1>1. /\ s.capability \in BOOLEAN /\ s.starting \in BOOLEAN /\ s.replaying \in BOOLEAN
      /\ s.run \in Snap /\ s.page \in Page
      /\ s.run.id \in RunIds /\ s.run.ended \in BOOLEAN /\ s.run.succeeded \in BOOLEAN
      /\ s.page.mark \in Nat /\ s.page.complete \in BOOLEAN
  BY DEF Session, Snap, Page
<1>2. \A state \in {"unavailable", "starting", "ready", "completed", "failed", "running",
                    "awaiting_agent", "historical_replay"} :
        \A canStart, canReplay \in BOOLEAN :
          (state = "completed" => s.run.succeeded) /\ (s.starting => ~canStart)
          => Outcome(Shows(state, canStart, canReplay))
  BY <1>1 DEF View
<1>3. CASE ~s.capability
  <2>1. Derived(s) = Shows("unavailable", FALSE, FALSE)
    BY <1>1, <1>3 DEF Derived
  <2> HIDE DEF Shows, Outcome
  <2>2. Outcome(Derived(s))
    BY <1>2, <2>1
  <2> QED
    BY <2>2 DEF Outcome
<1>4. CASE s.capability /\ s.starting
  <2>1. Derived(s) = Shows("starting", FALSE, FALSE)
    BY <1>1, <1>4 DEF Derived
  <2> HIDE DEF Shows, Outcome
  <2>2. Outcome(Derived(s))
    BY <1>2, <2>1
  <2> QED
    BY <2>2 DEF Outcome
<1>5. CASE s.capability /\ ~s.starting /\ s.run = NoSnapshot
  <2>1. Derived(s) = Shows("ready", TRUE, FALSE)
    BY <1>1, <1>5 DEF Derived
  <2> HIDE DEF Shows, Outcome
  <2>2. Outcome(Derived(s))
    BY <1>2, <1>5, <2>1
  <2> QED
    BY <2>2 DEF Outcome
<1> DEFINE finished == s.run.ended \/ s.page.complete
<1>6. CASE s.capability /\ ~s.starting /\ s.run # NoSnapshot /\ finished
  <2>1. Derived(s) = IF s.replaying THEN Shows("historical_replay", FALSE, TRUE)
                     ELSE Shows(IF s.run.succeeded THEN "completed" ELSE "failed", TRUE, TRUE)
    BY <1>1, <1>6 DEF Derived
  <2> HIDE DEF Shows, Outcome
  <2>2. Outcome(Derived(s))
    BY <1>1, <1>2, <1>6, <2>1
  <2> QED
    BY <2>2 DEF Outcome
<1>7. CASE s.capability /\ ~s.starting /\ s.run # NoSnapshot /\ ~finished
  <2>1. Derived(s) = Shows(IF s.page.mark = 0 THEN "awaiting_agent" ELSE "running", FALSE, FALSE)
    BY <1>1, <1>7 DEF Derived
  <2> HIDE DEF Shows, Outcome
  <2>2. Outcome(Derived(s))
    BY <1>1, <1>2, <1>7, <2>1
  <2> QED
    BY <2>2 DEF Outcome
<1> QED
  BY <1>1, <1>3, <1>4, <1>5, <1>6, <1>7

----------------------------------------------------------------------------
(* Truth and order.                                                         *)

(* Whatever the page holds that says a run succeeded is true of the ledger. *)
Succeeded(r) == r \in Runs /\ run[r].terminalResult = "succeeded"
Honest(snapshot) == snapshot.succeeded => Succeeded(snapshot.id)
PageHonest ==
  /\ Honest(session.run)
  /\ \A i \in Slots : Honest(ticks[i].snapshot)
  /\ view.state = "completed" => Succeeded(view.run)

(* As long as no request was lost or overtaken: one tick is under way; it   *)
(* is about the session's run, and once the run has arrived that is the run *)
(* the session holds; the page it brings reaches the ledger's mark of then, *)
(* which the view's does not exceed; and a page that offers to start shows  *)
(* the run the session holds.                                               *)
Singly == \A i, j \in Slots : ticks[i] # Idle /\ ticks[j] # Idle => i = j
Named(i) ==
  /\ ticks[i].stage \in {"run", "events"} => ticks[i].about = session.runId
  /\ ticks[i].stage = "run" /\ ticks[i].answered => ticks[i].snapshot.id = ticks[i].about
  /\ ticks[i].stage = "events" => session.run.id = ticks[i].about
Read(i) ==
  ticks[i].stage = "events" /\ ticks[i].answered =>
    /\ ticks[i].page.mark <= High(ticks[i].about)
    /\ view.run = ticks[i].about => view.mark <= ticks[i].page.mark
ShownHigh == view.run # NoId => view.run \in Runs /\ view.mark <= High(view.run)
StartShown == view.canStart => session.run.id = view.run /\ session.runId = view.run
Ordered ==
  punctual => /\ Singly /\ ShownHigh /\ StartShown
              /\ \A i \in Slots : Named(i) /\ Read(i)

PageInv == PageTyped /\ Asking /\ Ordered

LEMMA TickForms ==
  /\ Idle.stage = "idle" /\ Idle.snapshot = NoSnapshot /\ NoSnapshot.succeeded = FALSE
  /\ LET begun == [Idle EXCEPT !.stage = "capability"]
     IN  /\ begun \in Tick /\ begun.stage = "capability" /\ begun.snapshot = NoSnapshot
  /\ \A stage \in Stages : \A about \in RunIds :
       LET asked == [Idle EXCEPT !.stage = stage, !.about = about]
       IN  /\ asked \in Tick /\ asked.stage = stage /\ asked.about = about
           /\ ~asked.answered /\ asked.snapshot = NoSnapshot
<1>1. Idle.stage = "idle" /\ Idle.snapshot = NoSnapshot /\ NoSnapshot.succeeded = FALSE
  BY DEF Idle, NoSnapshot
<1>2. Idle \in Tick /\ Idle.answered = FALSE
  BY EmptyAnswers DEF Idle
<1> QED
  BY <1>1, <1>2 DEF Tick, Stages

(* A tick moves alone.                                                      *)
LEMMA TickMoves ==
  ASSUME PageTyped, NEW i \in Slots, NEW t \in Tick, ticks' = [ticks EXCEPT ![i] = t]
  PROVE  /\ ticks' \in [Slots -> Tick] /\ ticks'[i] = t
         /\ \A j \in Slots \ {i} : ticks'[j] = ticks[j]
BY DEF PageTyped

----------------------------------------------------------------------------
(* The steps of the page.                                                   *)

(* The cursor of the run shown does not go back in this step.               *)
Advances == punctual' /\ view.run # NoId /\ view'.run = view.run => view'.mark >= view.mark
PageGoal == PageInv' /\ (PageHonest => PageHonest') /\ Advances

(* A step that leaves the view as it is.                                    *)
LEMMA SameView ==
  ASSUME PageTyped, view' = view
  PROVE  Advances
<1>1. view.mark \in Nat
  BY DEF PageTyped, View
<1> QED
  BY <1>1 DEF Advances

(* What the page holds stays true while the ledger rests, when what is new   *)
(* in it is true.                                                           *)
LEMMA HonestStep ==
  ASSUME PageHonest, run' = run, NEW i \in Slots, NEW t,
         ticks'[i] = t, \A j \in Slots \ {i} : ticks'[j] = ticks[j],
         t.snapshot.succeeded => Succeeded(t.snapshot.id),
         session'.run.succeeded => Succeeded(session'.run.id),
         view'.state = "completed" => Succeeded(view'.run)
  PROVE  PageHonest'
<1>1. Honest(session.run)'
  BY DEF Honest, Succeeded
<1>2. ASSUME NEW j \in Slots PROVE Honest(ticks[j].snapshot)'
  <2>1. CASE j = i
    BY <2>1 DEF Honest, Succeeded
  <2>2. CASE j # i
    <3>1. ticks[j].snapshot.succeeded => Succeeded(ticks[j].snapshot.id)
      BY DEF PageHonest, Honest
    <3> QED
      BY <2>2, <3>1 DEF Honest, Succeeded
  <2> QED
    BY <2>1, <2>2
<1>3. (view.state = "completed" => Succeeded(view.run))'
  BY DEF Succeeded
<1> QED
  BY <1>1, <1>2, <1>3 DEF PageHonest

(* A tick begins: by the timer, or after a click or the answer to POST      *)
(* /runs, which may name another run.                                       *)
LEMMA BeginStep ==
  ASSUME PageInv, UNCHANGED vars, NEW i \in Slots, ticks[i] = Idle, Begin(i),
         punctual' = (punctual /\ Alone(i)), view' = view,
         session' \in Session, session'.run = session.run, session'.page = session.page,
         start' \in [pc : {"idle", "posting", "answered"}, answer : RunIds],
         start'.pc # "idle" => start.pc # "idle" /\ session'.starting = session.starting,
         \/ session'.runId = session.runId
         \/ start.pc = "answered" /\ session'.runId # NoId
  PROVE  PageGoal
<1> USE DEF PageInv
<1> DEFINE begun == [Idle EXCEPT !.stage = "capability"]
<1>0. run' = run /\ events' = events
  BY DEF vars
<1>1. begun \in Tick /\ begun.stage = "capability" /\ begun.snapshot = NoSnapshot
  BY TickForms
<1> HIDE DEF begun
<1>2. /\ ticks' \in [Slots -> Tick] /\ ticks'[i] = begun
      /\ \A j \in Slots \ {i} : ticks'[j] = ticks[j]
  BY <1>1, TickMoves DEF Begin, begun
<1>3. PageTyped'
  <2>1. punctual' \in BOOLEAN
    OBVIOUS
  <2> QED
    BY <1>2, <2>1 DEF PageTyped
<1>4. Asking'
  BY <1>1, <1>2 DEF Asking
<1>5. PageHonest => PageHonest'
  <2> SUFFICES ASSUME PageHonest PROVE PageHonest'
    OBVIOUS
  <2>1. ~begun.snapshot.succeeded
    BY <1>1, TickForms
  <2>2. session'.run.succeeded => Succeeded(session'.run.id)
    BY DEF PageHonest, Honest
  <2>3. view'.state = "completed" => Succeeded(view'.run)
    BY <2>2 DEF PageHonest
  <2> QED
    BY <1>0, <1>2, <2>1, <2>2, <2>3, HonestStep
<1>6. Ordered'
  <2> SUFFICES ASSUME punctual' PROVE (Singly /\ ShownHigh /\ StartShown /\ \A j \in Slots : Named(j) /\ Read(j))'
    BY DEF Ordered
  <2>1. punctual /\ \A j \in Slots \ {i} : ticks'[j] = Idle
    BY <1>2 DEF Alone
  <2>2. Singly'
    BY <2>1 DEF Singly
  <2>3. ShownHigh'
    BY <1>0, <2>1 DEF Ordered, ShownHigh, High
  <2>4. StartShown'
    BY <2>1 DEF Ordered, StartShown, Asking
  <2>5. \A j \in Slots : ticks'[j].stage \notin {"run", "events"}
    BY <1>1, <1>2, <2>1, TickForms
  <2>6. (\A j \in Slots : Named(j) /\ Read(j))'
    BY <2>5 DEF Named, Read
  <2> QED
    BY <2>2, <2>3, <2>4, <2>6
<1> QED
  BY <1>3, <1>4, <1>5, <1>6, SameView DEF PageGoal

(* An answer is given, or none.                                             *)
LEMMA AnswerStep ==
  ASSUME PageInv, UNCHANGED vars, NEW i \in Slots, NEW t \in Tick, ticks' = [ticks EXCEPT ![i] = t],
         Waits(i), t.stage = ticks[i].stage, t.about = ticks[i].about,
         UNCHANGED <<session, start, view>>, punctual' \in BOOLEAN, punctual' => punctual,
         PageHonest => Honest(t.snapshot),
         punctual' => /\ t.stage = "run" => t.snapshot.id = t.about
                      /\ t.stage = "events" => t.page.mark = High(t.about)
  PROVE  PageGoal
<1> USE DEF PageInv
<1>0. run' = run /\ events' = events
  BY DEF vars
<1>1. /\ ticks' \in [Slots -> Tick] /\ ticks'[i] = t
      /\ \A j \in Slots \ {i} : ticks'[j] = ticks[j]
  BY TickMoves
<1>2. PageTyped'
  BY <1>1 DEF PageTyped
<1>3. Asking'
  BY <1>1 DEF Asking
<1>4. PageHonest => PageHonest'
  BY <1>0, <1>1 DEF PageHonest, Honest, Succeeded
<1>5. Ordered'
  <2> SUFFICES ASSUME punctual' PROVE (Singly /\ ShownHigh /\ StartShown /\ \A j \in Slots : Named(j) /\ Read(j))'
    BY DEF Ordered
  <2>1. punctual /\ Singly /\ ShownHigh /\ StartShown /\ \A j \in Slots : Named(j) /\ Read(j)
    BY DEF Ordered
  <2>2. Singly'
    BY <1>1, <2>1 DEF Singly, Waits
  <2>3. ShownHigh' /\ StartShown'
    BY <1>0, <2>1 DEF ShownHigh, StartShown, High
  <2>4. ASSUME NEW j \in Slots \ {i} PROVE (Named(j) /\ Read(j))'
    BY <1>0, <1>1, <2>1, <2>4 DEF Named, Read, High
  <2>5. Named(i)'
    BY <1>1, <2>1 DEF Named
  <2>6. Read(i)'
    <3> SUFFICES ASSUME t.stage = "events"
                 PROVE  t.page.mark <= High(t.about) /\ (view.run = t.about => view.mark <= t.page.mark)
      BY <1>0, <1>1 DEF Read, High
    <3>1. t.page.mark = High(t.about) /\ t.page.mark \in Nat
      BY DEF Tick, Page
    <3>2. t.about # NoId
      BY DEF Asking
    <3> QED
      BY <2>1, <3>1, <3>2 DEF ShownHigh
  <2> QED
    BY <2>2, <2>3, <2>4, <2>5, <2>6
<1> QED
  BY <1>2, <1>3, <1>4, <1>5, SameView DEF PageGoal

(* A tick ends with what it brought: the view is derived anew.              *)
LEMMA EndStep ==
  ASSUME PageInv, UNCHANGED vars, NEW i \in Slots, ticks[i] # Idle, ticks' = [ticks EXCEPT ![i] = Idle],
         session' \in Session, session'.run = session.run, session'.runId = session.runId,
         session'.starting = session.starting, view' = Derived(session'), UNCHANGED <<start, punctual>>,
         punctual => /\ session'.runId = session'.run.id
                     /\ session.run.id # NoId =>
                          /\ session.run.id \in Runs /\ session'.page.mark <= High(session.run.id)
                          /\ view.run = session.run.id => view.mark <= session'.page.mark
  PROVE  PageGoal
<1> USE DEF PageInv
<1>0. run' = run /\ events' = events
  BY DEF vars
<1>1. /\ ticks' \in [Slots -> Tick] /\ ticks'[i] = Idle
      /\ \A j \in Slots \ {i} : ticks'[j] = ticks[j]
  BY EmptyAnswers, TickMoves
<1>2. /\ view' \in View /\ view'.run = session'.run.id /\ view'.mark = session'.page.mark
      /\ view'.state = "completed" => session'.run.succeeded
      /\ session'.starting => ~view'.canStart
  BY DerivedParts
<1>3. PageTyped'
  BY <1>1, <1>2 DEF PageTyped
<1>4. Asking'
  BY <1>1, <1>2, TickForms DEF Asking
<1>5. PageHonest => PageHonest'
  <2> SUFFICES ASSUME PageHonest PROVE PageHonest'
    OBVIOUS
  <2>1. ~Idle.snapshot.succeeded
    BY <1>1, TickForms
  <2>2. session'.run.succeeded => Succeeded(session'.run.id)
    BY DEF PageHonest, Honest
  <2>3. view'.state = "completed" => Succeeded(view'.run)
    BY <1>2, <2>2 DEF PageHonest
  <2> QED
    BY <1>0, <1>1, <2>1, <2>2, <2>3, HonestStep
<1>6. Ordered'
  <2> SUFFICES ASSUME punctual PROVE (Singly /\ ShownHigh /\ StartShown /\ \A j \in Slots : Named(j) /\ Read(j))'
    BY DEF Ordered
  <2>1. \A j \in Slots : ticks'[j] = Idle
    BY <1>1 DEF Ordered, Singly
  <2>2. Singly'
    BY <2>1 DEF Singly
  <2>3. ShownHigh'
    BY <1>0, <1>2 DEF ShownHigh, High
  <2>4. StartShown'
    BY <1>2 DEF StartShown
  <2>5. (\A j \in Slots : Named(j) /\ Read(j))'
    BY <2>1, TickForms DEF Named, Read
  <2> QED
    BY <2>2, <2>3, <2>4, <2>5
<1>7. Advances
  BY <1>2 DEF Advances
<1> QED
  BY <1>3, <1>4, <1>5, <1>6, <1>7 DEF PageGoal

(* A tick goes on to its next request, which names the session's run.       *)
LEMMA AskStep ==
  ASSUME PageInv, UNCHANGED vars, NEW i \in Slots, NEW stage \in {"run", "events"}, ticks[i] # Idle, Ask(i, stage),
         session.runId # NoId, session.runId \in Runs, session' \in Session,
         session'.runId = session.runId, session'.page = session.page,
         session'.starting = session.starting, UNCHANGED <<start, view, punctual>>,
         \/ session'.run = session.run
         \/ /\ stage = "events"
            /\ PageHonest => Honest(session'.run)
            /\ punctual => session'.run.id = session.runId,
         punctual /\ stage = "events" => session'.run.id = session.runId
  PROVE  PageGoal
<1> USE DEF PageInv
<1> DEFINE asked == [Idle EXCEPT !.stage = stage, !.about = session.runId]
<1>0. run' = run /\ events' = events
  BY DEF vars
<1>1. /\ asked \in Tick /\ asked.stage = stage /\ asked.about = session.runId
      /\ ~asked.answered /\ asked.snapshot = NoSnapshot
  <2>1. stage \in Stages /\ session.runId \in RunIds
    BY DEF Stages, RunIds
  <2> QED
    BY <2>1, TickForms
<1> HIDE DEF asked
<1>2. /\ ticks' \in [Slots -> Tick] /\ ticks'[i] = asked
      /\ \A j \in Slots \ {i} : ticks'[j] = ticks[j]
  BY <1>1, TickMoves DEF Ask, asked
<1>3. PageTyped'
  BY <1>2 DEF PageTyped
<1>4. Asking'
  BY <1>1, <1>2 DEF Asking
<1>5. PageHonest => PageHonest'
  <2> SUFFICES ASSUME PageHonest PROVE PageHonest'
    OBVIOUS
  <2>1. ~asked.snapshot.succeeded
    BY <1>1, TickForms
  <2>2. session'.run.succeeded => Succeeded(session'.run.id)
    BY DEF PageHonest, Honest
  <2>3. view'.state = "completed" => Succeeded(view'.run)
    BY <2>2 DEF PageHonest
  <2> QED
    BY <1>0, <1>2, <2>1, <2>2, <2>3, HonestStep
<1>6. Ordered'
  <2> SUFFICES ASSUME punctual PROVE (Singly /\ ShownHigh /\ StartShown /\ \A j \in Slots : Named(j) /\ Read(j))'
    BY DEF Ordered
  <2>1. \A j \in Slots \ {i} : ticks'[j] = Idle
    BY <1>2 DEF Ordered, Singly
  <2>2. Singly'
    BY <2>1 DEF Singly
  <2>3. ShownHigh'
    BY <1>0 DEF Ordered, ShownHigh, High
  <2>4. StartShown'
    BY DEF Ordered, StartShown
  <2>5. \A j \in Slots \ {i} : (Named(j) /\ Read(j))'
    BY <2>1, TickForms DEF Named, Read
  <2>6. (Named(i) /\ Read(i))'
    BY <1>1, <1>2 DEF Named, Read
  <2> QED
    BY <2>2, <2>3, <2>4, <2>5, <2>6
<1> QED
  BY <1>3, <1>4, <1>5, <1>6, SameView DEF PageGoal

(* What the requests' answers bring.                                        *)
LEMMA AnswersKeep ==
  ASSUME ControllerAssumption, TypeOK, PageInv, UNCHANGED vars, NEW i \in Slots,
         Served(i) \/ Lost(i)
  PROVE  PageGoal
<1> USE DEF PageInv
<1>1. /\ ticks \in [Slots -> Tick] /\ ticks[i] \in Tick /\ punctual \in BOOLEAN
      /\ ticks[i].stage \in Stages /\ ticks[i].snapshot \in Snap /\ ticks[i].page \in Page
  BY DEF PageTyped, Tick
<1>2. ASSUME Served(i) PROVE PageGoal
  <2> DEFINE shot  == IF ticks[i].stage = "run" THEN Snapshot(ticks[i].about) ELSE NoSnapshot
             sheet == IF ticks[i].stage = "events" THEN PageOf(ticks[i].about) ELSE NoPage
             t == [ticks[i] EXCEPT !.answered = TRUE, !.ok = TRUE, !.snapshot = shot, !.page = sheet]
  <2>1. ticks[i].stage \in {"run", "events"} => ticks[i].about \in Runs
    BY DEF Asking
  <2>2. /\ shot \in Snap /\ (shot.succeeded => Succeeded(shot.id))
        /\ ticks[i].stage = "run" => shot.id = ticks[i].about
    BY <2>1, AnswersTyped, EmptyAnswers, TickForms DEF Succeeded
  <2>3. /\ sheet \in Page
        /\ ticks[i].stage = "events" => sheet.mark = High(ticks[i].about)
    BY <2>1, AnswersTyped, EmptyAnswers
  <2>4. ticks' = [ticks EXCEPT ![i] = t]
    BY <1>1, <1>2 DEF Served
  <2>5. /\ t \in Tick /\ t.stage = ticks[i].stage /\ t.about = ticks[i].about
        /\ t.snapshot = shot /\ t.page = sheet
    <3> HIDE DEF shot, sheet
    <3> QED
      BY <1>1, <2>2, <2>3 DEF Tick
  <2>6. Waits(i) /\ UNCHANGED <<session, start, view, punctual>>
    BY <1>2 DEF Served
  <2> HIDE DEF shot, sheet, t
  <2>7. Honest(t.snapshot)
    BY <2>2, <2>5 DEF Honest
  <2> QED
    BY <1>1, <2>2, <2>3, <2>4, <2>5, <2>6, <2>7, AnswerStep
<1>3. ASSUME Lost(i) PROVE PageGoal
  <2> DEFINE t == [ticks[i] EXCEPT !.answered = TRUE]
  <2>1. ticks' = [ticks EXCEPT ![i] = t]
    BY <1>1, <1>3 DEF Lost
  <2>2. /\ t \in Tick /\ t.stage = ticks[i].stage /\ t.about = ticks[i].about
        /\ t.snapshot = ticks[i].snapshot
    BY <1>1 DEF Tick
  <2>3. Waits(i) /\ UNCHANGED <<session, start, view>> /\ punctual' = FALSE
    BY <1>3 DEF Lost
  <2> HIDE DEF t
  <2>4. PageHonest => Honest(t.snapshot)
    BY <2>2 DEF PageHonest
  <2> QED
    BY <2>1, <2>2, <2>3, <2>4, AnswerStep DEF Waits
<1> QED
  BY <1>2, <1>3

(* The session's fields one by one.                                         *)
LEMMA SessionParts ==
  ASSUME NEW s \in Session
  PROVE  /\ s.run \in Snap /\ s.page \in Page /\ s.runId \in RunIds
         /\ s.run.id \in RunIds /\ s.page.mark \in Nat
         /\ \A b \in BOOLEAN :
              /\ [s EXCEPT !.capability = b] \in Session
              /\ [s EXCEPT !.capability = b].run = s.run
              /\ [s EXCEPT !.capability = b].page = s.page
              /\ [s EXCEPT !.capability = b].runId = s.runId
              /\ [s EXCEPT !.capability = b].starting = s.starting
         /\ \A b \in BOOLEAN :
              /\ [s EXCEPT !.replaying = b] \in Session
              /\ [s EXCEPT !.replaying = b].run = s.run
              /\ [s EXCEPT !.replaying = b].page = s.page
              /\ [s EXCEPT !.replaying = b].runId = s.runId
              /\ [s EXCEPT !.replaying = b].starting = s.starting
         /\ \A v \in Snap :
              /\ [s EXCEPT !.run = v] \in Session
              /\ [s EXCEPT !.run = v].run = v
              /\ [s EXCEPT !.run = v].page = s.page
              /\ [s EXCEPT !.run = v].runId = s.runId
              /\ [s EXCEPT !.run = v].starting = s.starting
         /\ \A v \in Page :
              /\ [s EXCEPT !.page = v] \in Session
              /\ [s EXCEPT !.page = v].run = s.run
              /\ [s EXCEPT !.page = v].page = v
              /\ [s EXCEPT !.page = v].runId = s.runId
              /\ [s EXCEPT !.page = v].starting = s.starting
BY DEF Session, Snap, Page

LEMMA BeginsKeep ==
  ASSUME ControllerAssumption, TypeOK, PageInv, UNCHANGED vars, NEW i \in Slots,
         TickBegins(i) \/ ReplayClicked(i) \/ PostArrives(i)
  PROVE  PageGoal
<1>1. session \in Session /\ start \in [pc : {"idle", "posting", "answered"}, answer : RunIds]
  BY DEF PageInv, PageTyped
<1>2. ASSUME TickBegins(i) PROVE PageGoal
  BY <1>1, <1>2, BeginStep DEF TickBegins
<1>3. ASSUME ReplayClicked(i) PROVE PageGoal
  <2>1. /\ session' \in Session /\ session'.run = session.run /\ session'.page = session.page
        /\ session'.runId = session.runId /\ session'.starting = session.starting
    BY <1>1, <1>3, SessionParts DEF ReplayClicked
  <2> QED
    BY <1>1, <1>3, <2>1, BeginStep DEF ReplayClicked
<1>4. ASSUME PostArrives(i) PROVE PageGoal
  <2>1. /\ start.pc = "answered" /\ ticks[i] = Idle /\ Begin(i)
        /\ punctual' = (punctual /\ Alone(i)) /\ view' = view
        /\ start' = [pc |-> "idle", answer |-> NoId]
    BY <1>4 DEF PostArrives
  <2> DEFINE id == IF start.answer = NoId THEN session.runId ELSE start.answer
  <2>2. session' = [session EXCEPT !.starting = FALSE, !.runId = id]
    BY <1>1, <1>4 DEF PostArrives, Session
  <2>3. id \in RunIds /\ (id = session.runId \/ id # NoId)
    BY <1>1, SessionParts
  <2> HIDE DEF id
  <2>4. /\ session' \in Session /\ session'.run = session.run /\ session'.page = session.page
        /\ session'.runId = id
    BY <1>1, <2>2, <2>3 DEF Session
  <2>5. start' \in [pc : {"idle", "posting", "answered"}, answer : RunIds] /\ start'.pc = "idle"
    BY <2>1 DEF RunIds
  <2>6. \/ session'.runId = session.runId
        \/ start.pc = "answered" /\ session'.runId # NoId
    BY <2>1, <2>3, <2>4
  <2> QED
    BY <2>1, <2>4, <2>5, <2>6, BeginStep
<1> QED
  BY <1>2, <1>3, <1>4

(* The capability answer, which ends a tick before a run is named; the run; *)
(* its events.                                                              *)
LEMMA ArrivalsKeep ==
  ASSUME ControllerAssumption, TypeOK, PageInv, UNCHANGED vars, NEW i \in Slots,
         CapabilityArrives(i) \/ RunArrives(i) \/ EventsArrive(i)
  PROVE  PageGoal
<1>1. /\ session \in Session /\ ticks \in [Slots -> Tick] /\ ticks[i] \in Tick
      /\ ticks[i].ok \in BOOLEAN /\ ticks[i].snapshot \in Snap /\ ticks[i].page \in Page
      /\ session.runId # NoId => session.runId \in Runs
  BY DEF PageInv, PageTyped, Tick, Session, RunIds
<1>2. ASSUME CapabilityArrives(i) PROVE PageGoal
  <2>1. /\ session' = [session EXCEPT !.capability = ticks[i].ok] /\ ticks[i] # Idle
        /\ UNCHANGED <<start, punctual>>
    BY <1>2, TickForms DEF CapabilityArrives
  <2>2. /\ session' \in Session /\ session'.run = session.run /\ session'.page = session.page
        /\ session'.runId = session.runId /\ session'.starting = session.starting
    BY <1>1, <2>1, SessionParts
  <2>3. CASE session.runId = NoId
    <3>1. ticks' = [ticks EXCEPT ![i] = Idle] /\ view' = Derived(session')
      BY <1>2, <2>3 DEF CapabilityArrives
    <3>2. session.run.id = NoId
      BY <2>3 DEF PageInv, Asking
    <3> QED
      BY <2>1, <2>2, <2>3, <3>1, <3>2, EndStep
  <2>4. CASE session.runId # NoId
    <3>1. Ask(i, "run") /\ view' = view
      BY <1>2, <2>4 DEF CapabilityArrives
    <3> QED
      BY <1>1, <2>1, <2>2, <2>4, <3>1, AskStep
  <2> QED
    BY <2>3, <2>4
<1>3. ASSUME RunArrives(i) PROVE PageGoal
  <2>1. /\ session' = [session EXCEPT !.run = ticks[i].snapshot] /\ ticks[i] # Idle
        /\ ticks[i].stage = "run" /\ ticks[i].answered
        /\ Ask(i, "events") /\ UNCHANGED <<start, view, punctual>>
    BY <1>3, TickForms DEF RunArrives
  <2>2. /\ session' \in Session /\ session'.run = ticks[i].snapshot /\ session'.page = session.page
        /\ session'.runId = session.runId /\ session'.starting = session.starting
    BY <1>1, <2>1, SessionParts
  <2>3. session.runId # NoId
    BY <2>1 DEF PageInv, Asking
  <2>4. PageHonest => Honest(session'.run)
    BY <2>2 DEF PageHonest, Honest
  <2>5. punctual => session'.run.id = session.runId
    BY <2>1, <2>2 DEF PageInv, Ordered, Named
  <2> QED
    BY <1>1, <2>1, <2>2, <2>3, <2>4, <2>5, AskStep
<1>4. ASSUME EventsArrive(i) PROVE PageGoal
  <2>1. /\ session' = [session EXCEPT !.page = ticks[i].page] /\ ticks[i] # Idle
        /\ ticks[i].stage = "events" /\ ticks[i].answered
        /\ ticks' = [ticks EXCEPT ![i] = Idle] /\ view' = Derived(session')
        /\ UNCHANGED <<start, punctual>>
    BY <1>4, TickForms DEF EventsArrive
  <2>2. /\ session' \in Session /\ session'.run = session.run /\ session'.page = ticks[i].page
        /\ session'.runId = session.runId /\ session'.starting = session.starting
    BY <1>1, <2>1, SessionParts
  <2>3. ticks[i].about \in Runs
    BY <2>1 DEF PageInv, Asking
  <2>4. punctual => /\ session.run.id = ticks[i].about /\ session.runId = ticks[i].about
                    /\ ticks[i].page.mark <= High(ticks[i].about)
                    /\ view.run = ticks[i].about => view.mark <= ticks[i].page.mark
    BY <2>1 DEF PageInv, Ordered, Named, Read
  <2> QED
    BY <2>1, <2>2, <2>3, <2>4, EndStep
<1> QED
  BY <1>2, <1>3, <1>4

(* The click that starts a run, and an answer that admits none.             *)
LEMMA StartsKeep ==
  ASSUME PageInv, UNCHANGED vars, StartClicked \/ PostRefused
  PROVE  PageGoal
<1>0. run' = run /\ events' = events
  BY DEF vars
<1>1. session \in Session /\ start \in [pc : {"idle", "posting", "answered"}, answer : RunIds]
  BY DEF PageInv, PageTyped
<1>2. ASSUME StartClicked PROVE PageGoal
  <2>1. /\ view.canStart /\ start' = [pc |-> "posting", answer |-> NoId]
        /\ session' = [session EXCEPT !.starting = TRUE, !.replaying = FALSE]
        /\ view' = Derived(session') /\ UNCHANGED <<ticks, punctual>>
    BY <1>2 DEF StartClicked
  <2>2. /\ session' \in Session /\ session'.run = session.run /\ session'.page = session.page
        /\ session'.runId = session.runId /\ session'.starting
    BY <1>1, <2>1 DEF Session
  <2>3. /\ view' \in View /\ view'.run = session.run.id /\ view'.mark = session.page.mark
        /\ view'.state = "completed" => session.run.succeeded
        /\ ~view'.canStart
    BY <2>1, <2>2, DerivedParts
  <2>4. start' \in [pc : {"idle", "posting", "answered"}, answer : RunIds]
    BY <2>1 DEF RunIds
  <2>5. PageTyped'
    BY <2>1, <2>2, <2>3, <2>4 DEF PageInv, PageTyped
  <2>6. Asking'
    BY <2>1, <2>2, <2>3 DEF PageInv, Asking
  <2>7. view.mark = session.page.mark /\ view.mark \in Nat
    BY DEF PageInv, PageTyped, Asking, View
  <2>8. punctual => session.run.id = view.run
    BY <2>1 DEF PageInv, Ordered, StartShown
  <2>9. Ordered'
    <3> SUFFICES ASSUME punctual
                 PROVE  (Singly /\ ShownHigh /\ StartShown /\ \A j \in Slots : Named(j) /\ Read(j))'
      BY <2>1 DEF Ordered
    <3>1. Singly /\ ShownHigh /\ \A j \in Slots : Named(j) /\ Read(j)
      BY DEF PageInv, Ordered
    <3>2. Singly' /\ StartShown'
      BY <2>1, <2>3, <3>1 DEF Singly, StartShown
    <3>3. ShownHigh'
      BY <1>0, <2>3, <2>7, <2>8, <3>1 DEF ShownHigh, High
    <3>4. (\A j \in Slots : Named(j) /\ Read(j))'
      BY <1>0, <2>1, <2>2, <2>3, <2>7, <2>8, <3>1 DEF Named, Read, High
    <3> QED
      BY <3>2, <3>3, <3>4
  <2>10. PageHonest => PageHonest'
    BY <1>0, <2>1, <2>2, <2>3 DEF PageHonest, Honest, Succeeded
  <2>11. Advances
    BY <2>3, <2>7 DEF Advances
  <2> QED
    BY <2>5, <2>6, <2>9, <2>10, <2>11 DEF PageGoal, PageInv
<1>3. ASSUME PostRefused PROVE PageGoal
  <2>1. /\ start.pc # "idle" /\ start' = [pc |-> "answered", answer |-> NoId]
        /\ UNCHANGED <<session, ticks, view, punctual>>
    BY <1>3 DEF PostRefused
  <2>2. start' \in [pc : {"idle", "posting", "answered"}, answer : RunIds]
    BY <2>1 DEF RunIds
  <2>3. PageTyped' /\ Asking'
    BY <2>1, <2>2 DEF PageInv, PageTyped, Asking
  <2>4. Ordered'
    BY <1>0, <2>1 DEF PageInv, Ordered, Singly, ShownHigh, StartShown, Named, Read, High
  <2>5. PageHonest => PageHonest'
    BY <1>0, <2>1 DEF PageHonest, Honest, Succeeded
  <2> QED
    BY <2>1, <2>3, <2>4, <2>5, SameView DEF PageGoal, PageInv
<1> QED
  BY <1>2, <1>3

----------------------------------------------------------------------------
(* The steps of the controller.                                             *)

(* The ledger's marks do not fall.                                          *)
LEMMA MarksGrow ==
  ASSUME ControllerAssumption, TypeOK, TypeOK', [Next]_vars
  PROVE  \A r \in Runs : High(r) \in Nat /\ High(r)' \in Nat /\ High(r) <= High(r)'
<1> SUFFICES ASSUME NEW r \in Runs PROVE High(r) \in Nat /\ High(r)' \in Nat /\ High(r) <= High(r)'
  OBVIOUS
<1>1. events[r] \in Logs /\ events'[r] \in Logs
  BY DEF TypeOK, Logs
<1>2. High(r) \in Nat /\ High(r)' \in Nat
  BY <1>1, StoredHasMax DEF High
<1>3. \A s \in Stored(events[r]) : events'[r][s] = events[r][s]
  BY StoredStays
<1>4. High(r) <= High(r)'
  BY <1>1, <1>3, HighGrows DEF High
<1> QED
  BY <1>2, <1>4

(* The controller moves; of the page at most the request that starts a run. *)
LEMMA ServerKeeps ==
  ASSUME ControllerAssumption, TypeOK, TypeOK', PageInv, [Next]_vars,
         UNCHANGED <<session, ticks, view, punctual>>,
         start' \in [pc : {"idle", "posting", "answered"}, answer : RunIds],
         start'.pc # "idle" => start.pc # "idle"
  PROVE  PageInv' /\ Advances
<1>1. PageTyped' /\ Asking'
  BY DEF PageInv, PageTyped, Asking
<1>2. Ordered'
  <2> SUFFICES ASSUME punctual
               PROVE  (Singly /\ ShownHigh /\ StartShown /\ \A j \in Slots : Named(j) /\ Read(j))'
    BY DEF Ordered
  <2>1. Singly /\ ShownHigh /\ StartShown /\ \A j \in Slots : Named(j) /\ Read(j)
    BY DEF PageInv, Ordered
  <2>2. Singly' /\ StartShown'
    BY <2>1 DEF Singly, StartShown
  <2>3. ShownHigh'
    <3> SUFFICES ASSUME view.run # NoId PROVE view.run \in Runs /\ view.mark <= High(view.run)'
      BY DEF ShownHigh
    <3>1. view.run \in Runs /\ view.mark <= High(view.run)
      BY <2>1 DEF ShownHigh
    <3>2. view.mark \in Nat
      BY DEF PageInv, PageTyped, View
    <3>3. High(view.run) \in Nat /\ High(view.run)' \in Nat /\ High(view.run) <= High(view.run)'
      BY <3>1, MarksGrow
    <3> QED
      BY <3>1, <3>2, <3>3
  <2>4. ASSUME NEW j \in Slots PROVE (Named(j) /\ Read(j))'
    <3>1. Named(j)'
      BY <2>1 DEF Named
    <3>2. ASSUME ticks[j].stage = "events", ticks[j].answered
          PROVE  ticks[j].page.mark <= High(ticks[j].about)'
      <4>1. ticks[j].about \in Runs /\ ticks[j].page.mark <= High(ticks[j].about)
        BY <2>1, <3>2 DEF PageInv, Asking, Read
      <4>2. ticks[j].page.mark \in Nat
        BY DEF PageInv, PageTyped, Tick, Page
      <4>3. /\ High(ticks[j].about) \in Nat /\ High(ticks[j].about)' \in Nat
            /\ High(ticks[j].about) <= High(ticks[j].about)'
        BY <4>1, MarksGrow
      <4> QED
        BY <4>1, <4>2, <4>3
    <3>3. Read(j)'
      BY <2>1, <3>2 DEF Read
    <3> QED
      BY <3>1, <3>3
  <2> QED
    BY <2>1, <2>2, <2>3, <2>4
<1> QED
  BY <1>1, <1>2, SameView DEF PageInv

(* A success is not taken back.                                             *)
LEMMA SuccessKept ==
  ASSUME ControllerAssumption, Inv, Evidence, [Next]_vars
  PROVE  \A r \in RunIds : Succeeded(r) => Succeeded(r)'
<1> SUFFICES ASSUME NEW r \in Runs, run[r].terminalResult = "succeeded"
             PROVE  run'[r].terminalResult = "succeeded"
  BY DEF Succeeded
<1>1. run[r].ended \in BOOLEAN
  BY DEF Inv, TypeOK, Record
<1>2. run[r].ended
  BY <1>1 DEF Evidence, Evident, Shown
<1> QED
  BY <1>2, EndedKept

LEMMA ServerKeepsHonest ==
  ASSUME ControllerAssumption, Inv, Evidence, PageTyped, PageHonest, [Next]_vars,
         UNCHANGED <<session, ticks, view>>
  PROVE  PageHonest'
<1>1. /\ session.run.id \in RunIds /\ view.run \in RunIds
      /\ \A i \in Slots : ticks[i].snapshot.id \in RunIds
  BY DEF PageTyped, Session, Tick, Snap, View
<1>2. Honest(session.run)'
  BY <1>1, SuccessKept DEF PageHonest, Honest
<1>3. ASSUME NEW i \in Slots PROVE Honest(ticks[i].snapshot)'
  BY <1>1, SuccessKept DEF PageHonest, Honest
<1>4. (view.state = "completed" => Succeeded(view.run))'
  BY <1>1, SuccessKept DEF PageHonest
<1> QED
  BY <1>2, <1>3, <1>4 DEF PageHonest

----------------------------------------------------------------------------
(* Every step.                                                              *)

LEMMA PageNextIsNext == [PageNext]_allVars => [Next]_vars
BY DEF PageNext, PostServed, Next, ServerStep, RunStep, allVars, vars

(* A step is the page's alone, or moves the controller and of the page at   *)
(* most the request that starts a run.                                      *)
LEMMA PageSteps ==
  ASSUME PageInv, [PageNext]_allVars
  PROVE  \/ PageStep /\ UNCHANGED vars
         \/ /\ UNCHANGED <<session, ticks, view, punctual>>
            /\ start' \in [pc : {"idle", "posting", "answered"}, answer : RunIds]
            /\ start'.pc # "idle" => start.pc # "idle"
<1>1. start \in [pc : {"idle", "posting", "answered"}, answer : RunIds]
  BY DEF PageInv, PageTyped
<1>2. CASE UNCHANGED pageVars \/ UNCHANGED allVars
  BY <1>1, <1>2 DEF pageVars, allVars
<1>3. ASSUME NEW r \in Runs, PostServed(r)
      PROVE  /\ UNCHANGED <<session, ticks, view, punctual>>
             /\ start' \in [pc : {"idle", "posting", "answered"}, answer : RunIds]
             /\ start.pc # "idle"
  BY <1>3 DEF PostServed, RunIds
<1>4. CASE PageStep /\ UNCHANGED vars
  BY <1>4
<1> QED
  BY <1>2, <1>3, <1>4 DEF PageNext

LEMMA PageStepKeeps ==
  ASSUME ControllerAssumption, TypeOK, PageInv, PageStep, UNCHANGED vars
  PROVE  PageGoal
BY AnswersKeep, BeginsKeep, ArrivalsKeep, StartsKeep DEF PageStep

LEMMA PageInvStep ==
  ASSUME ControllerAssumption, TypeOK, EndingHasVerdict, PageInv, [PageNext]_allVars
  PROVE  TypeOK' /\ EndingHasVerdict' /\ PageInv' /\ Advances
<1>1. [Next]_vars
  BY PageNextIsNext
<1>2. TypeOK' /\ EndingHasVerdict'
  BY <1>1, TypeStep, VerdictStep
<1>3. CASE PageStep /\ UNCHANGED vars
  BY <1>2, <1>3, PageStepKeeps DEF PageGoal
<1>4. CASE ~(PageStep /\ UNCHANGED vars)
  BY <1>1, <1>2, <1>4, PageSteps, ServerKeeps
<1> QED
  BY <1>3, <1>4

LEMMA PageHonestStep ==
  ASSUME ControllerAssumption, Inv, Evidence, PageInv, PageHonest, [PageNext]_allVars
  PROVE  PageHonest'
<1>1. TypeOK /\ PageTyped
  BY DEF Inv, PageInv
<1>2. CASE PageStep /\ UNCHANGED vars
  BY <1>1, <1>2, PageStepKeeps DEF PageGoal
<1>3. CASE ~(PageStep /\ UNCHANGED vars)
  BY <1>1, <1>3, PageSteps, PageNextIsNext, ServerKeepsHonest
<1> QED
  BY <1>2, <1>3

LEMMA PageInitially == PageInit => PageInv /\ PageHonest
<1> SUFFICES ASSUME PageInit PROVE PageInv /\ PageHonest
  OBVIOUS
<1>1. /\ session = [capability |-> FALSE, run |-> NoSnapshot, page |-> NoPage, runId |-> NoId,
                    starting |-> FALSE, replaying |-> FALSE]
      /\ ticks = [i \in Slots |-> Idle] /\ start = [pc |-> "idle", answer |-> NoId]
      /\ view = Derived(session) /\ punctual = TRUE
  BY DEF PageInit
<1>2. session \in Session
  BY <1>1, EmptyAnswers DEF Session, RunIds
<1>3. /\ view \in View /\ view.run = session.run.id /\ view.mark = session.page.mark
      /\ view.state = "completed" => session.run.succeeded
  BY <1>1, <1>2, DerivedParts
<1>4. /\ session.run = NoSnapshot /\ session.runId = NoId /\ ~session.run.succeeded
      /\ session.run.id = NoId
  BY <1>1 DEF NoSnapshot
<1>5. \A i \in Slots : ticks[i] = Idle
  BY <1>1
<1>6. PageTyped
  BY <1>1, <1>2, <1>3, EmptyAnswers DEF PageTyped, RunIds
<1>7. Asking
  BY <1>1, <1>3, <1>4, <1>5, TickForms DEF Asking
<1>8. Ordered
  BY <1>3, <1>4, <1>5, TickForms DEF Ordered, Singly, ShownHigh, StartShown, Named, Read
<1>9. PageHonest
  BY <1>3, <1>4, <1>5, TickForms DEF PageHonest, Honest
<1> QED
  BY <1>6, <1>7, <1>8, <1>9 DEF PageInv

----------------------------------------------------------------------------
(* Results.                                                                 *)

(* "The page must never be able to claim something the run did not do":     *)
(* whatever answers are lost, late or out of order, and whatever crashes, a *)
(* run shown as completed is one the ledger records as succeeded.           *)
THEOREM SuccessShownIsTrue ==
  ControllerAssumption /\ SingleWriter => (PageSpec => []SuccessShownIsRecorded)
<1> SUFFICES ASSUME ControllerAssumption, SingleWriter
             PROVE  PageSpec => []SuccessShownIsRecorded
  OBVIOUS
<1> DEFINE Everything == Inv /\ EndingHasVerdict /\ Evidence /\ PageInv /\ PageHonest
<1>1. Init /\ PageInit => Everything
  BY InvInit, EvidenceInit, PageInitially
<1>2. Everything /\ [PageNext]_allVars => Everything'
  <2> SUFFICES ASSUME Everything, [PageNext]_allVars PROVE Everything'
    OBVIOUS
  <2>1. [Next]_vars /\ TypeOK
    BY PageNextIsNext DEF Inv
  <2>2. Inv' /\ EndingHasVerdict' /\ Evidence'
    BY <2>1, InvStep, EvidenceStep
  <2> QED
    BY <2>1, <2>2, PageInvStep, PageHonestStep
<1>3. Everything => SuccessShownIsRecorded
  BY DEF PageHonest, Succeeded, SuccessShownIsRecorded
<1> HIDE DEF Everything
<1> QED
  BY <1>1, <1>2, <1>3, PTL DEF PageSpec

(* As long as no tick overlaps another and no request is lost, the cursor   *)
(* of the run shown does not go back; no writer is ruled out.               *)
THEOREM CursorAdvances == ControllerAssumption => (PageSpec => ShownCursorAdvances)
<1> SUFFICES ASSUME ControllerAssumption PROVE PageSpec => ShownCursorAdvances
  OBVIOUS
<1> DEFINE Everything == TypeOK /\ EndingHasVerdict /\ PageInv
<1>1. Init /\ PageInit => Everything
  BY InvInit, PageInitially DEF Inv
<1>2. Everything /\ [PageNext]_allVars => Everything' /\ Advances
  BY PageInvStep
<1> HIDE DEF Everything
<1> QED
  BY <1>1, <1>2, PTL DEF PageSpec, ShownCursorAdvances, Advances
=============================================================================
