---------------------------- MODULE GovernedRead ----------------------------
(***************************************************************************)
(* The governed tool call of the Python worker: one allowlisted read, the  *)
(* Controlled Fault, the incident, the policy's decision and the bounded   *)
(* retry, all inside one call.  Two programs run it:                       *)
(*                                                                         *)
(*   the MCP server (mcp_server.py), which asks the local API for the      *)
(*   active run, keeps the call's events to itself and posts them at the   *)
(*   end; an agent may call it again, and two agents may each have one;    *)
(*                                                                         *)
(*   the pure worker (session.py), which reads once for the run it was     *)
(*   started for and prints each event as it happens.                      *)
(*                                                                         *)
(* The API is its ingest route on one admitted run (see RunController).    *)
(***************************************************************************)
EXTENDS Naturals, Sequences, FiniteSets, FiniteSetsExt

(* A program that reads is a record:                                        *)
(*   callers        the processes that may read for the run                 *)
(*   buffered       TRUE: MCP servers; FALSE: the pure worker               *)
(*   persistent     whether FLEETSCOPE_ATTEMPT_LEDGER names a file          *)
(*   faultAttempts, maxRetries    the scenario's                            *)
(*   workerEvents   events a worker the API started for this run stores     *)
(*                  beside the readers; the pure worker is that worker      *)
(*   maxCalls       bound: calls made                                       *)
CONSTANTS
  Programs,       (* the programs there are                                 *)
  MaxCrashes      (* bound: processes killed                                *)

ASSUME ReadAssumption ==
  /\ MaxCrashes \in Nat
  /\ \A c \in Programs :
       /\ c.callers # {} /\ IsFiniteSet(c.callers)
       /\ {c.buffered, c.persistent} \subseteq BOOLEAN
       /\ {c.faultAttempts, c.maxRetries, c.workerEvents, c.maxCalls} \subseteq Nat
       /\ ~c.buffered => c.maxCalls <= 1 /\ c.workerEvents = 0

VARIABLE program   (* the one that reads for this run                       *)

AllCallers    == UNION {c.callers : c \in Programs}
Callers       == program.callers
Buffered      == program.buffered
Persistent    == program.persistent
FaultAttempts == program.faultAttempts
MaxRetries    == program.maxRetries
WorkerEvents  == program.workerEvents
MaxCalls      == program.maxCalls

(* Records carry a kind, a truth label, and what they say: a status, an     *)
(* outcome or a terminal result.  attempt is a tool call's own field.       *)
Truths == {"live", "recorded", "controlled_fault"}
Ev(kind, truth, says) == [kind |-> kind, truth |-> truth, says |-> says, attempt |-> 0]
CallEv(truth, n) == [kind |-> "tool_call", truth |-> truth, says |-> "", attempt |-> n]
Event ==
  [kind : {"run_start", "agent_start", "delegation", "tool_call", "tool_result",
           "incident", "intervention", "agent_end", "run_end", "other"},
   truth : Truths,
   says : {"", "ok", "failed", "refused", "succeeded", "retry_once",
           "refuse_not_retryable", "refuse_budget_exhausted"},
   attempt : Nat]

(* What a program claims of its own observations.                           *)
Claimed == IF Buffered THEN "live" ELSE "recorded"

VARIABLES
  pc,        (* pc[p]: the next step of p's call, or "idle"                 *)
  mark,      (* mark[p]: the sequence p's stream continues from             *)
  batch,     (* batch[p]: the events of p's call                            *)
  retries,   (* retries[p]: retries_used                                    *)
  number,    (* number[p]: the attempt p reserves                           *)
  reserved,  (* reserved[p]: attempts in the store p's call reads           *)
  failure,   (* failure[p]: the failed read being handled                   *)
  answer,    (* answer[p]: what p's caller was last told                    *)
  ledger,    (* the events stored for the run, by sequence                  *)
  ended,     (* the run's recorded outcome, "open" while it is active       *)
  told,      (* events the API was handed and answered for                  *)
  gets,      (* upstream requests made                                      *)
  faults,    (* controlled faults injected                                  *)
  working,   (* events the API's own worker has stored so far               *)
  calls, crashes

call == <<pc, mark, batch, retries, number, failure>>
api  == <<ledger, ended, told>>
work == <<gets, faults>>
vars == <<program, call, reserved, answer, api, work, working, calls, crashes>>

(* MemoryAttemptStore is built anew by each call; a file is shared.         *)
Stores == IF Persistent THEN {"file"} ELSE Callers
StoreOf(p) == IF Persistent THEN "file" ELSE p

NoFailure == [truth |-> "live", retryable |-> FALSE]

Steps == {"idle", "find", "mark", "call", "reserve", "append", "fetch", "decide", "publish"}

Init ==
  /\ program \in Programs
  /\ pc = [p \in AllCallers |-> "idle"]
  /\ mark = [p \in AllCallers |-> 0]
  /\ batch = [p \in AllCallers |-> <<>>]
  /\ retries = [p \in AllCallers |-> 0]
  /\ number = [p \in AllCallers |-> 0]
  /\ reserved = [s \in Stores |-> 0]
  /\ failure = [p \in AllCallers |-> NoFailure]
  /\ answer = [p \in AllCallers |-> "none"]
  /\ ledger = <<>>
  /\ ended = "open"
  /\ told = {}
  /\ gets = 0 /\ faults = 0 /\ working = 0 /\ calls = 0 /\ crashes = 0

highWaterMark == IF DOMAIN ledger = {} THEN 0 ELSE Max(DOMAIN ledger)

----------------------------------------------------------------------------
(* POST /runs/:runId/events, and the executor's sink: what carries a known  *)
(* sequence is ignored, and an accepted run_end decides the run.            *)

Ingest(items) ==
  LET new  == DOMAIN items \ DOMAIN ledger
      ends == {i \in new : items[i].kind = "run_end"}
  IN /\ ledger' = [i \in DOMAIN ledger \cup new |-> IF i \in new THEN items[i] ELSE ledger[i]]
     /\ ended' = IF ends = {} THEN ended ELSE items[Max(ends)].says
     /\ told' = told \cup {[at |-> i, event |-> items[i]] : i \in DOMAIN items}

Numbered(from, events) == [i \in (from + 1)..(from + Len(events)) |-> events[i - from]]

(* EventStream.emit: the pure worker's sink prints each event at once.      *)
Emit(p, events) ==
  /\ batch' = [batch EXCEPT ![p] = @ \o events]
  /\ IF Buffered THEN UNCHANGED api ELSE Ingest(Numbered(Len(batch[p]), events))

Prelude ==
  <<Ev("run_start", Claimed, ""), Ev("agent_start", Claimed, ""),
    Ev("delegation", Claimed, ""), Ev("agent_start", Claimed, "")>>

Close(result) ==
  IF Buffered THEN <<Ev("run_end", Claimed, result)>>
  ELSE <<Ev("agent_end", Claimed, ""), Ev("agent_end", Claimed, ""), Ev("run_end", Claimed, result)>>

goto(p, step) == pc' = [pc EXCEPT ![p] = step]
tell(p, text) == answer' = [answer EXCEPT ![p] = text]

(* A call that ends without an answer: a worker that dies with its run open *)
(* is closed as failed by the executor.                                     *)
Abandon(p) ==
  /\ goto(p, "idle") /\ tell(p, "error")
  /\ batch' = [batch EXCEPT ![p] = <<>>]
  /\ ended' = IF ~Buffered /\ ended = "open" THEN "failed" ELSE ended
  /\ UNCHANGED <<ledger, told>>

----------------------------------------------------------------------------
(* handle_call: the run and its mark.                                       *)

BeginCall(p) ==
  /\ pc[p] = "idle" /\ calls < MaxCalls
  /\ calls' = calls + 1
  /\ goto(p, IF Buffered THEN "find" ELSE "call")
  /\ retries' = [retries EXCEPT ![p] = 0]
  /\ reserved' = IF Persistent THEN reserved ELSE [reserved EXCEPT ![p] = 0]
  /\ batch' = [batch EXCEPT ![p] = IF Buffered THEN <<>> ELSE Prelude]
  /\ IF Buffered THEN UNCHANGED api ELSE Ingest(Numbered(0, Prelude))
  /\ UNCHANGED <<mark, number, failure, answer, work, working, crashes>>

(* GET /runs/active.  No run, or no API, is a refusal.                      *)
FindRun(p) ==
  /\ pc[p] = "find"
  /\ \/ ended = "open" /\ goto(p, "mark") /\ UNCHANGED answer
     \/ goto(p, "idle") /\ tell(p, "refused")
  /\ UNCHANGED <<mark, batch, retries, number, failure, reserved, api, work, working, calls, crashes>>

(* GET /runs/:runId/events.  An API that does not answer leaves the mark at *)
(* 0.  A target the scenario does not name is refused on the record; the    *)
(* tool's own allowlist holds that one target and cannot refuse again.      *)
ReadMark(p) ==
  /\ pc[p] = "mark"
  /\ \E high \in {0, highWaterMark}, allowed \in BOOLEAN :
       LET start   == IF high = 0 THEN <<Ev("run_start", "live", "")>> ELSE <<>>
           refusal == <<Ev("tool_result", "live", "refused")>> \o Close("failed")
       IN /\ mark' = [mark EXCEPT ![p] = high]
          /\ Emit(p, IF allowed THEN start ELSE start \o refusal)
          /\ goto(p, IF allowed THEN "call" ELSE "publish")
  /\ UNCHANGED <<retries, number, failure, reserved, answer, work, working, calls, crashes>>

----------------------------------------------------------------------------
(* governed_read and run_dependency_onboarding: one turn of the loop.       *)

IssueCall(p) ==
  /\ pc[p] = "call"
  /\ Emit(p, <<CallEv(Claimed, reserved[StoreOf(p)] + 1)>>)
  /\ goto(p, "reserve")
  /\ UNCHANGED <<mark, retries, number, failure, reserved, answer, work, working, calls, crashes>>

(* AttemptStore.reserve counts what is there, then adds one.                *)
CountAttempts(p) ==
  /\ pc[p] = "reserve"
  /\ number' = [number EXCEPT ![p] = reserved[StoreOf(p)] + 1]
  /\ goto(p, "append")
  /\ UNCHANGED <<mark, batch, retries, failure, reserved, answer, api, work, working, calls, crashes>>

AppendAttempt(p) ==
  /\ pc[p] = "append"
  /\ reserved' = [reserved EXCEPT ![StoreOf(p)] = @ + 1]
  /\ goto(p, "fetch")
  /\ UNCHANGED <<mark, batch, retries, number, failure, answer, api, work, working, calls, crashes>>

Fails(p, f) ==
  /\ failure' = [failure EXCEPT ![p] = f]
  /\ Emit(p, <<Ev("tool_result", f.truth, "failed"), Ev("incident", f.truth, "")>>)
  /\ goto(p, "decide")
  /\ UNCHANGED answer

(* Defect: attempts are counted from 0 where the fault counts from 1.       *)
faultAppliesFromZero(p) == number[p] - 1 <= FaultAttempts

(* ControlledFault.applies_to.                                              *)
faultApplies(p) == number[p] <= FaultAttempts

InjectFault(p) ==
  /\ pc[p] = "fetch" /\ faultApplies(p)
  /\ faults' = faults + 1
  /\ Fails(p, [truth |-> "controlled_fault", retryable |-> TRUE])
  /\ UNCHANGED <<mark, retries, number, reserved, gets, working, calls, crashes>>

Reads(p) ==
  /\ Emit(p, <<Ev("tool_result", Claimed, "ok")>> \o Close("succeeded"))
  /\ goto(p, "publish")
  /\ UNCHANGED <<failure, answer>>

(* The upstream read: facts; an HTTP status or a transport error, which are *)
(* ToolFailures; or any other exception, which nothing on the way catches.  *)
Fetch(p) ==
  /\ pc[p] = "fetch" /\ ~faultApplies(p)
  /\ gets' = gets + 1
  /\ \/ Reads(p)
     \/ \E again \in BOOLEAN : Fails(p, [truth |-> "live", retryable |-> again])
     \/ Abandon(p) /\ UNCHANGED failure
  /\ UNCHANGED <<mark, retries, number, reserved, faults, working, calls, crashes>>

(* RecoveryPolicy.decide; the tool's side-effect class is idempotent_read.  *)
decide(f, used) ==
  IF ~f.retryable THEN "refuse_not_retryable"
  ELSE IF used >= MaxRetries THEN "refuse_budget_exhausted" ELSE "retry_once"

(* Defect: the retry runs first and its intervention is written down after. *)
DecideAfterwards(p) ==
  /\ pc[p] = "decide"
  /\ LET outcome == decide(failure[p], retries[p])
     IN IF outcome = "retry_once"
        THEN /\ retries' = [retries EXCEPT ![p] = @ + 1]
             /\ goto(p, "call") /\ UNCHANGED <<batch, api>>
        ELSE /\ Emit(p, <<Ev("intervention", Claimed, outcome)>> \o Close("failed"))
             /\ goto(p, "publish") /\ UNCHANGED retries
  /\ UNCHANGED <<mark, number, failure, reserved, answer, work, working, calls, crashes>>

Decide(p) ==
  /\ pc[p] = "decide"
  /\ LET outcome == decide(failure[p], retries[p])
         asked   == <<Ev("intervention", Claimed, outcome)>>
     IN IF outcome = "retry_once"
        THEN /\ Emit(p, asked)
             /\ retries' = [retries EXCEPT ![p] = @ + 1]
             /\ goto(p, "call")
        ELSE /\ Emit(p, asked \o Close("failed"))
             /\ goto(p, "publish") /\ UNCHANGED retries
  /\ UNCHANGED <<mark, number, failure, reserved, answer, work, working, calls, crashes>>

Text(p) ==
  LET says == {batch[p][i].says : i \in DOMAIN batch[p]}
  IN IF "ok" \in says THEN "facts" ELSE IF "refused" \in says THEN "refused" ELSE "failed"

(* Defect: a finished run is not refused.                                   *)
PublishAnyway(p) ==
  /\ pc[p] = "publish"
  /\ IF Buffered THEN Ingest(Numbered(mark[p], batch[p])) ELSE UNCHANGED api
  /\ tell(p, Text(p)) /\ goto(p, "idle")
  /\ UNCHANGED <<mark, batch, retries, number, failure, reserved, work, working, calls, crashes>>

(* The call's events reach the API, which takes them while the run is open  *)
(* and answers 409 after; or they do not.  The agent is answered anyway.    *)
Publish(p) ==
  /\ pc[p] = "publish"
  /\ \/ Buffered /\ ended = "open" /\ Ingest(Numbered(mark[p], batch[p]))
     \/ UNCHANGED api
  /\ tell(p, Text(p)) /\ goto(p, "idle")
  /\ UNCHANGED <<mark, batch, retries, number, failure, reserved, work, working, calls, crashes>>

----------------------------------------------------------------------------
(* The API's own worker for the same run, as its executor stores it: dense  *)
(* numbers from 1, an event at a time, and then its end.                    *)
WorkerStores ==
  /\ working < WorkerEvents
  /\ working' = working + 1
  /\ Ingest(Numbered(working, <<IF working' = WorkerEvents THEN Ev("run_end", "live", "failed")
                                ELSE Ev("other", "live", "")>>))
  /\ UNCHANGED <<call, reserved, answer, work, calls, crashes>>

Crash(p) ==
  /\ pc[p] # "idle" /\ crashes < MaxCrashes
  /\ crashes' = crashes + 1
  /\ Abandon(p)
  /\ UNCHANGED <<mark, retries, number, failure, reserved, work, working, calls>>

Step(p) ==
  /\ \/ FindRun(p) \/ ReadMark(p) \/ IssueCall(p) \/ CountAttempts(p) \/ AppendAttempt(p)
     \/ InjectFault(p) \/ Fetch(p) \/ Decide(p) \/ Publish(p)
  /\ UNCHANGED program

Next ==
  /\ \/ \E p \in Callers : BeginCall(p) \/ Step(p) \/ Crash(p)
     \/ WorkerStores
  /\ UNCHANGED program

Spec == Init /\ [][Next]_vars

----------------------------------------------------------------------------
(* Properties.                                                              *)

(* "Fails the first attempts, then stops interfering": the fault is per     *)
(* logical operation, whatever calls, crashes and redeliveries it takes.    *)
(* reserve counts before it adds, so each further process that reads at the *)
(* same time may meet the fault once more, and no oftener.                  *)
FaultsBounded == Persistent => faults <= FaultAttempts + Cardinality(Callers) - 1

(* What the API answered for is in its ledger, under the number it was      *)
(* given.                                                                   *)
TakenIsStored == \A t \in told : t.at \in DOMAIN ledger /\ ledger[t.at] = t.event

(* The evidence of a run no worker writes to is one reading, whole: its     *)
(* start at 1, no gap, nothing taken and not kept, and once the run has     *)
(* ended its end last and its verdict the run's.                            *)
EvidenceIsWhole ==
  /\ working = 0 => TakenIsStored
  /\ working = 0 /\ ended # "open" /\ ledger # <<>> =>
    /\ DOMAIN ledger = 1..highWaterMark
    /\ \A i \in DOMAIN ledger : (ledger[i].kind = "run_start") <=> (i = 1)
    /\ \A i \in DOMAIN ledger : ledger[i].kind = "run_end" => i = highWaterMark /\ ledger[i].says = ended
    /\ ended = "succeeded" => \E i \in DOMAIN ledger :
         ledger[i].kind = "tool_result" /\ ledger[i].says = "ok"

HasIntervention ==
  \E i \in DOMAIN ledger : ledger[i].kind = "intervention" /\ ledger[i].says = "retry_once"

(* "The intervention record is emitted, then the retry runs": whatever the  *)
(* pure worker dies of, a second attempt was announced before it was made.  *)
InterventionFirst ==
  ~Buffered => \A p \in Callers : pc[p] = "fetch" /\ retries[p] > 0 => HasIntervention
=============================================================================
