----------------------------- MODULE AdkSession -----------------------------
(***************************************************************************)
(* One run of the scenario on the Agent Development Kit: AdkRuntime of the *)
(* Python worker.  ADK's runner is external: it asks the model on behalf   *)
(* of one agent at a time, performs the calls the model answers with, and  *)
(* yields an event for each step.  The worker is asked before every model  *)
(* call, absorbs every event, and closes the run.                          *)
(***************************************************************************)
EXTENDS Naturals, Sequences, FiniteSets

CONSTANTS
  MaxModelCalls,  (* scenario.max_model_calls                               *)
  FaultAttempts   (* scenario.fault_attempts                                *)

ASSUME AdkAssumption == MaxModelCalls \in Nat /\ FaultAttempts \in Nat

Agents == {"root", "review"}

VARIABLES
  runner,     (* ADK's next step, or "closed"                               *)
  speaker,    (* the agent ADK runs                                         *)
  used,       (* ModelBudget.used                                           *)
  issued,     (* model calls ADK made                                       *)
  attempts,   (* attempts the tool reserved                                 *)
  response,   (* the tool's answer ADK has not yielded yet, or "none"       *)
  facts,      (* whether the tool ever returned facts                       *)
  started, delegated, errored, read_succeeded,   (* _Translation            *)
  stream,     (* the run's events                                           *)
  result      (* the run's terminal result, or "none"                       *)

translation == <<started, delegated, errored, read_succeeded>>
vars == <<runner, speaker, used, issued, attempts, response, facts, translation, stream, result>>

Ev(agent, kind, truth) == [agent |-> agent, kind |-> kind, truth |-> truth]
Kinds == {"run_start", "agent_start", "delegation", "model_call", "tool_call",
          "tool_result", "incident", "agent_end", "run_end"}
Results == {"succeeded", "failed", "timed_out", "incomplete"}

TypeOK ==
  /\ runner \in {"model", "answer", "transfer", "tool", "tool answered", "exhausted", "closed"}
  /\ speaker \in Agents
  /\ used \in 0..MaxModelCalls /\ issued \in 0..MaxModelCalls /\ attempts \in 0..MaxModelCalls
  /\ response \in {"fault", "facts", "failed", "no status", "none"}
  /\ facts \in BOOLEAN
  /\ started \subseteq Agents
  /\ {delegated, errored, read_succeeded} \subseteq BOOLEAN
  /\ stream \in Seq([agent : Agents, kind : Kinds, truth : {"live", "controlled_fault", "unknown"}])
  /\ result \in Results \cup {"none"}

Init ==
  /\ runner = "model" /\ speaker = "root"
  /\ used = 0 /\ issued = 0 /\ attempts = 0 /\ response = "none" /\ facts = FALSE
  /\ started = {} /\ delegated = FALSE /\ errored = FALSE /\ read_succeeded = FALSE
  /\ stream = <<Ev("root", "run_start", "live")>>
  /\ result = "none"

----------------------------------------------------------------------------
(* _Translation.                                                            *)

(* absorb: who speaks first is started; the delegated agent's first event   *)
(* is the delegation; then come the event's own records.                    *)
Absorb(author, records) ==
  LET start == IF author \in started THEN <<>> ELSE <<Ev(author, "agent_start", "live")>>
      first == author = "review" /\ ~delegated
  IN /\ started' = started \cup {author}
     /\ delegated' = (delegated \/ first)
     /\ stream' = stream \o start
                    \o (IF first THEN <<Ev("root", "delegation", "live")>> ELSE <<>>)
                    \o records

(* A call part is recorded; a text part is not.                             *)
AbsorbCall(author) ==
  /\ Absorb(author, <<Ev(author, "tool_call", "live")>>)
  /\ UNCHANGED <<errored, read_succeeded>>

truthOf(answer) == IF answer = "fault" THEN "controlled_fault" ELSE "live"

(* A response part, of any function: without a status it counts as a read.  *)
AbsorbResponse(author, answer) ==
  /\ Absorb(author, <<Ev(author, "tool_result", truthOf(answer))>>)
  /\ read_succeeded' = (read_succeeded \/ answer \in {"facts", "no status"})
  /\ UNCHANGED errored

AbsorbError(author) ==
  /\ Absorb(author, <<Ev(author, "incident", "live")>>)
  /\ errored' = TRUE
  /\ UNCHANGED read_succeeded

----------------------------------------------------------------------------
(* Closing the run.                                                         *)

(* _close.                                                                  *)
Close(outcome) ==
  /\ result' = outcome
  /\ runner' = "closed"
  /\ stream' = Append(stream, Ev("root", "run_end",
                       IF outcome \in {"succeeded", "failed"} THEN "live" ELSE "unknown"))
  /\ UNCHANGED <<speaker, used, issued, attempts, response, facts, translation>>

(* Defect: an error the runtime reported does not outweigh the evidence.    *)
verdictUnworried ==
  IF ~delegated \/ ~read_succeeded THEN "incomplete" ELSE "succeeded"

(* What a run that finished by itself is worth.                             *)
verdict ==
  IF ~delegated THEN "incomplete"
  ELSE IF errored THEN "failed"
  ELSE IF read_succeeded THEN "succeeded" ELSE "incomplete"

Finish == runner = "exhausted" /\ Close(verdict)

(* asyncio.wait_for cancels the drain wherever it waits.                    *)
TimesOut == runner # "closed" /\ Close("timed_out")

(* ADK raises anything else.                                                *)
Raises == runner \notin {"closed", "exhausted"} /\ Close("failed")

----------------------------------------------------------------------------
(* ADK's steps and the worker's part in them.                               *)

(* Defect: a call that fails is not recorded.                               *)
AskModelQuietly ==
  /\ runner = "model" /\ used < MaxModelCalls
  /\ used' = used + 1 /\ issued' = issued + 1
  /\ \/ stream' = Append(stream, Ev(speaker, "model_call", "live")) /\ runner' = "answer"
     \/ UNCHANGED stream /\ runner' = "exhausted"
  /\ UNCHANGED <<speaker, attempts, response, facts, translation, result>>

(* before_model: reserved and recorded before it is issued.                 *)
AskModel ==
  /\ runner = "model" /\ used < MaxModelCalls
  /\ used' = used + 1
  /\ stream' = Append(stream, Ev(speaker, "model_call", "live"))
  /\ issued' = issued + 1
  /\ runner' = "answer"
  /\ UNCHANGED <<speaker, attempts, response, facts, translation, result>>

(* ModelBudgetExceeded leaves through the runner.                           *)
RefuseModel == runner = "model" /\ used >= MaxModelCalls /\ Close("failed")

(* What the model answers with: words, which may complete the agent's turn, *)
(* an error, or a call of the one function its agent has.                   *)
ModelAnswers ==
  /\ runner = "answer"
  /\ \/ /\ Absorb(speaker, <<>>) \/ Absorb(speaker, <<Ev(speaker, "agent_end", "live")>>)
        /\ runner' = "exhausted"
        /\ UNCHANGED <<errored, read_succeeded>>
     \/ AbsorbError(speaker) /\ runner' = "exhausted"
     \/ AbsorbCall(speaker) /\ runner' = IF speaker = "root" THEN "transfer" ELSE "tool"
  /\ UNCHANGED <<speaker, used, issued, attempts, response, facts, result>>

(* transfer_to_agent, ADK's own function, answers with no status.           *)
Transfer ==
  /\ runner = "transfer"
  /\ AbsorbResponse("root", "no status")
  /\ speaker' = "review"
  /\ runner' = "model"
  /\ UNCHANGED <<used, issued, attempts, response, facts, result>>

(* The agent's read_repository_metadata: another target is refused before   *)
(* anything is reserved; an attempt meets the fault first, then a reading   *)
(* or a failure.  Nothing but the model asks for another attempt.           *)
ReadMetadata ==
  /\ runner = "tool"
  /\ \/ response' = "failed" /\ UNCHANGED <<attempts, facts>>
     \/ /\ attempts' = attempts + 1
        /\ response' \in IF attempts' <= FaultAttempts THEN {"fault"} ELSE {"facts", "failed"}
        /\ facts' = (facts \/ response' = "facts")
  /\ runner' = "tool answered"
  /\ UNCHANGED <<speaker, used, issued, translation, stream, result>>

(* ADK yields the tool's answer; the timer may come before it does.         *)
ToolAnswers ==
  /\ runner = "tool answered"
  /\ AbsorbResponse("review", response)
  /\ response' = "none"
  /\ runner' = "model"
  /\ UNCHANGED <<speaker, used, issued, attempts, facts, result>>

Next == \/ AskModel \/ RefuseModel \/ ModelAnswers \/ Transfer \/ ReadMetadata \/ ToolAnswers
        \/ Raises \/ TimesOut \/ Finish

Spec == Init /\ [][Next]_vars

----------------------------------------------------------------------------
(* Properties.                                                              *)

Recorded(kind) == {i \in DOMAIN stream : stream[i].kind = kind}

(* A controlled fault can never be read as an observed outage, nor a real   *)
(* answer as the fault: each faulted attempt has one labelled result, but   *)
(* for the one whose answer ADK never yielded.                              *)
FaultIsLabelled ==
  LET labelled == {i \in Recorded("tool_result") : stream[i].truth = "controlled_fault"}
      faulted == IF attempts < FaultAttempts THEN attempts ELSE FaultAttempts
  IN Cardinality(labelled) = IF response = "fault" THEN faulted - 1 ELSE faulted

(* "Counted before the call is issued": the budget bounds what ADK issued,  *)
(* and neither a call nor an injected fault is missing from the evidence or *)
(* passed off as another thing, however the run ends.                       *)
RecordIsComplete ==
  /\ issued <= MaxModelCalls
  /\ issued = Cardinality(Recorded("model_call"))
  /\ FaultIsLabelled

(* "A run without it is incomplete, never succeeded": delegation precedes   *)
(* every word and every call of the delegated agent that led to a success,  *)
(* and no reported error is outweighed.                                     *)
SuccessIsEvidenced ==
  result = "succeeded" =>
    /\ Recorded("incident") = {}
    /\ \E i \in Recorded("delegation") : \A j \in Recorded("tool_result") :
         stream[j].agent = "review" => i < j

(* "succeeded: the delegated agent ran and the read completed."             *)
SucceededMeansRead == result = "succeeded" => facts
=============================================================================
