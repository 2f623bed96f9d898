------------------------------ MODULE Detector ------------------------------
(***************************************************************************)
(* packages/warden/src/detector.ts: a pure function of a canonical stream. *)
(* A finding names its class, the signature it fired on, the position of   *)
(* the triggering event and the positions it cites as evidence.  Tool and  *)
(* error class are one field, tool, and are normalised already.            *)
(***************************************************************************)
EXTENDS Naturals, Sequences, FiniteSets, FiniteSetsExt

CONSTANTS
  Threshold,       (* repeatedToolFailure.threshold, noProgressLoop.threshold *)
  WindowEvents,    (* their windowEvents                                     *)
  MaxOutputTokens  (* usageThreshold.maxOutputTokens; the cost is its twin   *)

ASSUME DetectorAssumption ==
  /\ Threshold \in Nat \ {0} /\ WindowEvents \in Nat \ {0}
  /\ MaxOutputTokens \in Nat

PROGRESS_EVENTS ==
  {"tool.succeeded", "memory.written", "case.milestone_changed", "runtime.completed",
   "runtime.waiting", "runtime.resumed", "agent.completed", "intervention.succeeded"}

(* Defect: the window is one event short.                                   *)
WindowShort(n) == {m \in 1..n : m + WindowEvents > n + 1}

(* The WindowEvents events that end with the n-th.                          *)
Window(n) == {m \in 1..n : m + WindowEvents > n}

Finding(class, signature, n, evidence) ==
  [class |-> class, signature |-> signature, trigger |-> n, evidence |-> evidence]

(* The findings of a detector that reports each signature once, at the      *)
(* first event that triggers it.                                            *)
FirstOf(triggers, Signature(_), class, Evidence(_)) ==
  {Finding(class, Signature(n), n, Evidence(n)) :
     n \in {m \in triggers : \A k \in triggers : Signature(k) = Signature(m) => m <= k}}

detectRepeatedToolFailure(stream) ==
  LET Failed(n) == stream[n].type = "tool.failed"
      Matching(n) == {m \in Window(n) : Failed(m) /\ stream[m].tool = stream[n].tool}
      triggers == {n \in DOMAIN stream : Failed(n) /\ Cardinality(Matching(n)) >= Threshold}
  IN FirstOf(triggers, LAMBDA n : stream[n].tool, "repeated_tool_failure", Matching)

(* A loop is the same agent asking for the same tool, and no progress in    *)
(* the window since the first time it did.                                  *)
detectNoProgressLoop(stream) ==
  LET Signature(n) == <<stream[n].tool, stream[n].agent>>
      Asks(n) == stream[n].type = "tool.requested"
      Repeats(n) == {m \in Window(n) : Asks(m) /\ Signature(m) = Signature(n)}
      MadeProgress(n) == \E m \in Window(n) : /\ stream[m].type \in PROGRESS_EVENTS
                                              /\ m > Min(Repeats(n))
      triggers == {n \in DOMAIN stream : /\ Asks(n)
                                         /\ Cardinality(Repeats(n)) >= Threshold
                                         /\ ~MadeProgress(n)}
  IN FirstOf(triggers, Signature, "no_progress_loop", Repeats)

Usage(stream, n) == {m \in 1..n : stream[m].type = "usage.recorded"}
Tokens(stream, n) == SumFunction([m \in Usage(stream, n) |-> stream[m].amount])

detectUsageThreshold(stream) ==
  LET triggers == {n \in Usage(stream, Len(stream)) : Tokens(stream, n) > MaxOutputTokens}
  IN FirstOf(triggers, LAMBDA n : "output_tokens", "usage_threshold_breach",
             LAMBDA n : Usage(stream, n))

detectContextDrift(stream) ==
  {Finding("context_drift", stream[n].input, n, {n}) :
     n \in {m \in DOMAIN stream : stream[m].type = "armor.blocked"}}

detectIncidents(stream) ==
  UNION {detectRepeatedToolFailure(stream), detectNoProgressLoop(stream),
         detectUsageThreshold(stream), detectContextDrift(stream)}
=============================================================================
