----------------------------- MODULE CaseStream -----------------------------
(***************************************************************************)
(* A case's evidence: source events are delivered in batches, in any       *)
(* order, again and again, and the canonical stream they grow is what the  *)
(* projector, the detector, the scene compiler, the story and the pages of *)
(* the case read.                                                          *)
(*                                                                         *)
(* The readers are pure functions of the stream, so the state is the       *)
(* stream and what became of the rest; which case it is, what was recorded *)
(* of it and what may still arrive, is chosen once.                        *)
(***************************************************************************)
EXTENDS CaseScene, Detector, AuditExport

CONSTANTS
  Cases,       (* records: the source events recorded, in a sequence, and   *)
               (* the set of those arriving                                 *)
  MaxArrivals  (* bound: source events that arrive after those recorded     *)

ASSUME CaseStreamAssumption ==
  /\ MaxArrivals \in Nat
  /\ \A case \in Cases :
       case.recorded \in Seq({case.recorded[i] : i \in DOMAIN case.recorded})

ASSUME EventsAssumption ==
  \A case \in Cases :
    /\ \A e \in case.arriving : Countable(e)
    /\ \A i \in DOMAIN case.recorded : Countable(case.recorded[i])

Story == INSTANCE EnterpriseStory
Views == INSTANCE CaseViews

VARIABLES
  facts,       (* the source events this case's systems may report          *)
  stream,      (* the canonical stream                                      *)
  delivered,   (* every valid source event delivered so far                 *)
  refused,     (* keys refused as late                                      *)
  conflicts    (* keys delivered within one batch with two contents         *)

vars == <<facts, stream, delivered, refused, conflicts>>

Init ==
  \E case \in Cases :
    /\ facts = case.arriving
    /\ stream = canonicalize(case.recorded).accepted
    /\ delivered = {e \in {case.recorded[i] : i \in DOMAIN case.recorded} : e.valid}
    /\ refused = {} /\ conflicts = canonicalize(case.recorded).conflicts

(* One batch: one event, or two in either order.                            *)
Batches == {<<e>> : e \in facts} \cup (facts \X facts)

Deliver(batch) ==
  LET result == canonicalizeAppend(stream, batch)
  IN /\ stream' = result.stream
     /\ refused' = refused \cup result.refused
     /\ conflicts' = conflicts \cup result.conflicts
     /\ delivered' = delivered \cup {e \in {batch[i] : i \in DOMAIN batch} : e.valid}
     /\ Cardinality(delivered' \cap facts) <= MaxArrivals
     /\ UNCHANGED facts

Next == \E batch \in Batches : Deliver(batch)

Spec == Init /\ [][Next]_vars

----------------------------------------------------------------------------
(* Canonicalizer.                                                           *)

(* Events whose spelling orders them as their instants do, no two at once,  *)
(* and no two with one key.                                                 *)
Comparable(E) ==
  \A a, b \in E : a # b => /\ a.key # b.key /\ a.text # b.text
                           /\ a.instant < b.instant <=> a.text < b.text

(* However the evidence was split into batches and redelivered, the stream  *)
(* is the one canonicalize makes of all of it at once, as long as nothing   *)
(* had to be refused.                                                       *)
SplitIsWhole ==
  Comparable(delivered) /\ refused = {} =>
    stream = canonicalize(FoldSet(LAMBDA e, all : Append(all, e), <<>>, delivered)).accepted

----------------------------------------------------------------------------
(* Projector.                                                               *)

State == project(stream, Len(stream))

(* The position is of an event of intervention r, after its last proposal.  *)
Reports(n, r, type) == stream[n].ref = r /\ stream[n].type = type
Since(n, m) == \A k \in n..m : ~Reports(k, stream[m].ref, "intervention.proposed")

(* Invariant 10, "a state cannot be skipped": in a projection without       *)
(* violations an intervention that succeeded was authorized, requested and  *)
(* acknowledged before, in that order, since it was proposed.               *)
SuccessHasItsReceipts ==
  State.violations = {} =>
    \A n \in DOMAIN stream : stream[n].type = "intervention.succeeded" =>
      \E a \in 1..n, q \in 1..n, k \in 1..n :
        /\ a < q /\ q < k /\ Since(a, n)
        /\ Reports(a, stream[n].ref, "intervention.authorized")
        /\ Reports(q, stream[n].ref, "intervention.requested")
        /\ Reports(k, stream[n].ref, "intervention.acknowledged")

(* Invariant 3, "no later tool or memory event may reference it as usable   *)
(* content": a use of an input Model Armor blocked before is a violation in *)
(* the projection or in the compiled scene; the page asks both.             *)
BlockedUseIsCaught ==
  \A n, m \in DOMAIN stream :
    /\ n < m
    /\ stream[n].type = "armor.blocked" /\ stream[n].input # "none"
    /\ stream[m].input = stream[n].input
    /\ stream[m].type \in {"tool.requested", "memory.written", "memory.recalled"}
    => m \in State.violations \cup Scene!compileZoetropeScene(stream).violations

----------------------------------------------------------------------------
(* Detector.                                                                *)

(* Some events among E, at least as many as Threshold, lie within one       *)
(* window.                                                                  *)
Crowded(E) ==
  \E first \in E :
    Cardinality({n \in E : first <= n /\ n < first + WindowEvents}) >= Threshold

(* A tool's failures are an incident exactly when enough of them lie within *)
(* a window; every loop reported is one without progress between its first  *)
(* and its last repeat; usage is a breach exactly when the total exceeds    *)
(* the ceiling.                                                             *)
FindingsAreExact ==
  LET found == detectIncidents(stream)
      Found(class) == {f.signature : f \in {g \in found : g.class = class}}
      Failures(tool) == {n \in DOMAIN stream : stream[n].type = "tool.failed"
                                                 /\ stream[n].tool = tool}
      Tools == {stream[n].tool : n \in DOMAIN stream}
  IN /\ Found("repeated_tool_failure") = {tool \in Tools : Crowded(Failures(tool))}
     /\ \A f \in found : f.class = "no_progress_loop" =>
          \A n, k \in f.evidence : \A m \in n..k : stream[m].type \notin PROGRESS_EVENTS
     /\ Found("usage_threshold_breach") # {} <=> State.usage > MaxOutputTokens

----------------------------------------------------------------------------
(* Scene compiler.                                                          *)

(* A spawned agent is started once, before anything else it does.           *)
AgentsAreIntroduced ==
  \A n, m \in DOMAIN stream :
    /\ n < m
    /\ stream[n].type = "agent.spawned" /\ stream[n].parent # "none"
    /\ stream[m].agent = stream[n].agent
    => /\ stream[m].type = "agent.started" \/ \E k \in (n + 1)..(m - 1) :
                               stream[k].agent = stream[n].agent /\ stream[k].type = "agent.started"
       /\ stream[m].type = "agent.started" => ~\E k \in (n + 1)..(m - 1) :
                               stream[k].agent = stream[n].agent /\ stream[k].type = "agent.started"

(* The manifest counts the items a renderer makes of the files, without a   *)
(* hole: what the cockpit refuses to load otherwise, and what every         *)
(* fraction divides by.                                                     *)
TimelineMatchesManifest ==
  AgentsAreIntroduced =>
    LET scene == Scene!compileZoetropeScene(stream)
    IN Scene!validateRenderManifest(scene.entries, Scene!TimelineItems(scene)) = {}

----------------------------------------------------------------------------
(* The story.                                                               *)

(* "A card may claim only what the recording proves", and a recording only  *)
(* grows: a claim that is shown is never taken back, and the event it was   *)
(* found from never becomes a later one.  An activation is found from the   *)
(* approval asked for and shown at what was allowed, which may be later     *)
(* when an approval asked for earlier is used after all.  The Runtime's     *)
(* claim looks up the agent its request was aimed at, so a request recorded *)
(* only after the success can take it back: then the projector sees a       *)
(* violation.                                                               *)
FoundFrom(slot) == IF slot = "warden" THEN 2 ELSE 1
Kept(before, after, lawful) ==
  \A slot \in DOMAIN before.cards :
    before.cards[slot] = "evidenced" /\ (slot = "runtime" => lawful) =>
      /\ after.cards[slot] = "evidenced"
      /\ after.proofs[slot].evidence[FoundFrom(slot)]
           <= before.proofs[slot].evidence[FoundFrom(slot)]
ClaimsPersist ==
  [][stream' # stream => Kept(Story!enterpriseStory("loaded", stream),
                              Story!enterpriseStory("loaded", stream'),
                              project(stream', Len(stream')).violations = {})]_vars

(* The cards look at neither the order of an intervention's steps nor at    *)
(* what comes after an enforcement; the projector does.  Where it sees no   *)
(* violation, the steps the recovery cards cite happened in order unless an *)
(* intervention was proposed again, the agent that worked afterwards is the *)
(* one the request was aimed at, and no tool was ever asked for with an     *)
(* input said to be screened.                                               *)
ProposedOnce(r) ==
  \A n, m \in DOMAIN stream :
    Reports(n, r, "intervention.proposed") /\ Reports(m, r, "intervention.proposed") => n = m
Backed(told) ==
  LET warden == told.proofs["warden"].evidence
      runtime == told.proofs["runtime"].evidence
      screened == told.proofs["security"].evidence
  IN /\ told.cards["warden"] = "evidenced" /\ ProposedOnce(stream[warden[3]].ref) =>
          warden[3] < warden[4] /\ warden[4] < warden[5] /\ warden[5] < warden[6]
     /\ told.cards["runtime"] = "evidenced" =>
          \E q \in 1..runtime[2], k \in 1..runtime[2] :
            /\ q < k
            /\ Reports(q, stream[runtime[1]].ref, "intervention.requested")
            /\ Reports(k, stream[runtime[1]].ref, "intervention.acknowledged")
            /\ stream[q].agent \in {"none", stream[runtime[3]].agent}
     /\ told.cards["security"] = "evidenced" =>
          \A n \in screened[1]..Len(stream) :
            stream[n].type = "tool.requested" => stream[n].input # stream[screened[1]].input
ClaimsAreProven ==
  State.violations = {} => Backed(Story!enterpriseStory("loaded", stream))

----------------------------------------------------------------------------
(* The audit export.                                                        *)

(* "Append-only evidence": what was exported is, but for being all there    *)
(* is, what an export of as many events says whenever it is made again; a   *)
(* document of the whole case replays to the state it was made from, and    *)
(* one cut at an earlier event fails in nothing but that it calls itself a  *)
(* part.                                                                    *)
Told(doc) == [doc.body EXCEPT !.atEdge = FALSE]
Replays(events) ==
  \A n \in DOMAIN events :
    verifyAuditExport(buildAuditExport(events, n))
      = IF n = Len(events) THEN {} ELSE {"stateHash"}
ExportsStand ==
  [][stream' # stream =>
       /\ Replays(stream')
       /\ Told(buildAuditExport(stream, Len(stream)))
            = Told(buildAuditExport(stream', Len(stream)))]_vars

----------------------------------------------------------------------------
(* The pages.                                                               *)

(* Nothing of the given types about the event's subject came after it.      *)
Stands(n, types) ==
  \A m \in (n + 1)..Len(stream) : stream[m].type \in types => stream[m].ref # stream[n].ref
Undecided == \E n \in DOMAIN stream :
  /\ stream[n].type = "human_escalation.opened" /\ stream[n].ref # "none"
  /\ Stands(n, {"human_escalation.resolved"})
Unreviewed == \E n \in DOMAIN stream :
  /\ stream[n].type = "incident.opened" /\ stream[n].ref # "none"
  /\ Stands(n, {"incident.updated", "incident.resolved"})

(* The Runtime's last word is that it waits for an operator.                *)
WaitsForOperator == \E n \in DOMAIN stream :
  /\ stream[n].type = "runtime.waiting" /\ stream[n].detail = "operator_approval"
  /\ \A m \in (n + 1)..Len(stream) :
       /\ stream[m].type \notin {"runtime.started", "runtime.resumed", "runtime.waiting",
                                 "runtime.failed"}
       /\ ~(stream[m].type = "runtime.completed" /\ stream[m].detail = "terminal")

(* The pages send the reader to an operator exactly while the record has a  *)
(* decision outstanding, whatever was decided, asked again or answered      *)
(* since; and the inbox calls an approval usable only if the last decision  *)
(* since it was last asked for approved it.                                 *)
Outstanding(state) ==
  /\ Views!nextAction(state) = "operator decides" <=>
       Undecided \/ (WaitsForOperator /\ ~Unreviewed)
  /\ "approval_required" \in Views!caseAttention(state).flags <=> Undecided
  /\ \A id \in DOMAIN state.approvals :
       Views!approvalRows(state, Len(stream))[id] = "usable" =>
         \E n \in DOMAIN stream :
           /\ stream[n].type = "human_escalation.resolved" /\ stream[n].ref = id
           /\ stream[n].detail = "approved"
           /\ Stands(n, {"human_escalation.opened", "human_escalation.resolved"})
OperatorIsAsked == Outstanding(State)

(* Every pointer of the pages leads to what it names: the step shown for a  *)
(* cursor is the last one reached at or before it, a child stands one level *)
(* deeper than its parent unless their parents go in a circle, the panel of *)
(* the only incident of a class points to that incident's opening, a        *)
(* milestone shown as reached has the event that reached it, and the button *)
(* of a phase lands the renderer on the event the phase names.              *)
Inside(path, cursor, active) ==
  \A n \in Story!tourFor(path) :
    /\ n <= cursor => n <= active /\ active <= cursor
    /\ active \in Story!tourFor(path)
Nested(state, tree) ==
  \A a \in DOMAIN tree : state.agents[a].parent \in DOMAIN tree /\ tree[a].depth <= 16 =>
    tree[a].depth = tree[state.agents[a].parent].depth + 1
Homed(state, panels) ==
  \A id \in DOMAIN panels :
    (\A n \in DOMAIN stream : stream[n].type = "incident.opened" =>
       (stream[n].detail = state.incidents[id].class <=> stream[n].ref = id))
    => panels[id].opened # 0 /\ stream[panels[id].opened].ref = id
Walked(entries) ==
  \A n \in Views!demoPhases(stream, entries) :
    Scene!manifestEntryForCaseSequence(entries, n) = n
Railed(rail) == \A m \in DOMAIN rail : rail[m].state # "pending" => rail[m].at # 0
Landed(state, path) ==
  /\ \A cursor \in DOMAIN stream : Inside(path, cursor, Story!activeStep(path, cursor))
  /\ Nested(state, Views!agentTree(state, stream))
  /\ Homed(state, Views!incidentViews(state, stream))
  /\ Railed(Views!caseRail(state, stream))
  /\ Walked(Scene!compileZoetropeScene(stream).entries)
PointersLandHome == Landed(State, Story!enterpriseStory("loaded", stream).path)
=============================================================================
