---------------------------- MODULE MCCaseStream ----------------------------
EXTENDS CaseStream

(* A source event with nothing but a key, a type and a time.                *)
Fact(key, type) ==
  [key |-> key, instant |-> 2, text |-> 2, valid |-> TRUE, type |-> type, session |-> "s1",
   detail |-> "none", agent |-> "none", parent |-> "none", tool |-> "none", call |-> "none",
   input |-> "none", capability |-> "none", ref |-> "none", amount |-> 0, under |-> "none"]

At(e, instant, text) == [e EXCEPT !.instant = instant, !.text = text]

(* Times: three instants, one of them with two spellings, a redelivery with *)
(* another content, an event of another case.                               *)
Timed ==
  {At(Fact(1, "runtime.started"), 1, 1), At(Fact(2, "runtime.waiting"), 2, 3),
   At(Fact(3, "runtime.resumed"), 3, 4), At(Fact(4, "runtime.completed"), 4, 5),
   At([Fact(3, "runtime.resumed") EXCEPT !.detail = "altered"], 3, 4),
   At(Fact(5, "runtime.failed"), 3, 2), [Fact(6, "case.created") EXCEPT !.valid = FALSE]}

Governed ==
  {[Fact(1, "incident.opened") EXCEPT !.ref = "x1"],
   [Fact(2, "incident.resolved") EXCEPT !.ref = "x1"],
   [Fact(9, "human_escalation.opened") EXCEPT !.ref = "y1"],
   [Fact(10, "human_escalation.resolved") EXCEPT !.ref = "y1", !.detail = "approved"]}
  \cup {[Fact(3, "intervention.proposed") EXCEPT !.ref = "v1"],
        [Fact(4, "intervention.authorized") EXCEPT !.ref = "v1"],
        [Fact(5, "intervention.requested") EXCEPT !.ref = "v1"],
        [Fact(6, "intervention.acknowledged") EXCEPT !.ref = "v1"],
        [Fact(7, "intervention.succeeded") EXCEPT !.ref = "v1"],
        [Fact(8, "intervention.timed_out") EXCEPT !.ref = "v1"]}
Settled == {e \in Governed : e.ref = "v1"}
Escalated == {e \in Governed : e.ref # "v1"}

(* One tool asked for and failing, an attempt that gets somewhere, usage.   *)
Asked(key, type) == [Fact(key, type) EXCEPT !.agent = "a1", !.tool = "erp"]
Failing ==
  {Asked(1, "tool.failed"), Asked(2, "tool.failed"), Asked(3, "tool.failed"),
   Asked(4, "tool.succeeded"), [Fact(5, "usage.recorded") EXCEPT !.amount = 1],
   [Fact(6, "usage.recorded") EXCEPT !.amount = 2]}
Looping ==
  {Asked(1, "tool.requested"), Asked(2, "tool.requested"), Asked(3, "tool.requested"),
   Asked(4, "tool.succeeded"), [Fact(5, "case.milestone_changed") EXCEPT !.detail = "review"],
   Fact(6, "policy.evaluated")}

Screened ==
  {[Fact(1, "armor.blocked") EXCEPT !.input = "i1"],
   [Fact(2, "tool.requested") EXCEPT !.input = "i1", !.tool = "ModelArmor.screen", !.call = "c1"],
   [Fact(3, "memory.written") EXCEPT !.input = "i1", !.ref = "m1"],
   [Fact(4, "memory.recalled") EXCEPT !.input = "i1", !.call = "c1"],
   [Fact(5, "identity.denied") EXCEPT !.call = "c1"],
   [Fact(6, "armor.flagged") EXCEPT !.call = "c1"]}

Delegated ==
  {[Fact(1, "agent.spawned") EXCEPT !.agent = "a0"],
   [Fact(2, "agent.spawned") EXCEPT !.agent = "a1", !.parent = "a0", !.capability = "pay"],
   [Fact(3, "agent.started") EXCEPT !.agent = "a1"],
   [Fact(4, "agent.completed") EXCEPT !.agent = "a1"],
   [Fact(5, "tool.requested") EXCEPT !.agent = "a1", !.tool = "erp", !.call = "c1"],
   [Fact(6, "tool.failed") EXCEPT !.agent = "a1", !.tool = "erp", !.call = "c1"],
   [Fact(7, "gateway.denied") EXCEPT !.capability = "pay"]}

(* Three recordings.  Warden recovers an agent;                             *)
Of(type, ref, under, detail) ==
  [Fact(0, type) EXCEPT !.ref = ref, !.under = under, !.detail = detail]
Recovered ==
  <<Asked(0, "tool.failed"),
    [Of("incident.opened", "x1", "none", "repeated_tool_failure") EXCEPT
       !.agent = "a1", !.amount = 1],
    Of("policy.evaluated", "none", "x1", "auto_act"),
    Of("intervention.proposed", "v1", "x1", "none"),
    Of("intervention.authorized", "v1", "x1", "none"),
    [Of("intervention.requested", "v1", "x1", "none") EXCEPT !.agent = "a1"],
    Of("intervention.acknowledged", "v1", "x1", "none"),
    Of("runtime.controlled", "v1", "none", "applied"),
    Asked(0, "tool.succeeded"),
    Of("intervention.succeeded", "v1", "x1", "none"),
    Of("incident.resolved", "x1", "v1", "recovered")>>
(* an operator approves what an agent then does;                            *)
Approved ==
  <<Of("runtime.waiting", "none", "none", "operator_approval"),
    Of("human_escalation.opened", "y1", "none", "none"),
    Of("human_escalation.resolved", "y1", "none", "approved"),
    [Of("tool.requested", "none", "y1", "none") EXCEPT !.agent = "a1", !.tool = "erp", !.call = "c1"],
    [Fact(0, "identity.allowed") EXCEPT !.call = "c1"],
    [Asked(0, "tool.succeeded") EXCEPT !.call = "c1"]>>
(* an input is blocked, its memory refused, and a part of the work given to *)
(* another agent.                                                           *)
Blocked ==
  <<[Fact(0, "armor.blocked") EXCEPT !.input = "i1"],
    [Fact(0, "memory.rejected") EXCEPT !.input = "i1"],
    [Fact(0, "agent.spawned") EXCEPT !.agent = "a0"],
    [Fact(0, "agent.spawned") EXCEPT !.agent = "a1", !.parent = "a0"],
    [Asked(0, "tool.requested") EXCEPT !.input = "i2"]>>

(* A recording, the ones with an event less, with an id that is another's,  *)
(* and with two neighbours exchanged.                                       *)
Broken(chain) ==
  {chain} \cup {RemoveAt(chain, i) : i \in DOMAIN chain}
  \cup {[chain EXCEPT ![i].ref = "other"] : i \in DOMAIN chain}
  \cup {[chain EXCEPT ![i] = chain[i + 1], ![i + 1] = chain[i]] : i \in 1..(Len(chain) - 1)}
Dated(chain) == [i \in DOMAIN chain |-> [chain[i] EXCEPT !.key = i, !.instant = i, !.text = i]]

(* What arrives later.                                                      *)
Late(n, e) == [e EXCEPT !.key = 20 + n, !.instant = 20, !.text = 20]
AfterRecovery ==
  {Late(1, Of("incident.opened", "x2", "none", "repeated_tool_failure")),
   Late(2, Of("intervention.failed", "v1", "x1", "none")),
   Late(3, Of("incident.resolved", "x1", "v1", "recovered")),
   Late(4, [Of("intervention.requested", "v1", "x1", "none") EXCEPT !.agent = "a2"])}
AfterApproval ==
  {Late(1, Of("human_escalation.opened", "y1", "none", "none")),
   Late(2, Of("human_escalation.resolved", "y1", "none", "rejected")),
   Late(3, Of("incident.opened", "x1", "none", "none")),
   Late(4, Of("runtime.completed", "none", "none", "terminal")),
   Late(5, Of("incident.updated", "x1", "none", "none"))}
AfterBlock ==
  {Late(1, [Fact(0, "memory.rejected") EXCEPT !.input = "i1"]),
   Late(2, [Asked(0, "tool.requested") EXCEPT !.input = "i1"]),
   Late(3, [Fact(0, "agent.spawned") EXCEPT !.agent = "a0", !.parent = "a1"])}

Recorded(chain, arriving) == {[recorded |-> Dated(c), arriving |-> arriving] : c \in Broken(chain)}
KnownCases ==
  {[recorded |-> <<>>, arriving |-> Arriving] :
     Arriving \in {Timed, Settled, Escalated, Failing, Looping, Screened, Delegated}}
  \cup Recorded(Recovered, AfterRecovery)
  \cup Recorded(Approved, AfterApproval)
  \cup Recorded(Blocked, AfterBlock)
=============================================================================
