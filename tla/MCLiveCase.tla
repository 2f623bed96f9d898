----------------------------- MODULE MCLiveCase -----------------------------
EXTENDS LiveCase

Event(key, type) ==
  [key |-> key, instant |-> key, text |-> key, valid |-> TRUE, type |-> type, session |-> "s1",
   detail |-> "none", agent |-> "none", parent |-> "none", tool |-> "none", call |-> "none",
   input |-> "none", capability |-> "none", ref |-> "none", amount |-> 1, under |-> "none"]

(* Events drawn as two lines, and one that is not drawn.                    *)
Plain == <<Event(1, "policy.evaluated"), Event(2, "usage.recorded"), Event(3, "policy.evaluated")>>

(* A sub-agent with a transcript of its own.                                *)
Delegated ==
  <<[Event(1, "agent.spawned") EXCEPT !.agent = "a1", !.parent = "a0"],
    [Event(2, "agent.started") EXCEPT !.agent = "a1"],
    [Event(3, "agent.completed") EXCEPT !.agent = "a1"]>>

(* A use of blocked input: whatever is appended to it is refused.           *)
Blocked ==
  <<[Event(1, "armor.blocked") EXCEPT !.input = "i1"],
    [Event(2, "tool.requested") EXCEPT !.input = "i1", !.call = "c1"]>>

(* The last event is not drawn, so that the one before it stands for both.  *)
Metered == <<Event(1, "case.opened"), Event(2, "usage.recorded")>>

(* Nothing is drawn.                                                        *)
Silent == <<Event(1, "usage.recorded")>>

Recorded == {Plain, Delegated, Blocked, Metered, Silent}
=============================================================================
