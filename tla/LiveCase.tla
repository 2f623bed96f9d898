------------------------------ MODULE LiveCase ------------------------------
(***************************************************************************)
(* The live proof of a recorded case: one bounded model call whose result  *)
(* becomes evidence on the page that asked for it.                         *)
(*                                                                         *)
(*   apps/api live/guard.ts, routes/live.ts, live/evidence.ts: the gate    *)
(*   and the events a call produces;                                       *)
(*   apps/web LiveProofPanel.astro, lib/live-proof.ts: the button, and the *)
(*   plan that appends those events or refuses them;                       *)
(*   apps/web CockpitMount.astro, domain/cursor.ts: the shell's cursor;    *)
(*   crates/fleet-cockpit scene.rs, manifest.rs: the renderer.             *)
(*                                                                         *)
(* Nothing of a page outlives it, and the counter dies with the API.  What *)
(* a page's timer, its operator, the network and the API do interleaves.   *)
(***************************************************************************)
EXTENDS CaseScene

CONSTANTS
  Recordings,   (* recorded streams, one of which is the page's             *)
  MaxCalls,     (* gemini.maxCallsPerCase                                   *)
  MaxRestarts,  (* bound: times the API starts again                        *)
  MaxReloads    (* bound: times the page is loaded again                    *)

ASSUME LiveCaseAssumption ==
  /\ MaxCalls \in Nat /\ MaxRestarts \in Nat /\ MaxReloads \in Nat
  /\ \A case \in Recordings : /\ case \in Seq({case[n] : n \in DOMAIN case})
                             /\ \A n \in DOMAIN case : Countable(case[n])

VARIABLES
  recorded,     (* the case as it is built into the page                    *)
  gate,         (* callsPerCase, and every model call issued, ever          *)
  requests,     (* POSTs on their way, and which page sent each             *)
  reply,        (* the answer on its way to the current page                *)
  page,         (* the panel's closure: config.events, the button, spent    *)
  shell,        (* CockpitMount's closure: manifest, cursor, the last poll  *)
  cockpit       (* the renderer: its manifest, timeline and playhead        *)

liveVars == <<recorded, gate, requests, reply, page, shell, cockpit>>

----------------------------------------------------------------------------
(* evidence.ts.  All events of a call have one time, so their keys order    *)
(* them: failed, requested, succeeded, usage.                               *)

LiveEvent(key, type, at) ==
  [key |-> key, instant |-> at, text |-> at, valid |-> TRUE, type |-> type, session |-> "s1",
   detail |-> "none", agent |-> "orchestrator", parent |-> "none", tool |-> "gemini",
   call |-> "live", input |-> "none", capability |-> "none", ref |-> "none", amount |-> 1, under |-> "none"]

request(at) == LiveEvent(102, "tool.requested", at)
liveFailureEvidence(at) == <<request(at), LiveEvent(101, "tool.failed", at)>>
liveSuccessEvidence(at, usage) ==
  <<request(at), LiveEvent(103, "tool.succeeded", at)>>
    \o (IF usage THEN <<LiveEvent(104, "usage.recorded", at)>> ELSE <<>>)

(* The handler's observedAt: after everything the page has.                 *)
observedAt(stream) == HighWater(stream) + 1

----------------------------------------------------------------------------
(* domain/cursor.ts, over the positions 1..n of the events a shell has.     *)

Unread(n, at) == Cardinality({m \in 1..n : m > at})
Live(n) == [at |-> n, edge |-> TRUE, mark |-> n, unread |-> 0]
seekCursor(c, n, at) ==
  [at |-> at, edge |-> at >= c.mark, mark |-> c.mark,
   unread |-> IF at >= c.mark THEN 0 ELSE Unread(n, at)]

(* Defect: new evidence moves whoever looks at the page.                    *)
acceptEventsForAll(c, n) == Live(n)
acceptEvents(c, n) ==
  IF c.edge THEN Live(n) ELSE [c EXCEPT !.mark = n, !.unread = Unread(n, c.at)]

----------------------------------------------------------------------------
(* The renderer.  Its timeline is a sequence of times in order, an item's   *)
(* time is its slot's number, and an agent's meta has the time of the line  *)
(* after it.  The playhead is a time; index is the last item it has passed. *)

Count(times, at) == Cardinality({n \in DOMAIN times : times[n] <= at})
Index(c) == Count(c.items, c.playhead)
AtEdge(c) == Index(c) = Len(c.items)
Times(slots) == [n \in DOMAIN slots |-> IF slots[n].item = "meta" THEN n + 1 ELSE n]
Riding(c) == c.follow /\ AtEdge(c)

(* seek_to_fraction over the clump at the start and what is left.           *)
Sought(c, start) ==
  LET total == Scene!rendererEntryCount(c.manifest)
      size == Len(c.items)
      floor == Count(c.items, c.items[1])
      offset == IF total <= 1 THEN 0
                ELSE (2 * start * (size - floor) + (total - 1)) \div (2 * (total - 1))
  IN IF floor + offset > size THEN size ELSE floor + offset

(* A playhead of 0 has passed nothing: there is nothing to rest on.         *)
Moved(c, target) ==
  [c EXCEPT !.playhead = IF c.items = <<>> THEN @ ELSE c.items[target],
            !.follow = target >= Len(c.items)]

(* Cockpit::load and go_live.                                               *)
Loaded(stream) ==
  LET scene == Scene!compileZoetropeScene(stream)
      times == Times(scene.slots)
  IN Moved([mounted |-> TRUE, manifest |-> scene.entries, items |-> times,
            playhead |-> 0, follow |-> TRUE], Len(times))
Unmounted == [mounted |-> FALSE, manifest |-> <<>>, items |-> <<>>, playhead |-> 0, follow |-> FALSE]

(* The times of a timeline, the earliest first.                             *)
InTime(times) ==
  [n \in DOMAIN times |->
     CHOOSE at \in {times[m] : m \in DOMAIN times} :
       Cardinality({m \in DOMAIN times : times[m] < at}) < n /\ n <= Count(times, at)]

(* Defect: the timeline grows and the manifest does not.                    *)
AppendedTimeline(c, entries, times) ==
  LET items == InTime(c.items \o times)
  IN [c EXCEPT !.items = items,
               !.playhead = IF Riding(c) /\ items # <<>> THEN items[Len(items)] ELSE @]

(* Cockpit::append: a playhead that rides the edge moves with it.           *)
Appended(c, entries, times) ==
  LET items == InTime(c.items \o times)
  IN [c EXCEPT !.manifest = @ \o entries,
               !.items = items,
               !.playhead = IF Riding(c) /\ items # <<>> THEN items[Len(items)] ELSE @]

(* What the page hands it: the new lines of main, and EVERY line of every   *)
(* sub-agent that has a transcript, those it has already included.          *)
Handed(old, new) ==
  Picked(Times(new.slots),
         {n \in DOMAIN new.slots : IF new.slots[n].file = "main" THEN n > Len(old.slots)
                                   ELSE new.slots[n].file \in Scene!Announced(new)})

----------------------------------------------------------------------------
(* planAppend.                                                              *)

(* What the renderer would be handed, from one compiled scene to the next.  *)
Planned(appended, before, after) ==
  [stream |-> appended.stream,
   entries |-> SubSeq(after.entries, Len(before.entries) + 1, Len(after.entries)),
   times |-> Handed(before, after),
   problems |-> \/ appended.refused # {}
                \/ ~IsPrefix(Scene!MainLines(before), Scene!MainLines(after))
                \/ Scene!validateRenderManifest(after.entries, Len(after.slots)) # {}
                \/ after.violations # {}
                \/ project(appended.stream, Len(appended.stream)).violations # {}]

Compiled(existing, appended) ==
  Planned(appended, Scene!compileZoetropeScene(existing),
          Scene!compileZoetropeScene(appended.stream))

planAppend(existing, events) == Compiled(existing, canonicalizeAppend(existing, events))

----------------------------------------------------------------------------
NoReply == [kind |-> "none", events |-> <<>>]
NoShell == [manifest |-> <<>>, cursor |-> Live(0), polled |-> 0, mode |-> "hidden"]
NewPage(n, stream) ==
  [number |-> n, stream |-> stream, button |-> TRUE, spent |-> FALSE, asking |-> FALSE]

LiveInit ==
  /\ recorded \in Recordings
  /\ gate = [used |-> 0, calls |-> 0, restarts |-> 0]
  /\ requests = {} /\ reply = NoReply
  /\ page = NewPage(0, recorded)
  /\ shell = NoShell
  /\ cockpit = Unmounted

(* The page's answer, if it is still the page that asked.                   *)
Answer(q, kind, events) ==
  /\ requests' = requests \ {q}
  /\ reply' = IF q.page = page.number THEN [kind |-> kind, events |-> events] ELSE reply

(* Defect: the call is counted when it has returned.                        *)
AdmittedUncounted(q) ==
  /\ q \in requests /\ ~q.called /\ gate.used < MaxCalls
  /\ gate' = [gate EXCEPT !.calls = @ + 1]
  /\ requests' = (requests \ {q}) \cup {[q EXCEPT !.called = TRUE]}
  /\ UNCHANGED <<recorded, reply, page, shell, cockpit>>

(* admitLiveRequest: looked at, counted and called in one turn.             *)
Admitted(q) ==
  /\ q \in requests /\ ~q.called /\ gate.used < MaxCalls
  /\ gate' = [gate EXCEPT !.used = @ + 1, !.calls = @ + 1]
  /\ requests' = (requests \ {q}) \cup {[q EXCEPT !.called = TRUE]}
  /\ UNCHANGED <<recorded, reply, page, shell, cockpit>>

Refused(q) ==
  /\ q \in requests /\ ~q.called /\ gate.used >= MaxCalls
  /\ Answer(q, "budget", <<>>)
  /\ UNCHANGED <<recorded, gate, page, shell, cockpit>>

Decided(q) ==
  /\ q \in requests /\ q.called
  /\ \E usage \in BOOLEAN : Answer(q, "evidence", liveSuccessEvidence(q.at, usage))
  /\ UNCHANGED <<recorded, gate, page, shell, cockpit>>

DecisionFails(q) ==
  /\ q \in requests /\ q.called
  /\ Answer(q, "evidence", liveFailureEvidence(q.at))
  /\ UNCHANGED <<recorded, gate, page, shell, cockpit>>

(* Before the call or after it: the page cannot tell.                       *)
Unreachable(q) ==
  /\ q \in requests
  /\ Answer(q, "unreachable", <<>>)
  /\ UNCHANGED <<recorded, gate, page, shell, cockpit>>

(* A new API process has counted nothing, and drops what it was asked.      *)
ApiRestarts ==
  /\ gate.restarts < MaxRestarts
  /\ gate' = [gate EXCEPT !.used = 0, !.restarts = @ + 1]
  /\ requests' = {}
  /\ reply' = IF \E q \in requests : q.page = page.number
              THEN [kind |-> "unreachable", events |-> <<>>] ELSE reply
  /\ UNCHANGED <<recorded, page, shell, cockpit>>

----------------------------------------------------------------------------
(* The panel.                                                               *)

Clicked ==
  /\ page.button /\ ~page.asking /\ ~page.spent
  /\ page' = [page EXCEPT !.asking = TRUE, !.button = FALSE]
  /\ requests' = requests \cup
       {[page |-> page.number, called |-> FALSE, at |-> observedAt(page.stream)]}
  /\ UNCHANGED <<recorded, gate, reply, shell, cockpit>>

ReplyFails ==
  /\ reply.kind \in {"budget", "unreachable"}
  /\ reply' = NoReply
  /\ page' = [page EXCEPT !.asking = FALSE, !.spent = reply.kind = "budget",
                          !.button = reply.kind # "budget"]
  /\ UNCHANGED <<recorded, gate, requests, shell, cockpit>>

(* A plan with problems is not applied, and the button stays as it is.      *)
EvidenceRefused ==
  /\ reply.kind = "evidence"
  /\ planAppend(page.stream, reply.events).problems
  /\ reply' = NoReply
  /\ page' = [page EXCEPT !.asking = FALSE]
  /\ UNCHANGED <<recorded, gate, requests, shell, cockpit>>

(* The page's stream grows; the renderer and its shell do if they are there.*)
Extends(plan) ==
  /\ ~plan.problems
  /\ page' = [page EXCEPT !.asking = FALSE, !.spent = TRUE, !.stream = plan.stream]
  /\ IF shell.mode = "mounted" /\ plan.entries # <<>>
     THEN /\ cockpit' = Appended(cockpit, plan.entries, plan.times)
          /\ shell' = [shell EXCEPT !.manifest = @ \o plan.entries,
                         !.cursor = acceptEvents(@, Len(shell.manifest \o plan.entries))]
     ELSE UNCHANGED <<cockpit, shell>>

EvidenceAppended ==
  /\ reply.kind = "evidence"
  /\ Extends(planAppend(page.stream, reply.events))
  /\ reply' = NoReply
  /\ UNCHANGED <<recorded, gate, requests>>

(* The tab is loaded again: the recorded case, and a request nobody awaits. *)
Reload ==
  /\ page.number < MaxReloads
  /\ page' = NewPage(page.number + 1, recorded)
  /\ reply' = NoReply
  /\ shell' = NoShell /\ cockpit' = Unmounted
  /\ UNCHANGED <<recorded, gate, requests>>

----------------------------------------------------------------------------
(* The shell and the renderer.                                              *)

(* mount, once the surface is shown; the scene is the one in the page.  The *)
(* renderer does not load a timeline that its manifest does not account for.*)
Mount ==
  /\ shell.mode = "hidden"
  /\ LET scene == Scene!compileZoetropeScene(recorded)
     IN Scene!TimelineItems(scene) = Scene!rendererEntryCount(scene.entries)
  /\ cockpit' = Loaded(recorded)
  /\ shell' = [manifest |-> cockpit'.manifest, cursor |-> Live(Len(recorded)),
               polled |-> 0, mode |-> "mounted"]
  /\ UNCHANGED <<recorded, gate, requests, reply, page>>

Degrade ==
  /\ shell.mode = "hidden"
  /\ shell' = [manifest |-> Scene!compileZoetropeScene(recorded).entries,
               cursor |-> Live(Len(recorded)), polled |-> 0, mode |-> "degraded"]
  /\ UNCHANGED <<recorded, gate, requests, reply, page, cockpit>>

(* An operator acts at most once in a frame of the page.                    *)
Framed == cockpit.mounted => shell.polled = Index(cockpit)

(* seekTo, for an evidence row: the rows are those of the page's stream.    *)
Seek(n) ==
  /\ shell.mode # "hidden" /\ Framed
  /\ shell' = [shell EXCEPT !.cursor = seekCursor(@, Len(shell.manifest), n)]
  /\ cockpit' = IF cockpit.mounted /\ Scene!Visible(cockpit.manifest) # {}
                THEN LET entry == Scene!manifestEntryForCaseSequence(cockpit.manifest, n)
                     IN Moved(cockpit, Sought(cockpit, cockpit.manifest[entry].start))
                ELSE cockpit
  /\ UNCHANGED <<recorded, gate, requests, reply, page>>

(* The operator drags the renderer's own scrubber.                          *)
Scrub(target) ==
  /\ cockpit.mounted /\ Framed
  /\ cockpit' = Moved(cockpit, target)
  /\ UNCHANGED <<recorded, gate, requests, reply, page, shell>>

(* Play, and the playhead's next item.                                      *)
Play ==
  /\ cockpit.mounted /\ Framed
  /\ cockpit' = [cockpit EXCEPT !.follow = TRUE]
  /\ UNCHANGED <<recorded, gate, requests, reply, page, shell>>

Advance ==
  /\ cockpit.mounted /\ cockpit.follow /\ ~AtEdge(cockpit)
  /\ cockpit' = [cockpit EXCEPT !.playhead = cockpit.items[Index(cockpit) + 1]]
  /\ UNCHANGED <<recorded, gate, requests, reply, page, shell>>

(* The button is shown only to whoever is not at the edge.                  *)
ReturnToLive ==
  /\ cockpit.mounted /\ Framed /\ ~shell.cursor.edge
  /\ shell' = [shell EXCEPT !.cursor = Live(Len(shell.manifest))]
  /\ cockpit' = Moved(cockpit, Len(cockpit.items))
  /\ UNCHANGED <<recorded, gate, requests, reply, page>>

(* Defect: the shell believes the renderer's position, not its edge.        *)
PollByPosition ==
  /\ cockpit.mounted
  /\ Index(cockpit) # shell.polled
  /\ LET entry == Scene!manifestEntryForRendererIndex(shell.manifest, Index(cockpit) - 1)
     IN shell' = [shell EXCEPT !.polled = Index(cockpit),
           !.cursor = IF AtEdge(cockpit) THEN @ ELSE seekCursor(@, Len(shell.manifest), entry)]
  /\ UNCHANGED <<recorded, gate, requests, reply, page, cockpit>>

(* Each frame: the shell follows a renderer that has moved.                 *)
Poll ==
  /\ cockpit.mounted
  /\ Index(cockpit) # shell.polled
  /\ LET entry == Scene!manifestEntryForRendererIndex(shell.manifest, Index(cockpit) - 1)
     IN shell' = [shell EXCEPT !.polled = Index(cockpit),
           !.cursor = IF entry = 0 THEN @
                      ELSE IF AtEdge(cockpit) THEN Live(Len(shell.manifest))
                      ELSE seekCursor(@, Len(shell.manifest), entry)]
  /\ UNCHANGED <<recorded, gate, requests, reply, page, cockpit>>

LiveNext ==
  \/ \E q \in requests : \/ Admitted(q) \/ Refused(q) \/ Decided(q) \/ DecisionFails(q)
                         \/ Unreachable(q)
  \/ ApiRestarts
  \/ Clicked \/ ReplyFails \/ EvidenceRefused \/ EvidenceAppended \/ Reload
  \/ Mount \/ Degrade \/ Play \/ Advance \/ ReturnToLive \/ Poll
  \/ \E n \in DOMAIN page.stream : Seek(n)
  \/ \E target \in DOMAIN cockpit.items : Scrub(target)

LiveSpec == LiveInit /\ [][LiveNext]_liveVars

----------------------------------------------------------------------------
(* The gate: within one life of the API no more calls than it permits,      *)
(* whatever is clicked, lost or loaded again meanwhile.                     *)
CallsBounded == gate.calls <= MaxCalls * (gate.restarts + 1)

(* "An append extends both the timeline and the manifest together": what    *)
(* the shell, the renderer's manifest and its timeline hold is the page's   *)
(* stream, if the renderer was there to be told.                            *)
Delegating(stream) ==
  \E n \in DOMAIN stream : stream[n].type = "agent.spawned" /\ stream[n].parent # "none"
Informed == cockpit.mounted /\ Len(shell.manifest) = Len(page.stream)
InStep ==
  Informed => LET scene == Scene!compileZoetropeScene(page.stream)
              IN /\ shell.manifest = scene.entries /\ cockpit.manifest = scene.entries
                 /\ ~Delegating(recorded) =>
                      Len(cockpit.items) = Scene!rendererEntryCount(cockpit.manifest)

(* Once the shell has seen where the renderer is, both name one event.  An  *)
(* append parts them when the shell calls the last event the edge while the *)
(* renderer still rests on that event's first line: only the shell moves.   *)
Shown(manifest, n) == Scene!manifestEntryForCaseSequence(manifest, n)
SettledTogether ==
  cockpit.mounted /\ shell.polled = Index(cockpit) /\ ~Delegating(recorded)
    /\ (Len(shell.manifest) = Len(recorded) \/ (shell.cursor.edge => AtEdge(cockpit))) =>
    Scene!manifestEntryForRendererIndex(cockpit.manifest, Index(cockpit) - 1)
      = Shown(shell.manifest, shell.cursor.at)

(* "Events arriving during inspection must not yank the operator's view     *)
(* forward": an append that finds the operator in the past, and the shell   *)
(* aware of it, moves neither cursor nor playhead.  It takes a last event   *)
(* that no earlier one is shown by: the renderer cannot tell those apart.   *)
StandsAlone(manifest) ==
  \A n \in 1..(Len(manifest) - 1) : Shown(manifest, n) # Shown(manifest, Len(manifest))
NotYanked ==
  [][EvidenceAppended /\ Framed /\ ~shell.cursor.edge /\ StandsAlone(shell.manifest) =>
       shell'.cursor.at = shell.cursor.at /\ cockpit'.playhead = cockpit.playhead]_liveVars
=============================================================================
