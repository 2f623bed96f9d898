--------------------------- MODULE CaseInvariants ---------------------------
(***************************************************************************)
(* What the proofs say of a stream, of the projection and the scene made   *)
(* of it, and of the page of a live case: the parts of the inductive       *)
(* invariants, and another account of what the code computes.              *)
(***************************************************************************)
EXTENDS CaseStream, LiveCase

----------------------------------------------------------------------------
(* Streams.                                                                 *)

IsStream(s) == s \in Seq({s[n] : n \in DOMAIN s})
Continues(s, t) == Len(s) <= Len(t) /\ \A n \in 1..Len(s) : t[n] = s[n]

----------------------------------------------------------------------------
(* The projection is a fold: what it is of one event more.                  *)

IsFold(s, n, f) ==
  f = [k \in 0..n |-> IF k = 0 THEN Nothing ELSE Fold(f[k - 1], s[k], k)]

----------------------------------------------------------------------------
(* What each part of the fold leaves alone.                                 *)

Fields == DOMAIN Nothing
Changes(s, t, F) == DOMAIN t = DOMAIN s /\ \A f \in DOMAIN s : f \notin F => t[f] = s[f]

----------------------------------------------------------------------------
(* What the state of an intervention says of the events before.             *)

Says(s, n, r, type) == s[n].ref = r /\ s[n].type = type
Fresh(s, m, n, r) == \A k \in m..n : ~Says(s, k, r, "intervention.proposed")

Chained(s, n, r, st) ==
  /\ st = "intervention.authorized" =>
       \E a \in 1..n : Says(s, a, r, "intervention.authorized") /\ Fresh(s, a, n, r)
  /\ st = "intervention.requested" =>
       \E a \in 1..n, q \in 1..n :
         /\ a < q /\ Fresh(s, a, n, r)
         /\ Says(s, a, r, "intervention.authorized") /\ Says(s, q, r, "intervention.requested")
  /\ st = "intervention.acknowledged" =>
       \E a \in 1..n, q \in 1..n, k \in 1..n :
         /\ a < q /\ q < k /\ Fresh(s, a, n, r)
         /\ Says(s, a, r, "intervention.authorized") /\ Says(s, q, r, "intervention.requested")
         /\ Says(s, k, r, "intervention.acknowledged")

Known(known) == "none" \notin DOMAIN known /\ \A r \in DOMAIN known : "state" \in DOMAIN known[r]
Traced(s, n) ==
  project(s, n).violations = {} =>
    LET known == project(s, n).interventions
    IN  Known(known) /\ \A r \in DOMAIN known : Chained(s, n, r, known[r].state)

----------------------------------------------------------------------------
(* The compiled scene is a fold as well.                                    *)

IsScenes(s, n, f) ==
  f = [k \in 0..n |-> IF k = 0 THEN Scene!Blank ELSE Scene!Compile(f[k - 1], s[k], k)]

(* The fold of a whole stream, before the spawns nobody acknowledged.       *)
ScenesOf(s) ==
  CHOOSE f : f = [k \in 0..Len(s) |->
                    IF k = 0 THEN Scene!Blank ELSE Scene!Compile(f[k - 1], s[k], k)]

(* Drawing an event's lines neither blocks an input nor judges a use.       *)
Drawn == {"slots", "pending", "nodes", "spawns"}

SceneFields == {"slots", "entries", "nodes", "spawns", "pending", "blocked", "denied", "violations"}

Screens(s, k) ==
  LET scene == ScenesOf(s)[k]
      blocked == {n \in 1..k : s[n].type = "armor.blocked" /\ s[n].input # "none"}
  IN  /\ DOMAIN scene = SceneFields
      /\ \A n \in blocked : s[n].input \in scene.blocked
      /\ \A n \in blocked, m \in 1..k :
           n < m /\ s[m].input = s[n].input /\ s[m].type \in Scene!USES_INPUT_AS_CONTENT =>
             m \in scene.violations

(* A claim stays, and is not found from a later event, when each candidate  *)
(* whose chain was whole keeps its chain.                                   *)
ChainsStay(A, B, c, d, a) ==
  /\ A \subseteq B /\ B \subseteq Nat
  /\ \A n \in A : c[n][a] = n /\ (Story!Whole(c[n]) => d[n] = c[n])
  /\ \A n \in B : d[n][a] = n /\ d[n] # <<>>

FailuresBefore(u, n) ==
  {m \in Story!ofType(u, {"tool.failed"}) : m < n /\ u[m].agent = u[n].agent}
Needed(u, n) == IF u[n].amount = 0 THEN 3 ELSE u[n].amount
Enough(u, n, failures) ==
  \E tool \in {u[m].tool : m \in failures} \ {"none"} :
    Story!Cardinality({m \in failures : u[m].tool = tool}) >= Needed(u, n)

----------------------------------------------------------------------------
(* What is outstanding: the state of an approval, an incident and the case  *)
(* is what the last event about it says.                                    *)

ApprovalTypes == {"human_escalation.opened", "human_escalation.resolved"}
IncidentTypes == {"incident.opened", "incident.updated", "incident.resolved"}

(* The k-th of the first n events is the last about id of these types.      *)
IsLast(s, n, k, id, types) ==
  /\ k \in 1..n /\ s[k].ref = id /\ s[k].type \in types
  /\ \A m \in (k + 1)..n : s[m].ref = id => s[m].type \notin types

StateOf(e) == IF e.type = "human_escalation.opened" THEN "pending" ELSE decisionOf(e)

(* known holds whatever was opened, each in the state its last event says.  *)
ApprovalsFollow(s, n, known) ==
  /\ \A k \in 1..n : s[k].type = "human_escalation.opened" /\ s[k].ref # "none" =>
       s[k].ref \in DOMAIN known
  /\ \A id \in DOMAIN known :
       /\ id # "none" /\ "state" \in DOMAIN known[id]
       /\ \E k \in 1..n : IsLast(s, n, k, id, ApprovalTypes) /\ known[id].state = StateOf(s[k])
IncidentsFollow(s, n, known) ==
  /\ \A k \in 1..n : s[k].type = "incident.opened" /\ s[k].ref # "none" =>
       s[k].ref \in DOMAIN known
  /\ \A id \in DOMAIN known :
       /\ id # "none" /\ {"state", "evidence"} \subseteq DOMAIN known[id]
       /\ \E k \in 1..n : IsLast(s, n, k, id, IncidentTypes) /\ known[id].state = s[k].type

(* The k-th event is the Runtime's last word, that it waits for an operator.*)
Speaks(e) ==
  \/ e.type \in {"runtime.started", "runtime.resumed", "runtime.waiting", "runtime.failed"}
  \/ e.type = "runtime.completed" /\ e.detail = "terminal"
AsksOperator(e) == e.type = "runtime.waiting" /\ e.detail = "operator_approval"
Awaits(s, n) ==
  \E k \in 1..n : AsksOperator(s[k]) /\ \A m \in (k + 1)..n : ~Speaks(s[m])
CaseStates == {"active", "approval_required", "waiting", "completed", "failed"}
CaseFollows(s, n, case) == case \in CaseStates /\ (case = "approval_required" <=> Awaits(s, n))

Followed(s, n) ==
  /\ ApprovalsFollow(s, n, project(s, n).approvals)
  /\ IncidentsFollow(s, n, project(s, n).incidents)
  /\ CaseFollows(s, n, project(s, n).caseState)

----------------------------------------------------------------------------
(* Sets in order.  The order is a set of pairs.                             *)

OrderOn(R, S) ==
  /\ \A x \in S : <<x, x>> \notin R
  /\ \A x \in S : \A y \in S : x = y \/ <<x, y>> \in R \/ <<y, x>> \in R
  /\ \A x \in S : \A y \in S : \A z \in S : <<x, y>> \in R /\ <<y, z>> \in R => <<x, z>> \in R

Rank(S, R)   == [x \in S |-> Cardinality({y \in S : <<y, x>> \in R})]
Ranked(S, R) == [n \in 1..Cardinality(S) |-> CHOOSE x \in S : Rank(S, R)[x] = n - 1]

----------------------------------------------------------------------------
(* The detector: what it finds, found another way.                          *)

(* The firsts of their signatures have all the signatures.                  *)
Firsts(T, sig) == {m \in T : \A k \in T : sig[k] = sig[m] => m <= k}

FailuresOf(s, tool) == {n \in DOMAIN s : s[n].type = "tool.failed" /\ s[n].tool = tool}
FailuresAt(s, n)    == {m \in Window(n) : s[m].type = "tool.failed" /\ s[m].tool = s[n].tool}

----------------------------------------------------------------------------
(* Recursion over finite sets.                                              *)

(* A recursion over subsets defines a function.                             *)
Folds(g, S, base, pick, step) ==
  g = [s \in SUBSET S |-> IF s = {} THEN base ELSE step[<<pick[s], g[s \ {pick[s]}]>>]]

(* The recursion a sum is defined by, over the sets of D.                   *)
First(s) == CHOOSE x \in s : TRUE
Adds(g, f, D) == g = [s \in D |-> IF s = {} THEN 0 ELSE f[First(s)] + g[s \ {First(s)}]]
Sums(f, S) == CHOOSE g : Adds(g, f, SUBSET S)

----------------------------------------------------------------------------
(* Usage.                                                                   *)

Metered(s) == \A n \in DOMAIN s : s[n].type = "usage.recorded" => s[n].amount \in Nat

----------------------------------------------------------------------------
(* Every event of the stream is one that was recorded or arrived.           *)

AllCountable(s) == \A n \in DOMAIN s : Countable(s[n])

(* compareSourceEvents, with the place in the batch, is an order.           *)
Before(b, i, j) == \/ Precedes(b[i], b[j])
                   \/ ~Precedes(b[j], b[i]) /\ i < j

(* What selects and orders, by the lists of their positions.                *)
Less == {p \in Nat \X Nat : p[1] < p[2]}
Sorts(b, V) == {p \in V \X V : Before(b, p[1], p[2])}

Through(b, q, k) == [n \in 1..k |-> b[q[n]]]

(* The events of the stream and those that may arrive are countable.        *)
Counted == AllCountable(stream) /\ \A e \in facts : Countable(e)

----------------------------------------------------------------------------
(* However the evidence was split: the stream is the delivered events, each *)
(* once, in the order of their times.                                       *)

(* The events of E, each once, in the order of their times.                 *)
Later(E) == {p \in E \X E : p[1].text < p[2].text}
InOrder(E) == Ranked(E, Later(E))

(* What is asked of the delivered events.                                   *)
Usable(E) == Comparable(E) /\ \A e \in E : e.key \in Nat /\ e.instant \in Nat /\ e.text \in Nat

(* What a batch may deliver.                                                *)
Delivers(b) == {e \in {b[i] : i \in DOMAIN b} : e.valid}

(* The inductive invariant: without a refusal the stream is the delivered   *)
(* events in order.                                                         *)
Whole ==
  /\ IsFiniteSet(delivered)
  /\ \A e \in delivered : e.valid /\ Countable(e)
  /\ Comparable(delivered) /\ refused = {} => stream = InOrder(delivered)

----------------------------------------------------------------------------
(* Pointers.                                                                *)

(* What the projection shows was reached by an event.                       *)
Reached(s, n) ==
  LET state == project(s, n)
  IN /\ \A id \in DOMAIN state.incidents :
          \E k \in 1..n : s[k].type = "incident.opened" /\ s[k].ref = id
     /\ \A m \in CASE_MILESTONES : m = state.milestone \/ m \in state.completed =>
          \E k \in 1..n : s[k].type = "case.milestone_changed" /\ s[k].detail = m
     /\ "none" \notin DOMAIN state.agents

(* How deep an agent is nested: the page follows the parents on record, and *)
(* gives up after as many links as there are levels.                        *)
Deep(state, f, guard) ==
  [a \in DOMAIN state.agents |->
     LET parent == state.agents[a].parent
     IN IF parent = "none" \/ guard > 16 THEN 0
        ELSE 1 + (IF parent \in DOMAIN state.agents THEN f[guard + 1][parent] ELSE 0)]
DepthsOf(state) ==
  LET known == DOMAIN state.agents
      depthOf[guard \in 0..17] ==
        [a \in known |->
           LET parent == state.agents[a].parent
           IN IF parent = "none" \/ guard > 16 THEN 0
              ELSE 1 + (IF parent \in known THEN depthOf[guard + 1][parent] ELSE 0)]
  IN depthOf
IsDepths(state, f) == f = [guard \in 0..17 |-> Deep(state, f, guard)]

EntryOf(s, l) == [start |-> Len(s.slots), count |-> Len(l.slots) - Len(s.slots)]

Entered(s, k) ==
  LET scene == ScenesOf(s)[k]
  IN  /\ DOMAIN scene = SceneFields
      /\ IsStream(scene.entries) /\ Len(scene.entries) = k

----------------------------------------------------------------------------
(* The files of a scene.                                                    *)

(* A scene whose awaited results all belong to files among F.               *)
Keeps(s, F) ==
  /\ DOMAIN s = SceneFields /\ IsStream(s.slots)
  /\ \A c \in DOMAIN s.pending : /\ DOMAIN s.pending[c] = {"tool", "node", "origin", "resolved"}
                                 /\ s.pending[c].node \in F

(* What is added are lines of those files, none of them an agent's meta.    *)
Lengthens(s, t, F) ==
  /\ Keeps(t, F) /\ Continues(s.slots, t.slots)
  /\ \A n \in DOMAIN t.slots : n \notin DOMAIN s.slots =>
       t.slots[n].file \in F /\ t.slots[n].item # "meta"
Draws(s, t, F) == Lengthens(s, t, F) /\ t.nodes = s.nodes

(* Who has a transcript after an event.                                     *)
Renames(s, t, e) ==
  \/ t.nodes = s.nodes
  \/ /\ e.type = "agent.spawned" /\ e.parent = "none"
     /\ t.nodes = Scene!Put(s.nodes, e.agent, "main")
  \/ /\ e.type = "agent.spawned" /\ e.parent # "none"
     /\ t.nodes = Scene!Put(s.nodes, e.agent, e.agent)

(* Main, and every agent that was announced, has a transcript.  Each line   *)
(* is filed in one of them, and no agent is announced twice.                *)
Open(c) == {"main"} \cup Scene!Announced(c)
WellFiled(c) ==
  /\ Keeps(c, Open(c))
  /\ \A n \in DOMAIN c.slots : c.slots[n].file \in Open(c)
  /\ \A n \in DOMAIN c.slots : c.slots[n].item = "meta" => c.slots[n].file # "main"
  /\ \A n, m \in DOMAIN c.slots :
       c.slots[n].item = "meta" /\ c.slots[m].item = "meta" /\ c.slots[n].file = c.slots[m].file =>
         n = m

(* Agents that are introduced: spawned, then started once before anything   *)
(* else.                                                                    *)
Bears(s, j, a)  == s[j].type = "agent.spawned" /\ s[j].parent # "none" /\ s[j].agent = a
Starts(s, j, a) == s[j].type = "agent.started" /\ s[j].agent = a
Introduced(s) ==
  \A n, m \in DOMAIN s : n < m /\ Bears(s, n, s[m].agent) =>
    /\ s[m].type = "agent.started" \/ \E k \in (n + 1)..(m - 1) : Starts(s, k, s[m].agent)
    /\ s[m].type = "agent.started" => ~\E k \in (n + 1)..(m - 1) : Starts(s, k, s[m].agent)

(* Who has a transcript was spawned as a child; who was announced was       *)
(* started since, and who was not has done nothing since.                   *)
Idles(s, k, a, j) == Bears(s, j, a) /\ \A m \in (j + 1)..k : s[m].agent # a
Enrolled(s, k, c) ==
  /\ \A a \in DOMAIN c.nodes : c.nodes[a] \in {"main", a}
  /\ \A a \in Scene!Announced(c) : \E j, m \in 1..k : j < m /\ Bears(s, j, a) /\ Starts(s, m, a)
  /\ \A a \in DOMAIN c.nodes : c.nodes[a] # "main" /\ a \notin Scene!Announced(c) =>
       \E j \in 1..k : Idles(s, k, a, j)

(* The entries follow one another and end where the lines do.               *)
Tiled(c, k) ==
  LET EndOf(n) == IF n = 0 THEN 0 ELSE c.entries[n].start + c.entries[n].count
  IN  /\ \A n \in 1..k : c.entries[n].start = EndOf(n - 1)
      /\ Len(c.slots) = EndOf(k)

Filed(s, k) ==
  LET c == ScenesOf(s)[k] IN WellFiled(c) /\ Enrolled(s, k, c) /\ Tiled(c, k)

----------------------------------------------------------------------------
(* The scene of any stream: where its lines are filed, where its metas can  *)
(* be, and where its entries end.                                           *)

(* Every agent spawned by another belongs to F, and so does main.           *)
Homes(s, F) ==
  "main" \in F /\ \A n \in DOMAIN s : s[n].type = "agent.spawned" /\ s[n].parent # "none" => s[n].agent \in F

(* A meta is an agent's, is not the first line, and ends no entry.          *)
Led(c, k) ==
  \A n \in DOMAIN c.slots : c.slots[n].item = "meta" =>
    /\ c.slots[n].file # "main" /\ 1 < n
    /\ \A i \in 1..k : c.entries[i].start + c.entries[i].count # n

Housed(c, F) ==
  /\ Keeps(c, F)
  /\ \A a \in DOMAIN c.nodes : c.nodes[a] \in F
  /\ \A n \in DOMAIN c.slots : c.slots[n].file \in F
  /\ (\E a \in DOMAIN c.nodes : c.nodes[a] # "main") => c.slots # <<>>

(* Entries are of lines there are.                                          *)
Bounded(c, k) ==
  \A i \in 1..k : /\ c.entries[i].start \in Nat /\ c.entries[i].count \in Nat
                  /\ c.entries[i].start + c.entries[i].count <= Len(c.slots)

Laid(s, k, F) ==
  LET c == ScenesOf(s)[k] IN Housed(c, F) /\ Led(c, k) /\ Bounded(c, k) /\ Tiled(c, k)

(* What becomes of the nodes.                                               *)
Residing(nodes, F) == \A a \in DOMAIN nodes : nodes[a] \in F
Resided(p, l, e, F) ==
  /\ Residing(l.nodes, F)
  /\ \/ \A a \in DOMAIN l.nodes : l.nodes[a] = "main"
     \/ \E a \in DOMAIN p.nodes : p.nodes[a] # "main"
     \/ e.type = "agent.spawned" /\ e.parent # "none" /\ l.nodes # p.nodes

(* What an event adds: its metas are agents' own, and a line follows each.  *)
Grows(s, t) ==
  /\ Continues(s.slots, t.slots)
  /\ \A n \in DOMAIN t.slots : n \notin DOMAIN s.slots /\ t.slots[n].item = "meta" =>
       t.slots[n].file # "main" /\ 1 < n /\ n < Len(t.slots)

(* The scene of an event continues that of an earlier one.                  *)
Grown(s, j, k) ==
  /\ Continues(ScenesOf(s)[j].slots, ScenesOf(s)[k].slots)
  /\ Continues(ScenesOf(s)[j].entries, ScenesOf(s)[k].entries)

Drafted(s, k) == IsStream(ScenesOf(s)[k].slots) /\ IsStream(ScenesOf(s)[k].entries)

----------------------------------------------------------------------------
(* The manifest and the timeline of a scene.                                *)

End(entries, n) == entries[n].start + entries[n].count

(* The entries are of lines 0..lines-1, each after those before it, and     *)
(* the first that has any starts with the first line.                       *)
Spanned(entries, lines) ==
  /\ IsStream(entries) /\ lines \in Nat /\ Scene!rendererEntryCount(entries) = lines
  /\ \A n \in DOMAIN entries : /\ entries[n].start \in Nat /\ entries[n].count \in Nat
                               /\ End(entries, n) <= lines
  /\ \A n, m \in DOMAIN entries : n < m => End(entries, n) <= entries[m].start
  /\ lines # 0 => \E n \in Scene!Visible(entries) : entries[n].start = 0

(* An item's time is its place, or the next one's; then it ends no entry.   *)
Timed(items, entries) ==
  LET lines == Len(items)
  IN  /\ IsStream(items)
      /\ \A n \in 1..lines : /\ items[n] \in {n, n + 1} /\ items[n] <= lines
                             /\ items[n] = n + 1 => /\ 1 < n
                                                    /\ \A i \in DOMAIN entries : End(entries, i) # n

----------------------------------------------------------------------------
(* The manifest, read by event and by line.                                 *)

EntryAt(entries, index) == Scene!manifestEntryForRendererIndex(entries, index)

----------------------------------------------------------------------------
(* The evidence of a call.                                                  *)

Evidence(events) ==
  IsStream(events) /\ \A n \in DOMAIN events : Countable(events[n]) /\ events[n].type # "agent.spawned"

(* The files a stream's scene may use.                                      *)
Filing(s) == {"main"} \cup {s[n].agent : n \in DOMAIN s}

----------------------------------------------------------------------------
(* What an append hands over.                                               *)

(* The numbers 1..n, in their order.                                        *)
Numbers(n) == [m \in 1..n |-> m]

----------------------------------------------------------------------------
(* Where the renderer rests, and what the shell makes of it.                *)

Charted(c) == Timed(c.items, c.manifest) /\ Spanned(c.manifest, Len(c.items))
Evenly(c) == \A n \in 1..Len(c.items) : c.items[n] = n
Alike(c, d) == d.items = c.items /\ d.manifest = c.manifest

(* A playhead is at an item if there is one.  A renderer that plays on is   *)
(* never behind what was seen of it.                                        *)
Rested(c, h) ==
  LET lines == Len(c.items)
  IN  /\ c.playhead \in 0..lines /\ (c.playhead = 0 => lines = 0) /\ (lines = 0 => c.follow)
      /\ h.polled \in 0..lines /\ (c.follow /\ h.polled # Index(c) => h.polled < Index(c))

(* Who has seen the renderer at its edge is at the shell's.                 *)
Aware(c, h) == StandsAlone(h.manifest) /\ h.polled = Index(c) /\ AtEdge(c) => h.cursor.edge

(* Who has seen the renderer agrees with it, unless an append moved only    *)
(* the shell.                                                               *)
Agrees(c, h, known) ==
  h.polled = Index(c) =>
    \/ EntryAt(c.manifest, Index(c) - 1) = Shown(h.manifest, h.cursor.at)
    \/ Len(h.manifest) # known /\ h.cursor.edge /\ ~AtEdge(c)

----------------------------------------------------------------------------
(* The page: who asks, what is answered, and the stream it grows.           *)

Current(q) == q.page = page.number

Asks ==
  /\ DOMAIN page = {"number", "stream", "button", "spent", "asking"} /\ page.number \in Nat
  /\ \A q \in requests : /\ DOMAIN q = {"page", "called", "at"}
                         /\ q.page \in Nat /\ q.page <= page.number /\ q.at \in Nat
  /\ \A q \in requests : Current(q) => page.asking /\ reply.kind = "none"
  /\ \A q, p \in requests : Current(q) /\ Current(p) => q = p
  /\ reply.kind # "none" => page.asking
  /\ page.asking => ~page.spent
  /\ reply.kind = "evidence" => Evidence(reply.events)

Tells ==
  /\ recorded \in Recordings
  /\ IsStream(recorded) /\ AllCountable(recorded)
  /\ IsStream(page.stream) /\ AllCountable(page.stream) /\ Continues(recorded, page.stream)
  /\ ~Delegating(recorded) => ~Delegating(page.stream)
  /\ ~page.spent => page.stream = recorded

Dialogue == Asks /\ Tells

(* The shell and the renderer leave the page alone.                         *)
Looks ==
  \/ Mount \/ Degrade \/ Play \/ Advance \/ ReturnToLive \/ Poll
  \/ (\E n \in DOMAIN page.stream : Seek(n))
  \/ \E target \in DOMAIN cockpit.items : Scrub(target)

----------------------------------------------------------------------------
(* What the shell and the renderer hold.                                    *)

Compiles(s) == Scene!compileZoetropeScene(s)

Carries(s) ==
  /\ shell.manifest = Compiles(s).entries /\ cockpit.manifest = Compiles(s).entries
  /\ s = recorded \/ ~Delegating(recorded) => cockpit.items = Times(Compiles(s).slots)

Carried ==
  /\ DOMAIN shell = {"manifest", "cursor", "polled", "mode"}
  /\ DOMAIN cockpit = {"mounted", "manifest", "items", "playhead", "follow"}
  /\ cockpit.mounted \in BOOLEAN /\ (cockpit.mounted <=> shell.mode = "mounted")
  /\ cockpit.mounted => Carries(recorded) \/ Carries(page.stream)

(* What an append does to a renderer that is there to be told.              *)
Appending(c, d) ==
  /\ Len(c.entries) < Len(d.entries) /\ Continues(c.entries, d.entries)
  /\ shell.manifest = c.entries /\ cockpit.manifest = c.entries /\ cockpit.items = Times(c.slots)
  /\ shell'.manifest = d.entries /\ cockpit'.manifest = d.entries
  /\ DOMAIN shell' = DOMAIN shell /\ DOMAIN cockpit' = DOMAIN cockpit
  /\ shell'.cursor = acceptEvents(shell.cursor, Len(d.entries))
  /\ shell'.polled = shell.polled /\ shell'.mode = shell.mode
  /\ cockpit'.mounted = cockpit.mounted /\ cockpit'.follow = cockpit.follow
  /\ ~Delegating(recorded) => cockpit'.items = Times(d.slots)
  /\ cockpit'.playhead = IF Riding(cockpit) /\ cockpit'.items # <<>>
                         THEN cockpit'.items[Len(cockpit'.items)] ELSE cockpit.playhead

(* What the operator's acts and the frames leave as it is.                  *)
Retained ==
  /\ DOMAIN shell' = DOMAIN shell /\ DOMAIN cockpit' = DOMAIN cockpit
  /\ Alike(cockpit, cockpit') /\ cockpit'.mounted = cockpit.mounted
  /\ shell'.manifest = shell.manifest /\ shell'.mode = shell.mode
  /\ page' = page /\ recorded' = recorded

(* Neither the network nor the API nor the panel's button reaches them.     *)
Asides ==
  \/ \E q \in requests : \/ Admitted(q) \/ Refused(q) \/ Decided(q) \/ DecisionFails(q)
                         \/ Unreachable(q)
  \/ ApiRestarts \/ Clicked \/ ReplyFails \/ EvidenceRefused

----------------------------------------------------------------------------
(* The operator's view: a renderer c, its shell h, a page that has spent    *)
(* its call or has not, and a case of as many events as are known, which    *)
(* delegates nothing when it is plain.                                      *)

Grounds(c, h, spent, known, plain) ==
  /\ h.manifest = c.manifest /\ IsStream(c.manifest) /\ known \in Nat
  /\ ~spent \/ plain => Charted(c)
  /\ plain => Evenly(c)
  /\ ~spent => Len(c.manifest) = known

Beholds(c, h, spent, known, plain) ==
  /\ DOMAIN h.cursor = {"at", "edge", "mark", "unread"}
  /\ ~spent => h.cursor.at \in 0..known /\ h.cursor.mark = known
  /\ ~spent \/ plain => Rested(c, h)
  /\ ~spent => Aware(c, h)
  /\ plain => Agrees(c, h, known)

Plainly == ~Delegating(recorded)

(* What the shell makes of a renderer that is there.                        *)
Watched == cockpit.mounted => Beholds(cockpit, shell, page.spent, Len(recorded), Plainly)

=============================================================================
