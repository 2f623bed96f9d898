--------------------------- MODULE PairedViewers ---------------------------
(***************************************************************************)
(* Two viewers of one session directory, the terminal and the browser,     *)
(* paired by the sidecar view.json (docs/design/paired-viewers.md): each   *)
(* writes the place it rests at after its operator acts, each polls for    *)
(* what the other wrote, the last write wins.                              *)
(*                                                                         *)
(* The terminal is crates/fleetscope-cli/src/view_state.rs inside the      *)
(* vendored renderer's loop; the browser is the follow-folder part of      *)
(* apps/web/src/pages/viewer.astro with features/viewer/follow.ts; both    *)
(* place a sidecar with crates/agent-viewer-render/src/view_state.rs and   *)
(* manifest.rs.  The session file grows in the order of its times, so that *)
(* SessionFollow lets the terminal hold the projection of what was read.   *)
(***************************************************************************)
EXTENDS Integers, TLC, AdkProjection

CONSTANTS Stories,    \* the sessions there are: the records, in the order written
          MaxActs,    \* bound: operators' acts
          MaxNow      \* bound: the clock, in milliseconds

ASSUME PairBounds == MaxActs \in Nat /\ MaxNow \in Nat

VARIABLES
  story,   \* the session being written: what a load of its first records shows
  n,       \* how many of its records are on disk
  torn,    \* the next one is half written
  tui,     \* the terminal viewer
  web,     \* the browser viewer
  view,    \* view.json
  now,     \* the clock both processes stamp their writes with
  acts,    \* acts so far
  lost     \* history: a write or a read went by that the stamps cannot order

vars == <<story, n, torn, tui, web, view, now, acts, lost>>

NoView == [playhead |-> 0, paused |-> FALSE, stamp |-> 0, writer |-> "none"]
Never  == -1

-----------------------------------------------------------------------------
(* The renderer's timeline: an item for every line, and one for every      *)
(* sub-agent's sidecar, before its agent's first line; the sidecars of     *)
(* agents that have no line yet lead.                                      *)
Side == -1

Items(w) ==
  LET firsts == {w.subs[a][1].seq : a \in {b \in DOMAIN w.subs : w.subs[b] # <<>>}}
      silent == {a \in DOMAIN w.subs : w.subs[a] = <<>>}
      count  == FoldSet(LAMBDA a, c : c + Len(w.subs[a]), Len(w.main), DOMAIN w.subs)
  IN  [k \in 1..Cardinality(silent) |-> Side]
        \o FlattenSeq([k \in 1..count |->
                         IF k - 1 \in firsts THEN <<Side, k - 1>> ELSE <<k - 1>>])

Prompted(w) == {w.main[j].seq : j \in {i \in DOMAIN w.main : w.main[i].what = "prompt"}}

(* What a load of the first k records shows, for every k.                  *)
Shows(s) == [k \in 1..Len(s) |->
               LET w == Wire(SubSeq(s, 1, k)) IN [items |-> Items(w), prompts |-> Prompted(w)]]

Timeline(k) == story[k].items
Edge(k)     == LET t == Timeline(k) IN t[Len(t)]        \* the last event
Place(t, s) == CHOOSE i \in DOMAIN t : t[i] = s         \* an event's item, from 1
floor(t)    == CHOOSE i \in DOMAIN t : t[i] # Side /\ \A j \in 1..(i - 1) : t[j] = Side

(* Every load shows at least one event, and one last: the events of the    *)
(* first k records are numbered from 0 without a gap, a prompt is one of   *)
(* them, and another record takes none away.                               *)
Told(s) ==
  /\ s \in Seq([items : Seq(Nat \cup {Side}), prompts : SUBSET Nat])
  /\ \A k \in DOMAIN s :
       LET t == s[k].items
       IN  /\ t # <<>> /\ t[Len(t)] # Side /\ ToSet(t) \ {Side} = 0..t[Len(t)]
           /\ s[k].prompts \subseteq ToSet(t)
           /\ \A j \in 1..k : ToSet(s[j].items) \subseteq ToSet(t)

ASSUME StoriesAreTold == \A s \in Stories : Told(Shows(s))

(* A viewer rests on an event; it may ride or play towards the edge.       *)
seek(v, s) ==
  [v EXCEPT !.at = s, !.follow = s >= Edge(v.len), !.paused = @ /\ s < Edge(v.len)]

Rounded(a, b) == (2 * a + b) \div (2 * b)
Clamped(x, lo, hi) == IF x < lo THEN lo ELSE IF x > hi THEN hi ELSE x

(* The scrubber spreads its positions over the items after the first       *)
(* event's; resting on a sidecar is resting on the event after it.         *)
seek_to_fraction(v, num, den) ==
  LET t      == Timeline(v.len)
      reach  == Len(t) - floor(t)
      target == Clamped(floor(t) + Rounded(num * reach, den), 1, Len(t))
      s      == t[CHOOSE i \in target..Len(t) :
                    t[i] # Side /\ \A j \in target..(i - 1) : t[j] = Side]
      rides  == target >= Len(t)
  IN  [v EXCEPT !.at = s, !.follow = rides, !.paused = @ /\ ~rides]

go_live(v) == [seek(v, Edge(v.len)) EXCEPT !.paused = FALSE]

set_paused(v, p) ==
  IF p THEN IF v.paused THEN v ELSE [v EXCEPT !.paused = TRUE, !.follow = FALSE]
  ELSE [v EXCEPT !.paused = FALSE, !.follow = TRUE]

toggle_play_pause(v) == set_paused(v, v.follow /\ ~v.paused)

seek_prompt(v, forward) ==
  LET ps == {p \in story[v.len].prompts : IF forward THEN p > v.at ELSE p < v.at}
  IN  IF ps # {} THEN seek(v, IF forward THEN Min(ps) ELSE Max(ps))
      ELSE IF forward THEN go_live(v) ELSE seek(v, 0)

Keys == {"space", "back", "next", "live"}
handle_key(v, k) == CASE k = "space" -> toggle_play_pause(v)
                      [] k = "back"  -> seek_prompt(v, FALSE)
                      [] k = "next"  -> seek_prompt(v, TRUE)
                      [] k = "live"  -> go_live(v)

(* A frame of playback moves towards the edge; growth carries along who    *)
(* rides it.                                                               *)
advance(v) == [v EXCEPT !.at = @ + 1]
Plays(v)   == v.follow /\ ~v.paused /\ v.at < Edge(v.len)
append_live(v, k) ==
  [v EXCEPT !.len = k, !.at = IF v.follow /\ v.at >= Edge(v.len) THEN Edge(k) ELSE @]

-----------------------------------------------------------------------------
(* The sidecar and the manifest m it is placed with, the timeline of the   *)
(* load that built it.                                                     *)

(* Where a sidecar's event sits: by the manifest, else by the timeline;    *)
(* <<item, items - 1>>, or the edge for an event nobody here has.          *)
fraction_for_playhead(v, m, s) ==
  LET known == Timeline(m)
      own   == Timeline(v.len)
      within(t) == IF Len(t) = 1 THEN <<0, 1>> ELSE <<Place(t, s) - 1, Len(t) - 1>>
  IN  IF s \in ToSet(known) THEN within(known)
      ELSE IF s \in ToSet(own) THEN within(own) ELSE <<1, 1>>

(* Defect: the place is kept, whether it plays is not.                     *)
applySeekOnly(v, m, x) ==
  LET f == fraction_for_playhead(v, m, x.playhead) IN seek_to_fraction(v, f[1], f[2])

apply(v, m, x) ==
  LET f == fraction_for_playhead(v, m, x.playhead)
  IN  set_paused(seek_to_fraction(v, f[1], f[2]), x.paused)

(* The event under the playhead, walking back past sidecars.               *)
playhead_sequence(v, m) ==
  LET known == Timeline(m)
      own   == Timeline(v.len)
      at(i) == IF i <= Len(known) /\ known[i] # Side THEN known[i] ELSE own[i]
      idx   == {i \in 1..Place(own, v.at) : at(i) # Side}
  IN  IF idx = {} THEN 0 ELSE at(Max(idx))

capture(v, m, writer) ==
  [playhead |-> playhead_sequence(v, m), paused |-> v.paused, stamp |-> now, writer |-> writer]

(* What each side takes: another's write, newer than its own last.         *)
should_apply(x) ==
  /\ x.writer \notin {"tui", "none"}
  /\ x.stamp > tui.written /\ x.stamp > tui.applied

shouldApplyRemoteView(x) ==
  x.writer \notin {"web", "none"} /\ x.stamp > web.last

(* Defect: the terminal notes when it looked, not what it applied.         *)
AppliedAtPoll(x) == now

Applied(x) == x.stamp

-----------------------------------------------------------------------------
Idle == [phase |-> "idle", n |-> 0, torn |-> FALSE, changed |-> FALSE, view |-> NoView]

Loaded(v, k) == [v EXCEPT !.len = k, !.at = Edge(k), !.follow = TRUE, !.paused = FALSE]

(* Both have loaded the same records, and follow.                          *)
Init ==
  \E s \in Stories : \E k \in 1..Len(s) :
    /\ story = Shows(s) /\ n = k /\ torn = FALSE
    /\ tui = [len |-> k, at |-> Edge(k), follow |-> TRUE, paused |-> FALSE, from |-> NoView,
              took |-> NoView, written |-> Never, applied |-> Never, scrub |-> FALSE, launch |-> k]
    /\ web = [len |-> k, at |-> Edge(k), follow |-> TRUE, paused |-> FALSE, from |-> NoView,
              took |-> NoView, sel |-> Edge(k), last |-> 0, poll |-> Idle, asked |-> 0,
              jobs |-> {}, on |-> TRUE]
    /\ view = NoView /\ now = 1 /\ acts = 0 /\ lost = FALSE

Tick == now < MaxNow /\ now' = now + 1
        /\ UNCHANGED <<story, n, torn, tui, web, view, acts, lost>>

(* The producer writes a record, sometimes in two halves.                  *)
Grows == /\ n < Len(story)
         /\ n' = n + 1 /\ torn' = FALSE
         /\ UNCHANGED <<story, tui, web, view, now, acts, lost>>

Tears == /\ n < Len(story) /\ ~torn
         /\ torn' = TRUE
         /\ UNCHANGED <<story, n, tui, web, view, now, acts, lost>>

(* Who moves by itself no longer rests where a sidecar put it.             *)
Moved(old, new) ==
  [new EXCEPT !.from = IF <<old.at, old.paused>> = <<new.at, new.paused>> THEN @ ELSE NoView]

Acts == acts < MaxActs /\ acts' = acts + 1

-----------------------------------------------------------------------------
(* The terminal.                                                           *)

(* on_input: the place the viewer rests at is written at once, over        *)
(* whatever is there.                                                      *)
on_input(v) ==
  LET x == capture(v, v.launch, "tui")
  IN  /\ view' = x
      /\ tui' = [v EXCEPT !.written = now, !.from = x, !.took = x]
      /\ lost' = (lost \/ now <= view.stamp)

TerminalKey(k) ==
  /\ Acts
  /\ on_input(handle_key(tui, k))
  /\ UNCHANGED <<story, n, torn, web, now>>

(* The scrubber is moved after the hook has written: the frame that draws  *)
(* it does the seek.                                                       *)
TerminalScrubs ==
  /\ Acts
  /\ on_input([tui EXCEPT !.scrub = TRUE])
  /\ UNCHANGED <<story, n, torn, web, now>>

TerminalFrameSeeks ==
  /\ tui.scrub
  /\ tui' = [Moved(tui, seek_to_fraction(tui, 0, 1)) EXCEPT !.scrub = FALSE]
  /\ UNCHANGED <<story, n, torn, web, view, now, acts, lost>>

on_frame ==
  /\ should_apply(view)
  /\ tui' = [apply(tui, tui.launch, view) EXCEPT !.applied = Applied(view),
                                                 !.from = view, !.took = view]
  /\ UNCHANGED <<story, n, torn, web, view, now, acts, lost>>

TerminalTails ==
  /\ ~torn /\ tui.len < n
  /\ tui' = Moved(tui, append_live(tui, n))
  /\ UNCHANGED <<story, n, torn, web, view, now, acts, lost>>

TerminalPlays ==
  /\ Plays(tui)
  /\ tui' = Moved(tui, advance(tui))
  /\ UNCHANGED <<story, n, torn, web, view, now, acts, lost>>

-----------------------------------------------------------------------------
(* The browser.                                                            *)

(* After an act the shell re-reads the playhead and asks for a write.      *)
Shown(v) == [v EXCEPT !.sel = v.at]
Asks(v)  == [Shown(Moved(web, v)) EXCEPT !.asked = @ + 1]

WebKey(k) ==
  /\ Acts /\ web.on
  /\ web' = Asks(handle_key(web, k))
  /\ UNCHANGED <<story, n, torn, tui, view, now, lost>>

(* A click in the list of events.                                          *)
agent_viewer_seek_sequence(v, s) ==
  LET f == fraction_for_playhead(v, v.len, s) IN seek_to_fraction(v, f[1], f[2])

selectEvent(s) ==
  /\ Acts /\ web.on
  /\ web' = Asks(agent_viewer_seek_sequence(web, s))
  /\ UNCHANGED <<story, n, torn, tui, view, now, lost>>

(* writePairedView: permission is asked for, then the state is taken, then *)
(* the file is written; acts do not wait for each other's writes.          *)
WriteCaptures ==
  /\ web.asked > 0
  /\ LET x == [playhead |-> web.sel, paused |-> web.paused, stamp |-> now, writer |-> "web"]
     IN  web' = [web EXCEPT !.asked = @ - 1, !.jobs = @ \cup {x},
                            !.from = IF web.sel = web.at THEN x ELSE NoView]
  /\ UNCHANGED <<story, n, torn, tui, view, now, acts, lost>>

WriteLands(x) ==
  /\ view' = x
  /\ web' = [web EXCEPT !.jobs = @ \ {x}, !.last = x.stamp, !.took = x]
  /\ lost' = (lost \/ x.stamp <= view.stamp)
  /\ UNCHANGED <<story, n, torn, tui, now, acts>>

(* pollFollowedFolder, between its awaits: the files as they are, then the *)
(* reload when the transcript changed, then the sidecar as it was.         *)
Changed == web.len # n \/ torn

PollReads ==
  /\ web.on /\ web.poll = Idle
  /\ Changed \/ shouldApplyRemoteView(view)
  /\ web' = [web EXCEPT !.poll = [phase |-> IF Changed THEN "load" ELSE "view", n |-> n,
                                  torn |-> torn, changed |-> Changed, view |-> view]]
  /\ UNCHANGED <<story, n, torn, tui, view, now, acts, lost>>

(* A transcript that does not parse ends the follow; one that does is      *)
(* shown anew, at the edge.                                                *)
loadLocatedSession ==
  /\ web.poll.phase = "load"
  /\ web' = IF web.poll.torn THEN [web EXCEPT !.on = FALSE, !.poll = Idle]
            ELSE Shown([Loaded(web, web.poll.n) EXCEPT !.poll.phase = "view", !.from = NoView])
  /\ UNCHANGED <<story, n, torn, tui, view, now, acts, lost>>

(* After a reload any sidecar is applied, whoever wrote it.                *)
applyViewState ==
  /\ web.poll.phase = "view"
  /\ LET x     == web.poll.view
         takes == x # NoView /\ (web.poll.changed \/ shouldApplyRemoteView(x))
     IN  /\ web' = IF takes THEN [Shown(apply(web, web.len, x)) EXCEPT
                                    !.poll = Idle, !.last = x.stamp, !.from = x, !.took = x]
                   ELSE [(IF web.poll.changed THEN Moved(web, go_live(web)) ELSE web)
                           EXCEPT !.poll = Idle]
         /\ lost' = (lost \/ (takes /\ x # view))
  /\ UNCHANGED <<story, n, torn, tui, view, now, acts>>

(* The page re-reads the renderer every second.                            *)
refreshShell ==
  /\ web.sel # web.at
  /\ web' = Shown(web)
  /\ UNCHANGED <<story, n, torn, tui, view, now, acts, lost>>

WebPlays ==
  /\ Plays(web)
  /\ web' = Moved(web, advance(web))
  /\ UNCHANGED <<story, n, torn, tui, view, now, acts, lost>>

Terminal == \/ \E k \in Keys : TerminalKey(k)
            \/ TerminalScrubs \/ TerminalFrameSeeks \/ on_frame \/ TerminalTails \/ TerminalPlays

Browser == \/ \E k \in Keys : WebKey(k)
           \/ \E s \in 0..Edge(web.len) : selectEvent(s)
           \/ WriteCaptures \/ \E x \in web.jobs : WriteLands(x)
           \/ PollReads \/ loadLocatedSession \/ applyViewState \/ refreshShell \/ WebPlays

Next == Tick \/ Grows \/ Tears \/ Terminal \/ Browser

Spec == Init /\ [][Next]_vars

-----------------------------------------------------------------------------
(* What the pairing promises.                                              *)

Framed(k)   == floor(Timeline(k)) = 1          \* no agent waits for its first line
Knows(k, s) == s \in ToSet(Timeline(k))

(* Two viewers whose last move was the same sidecar, written or applied,   *)
(* rest on the same event and both play or both pause, whatever each of    *)
(* them did before and however much more of the file one of them has read: *)
(* for as long as both have the event, the terminal's manifest is still    *)
(* that of what it holds, and no agent is without a line.                  *)
Paired ==
  /\ view # NoView /\ tui.from = view /\ web.from = view
  /\ Knows(tui.len, view.playhead) /\ Knows(web.len, view.playhead)
  /\ tui.launch = tui.len /\ Framed(tui.len) /\ Framed(web.len)
  => tui.at = web.at /\ tui.paused = web.paused

(* The last write wins on both sides: once neither poll would take the     *)
(* sidecar that is on disk, both have taken it, unless the stamps cannot   *)
(* tell which write was the last.                                          *)
Quiet == ~should_apply(view) /\ ~shouldApplyRemoteView(view)

Converged == Quiet /\ view # NoView /\ ~lost => tui.took = view /\ web.took = view

(* "Clicking an event seeks the playhead" to it                            *)
(* (docs/design/paired-viewers.md:116, agent-viewer-web/src/main.rs:406).  *)
SeekRests ==
  [][\A s \in 0..Edge(web.len) : selectEvent(s) => web'.at = s]_vars
============================================================================
